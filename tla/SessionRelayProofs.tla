-------------------------- MODULE SessionRelayProofs -------------------------
(***************************************************************************)
(* Theorems about one proxied session, whatever its sources send, wherever *)
(* its framers cut, and however often it is told to end or swaps framers.  *)
(* IInv is the inductive invariant they rest on.                           *)
(***************************************************************************)
EXTENDS SessionRelay, FiniteSetTheorems, SequenceTheorems, WellFoundedInduction, TLAPS

\* A relay task with a frame in its hands.
Busy == {"captured", "held", "completed", "relogged", "drain"}

\* The session task, the state it shows and the two relay tasks.
ControlInv ==
    /\ \A d \in Dir : task[d] = "new" <=> main \in {"created", "never_ran"}
    /\ \A d \in Dir : main \in {"close_client", "close_server", "publish", "done"} => Ended(d)
    /\ state = "CLOSED" <=> main \in {"publish", "done"}
    /\ registered <=> main \notin {"publish", "done"}
    /\ first_done = None => state \in {"ACTIVE", "CLOSED"}
                            /\ \A d \in Dir : task[d] \notin {"updating", "finished"}
    /\ \A d \in cancelling : ~Ended(d) /\ task[d] # "new"

\* The bytes a direction has read, those that left the framer, the batch.
BatchInv(d) ==
    /\ framed[d] <= taken[d] /\ taken[d] <= Length[d]
    /\ 1 <= batch[d].next /\ batch[d].end <= framed[d]
    /\ task[d] \in Busy => batch[d].next <= batch[d].end
    /\ task[d] \in Busy /\ swaps = 0 => batch[d].end = framed[d]
    /\ mode[d] = "run" => task[d] \notin {"eof", "updating", "finished"}
    /\ mode[d] = "unwind" => task[d] \notin {"updating", "finished"}
    /\ mode[d] # "run" => framed[d] = taken[d] /\ task[d] \notin {"new", "created", "read"}

\* The units of the gate: those ahead of the frame in hand are new.
UnitInv(d, x) ==
    LET u == <<d, x>> IN
    /\ stage[u] # "new" => /\ x <= framed[d]
                           /\ task[d] \in Busy => x <= batch[d].next
                           /\ task[d] = "captured" => x # batch[d].next
    /\ stage[u] = "held" => task[d] = "held" /\ x = batch[d].next /\ d \notin cancelling
    /\ stage[u] \in {"decided", "released"} => verdict[u] \in Gate!Action

GateInv(d) ==
    /\ \A x \in 1..Length[d] : UnitInv(d, x)
    /\ task[d] \in {"completed", "relogged", "drain"} => stage[CurrentUnit(d)] = "released"
    /\ task[d] = "relogged" => verdict[CurrentUnit(d)] = "MODIFIED"

\* How far the direction has disposed of what it read.
Reached(d) == IF task[d] = "drain" THEN Current(d).last
              ELSE IF task[d] \in Busy THEN batch[d].next - 1
              ELSE framed[d]

\* The frame in hand, or the edited one, is in the log.
Logged(d, k) ==
    \E j \in Indices(log[d]) : SameBytes(log[d][j], [Current(d) EXCEPT !.kind = k])

\* What was written: in order, behind the frame in hand, released and logged.
Written(d, f) ==
    /\ f.first \in 1..Length[d] /\ f.last <= Reached(d)
    /\ stage[<<d, f.first>>] = "released"
    /\ verdict[<<d, f.first>>] = IF f.kind = "tamper" THEN "MODIFIED" ELSE "FORWARD"
    /\ \E j \in Indices(log[d]) : SameBytes(log[d][j], f)

WireInv(d) ==
    /\ \A i \in Traffic(wrote[d]) : Written(d, wrote[d][i])
    /\ \A i, j \in Traffic(wrote[d]) : i < j => wrote[d][i].last < wrote[d][j].first
    /\ task[d] \in Busy => Logged(d, "captured")
    /\ task[d] = "relogged" => Logged(d, "tamper")

\* A byte that was dropped or written.
Accounted(d, b) ==
    \E i \in Indices(log[d]) :
        LET f == log[d][i] IN
        /\ f.first <= b /\ b <= f.last /\ f.first \in 1..Length[d]
        /\ \/ stage[<<d, f.first>>] = "released" /\ verdict[<<d, f.first>>] = "DROP"
           \/ \E j \in Indices(wrote[d]) : wrote[d][j].first = f.first

KeptInv(d) ==
    swaps = 0 /\ Other(d) \notin gone /\ mode[d] # "unwind" /\ task[d] # "cancelled" =>
        \A b \in (1..Reached(d)) \ lost[d] : Accounted(d, b)

\* What an exception cost lies behind the direction and apart from what it wrote.
LossInv(d) ==
    /\ lost[d] \subseteq 1..Reached(d)
    /\ d \notin BadRules => lost[d] = {}
    /\ \A i \in Traffic(wrote[d]) :
          lost[d] \cap wrote[d][i].first..wrote[d][i].last = {}

\* The ends of the frames still in the batch, the one in hand included: each
\* has a number of its own, reserved when the batch was fed.
Ahead(d) == {x \in Boundary[d] : batch[d].next <= x /\ x <= batch[d].end} \cup {batch[d].end}

NumInv(d) ==
    swaps = 0 =>
      /\ \A x \in Boundary[d] : ~(framed[d] < x /\ x <= taken[d])
      /\ registered =>
           /\ \A i \in Indices(log[d]) :
                 /\ log[d][i].seq < seqno[d]
                 /\ task[d] \in Busy => \/ log[d][i].seq <= batch[d].seq
                                        \/ log[d][i].seq >= batch[d].seq + Cardinality(Ahead(d))
           /\ \A i, j \in Indices(log[d]) : i # j => log[d][i].seq # log[d][j].seq
           /\ task[d] \in Busy => batch[d].seq + Cardinality(Ahead(d)) <= seqno[d]

IInv ==
    /\ TypeOK
    /\ ControlInv
    /\ \A d \in Dir : /\ BatchInv(d) /\ GateInv(d) /\ WireInv(d) /\ KeptInv(d)
                      /\ LossInv(d) /\ NumInv(d)

------------------------------------------------------------------------------
(* Least and greatest                                                       *)

\* A set of numbers that is not empty has a least one.
LEMMA LeastExists ==
  ASSUME NEW S \in SUBSET Nat, S # {}
  PROVE  Least(S) \in S /\ \A y \in S : Least(S) <= y
<1> DEFINE R == {ss \in Nat \X Nat : ss[1] < ss[2]}
<1>1. IsWellFoundedOn(R, Nat)
  BY NatLessThanWellFounded, Zenon DEF OpToRel
<1> HIDE DEF R
<1>2. PICK x \in S : \A y \in S : ~(<<y, x>> \in R)
  BY <1>1, WFMin
<1>3. ASSUME NEW y \in S PROVE x <= y
  <2>1. y \in Nat /\ x \in Nat /\ (y < x => <<y, x>> \in R)
    BY DEF R
  <2> QED
    BY <1>2, <2>1
<1> QED
  BY <1>3 DEF Least

\* A bounded one has a greatest.
LEMMA GreatestExists ==
  ASSUME NEW S \in SUBSET Nat, S # {}, NEW m \in Nat, \A x \in S : x <= m
  PROVE  Greatest(S) \in S /\ \A y \in S : y <= Greatest(S)
<1> DEFINE D == {m - x : x \in S}
<1>1. D \in SUBSET Nat /\ D # {}
  <2>1. \A x \in S : m - x \in Nat
    OBVIOUS
  <2>2. D \subseteq Nat
    BY <2>1
  <2> QED
    BY <2>2
<1>2. Least(D) \in D /\ \A y \in D : Least(D) <= y
  BY <1>1, LeastExists
<1>3. PICK x \in S : Least(D) = m - x
  BY <1>2
<1>4. \A y \in S : y <= x
  BY <1>2, <1>3
<1> QED
  BY <1>4 DEF Greatest

\* A frame is a range of its batch that is not empty, and ends at the batch's
\* end or before, with no boundary inside.
LEMMA HeadBounds ==
  ASSUME NEW d \in Dir, NEW b \in [next : Nat, end : Nat, seq : Nat], b.next <= b.end
  PROVE  /\ Head1(d, b) \in Frame
         /\ Head1(d, b).first = b.next /\ Head1(d, b).seq = b.seq
         /\ Head1(d, b).kind = "captured"
         /\ b.next <= Head1(d, b).last /\ Head1(d, b).last <= b.end
         /\ Head1(d, b).last \in {x \in Boundary[d] : b.next <= x /\ x <= b.end} \cup {b.end}
         /\ \A x \in {x \in Boundary[d] : b.next <= x /\ x <= b.end} \cup {b.end} : Head1(d, b).last <= x
<1> DEFINE S == {x \in Boundary[d] : b.next <= x /\ x <= b.end} \cup {b.end}
<1>1. S \in SUBSET Nat /\ S # {}
  BY RelayAssumption
<1>2. Least(S) \in S /\ \A y \in S : Least(S) <= y
  BY <1>1, LeastExists
<1>3. Head1(d, b) = [first |-> b.next, seq |-> b.seq, kind |-> "captured", last |-> Least(S)]
  BY DEF Head1
<1>4. Least(S) \in Nat /\ b.next <= Least(S) /\ Least(S) <= b.end
  BY <1>1, <1>2
<1> HIDE DEF S
<1>5. /\ Head1(d, b) \in Frame
      /\ Head1(d, b).first = b.next /\ Head1(d, b).seq = b.seq /\ Head1(d, b).kind = "captured"
      /\ Head1(d, b).last = Least(S)
  BY <1>3, <1>4 DEF Frame
<1> QED
  BY <1>2, <1>4, <1>5 DEF S

------------------------------------------------------------------------------
(* What the helpers do                                                      *)

\* A log or a wire that is appended to keeps what it has.
LEMMA AppendFacts ==
  ASSUME NEW s \in Seq(Frame), NEW f \in Frame
  PROVE  /\ Append(s, f) \in Seq(Frame)
         /\ Len(Append(s, f)) = Len(s) + 1 /\ Len(s) \in Nat
         /\ \A i \in Indices(s) : i \in Indices(Append(s, f)) /\ Append(s, f)[i] = s[i]
         /\ \A i \in Indices(Append(s, f)) : i \in Indices(s) \/ i = Len(s) + 1
         /\ Len(s) + 1 \in Indices(Append(s, f)) /\ Append(s, f)[Len(s) + 1] = f
BY AppendProperties, LenProperties DEF Indices

\* What becomes of a direction that processes the batch b in mode m: its first
\* frame is logged, or the relay reads on, half-closes, or is over; the other
\* direction is not touched.
LEMMA ProcessDoes ==
  ASSUME TypeOK, NEW d \in Dir, NEW b \in [next : Nat, end : Nat, seq : Nat],
         NEW m \in {"run", "flush", "unwind"}, Process(d, b, m)
  PROVE  /\ batch' = [batch EXCEPT ![d] = b] /\ mode' = [mode EXCEPT ![d] = m]
         /\ \/ /\ b.next <= b.end
               /\ log' = [log EXCEPT ![d] = Append(@, Head1(d, b))]
               /\ task' = [task EXCEPT ![d] = "captured"]
               /\ UNCHANGED <<eof_sent, peer_gone, first_done, state>>
            \/ /\ b.next > b.end /\ log' = log
               /\ \/ m = "run" /\ task' = [task EXCEPT ![d] = "read"]
                     /\ UNCHANGED <<eof_sent, peer_gone, first_done, state>>
                  \/ m # "run" /\ FinishRun(d, m)
<1>0. batch' = [batch EXCEPT ![d] = b] /\ mode' = [mode EXCEPT ![d] = m]
  BY DEF Process
<1>1. CASE b.next <= b.end
  BY <1>0, <1>1 DEF Process
<1>2. CASE ~(b.next <= b.end)
  <2>1. b.next > b.end
    BY <1>2
  <2> QED
    BY <1>0, <1>2, <2>1 DEF Process
<1> QED
  BY <1>1, <1>2

\* How the wrapper of a relay goes on when its run() is over: the first to end
\* decides the half-open state of the session, and a cancelled one is over.
LEMMA RunReturnsDoes ==
  ASSUME TypeOK, NEW d \in Dir, NEW m \in {"flush", "unwind", "run"}, RunReturns(d, m)
  PROVE  /\ peer_gone' \subseteq Dir
         /\ \/ /\ m = "unwind" /\ task' = [task EXCEPT ![d] = "cancelled"]
               /\ UNCHANGED <<first_done, state>>
            \/ /\ m # "unwind" /\ first_done = None /\ task' = [task EXCEPT ![d] = "updating"]
               /\ first_done' = d
               /\ state' = IF d = "up" THEN "ONLY_SERVER" ELSE "ONLY_CLIENT"
            \/ /\ m # "unwind" /\ first_done # None /\ task' = [task EXCEPT ![d] = "finished"]
               /\ UNCHANGED <<first_done, state>>
  BY ZenonT(30) DEF RunReturns, TypeOK, Dir, Other

\* How the finally block of a relay ends.
LEMMA FinishRunDoes ==
  ASSUME TypeOK, NEW d \in Dir, NEW m \in {"flush", "unwind", "run"}, FinishRun(d, m)
  PROVE  /\ peer_gone' \subseteq Dir /\ eof_sent' \subseteq Dir
         /\ \/ task' = [task EXCEPT ![d] = "eof"] /\ UNCHANGED <<first_done, state>>
            \/ /\ m = "unwind" /\ task' = [task EXCEPT ![d] = "cancelled"]
               /\ UNCHANGED <<first_done, state>>
            \/ /\ m # "unwind" /\ first_done = None /\ task' = [task EXCEPT ![d] = "updating"]
               /\ first_done' = d
               /\ state' = IF d = "up" THEN "ONLY_SERVER" ELSE "ONLY_CLIENT"
            \/ /\ m # "unwind" /\ first_done # None /\ task' = [task EXCEPT ![d] = "finished"]
               /\ UNCHANGED <<first_done, state>>
<1>1. CASE KeepOpen[d]
  <2>1. RunReturns(d, m) /\ UNCHANGED eof_sent
    BY <1>1 DEF FinishRun
  <2>2. eof_sent' \subseteq Dir
    BY <2>1 DEF TypeOK
  <2> QED
    BY <2>1, <2>2, RunReturnsDoes
<1>2. CASE ~KeepOpen[d]
  BY <1>2, SMTT(30) DEF FinishRun, TypeOK
<1> QED
  BY <1>1, <1>2

\* A chunk of n bytes completes the frames that end at ends; the framer keeps
\* what comes after the last of them, and numbers each.
LEMMA ReadDoes ==
  ASSUME TypeOK, NEW d \in Dir, NEW n \in Nat, Read(d, n), framed[d] <= taken[d],
         NEW ends, ends = {x \in Boundary[d] : framed[d] < x /\ x <= taken[d] + n}
  PROVE  /\ IsFiniteSet(ends) /\ Cardinality(ends) \in Nat
         /\ taken' = [taken EXCEPT ![d] = @ + n]
         /\ framed' = [framed EXCEPT ![d] = Greatest(ends \cup {framed[d]})]
         /\ seqno' = [seqno EXCEPT ![d] = @ + Cardinality(ends)]
         /\ framed'[d] \in ends \cup {framed[d]}
         /\ \A x \in ends : x <= framed'[d]
         /\ framed'[d] \in Nat /\ framed[d] <= framed'[d] /\ framed'[d] <= taken[d] + n
         /\ Process(d, [next |-> framed[d] + 1, end |-> framed'[d], seq |-> seqno[d]], "run")
<1> DEFINE S == ends \cup {framed[d]}
<1>0. Boundary[d] \in SUBSET Nat /\ framed[d] \in Nat /\ taken[d] \in Nat /\ framed \in [Dir -> Nat]
  BY RelayAssumption DEF TypeOK
<1>1. /\ taken' = [taken EXCEPT ![d] = @ + n]
      /\ framed' = [framed EXCEPT ![d] = Greatest(S)]
      /\ seqno' = [seqno EXCEPT ![d] = @ + Cardinality(ends)]
      /\ Process(d, [next |-> framed[d] + 1, end |-> framed'[d], seq |-> seqno[d]], "run")
  BY DEF Read, TypeOK
<1>2. S \in SUBSET Nat /\ S # {} /\ taken[d] + n \in Nat /\ ends \in SUBSET Nat
  BY <1>0
<1>3. \A x \in S : x <= taken[d] + n
  BY <1>0
<1>4. Greatest(S) \in S /\ \A y \in S : y <= Greatest(S)
  BY <1>2, <1>3, GreatestExists
<1>5. IsFiniteSet(ends) /\ Cardinality(ends) \in Nat
  BY <1>2, <1>3, FS_BoundedSetOfNaturals, FS_CardinalityType
<1>6. framed'[d] = Greatest(S)
  BY <1>0, <1>1
<1>7. Greatest(S) \in Nat /\ framed[d] <= Greatest(S) /\ Greatest(S) <= taken[d] + n
  BY <1>2, <1>3, <1>4
<1> QED
  BY <1>1, <1>4, <1>5, <1>6, <1>7

\* Leaving the loop makes a last batch of what the framer still has.
LEMMA LeaveLoopDoes ==
  ASSUME TypeOK, NEW d \in Dir, NEW m \in {"flush", "unwind"}, LeaveLoop(d, m)
  PROVE  /\ framed' = [framed EXCEPT ![d] = taken[d]]
         /\ seqno' = [seqno EXCEPT ![d] = @ + IF framed[d] < taken[d] THEN 1 ELSE 0]
         /\ Process(d, [next |-> framed[d] + 1, end |-> taken[d], seq |-> seqno[d]], m)
BY DEF LeaveLoop

\* The frame in hand is a range of its batch.
LEMMA CurrentFacts ==
  ASSUME TypeOK, NEW d \in Dir, BatchInv(d), task[d] \in Busy
  PROVE  /\ Current(d) \in Frame
         /\ Current(d).first = batch[d].next /\ Current(d).seq = batch[d].seq
         /\ Current(d).kind = "captured"
         /\ batch[d].next <= Current(d).last /\ Current(d).last <= batch[d].end
         /\ Current(d).last \in Ahead(d) /\ \A x \in Ahead(d) : Current(d).last <= x
         /\ Current(d).last \in Nat
         /\ [Current(d) EXCEPT !.kind = "tamper"] \in Frame
<1>1. batch[d] \in [next : Nat, end : Nat, seq : Nat] /\ batch[d].next <= batch[d].end
  BY DEF TypeOK, BatchInv
<1>2. Current(d) \in Frame
  BY <1>1, HeadBounds DEF Current
<1>3. Current(d).last \in Nat /\ [Current(d) EXCEPT !.kind = "tamper"] \in Frame
  BY <1>2 DEF Frame
<1>4. /\ Current(d).first = batch[d].next /\ Current(d).seq = batch[d].seq
      /\ Current(d).kind = "captured"
      /\ batch[d].next <= Current(d).last /\ Current(d).last <= batch[d].end
  BY <1>1, HeadBounds DEF Current
<1>5. Current(d).last \in Ahead(d) /\ \A x \in Ahead(d) : Current(d).last <= x
  BY <1>1, HeadBounds DEF Current, Ahead
<1> QED
  BY <1>2, <1>3, <1>4, <1>5

\* The batch without the frame in hand is processed next.
LEMMA NextFrameDoes ==
  ASSUME TypeOK, NEW d \in Dir, BatchInv(d), task[d] \in Busy, NextFrame(d),
         NEW b, b = [next |-> Current(d).last + 1, end |-> batch[d].end, seq |-> batch[d].seq + 1]
  PROVE  /\ b \in [next : Nat, end : Nat, seq : Nat]
         /\ mode[d] \in {"run", "flush", "unwind"}
         /\ Process(d, b, mode[d])
<1>1. batch[d].end \in Nat /\ batch[d].seq \in Nat /\ mode[d] \in {"run", "flush", "unwind"}
  BY DEF TypeOK
<1>2. Current(d).last \in Nat
  BY CurrentFacts
<1>3. b \in [next : Nat, end : Nat, seq : Nat]
  <2>1. Current(d).last + 1 \in Nat /\ batch[d].seq + 1 \in Nat
    BY <1>1, <1>2
  <2> QED
    BY <1>1, <2>1
<1> QED
  BY <1>1, <1>3 DEF NextFrame

\* The gate keeps its types.
LEMMA GateTypes ==
  ASSUME TypeOK,
         \/ UNCHANGED gateVars
         \/ \E u : Gate!Pass(u) \/ Gate!Hold(u) \/ Gate!Release(u)
         \/ \E U : Gate!Abandon(U) \/ \E a \in Gate!Action : Gate!Decide(U, a)
  PROVE  /\ stage' \in [Unit -> Gate!Stage]
         /\ verdict' \in [Unit -> Gate!Action \cup {Gate!NoVerdict}]
BY DEF TypeOK, gateVars, Gate!Pass, Gate!Hold, Gate!Release, Gate!Decide, Gate!Abandon,
       Gate!Stage, Gate!Action, Gate!NoVerdict

------------------------------------------------------------------------------
(* Types                                                                    *)

\* Every step keeps every variable in its type: the frames that are logged
\* and written are ranges of bytes, and numbers are numbers because a batch
\* is finite.
LEMMA TypeStep ==
  ASSUME TypeOK, \A d \in Dir : BatchInv(d), [Next]_vars
  PROVE  TypeOK'
<1> USE RelayAssumption DEF envVars, relayVars, recordVars, sessionVars
<1> DEFINE ProcessTypes == /\ task' \in [Dir -> TaskState]
                           /\ mode' \in [Dir -> {"run", "flush", "unwind"}]
                           /\ batch' \in [Dir -> [next : Nat, end : Nat, seq : Nat]]
                           /\ peer_gone' \subseteq Dir /\ eof_sent' \subseteq Dir
                           /\ log' \in [Dir -> Seq(Frame)]
                           /\ first_done' \in Dir \cup {None}
                           /\ state' \in {"ACTIVE", "ONLY_SERVER", "ONLY_CLIENT", "CLOSED"}
<1>f. ASSUME NEW d \in Dir, NEW m \in {"run", "flush", "unwind"}, FinishRun(d, m)
      PROVE  /\ task' \in [Dir -> TaskState]
             /\ peer_gone' \subseteq Dir /\ eof_sent' \subseteq Dir
             /\ first_done' \in Dir \cup {None}
             /\ state' \in {"ACTIVE", "ONLY_SERVER", "ONLY_CLIENT", "CLOSED"}
  BY <1>f, FinishRunDoes DEF TypeOK, TaskState
<1>g. ASSUME NEW d \in Dir, NEW m \in {"run", "flush", "unwind"}, RunReturns(d, m)
      PROVE  /\ task' \in [Dir -> TaskState]
             /\ peer_gone' \subseteq Dir
             /\ first_done' \in Dir \cup {None}
             /\ state' \in {"ACTIVE", "ONLY_SERVER", "ONLY_CLIENT", "CLOSED"}
  BY <1>g, RunReturnsDoes DEF TypeOK, TaskState
<1>p. ASSUME NEW d \in Dir, NEW b \in [next : Nat, end : Nat, seq : Nat],
             NEW m \in {"run", "flush", "unwind"}, Process(d, b, m)
      PROVE  ProcessTypes
  <2>0. batch' = [batch EXCEPT ![d] = b] /\ mode' = [mode EXCEPT ![d] = m]
    BY <1>p, ProcessDoes
  <2>1. /\ batch' \in [Dir -> [next : Nat, end : Nat, seq : Nat]]
        /\ mode' \in [Dir -> {"run", "flush", "unwind"}]
    BY <2>0 DEF TypeOK
  <2>2. CASE b.next <= b.end
    <3>1. Append(log[d], Head1(d, b)) \in Seq(Frame)
      BY <2>2, HeadBounds, AppendFacts DEF TypeOK
    <3>2. /\ log' = [log EXCEPT ![d] = Append(@, Head1(d, b))]
          /\ task' = [task EXCEPT ![d] = "captured"]
          /\ UNCHANGED <<eof_sent, peer_gone, first_done, state>>
      BY <1>p, <2>2, ProcessDoes
    <3> QED
      BY <2>1, <3>1, <3>2 DEF TypeOK, TaskState
  <2>3. CASE ~(b.next <= b.end)
    <3>1. /\ log' = log
          /\ \/ m = "run" /\ task' = [task EXCEPT ![d] = "read"]
                /\ UNCHANGED <<eof_sent, peer_gone, first_done, state>>
             \/ m # "run" /\ FinishRun(d, m)
      BY <1>p, <2>3, ProcessDoes
    <3>2. CASE m # "run" /\ FinishRun(d, m)
      <4>1. log' \in [Dir -> Seq(Frame)]
        BY <3>1 DEF TypeOK
      <4> QED
        BY <1>f, <2>1, <3>2, <4>1
    <3>3. CASE task' = [task EXCEPT ![d] = "read"] /\ UNCHANGED <<eof_sent, peer_gone, first_done, state>>
      BY <2>1, <3>1, <3>3 DEF TypeOK, TaskState
    <3> QED
      BY <3>1, <3>2, <3>3
  <2> QED
    BY <2>2, <2>3
<1>c. ASSUME NEW d \in Dir, task[d] \in Busy
      PROVE  Current(d) \in Frame /\ [Current(d) EXCEPT !.kind = "tamper"] \in Frame
  BY <1>c, CurrentFacts
<1>n. ASSUME NEW d \in Dir, NextFrame(d), task[d] \in Busy PROVE ProcessTypes
  BY <1>n, <1>p, NextFrameDoes
<1>l. ASSUME NEW d \in Dir, NEW m \in {"flush", "unwind"}, LeaveLoop(d, m)
      PROVE  ProcessTypes /\ framed' \in [Dir -> Nat] /\ seqno' \in [Dir -> Nat]
  <2>1. [next |-> framed[d] + 1, end |-> taken[d], seq |-> seqno[d]] \in [next : Nat, end : Nat, seq : Nat]
    BY SMTT(30) DEF TypeOK
  <2>2. /\ framed' = [framed EXCEPT ![d] = taken[d]]
        /\ seqno' = [seqno EXCEPT ![d] = @ + IF framed[d] < taken[d] THEN 1 ELSE 0]
        /\ Process(d, [next |-> framed[d] + 1, end |-> taken[d], seq |-> seqno[d]], m)
    BY <1>l, LeaveLoopDoes
  <2>3. framed' \in [Dir -> Nat] /\ seqno' \in [Dir -> Nat]
    BY <2>2 DEF TypeOK
  <2> QED
    BY <1>p, <2>1, <2>2, <2>3, SMTT(30)
<1>w. ASSUME NEW d \in Dir, NEW f \in Frame, Write(d, f) PROVE wrote' \in [Dir -> Seq(Frame)]
  <2>1. Append(wrote[d], f) \in Seq(Frame)
    BY AppendFacts DEF TypeOK
  <2> QED
    BY <1>w, <2>1 DEF Write, TypeOK
<1> HIDE DEF ProcessTypes
<1>1. ASSUME NEW d \in Dir, Begin(d) \/ Updated(d) PROVE TypeOK'
  BY <1>1, GateTypes, ZenonT(30) DEF Begin, Updated, TypeOK, TaskState, gateVars
<1>2. ASSUME NEW d \in Dir, EndOfSource(d) \/ IdleReap(d) PROVE TypeOK'
  BY <1>2, <1>l DEF EndOfSource, IdleReap, TypeOK, ProcessTypes, gateVars
<1>3. ASSUME NEW d \in Dir, Tamper(d) \/ Released(d) PROVE TypeOK'
  <2>1. /\ stage' \in [Unit -> Gate!Stage]
        /\ verdict' \in [Unit -> Gate!Action \cup {Gate!NoVerdict}]
    BY <1>3, GateTypes DEF Tamper, Released
  <2>2. task' \in [Dir -> TaskState]
    BY <1>3 DEF Tamper, Released, TypeOK, TaskState
  <2> QED
    BY <1>3, <2>1, <2>2 DEF Tamper, Released, TypeOK
<1>21. ASSUME NEW d \in Dir, RuleRaises(d) PROVE TypeOK'
  <2>1. task[d] \in Busy /\ mode \in [Dir -> {"run", "flush", "unwind"}]
    BY <1>21 DEF RuleRaises, At, Busy, TypeOK
  <2>2. Current(d).first \in Nat /\ Current(d).last \in Nat
    BY <1>c, <2>1 DEF Frame
  <2>3. batch[d].next \in Nat /\ batch[d].end \in Nat /\ lost \in [Dir -> SUBSET Nat]
    BY DEF TypeOK
  <2>4. batch[d].next..batch[d].end \subseteq Nat /\ Current(d).first..Current(d).last \subseteq Nat
    BY <2>2, <2>3
  <2>5. lost' \in [Dir -> SUBSET Nat]
    BY <1>21, <2>3, <2>4 DEF RuleRaises
  <2>6. ProcessTypes /\ framed' \in [Dir -> Nat] /\ seqno' \in [Dir -> Nat]
    <3>1. CASE LeaveLoop(d, "flush")
      BY <1>l, <3>1
    <3>2. CASE NextFrame(d) /\ UNCHANGED <<framed, seqno>>
      BY <1>n, <2>1, <3>2 DEF TypeOK
    <3> QED
      BY <1>21, <3>1, <3>2 DEF RuleRaises
  <2> QED
    BY <1>21, <2>5, <2>6 DEF RuleRaises, TypeOK, ProcessTypes, gateVars
<1>4. ASSUME NEW d \in Dir, Drop(d) \/ Drained(d) PROVE TypeOK'
  <2>1. NextFrame(d) /\ task[d] \in Busy
    BY <1>4 DEF Drop, Drained, At, Busy
  <2> QED
    BY <1>4, <1>n, <2>1 DEF Drop, Drained, TypeOK, ProcessTypes, gateVars
<1>5. ASSUME NEW d \in Dir, Relog(d) PROVE TypeOK'
  <2>1. [Current(d) EXCEPT !.kind = "tamper", !.seq = seqno[d]] \in Frame
    <3>1. Current(d) \in Frame /\ seqno[d] \in Nat
      BY <1>5, <1>c DEF Relog, At, Busy, TypeOK
    <3> QED
      BY <3>1 DEF Frame
  <2>2. Append(log[d], [Current(d) EXCEPT !.kind = "tamper", !.seq = seqno[d]]) \in Seq(Frame)
    BY <2>1, AppendFacts DEF TypeOK
  <2>3. log' \in [Dir -> Seq(Frame)] /\ seqno' \in [Dir -> Nat] /\ task' \in [Dir -> TaskState]
    BY <1>5, <2>2 DEF Relog, TypeOK, TaskState
  <2> QED
    BY <1>5, <2>3 DEF Relog, TypeOK, gateVars
<1>6. ASSUME NEW d \in Dir, Send(d) PROVE TypeOK'
  <2>1. Current(d) \in Frame /\ [Current(d) EXCEPT !.kind = "tamper"] \in Frame
    BY <1>6, <1>c DEF Send, At, Busy
  <2>2. wrote' \in [Dir -> Seq(Frame)]
    BY <1>6, <1>w, <2>1 DEF Send
  <2> QED
    BY <1>6, <2>2 DEF Send, TypeOK, TaskState, gateVars
<1>7. ASSUME NEW d \in Dir, EofDrained(d) PROVE TypeOK'
  BY <1>7, <1>g DEF EofDrained, TypeOK, gateVars
<1>8. ASSUME NEW d \in Dir, Cancelled(d) PROVE TypeOK'
  <2>1. CASE LeaveLoop(d, "unwind")
    BY <1>8, <1>l, <2>1 DEF Cancelled, TypeOK, ProcessTypes, gateVars
  <2>2. CASE ~LeaveLoop(d, "unwind")
    BY <1>8, <2>2 DEF Cancelled, TypeOK, TaskState, gateVars
  <2> QED
    BY <2>1, <2>2
<1>9. ASSUME NEW d \in Dir, NEW n \in Nat, Read(d, n) PROVE TypeOK'
  <2>1. framed[d] <= taken[d]
    BY DEF BatchInv
  <2>2. PICK ends : /\ Cardinality(ends) \in Nat
                    /\ taken' = [taken EXCEPT ![d] = @ + n]
                    /\ framed' = [framed EXCEPT ![d] = Greatest(ends \cup {framed[d]})]
                    /\ seqno' = [seqno EXCEPT ![d] = @ + Cardinality(ends)]
                    /\ framed'[d] \in Nat
                    /\ Process(d, [next |-> framed[d] + 1, end |-> framed'[d], seq |-> seqno[d]], "run")
    BY <1>9, <2>1, ReadDoes
  <2>3. [next |-> framed[d] + 1, end |-> framed'[d], seq |-> seqno[d]] \in [next : Nat, end : Nat, seq : Nat]
    <3>1. framed[d] \in Nat /\ seqno[d] \in Nat
      BY DEF TypeOK
    <3> QED
      BY <2>2, <3>1
  <2>4. ProcessTypes
    BY <1>p, <2>2, <2>3
  <2>5. taken' \in [Dir -> Nat] /\ framed' \in [Dir -> Nat] /\ seqno' \in [Dir -> Nat]
    <3>1. Greatest(ends \cup {framed[d]}) \in Nat
      <4>1. framed \in [Dir -> Nat]
        BY DEF TypeOK
      <4> QED
        BY <2>2, <4>1
    <3>2. taken[d] + n \in Nat /\ seqno[d] + Cardinality(ends) \in Nat
      BY <2>2, SMTT(30) DEF TypeOK
    <3> QED
      BY <2>2, <3>1, <3>2 DEF TypeOK
  <2> QED
    BY <1>9, <2>4, <2>5 DEF Read, TypeOK, ProcessTypes, gateVars
<1>10. CASE SessionStep \/ ClosedStep
  BY <1>10 DEF SessionStep, ClosedStep, StartSession, CloseClient, CloseServer, Cleanup, MarkClosed,
               PublishClosed, TypeOK, TaskState, gateVars
<1>11. CASE Terminate
  <2>1. /\ stage' \in [Unit -> Gate!Stage]
        /\ verdict' \in [Unit -> Gate!Action \cup {Gate!NoVerdict}]
    BY <1>11, GateTypes DEF Terminate, AbandonHeld, gateVars
  <2>2. terminates' \in 0..MaxTerminates /\ cancelling' \subseteq Dir
    BY <1>11 DEF Terminate, TypeOK, Live
  <2> QED
    BY <1>11, <2>1, <2>2 DEF Terminate, MarkClosed, TypeOK
<1>12. CASE SwapFramers
  BY <1>12, SMTT(30) DEF SwapFramers, TypeOK, gateVars
<1>13. ASSUME NEW d \in Dir, InjectWrite(d) PROVE TypeOK'
  <2>1. [first |-> 0, last |-> 0, seq |-> 0, kind |-> "injected"] \in Frame
    BY DEF Frame
  <2>2. wrote' \in [Dir -> Seq(Frame)]
    BY <1>13, <1>w, <2>1 DEF InjectWrite, TypeOK
  <2> QED
    BY <1>13, <2>2 DEF InjectWrite, TypeOK, gateVars
<1>14. ASSUME NEW d \in Dir, InjectLog(d) PROVE TypeOK'
  <2> DEFINE f == [first |-> 0, last |-> 0, kind |-> "injected",
                   seq |-> IF registered THEN seqno[d] ELSE Len(log[d])]
  <2>1. Len(log[d]) \in Nat
    BY LenProperties DEF TypeOK
  <2>2. f \in Frame
    BY <2>1 DEF Frame, TypeOK
  <2>3. Append(log[d], f) \in Seq(Frame)
    BY <2>2, AppendFacts DEF TypeOK
  <2> HIDE DEF f
  <2>4. log' = [log EXCEPT ![d] = Append(@, f)]
    BY <1>14 DEF InjectLog, f, TypeOK
  <2>5. log' \in [Dir -> Seq(Frame)] /\ seqno' \in [Dir -> Nat]
    BY <1>14, <2>3, <2>4 DEF InjectLog, TypeOK
  <2> QED
    BY <1>14, <2>5 DEF InjectLog, TypeOK, gateVars
<1>15. ASSUME NEW d \in Dir, InjectFails(d) \/ PeerCloses(d) PROVE TypeOK'
  BY <1>15, ZenonT(30) DEF InjectFails, PeerCloses, TypeOK, gateVars
<1>16. ASSUME NEW U, NEW a \in Gate!Action, Decide(U, a) PROVE TypeOK'
  <2>1. /\ stage' \in [Unit -> Gate!Stage]
        /\ verdict' \in [Unit -> Gate!Action \cup {Gate!NoVerdict}]
    BY <1>16, GateTypes DEF Decide
  <2> QED
    BY <1>16, <2>1 DEF Decide, TypeOK
<1>17. CASE ForwardAll
  BY <1>16, <1>17 DEF ForwardAll, Gate!Action
<1>18. CASE UNCHANGED vars
  BY <1>18 DEF vars, TypeOK, gateVars
<1>19. ASSUME NEW d \in Dir, RelayStep(d) \/ DrainStep(d) PROVE TypeOK'
  BY <1>1, <1>2, <1>3, <1>4, <1>5, <1>6, <1>7, <1>8, <1>19, <1>21 DEF RelayStep, DrainStep
<1>20. ASSUME NEW d \in Dir, NEW n \in 1..(Length[d] - taken[d]), Read(d, n) PROVE TypeOK'
  <2>1. n \in Nat
    BY <1>20
  <2> QED
    BY <1>9, <1>20, <2>1
<1> QED
  BY <1>2, <1>10, <1>11, <1>12, <1>13, <1>14, <1>15, <1>16, <1>17, <1>18, <1>19, <1>20 DEF Next

------------------------------------------------------------------------------
(* The session task and the relay tasks                                     *)

\* While a relay task is alive the session task waits for it, so nothing a
\* relay does meets a session that was marked CLOSED.
LEMMA AliveIsGathered ==
  ASSUME TypeOK, ControlInv, NEW d \in Dir, task[d] \notin {"new", "finished", "cancelled"}
  PROVE  main = "gather" /\ state # "CLOSED" /\ registered
BY DEF TypeOK, ControlInv, Ended

\* The session task tears down only after both relay tasks, and only the first
\* of them to end decides the half-open state.
LEMMA ControlStep ==
  ASSUME TypeOK, ControlInv, \A d \in Dir : BatchInv(d), [Next]_vars
  PROVE  ControlInv'
<1> USE RelayAssumption DEF envVars, relayVars, recordVars, sessionVars
<1>s. ASSUME NEW d \in Dir, task[d] \notin {"new", "finished", "cancelled"}, UNCHANGED <<main, registered>>,
             \/ cancelling' = cancelling \ {d}
             \/ d \notin cancelling /\ cancelling' = cancelling,
             NEW t \in TaskState \ {"new"}, task' = [task EXCEPT ![d] = t],
             \/ UNCHANGED <<first_done, state>> /\ (t \in {"updating", "finished"} => first_done # None)
             \/ first_done' = d /\ state' \in {"ONLY_SERVER", "ONLY_CLIENT"}
      PROVE  ControlInv'
  BY <1>s, AliveIsGathered DEF TypeOK, ControlInv, Ended, Dir, None
<1> DEFINE Mine(d) == /\ task[d] \notin {"new", "finished", "cancelled"} /\ UNCHANGED <<main, registered>>
                      /\ \/ cancelling' = cancelling \ {d}
                         \/ d \notin cancelling /\ cancelling' = cancelling
<1>f. ASSUME NEW d \in Dir, NEW m \in {"run", "flush", "unwind"}, FinishRun(d, m), Mine(d)
      PROVE  ControlInv'
  BY <1>f, <1>s, FinishRunDoes DEF TaskState
<1>r. ASSUME NEW d \in Dir, NEW m \in {"run", "flush", "unwind"}, RunReturns(d, m), Mine(d)
      PROVE  ControlInv'
  BY <1>r, <1>s, RunReturnsDoes DEF TaskState
<1>p. ASSUME NEW d \in Dir, NEW b \in [next : Nat, end : Nat, seq : Nat],
             NEW m \in {"run", "flush", "unwind"}, Process(d, b, m), Mine(d)
      PROVE  ControlInv'
  <2>1. CASE m # "run" /\ FinishRun(d, m)
    BY <1>p, <1>f, <2>1
  <2>2. ASSUME NEW t \in {"captured", "read"}, task' = [task EXCEPT ![d] = t], UNCHANGED <<first_done, state>>
        PROVE  ControlInv'
    BY <1>p, <1>s, <2>2 DEF TaskState
  <2> QED
    BY <1>p, <2>1, <2>2, ProcessDoes
<1>n. ASSUME NEW d \in Dir, NextFrame(d), task[d] \in Busy, Mine(d) PROVE ControlInv'
  <2>1. PICK b \in [next : Nat, end : Nat, seq : Nat] :
           mode[d] \in {"run", "flush", "unwind"} /\ Process(d, b, mode[d])
    BY <1>n, NextFrameDoes
  <2> QED
    BY <1>n, <1>p, <2>1
<1>l. ASSUME NEW d \in Dir, NEW m \in {"flush", "unwind"}, LeaveLoop(d, m), Mine(d) PROVE ControlInv'
  <2>1. [next |-> framed[d] + 1, end |-> taken[d], seq |-> seqno[d]] \in [next : Nat, end : Nat, seq : Nat]
    BY SMTT(30) DEF TypeOK
  <2>2. Process(d, [next |-> framed[d] + 1, end |-> taken[d], seq |-> seqno[d]], m)
    BY <1>l, LeaveLoopDoes
  <2> QED
    BY <1>l, <1>p, <2>1, <2>2
<1>1. ASSUME NEW d \in Dir, Begin(d) PROVE ControlInv'
  BY <1>1, <1>s DEF Begin, At, TaskState
<1>2. ASSUME NEW d \in Dir, Updated(d) PROVE ControlInv'
  BY <1>2, <1>s DEF Updated, At, TaskState, ControlInv
<1>3. ASSUME NEW d \in Dir, EndOfSource(d) \/ IdleReap(d) PROVE ControlInv'
  BY <1>3, <1>l DEF EndOfSource, IdleReap, CanRead, At
<1>4. ASSUME NEW d \in Dir, Tamper(d) \/ Released(d) PROVE ControlInv'
  BY <1>4, <1>s DEF Tamper, Released, At, TaskState
<1>5. ASSUME NEW d \in Dir, Drop(d) \/ Drained(d) PROVE ControlInv'
  BY <1>5, <1>n DEF Drop, Drained, At, Busy
<1>18. ASSUME NEW d \in Dir, RuleRaises(d) PROVE ControlInv'
  <2>1. Mine(d) /\ task[d] \in Busy
    BY <1>18 DEF RuleRaises, At, Busy
  <2> QED
    BY <1>18, <1>l, <1>n, <2>1 DEF RuleRaises
<1>6. ASSUME NEW d \in Dir, Relog(d) \/ Send(d) PROVE ControlInv'
  BY <1>6, <1>s DEF Relog, Send, At, TaskState
<1>7. ASSUME NEW d \in Dir, EofDrained(d) PROVE ControlInv'
  BY <1>7, <1>r DEF EofDrained, At, TypeOK
<1>8. ASSUME NEW d \in Dir, Cancelled(d) PROVE ControlInv'
  <2>1. task[d] \notin {"new", "finished", "cancelled"}
    BY <1>8 DEF Cancelled, ControlInv, Ended
  <2>2. CASE LeaveLoop(d, "unwind")
    BY <1>8, <1>l, <2>1, <2>2 DEF Cancelled
  <2>3. CASE ~LeaveLoop(d, "unwind")
    BY <1>8, <1>s, <2>1, <2>3 DEF Cancelled, TaskState
  <2> QED
    BY <2>2, <2>3
<1>9. ASSUME NEW d \in Dir, NEW n \in Nat, Read(d, n) PROVE ControlInv'
  <2>1. framed[d] <= taken[d]
    BY DEF BatchInv
  <2>2. /\ framed'[d] \in Nat
        /\ Process(d, [next |-> framed[d] + 1, end |-> framed'[d], seq |-> seqno[d]], "run")
    BY <1>9, <2>1, ReadDoes
  <2>3. [next |-> framed[d] + 1, end |-> framed'[d], seq |-> seqno[d]] \in [next : Nat, end : Nat, seq : Nat]
    <3>1. framed[d] \in Nat /\ seqno[d] \in Nat
      BY DEF TypeOK
    <3> QED
      BY <2>2, <3>1
  <2> QED
    BY <1>9, <1>p, <2>2, <2>3 DEF Read, CanRead
<1>10. CASE SessionStep \/ ClosedStep
  <2>1. CASE StartSession
    BY <2>1 DEF StartSession, TypeOK, ControlInv, Ended
  <2>2. CASE CloseClient
    BY <2>2 DEF CloseClient, TypeOK, ControlInv, Ended
  <2>3. CASE CloseServer
    BY <2>3 DEF CloseServer, TypeOK, ControlInv, Ended
  <2>4. CASE Cleanup
    BY <2>4 DEF Cleanup, MarkClosed, TypeOK, ControlInv, Ended
  <2>5. CASE PublishClosed
    BY <2>5 DEF PublishClosed, TypeOK, ControlInv, Ended
  <2> QED
    BY <1>10, <2>1, <2>2, <2>3, <2>4, <2>5 DEF SessionStep, ClosedStep
<1>11. CASE Terminate
  <2>0. UNCHANGED <<task, first_done>>
    BY <1>11 DEF Terminate
  <2>1. CASE main = "created" /\ main' = "never_ran" /\ UNCHANGED <<cancelling, state, registered>>
    BY <2>0, <2>1 DEF TypeOK, ControlInv, Ended
  <2>2. CASE main = "gather" /\ cancelling' = cancelling \cup Live /\ UNCHANGED <<main, state, registered>>
    BY <2>0, <2>2 DEF TypeOK, ControlInv, Ended, Live
  <2>3. CASE main \in {"close_client", "close_server"} /\ MarkClosed /\ UNCHANGED cancelling
    BY <2>0, <2>3 DEF MarkClosed, TypeOK, ControlInv, Ended
  <2>4. CASE main = "publish" /\ main' = "done" /\ UNCHANGED <<cancelling, state, registered>>
    BY <2>0, <2>4 DEF TypeOK, ControlInv, Ended
  <2> QED
    BY <1>11, <2>1, <2>2, <2>3, <2>4 DEF Terminate
<1>12. ASSUME UNCHANGED <<sessionVars, task, cancelling>> PROVE ControlInv'
  BY <1>12 DEF ControlInv, Ended
<1>13. ASSUME NEW d \in Dir, InjectWrite(d) \/ InjectLog(d) \/ InjectFails(d) \/ PeerCloses(d)
       PROVE  ControlInv'
  BY <1>12, <1>13 DEF InjectWrite, InjectLog, InjectFails, PeerCloses
<1>14. CASE SwapFramers \/ ForwardAll \/ \E u \in Unit, a \in Gate!Action : Decide({u}, a)
  BY <1>12, <1>14 DEF SwapFramers, ForwardAll, Decide
<1>15. CASE UNCHANGED vars
  BY <1>12, <1>15 DEF vars
<1>16. ASSUME NEW d \in Dir, RelayStep(d) \/ DrainStep(d) PROVE ControlInv'
  BY <1>1, <1>2, <1>3, <1>4, <1>5, <1>6, <1>7, <1>8, <1>16, <1>18 DEF RelayStep, DrainStep
<1>17. ASSUME NEW d \in Dir, NEW n \in 1..(Length[d] - taken[d]), Read(d, n) PROVE ControlInv'
  <2>1. n \in Nat
    BY <1>17
  <2> QED
    BY <1>9, <1>17, <2>1
<1> QED
  BY <1>3, <1>10, <1>11, <1>13, <1>14, <1>15, <1>16, <1>17 DEF Next

------------------------------------------------------------------------------
(* What one step does to one direction                                      *)

KeepsBytes(d) == framed'[d] = framed[d] /\ taken'[d] = taken[d] /\ seqno'[d] = seqno[d]
KeepsRecord(d) == log'[d] = log[d] /\ wrote'[d] = wrote[d]
KeepsFrame(d) == mode'[d] = mode[d] /\ batch'[d] = batch[d]
KeepsTask(d) == KeepsFrame(d) /\ task'[d] = task[d] /\ (d \in cancelling' => d \in cancelling)
SameUnit(d, x) == stage'[<<d, x>>] = stage[<<d, x>>] /\ verdict'[<<d, x>>] = verdict[<<d, x>>]
KeepsGate(d) == \A x \in 1..Length[d] : SameUnit(d, x)
KeepsOthers(d) == \A x \in 1..Length[d] : x # batch[d].next => SameUnit(d, x)

\* Nothing of the direction moves.
Stands(d) == KeepsBytes(d) /\ KeepsRecord(d) /\ KeepsTask(d) /\ KeepsGate(d)

\* Its task goes on with no frame in its hands.
Turns(d) ==
    /\ KeepsBytes(d) /\ KeepsRecord(d) /\ KeepsFrame(d) /\ KeepsGate(d)
    /\ d \in cancelling' => d \in cancelling
    /\ \/ task[d] = "new" /\ task'[d] = "created"
       \/ task[d] = "created" /\ task'[d] = "read"
       \/ task[d] = "eof" /\ mode[d] # "unwind" /\ task'[d] \in {"updating", "finished"}
       \/ task[d] = "updating" /\ task'[d] = "finished"
       \/ task'[d] = "cancelled" /\ d \notin cancelling' /\ (d \in cancelling \/ task[d] = "eof")

\* It goes on with batch b in mode m.
Batches(d, b, m) ==
    /\ batch'[d] = b /\ mode'[d] = m /\ wrote'[d] = wrote[d] /\ KeepsGate(d)
    /\ d \notin cancelling'
    /\ \/ /\ b.next <= b.end
          /\ log'[d] = Append(log[d], Head1(d, b)) /\ task'[d] = "captured"
       \/ /\ b.next > b.end /\ log'[d] = log[d]
          /\ \/ m = "run" /\ task'[d] = "read"
             \/ m = "flush" /\ task'[d] \in {"eof", "updating", "finished"}
             \/ m = "unwind" /\ task'[d] \in {"eof", "cancelled"}

Feeds(d) ==
    /\ task[d] = "read" /\ taken[d] <= taken'[d] /\ taken'[d] <= Length[d]
    /\ LET ends == {x \in Boundary[d] : framed[d] < x /\ x <= taken'[d]}
       IN  /\ IsFiniteSet(ends)
           /\ framed'[d] \in ends \cup {framed[d]} /\ \A x \in ends : x <= framed'[d]
           /\ seqno'[d] = seqno[d] + Cardinality(ends)
    /\ Batches(d, [next |-> framed[d] + 1, end |-> framed'[d], seq |-> seqno[d]], "run")

\* A rule raises, which costs the bytes up to x.
Costs(d, x) ==
    /\ d \in BadRules /\ task[d] \in {"captured", "completed"} /\ d \notin cancelling
    /\ lost'[d] = lost[d] \cup batch[d].next..x

Leaves(d, m) ==
    /\ mode[d] = "run" /\ task[d] \in Busy \cup {"read"}
    /\ m = "flush" => task[d] \in {"read", "captured", "completed"}
    /\ m = "unwind" => d \in cancelling
    /\ framed'[d] = taken[d] /\ taken'[d] = taken[d]
    /\ seqno'[d] = seqno[d] + IF framed[d] < taken[d] THEN 1 ELSE 0
    /\ Batches(d, [next |-> framed[d] + 1, end |-> taken[d], seq |-> seqno[d]], m)

\* It is done with the frame in hand: dropped, written and drained, or, in the
\* finally block, lost.
Proceeds(d) ==
    /\ task[d] \in {"captured", "completed", "drain"}
    /\ KeepsBytes(d)
    /\ Batches(d, [next |-> Current(d).last + 1, end |-> batch[d].end, seq |-> batch[d].seq + 1], mode[d])

\* The gate passes, holds or hands back the frame in hand.
Gates(d) ==
    /\ KeepsBytes(d) /\ KeepsRecord(d) /\ KeepsFrame(d) /\ KeepsOthers(d) /\ d \notin cancelling'
    /\ LET u == CurrentUnit(d) IN
       \/ /\ task[d] = "captured" /\ stage[u] = "new"
          /\ task'[d] = "completed" /\ stage'[u] = "released" /\ verdict'[u] = "FORWARD"
       \/ /\ task[d] = "captured" /\ stage[u] = "new" /\ verdict'[u] = verdict[u]
          /\ task'[d] = "held" /\ stage'[u] = "held"
       \/ /\ task[d] = "held" /\ stage[u] = "decided" /\ verdict'[u] = verdict[u]
          /\ task'[d] = "completed" /\ stage'[u] = "released"

Relogs(d) ==
    /\ task[d] = "completed" /\ verdict[CurrentUnit(d)] = "MODIFIED" /\ task'[d] = "relogged"
    /\ framed'[d] = framed[d] /\ taken'[d] = taken[d] /\ seqno'[d] = seqno[d] + 1
    /\ KeepsFrame(d) /\ KeepsGate(d) /\ d \notin cancelling' /\ wrote'[d] = wrote[d]
    /\ log'[d] = Append(log[d], [Current(d) EXCEPT !.kind = "tamper", !.seq = seqno[d]])

Sends(d) ==
    /\ task'[d] = "drain"
    /\ KeepsBytes(d) /\ KeepsFrame(d) /\ KeepsGate(d) /\ d \notin cancelling' /\ log'[d] = log[d]
    /\ \E k \in {"captured", "tamper"} :
          /\ IF k = "tamper" THEN task[d] = "relogged"
             ELSE task[d] = "completed" /\ verdict[CurrentUnit(d)] = "FORWARD"
          /\ \/ wrote'[d] = Append(wrote[d], [Current(d) EXCEPT !.kind = k])
             \/ wrote'[d] = wrote[d] /\ Other(d) \in gone

\* The operator answers for held units of the direction, or ends the session.
IsTold(d) ==
    /\ KeepsBytes(d) /\ KeepsRecord(d) /\ KeepsTask(d)
    /\ \A x \in 1..Length[d] :
          \/ SameUnit(d, x)
          \/ /\ stage[<<d, x>>] = "held" /\ stage'[<<d, x>>] = "decided"
             /\ verdict'[<<d, x>>] \in Gate!Action

IsCancelled(d) ==
    /\ KeepsBytes(d) /\ KeepsRecord(d) /\ KeepsFrame(d) /\ task'[d] = task[d]
    /\ KeepsOthers(d)
    /\ IF task[d] = "held" /\ d \notin cancelling
       THEN /\ stage[CurrentUnit(d)] \in {"held", "decided"} /\ stage'[CurrentUnit(d)] = "abandoned"
            /\ verdict'[CurrentUnit(d)] = verdict[CurrentUnit(d)]
       ELSE KeepsGate(d)

IsSwapped(d) ==
    /\ framed'[d] = taken[d] /\ taken'[d] = taken[d] /\ seqno'[d] = 0 /\ swaps' = swaps + 1
    /\ KeepsRecord(d) /\ KeepsTask(d) /\ KeepsGate(d)

\* The operator's bytes are written to it, or logged.
IsInjected(d) ==
    /\ framed'[d] = framed[d] /\ taken'[d] = taken[d] /\ KeepsTask(d) /\ KeepsGate(d)
    /\ \E f \in Frame : f.kind = "injected"
         /\ \/ seqno'[d] = seqno[d] /\ log'[d] = log[d] /\ wrote'[d] = Append(wrote[d], f)
            \/ /\ log'[d] = Append(log[d], f) /\ wrote'[d] = wrote[d]
               /\ registered' = registered
               /\ registered => f.seq = seqno[d] /\ seqno'[d] = seqno[d] + 1

\* Why a direction leaves the loop for the flush, or the frame in hand.
LeavesFor(d) == task[d] = "read" \/ Costs(d, batch[d].end)
ProceedsFor(d) ==
    \/ task[d] = "drain"
    \/ task[d] = "completed" /\ verdict[CurrentUnit(d)] = "DROP"
    \/ Costs(d, Current(d).last)

StepOf(d) ==
    \/ Stands(d) \/ Turns(d) \/ Feeds(d) \/ Leaves(d, "unwind")
    \/ (Leaves(d, "flush") /\ LeavesFor(d)) \/ (Proceeds(d) /\ ProceedsFor(d)) \/ Gates(d) \/ Relogs(d) \/ Sends(d) \/ IsTold(d) \/ IsCancelled(d)
    \/ IsSwapped(d) \/ IsInjected(d)

\* Sources do not return, a session that left the maps stays away, and only a
\* swap of framers starts a count anew.
World ==
    /\ gone \subseteq gone' /\ (registered' => registered)
    /\ swaps' = swaps \/ \A d \in Dir : IsSwapped(d)

\* What an exception of a rule does to what is counted as lost.
LossOf(d) ==
    \/ lost'[d] = lost[d]
    \/ Leaves(d, "flush") /\ Costs(d, batch[d].end)
    \/ Proceeds(d) /\ Costs(d, Current(d).last)

\* Process, seen from its direction and from the other one.
LEMMA ProcessBatches ==
  ASSUME TypeOK, NEW d \in Dir, NEW b \in [next : Nat, end : Nat, seq : Nat],
         NEW m \in {"run", "flush", "unwind"}, Process(d, b, m), NEW e \in Dir
  PROVE  IF e = d
         THEN UNCHANGED <<wrote, stage, verdict>> /\ d \notin cancelling' => Batches(d, b, m)
         ELSE task'[e] = task[e] /\ log'[e] = log[e] /\ KeepsFrame(e)
<1>1. /\ task \in [Dir -> TaskState] /\ mode \in [Dir -> {"run", "flush", "unwind"}]
      /\ batch \in [Dir -> [next : Nat, end : Nat, seq : Nat]] /\ log \in [Dir -> Seq(Frame)]
  BY DEF TypeOK
<1>2. batch' = [batch EXCEPT ![d] = b] /\ mode' = [mode EXCEPT ![d] = m]
  BY ProcessDoes
<1>3. CASE b.next <= b.end /\ log' = [log EXCEPT ![d] = Append(@, Head1(d, b))]
           /\ task' = [task EXCEPT ![d] = "captured"]
  BY <1>1, <1>2, <1>3 DEF Batches, KeepsGate, SameUnit, KeepsFrame
<1>4. CASE b.next > b.end /\ log' = log /\ m = "run" /\ task' = [task EXCEPT ![d] = "read"]
  BY <1>1, <1>2, <1>4 DEF Batches, KeepsGate, SameUnit, KeepsFrame
<1>5. CASE b.next > b.end /\ log' = log /\ m # "run" /\ FinishRun(d, m)
  <2>1. PICK t : /\ task' = [task EXCEPT ![d] = t]
                 /\ t = "eof" \/ (m = "unwind" /\ t = "cancelled")
                              \/ (m # "unwind" /\ t \in {"updating", "finished"})
    BY <1>5, FinishRunDoes
  <2>2. task'[d] = t /\ (e # d => task'[e] = task[e])
    BY <1>1, <2>1
  <2> QED
    BY <1>1, <1>2, <1>5, <2>1, <2>2 DEF Batches, KeepsGate, SameUnit, KeepsFrame
<1> QED
  BY <1>3, <1>4, <1>5, ProcessDoes

\* The units of a direction are units of the gate, the frame in hand's among them.
LEMMA UnitFacts ==
  ASSUME TypeOK, NEW d \in Dir, BatchInv(d)
  PROVE  /\ \A x \in 1..Length[d] : <<d, x>> \in Unit
         /\ task[d] \in Busy => batch[d].next \in 1..Length[d] /\ CurrentUnit(d) \in Unit
<1>1. \A x \in 1..Length[d] : <<d, x>> \in Unit
  BY DEF Unit
<1>2. ASSUME task[d] \in Busy PROVE batch[d].next \in 1..Length[d]
  <2>1. /\ batch[d].next \in Nat /\ batch[d].end \in Nat /\ framed[d] \in Nat /\ taken[d] \in Nat
        /\ Length[d] \in Nat
    BY RelayAssumption DEF TypeOK
  <2> QED
    BY <1>2, <2>1 DEF BatchInv
<1> QED
  BY <1>1, <1>2 DEF CurrentUnit

\* When a rule raises, its direction leaves the loop or goes on in the flush;
\* the other direction is not touched.
LEMMA RaisesDoes ==
  ASSUME TypeOK, \A d \in Dir : BatchInv(d), NEW d \in Dir, RuleRaises(d), NEW e \in Dir
  PROVE  /\ e = d => \/ Leaves(d, "flush") /\ Costs(d, batch[d].end)
                     \/ Proceeds(d) /\ Costs(d, Current(d).last)
         /\ e # d => Stands(e) /\ lost'[e] = lost[e]
<1> USE DEF envVars, relayVars, recordVars, sessionVars, gateVars
<1>0. /\ taken \in [Dir -> Nat] /\ framed \in [Dir -> Nat] /\ seqno \in [Dir -> Nat]
      /\ mode \in [Dir -> {"run", "flush", "unwind"}] /\ lost \in [Dir -> SUBSET Nat]
      /\ batch \in [Dir -> [next : Nat, end : Nat, seq : Nat]]
  BY DEF TypeOK
<1>1. /\ task[d] \in {"captured", "completed"} /\ d \in BadRules /\ d \notin cancelling
      /\ cancelling' = cancelling /\ UNCHANGED <<taken, wrote, stage, verdict>>
  BY DEF RuleRaises, At
<1>2. KeepsGate(e)
  BY <1>1 DEF KeepsGate, SameUnit
<1>3. CASE mode[d] = "run" /\ LeaveLoop(d, "flush") /\ lost' = [lost EXCEPT ![d] = @ \cup batch[d].next..batch[d].end]
  <2> DEFINE b == [next |-> framed[d] + 1, end |-> taken[d], seq |-> seqno[d]]
  <2>1. b \in [next : Nat, end : Nat, seq : Nat]
    BY <1>0, SMTT(30)
  <2>2. /\ framed' = [framed EXCEPT ![d] = taken[d]]
        /\ seqno' = [seqno EXCEPT ![d] = @ + IF framed[d] < taken[d] THEN 1 ELSE 0]
        /\ Process(d, b, "flush")
    BY <1>3, LeaveLoopDoes
  <2> HIDE DEF b
  <2>3. CASE e = d
    <3>1. Batches(d, b, "flush")
      BY <1>1, <2>1, <2>2, ProcessBatches
    <3>2. Costs(d, batch[d].end)
      BY <1>0, <1>1, <1>3 DEF Costs
    <3> QED
      BY <1>0, <1>1, <1>3, <2>2, <2>3, <3>1, <3>2 DEF Leaves, Busy, b
  <2>4. CASE e # d
    <3>1. task'[e] = task[e] /\ log'[e] = log[e] /\ KeepsFrame(e)
      BY <2>1, <2>2, <2>4, ProcessBatches
    <3>2. lost'[e] = lost[e] /\ framed'[e] = framed[e] /\ seqno'[e] = seqno[e]
      BY <1>0, <1>3, <2>2, <2>4
    <3> QED
      BY <1>1, <1>2, <2>4, <3>1, <3>2 DEF Stands, KeepsBytes, KeepsRecord, KeepsTask
  <2> QED
    BY <2>3, <2>4
<1>4. CASE /\ mode[d] # "run" /\ NextFrame(d) /\ UNCHANGED <<framed, seqno>>
           /\ lost' = [lost EXCEPT ![d] = @ \cup Current(d).first..Current(d).last]
  <2> DEFINE b == [next |-> Current(d).last + 1, end |-> batch[d].end, seq |-> batch[d].seq + 1]
  <2>1. b \in [next : Nat, end : Nat, seq : Nat] /\ Process(d, b, mode[d])
        /\ mode[d] \in {"run", "flush", "unwind"}
    BY <1>1, <1>4, NextFrameDoes DEF Busy
  <2>2. Current(d).first = batch[d].next
    BY <1>1, CurrentFacts DEF Busy
  <2> HIDE DEF b
  <2>3. CASE e = d
    <3>1. Batches(d, b, mode[d])
      BY <1>1, <2>1, ProcessBatches
    <3>2. Costs(d, Current(d).last)
      BY <1>0, <1>1, <1>4, <2>2 DEF Costs
    <3> QED
      BY <1>1, <1>4, <2>3, <3>1, <3>2 DEF Proceeds, KeepsBytes, b
  <2>4. CASE e # d
    <3>1. task'[e] = task[e] /\ log'[e] = log[e] /\ KeepsFrame(e)
      BY <2>1, <2>4, ProcessBatches
    <3>2. lost'[e] = lost[e]
      BY <1>0, <1>4, <2>4
    <3> QED
      BY <1>1, <1>2, <1>4, <2>4, <3>1, <3>2 DEF Stands, KeepsBytes, KeepsRecord, KeepsTask
  <2> QED
    BY <2>3, <2>4
<1> QED
  BY <1>3, <1>4 DEF RuleRaises

\* Nothing else is ever counted as lost.
LEMMA LossSplits ==
  ASSUME TypeOK, \A d \in Dir : BatchInv(d), [Next]_vars, NEW e \in Dir
  PROVE  LossOf(e)
<1> USE DEF envVars, relayVars, recordVars, sessionVars, gateVars
<1>1. ASSUME NEW d \in Dir, RuleRaises(d) PROVE LossOf(e)
  BY <1>1, RaisesDoes DEF LossOf
<1>2. ASSUME NEW d \in Dir, RelayStep(d) \/ DrainStep(d) PROVE RuleRaises(d) \/ UNCHANGED lost
  BY <1>2 DEF RelayStep, DrainStep, Begin, EndOfSource, Tamper, Released, Drop, Relog, Send,
              Updated, Cancelled, Drained, EofDrained
<1>3. ASSUME NEW d \in Dir, \/ \E n \in 1..(Length[d] - taken[d]) : Read(d, n)
                           \/ IdleReap(d) \/ PeerCloses(d) \/ InjectWrite(d) \/ InjectLog(d)
                           \/ InjectFails(d)
      PROVE  UNCHANGED lost
  BY <1>3 DEF Read, IdleReap, PeerCloses, InjectWrite, InjectLog, InjectFails
<1>4. CASE SessionStep \/ ClosedStep \/ Terminate \/ SwapFramers
  BY <1>4 DEF SessionStep, ClosedStep, StartSession, CloseClient, CloseServer, Cleanup,
              PublishClosed, Terminate, SwapFramers, LossOf
<1>5. CASE ForwardAll \/ \E u \in Unit, a \in Gate!Action : Decide({u}, a)
  BY <1>5 DEF ForwardAll, Decide, LossOf
<1>6. CASE UNCHANGED vars
  BY <1>6 DEF vars, LossOf
<1>7. ASSUME UNCHANGED lost PROVE LossOf(e)
  BY <1>7 DEF LossOf
<1> QED
  BY <1>1, <1>2, <1>3, <1>4, <1>5, <1>6, <1>7 DEF Next

\* Every step of the session is one of these for each of its directions.
LEMMA StepSplits ==
  ASSUME TypeOK, ControlInv, \A d \in Dir : BatchInv(d), [Next]_vars
  PROVE  World /\ \A d \in Dir : StepOf(d)
<1> USE RelayAssumption DEF envVars, relayVars, recordVars, sessionVars, gateVars
<1> DEFINE Calm == gone \subseteq gone' /\ (registered' => registered) /\ swaps' = swaps
<1>0. /\ taken \in [Dir -> Nat] /\ framed \in [Dir -> Nat] /\ seqno \in [Dir -> Nat]
      /\ task \in [Dir -> TaskState] /\ mode \in [Dir -> {"run", "flush", "unwind"}]
      /\ batch \in [Dir -> [next : Nat, end : Nat, seq : Nat]]
      /\ log \in [Dir -> Seq(Frame)] /\ wrote \in [Dir -> Seq(Frame)]
      /\ stage \in [Unit -> Gate!Stage] /\ verdict \in [Unit -> Gate!Action \cup {Gate!NoVerdict}]
      /\ cancelling \subseteq Dir
  BY DEF TypeOK
<1>u. /\ \A e \in Dir : \A x \in 1..Length[e] : <<e, x>> \in Unit
      /\ \A d \in Dir : task[d] \in Busy => batch[d].next \in 1..Length[d] /\ CurrentUnit(d) \in Unit
  BY UnitFacts
<1>g. ASSUME UNCHANGED <<stage, verdict>> PROVE \A e \in Dir : KeepsGate(e)
  BY <1>g DEF KeepsGate, SameUnit
<1>p. ASSUME NEW d \in Dir, NEW b \in [next : Nat, end : Nat, seq : Nat], NEW e \in Dir,
             NEW m \in {"run", "flush", "unwind"}, Process(d, b, m),
             UNCHANGED <<wrote, stage, verdict>>, cancelling' = cancelling \ {d}
      PROVE  /\ Batches(d, b, m)
             /\ e # d => /\ task'[e] = task[e] /\ KeepsRecord(e) /\ KeepsGate(e) /\ KeepsFrame(e)
                         /\ (e \in cancelling' => e \in cancelling)
  <2>1. Batches(d, b, m)
    BY <1>p, ProcessBatches
  <2>2. e # d => task'[e] = task[e] /\ log'[e] = log[e] /\ KeepsFrame(e)
    BY <1>p, ProcessBatches
  <2> QED
    BY <1>p, <1>g, <2>1, <2>2 DEF KeepsRecord
<1>l. ASSUME NEW d \in Dir, NEW m \in {"flush", "unwind"}, NEW e \in Dir, LeaveLoop(d, m),
             mode[d] = "run", task[d] \in Busy \cup {"read"}, m = "flush" => task[d] = "read",
             m = "unwind" => d \in cancelling,
             UNCHANGED <<taken, wrote, stage, verdict>>, cancelling' = cancelling \ {d}
      PROVE  StepOf(e)
  <2> DEFINE b == [next |-> framed[d] + 1, end |-> taken[d], seq |-> seqno[d]]
  <2>1. b \in [next : Nat, end : Nat, seq : Nat]
    BY <1>0, SMTT(30)
  <2>2. /\ framed' = [framed EXCEPT ![d] = taken[d]]
        /\ seqno' = [seqno EXCEPT ![d] = @ + IF framed[d] < taken[d] THEN 1 ELSE 0]
        /\ Process(d, b, m)
    BY <1>l, LeaveLoopDoes
  <2> HIDE DEF b
  <2>3. /\ Batches(d, b, m)
        /\ e # d => /\ task'[e] = task[e] /\ KeepsRecord(e) /\ KeepsGate(e) /\ KeepsFrame(e)
                    /\ (e \in cancelling' => e \in cancelling)
    BY <1>l, <1>p, <2>1, <2>2
  <2>4. CASE e = d
    <3>1. Leaves(d, m)
      BY <1>0, <1>l, <2>2, <2>3 DEF Leaves, b
    <3> QED
      BY <1>l, <2>4, <3>1 DEF StepOf, LeavesFor
  <2>5. CASE e # d
    BY <1>0, <1>l, <2>2, <2>3, <2>5 DEF StepOf, Stands, KeepsBytes, KeepsTask
  <2> QED
    BY <2>4, <2>5
<1>n. ASSUME NEW d \in Dir, NEW e \in Dir, NextFrame(d), d \notin cancelling,
             \/ task[d] = "completed" /\ verdict[CurrentUnit(d)] = "DROP"
             \/ task[d] = "drain",
             UNCHANGED <<taken, framed, seqno, cancelling, wrote, stage, verdict>>
      PROVE  StepOf(e)
  <2> DEFINE b == [next |-> Current(d).last + 1, end |-> batch[d].end, seq |-> batch[d].seq + 1]
  <2>1. task[d] \in Busy /\ cancelling' = cancelling \ {d}
    BY <1>0, <1>n DEF Busy
  <2>2. b \in [next : Nat, end : Nat, seq : Nat] /\ Process(d, b, mode[d])
        /\ mode[d] \in {"run", "flush", "unwind"}
    BY <1>n, <2>1, NextFrameDoes
  <2> HIDE DEF b
  <2>3. /\ Batches(d, b, mode[d])
        /\ e # d => /\ task'[e] = task[e] /\ KeepsRecord(e) /\ KeepsGate(e) /\ KeepsFrame(e)
                    /\ (e \in cancelling' => e \in cancelling)
    BY <1>n, <1>p, <2>1, <2>2
  <2>4. CASE e = d
    <3>1. Proceeds(d)
      BY <1>n, <2>3 DEF Proceeds, KeepsBytes, b
    <3> QED
      BY <1>n, <2>4, <3>1 DEF StepOf, ProceedsFor
  <2>5. CASE e # d
    BY <1>n, <2>3, <2>5 DEF StepOf, Stands, KeepsBytes, KeepsTask
  <2> QED
    BY <2>4, <2>5
<1>t. ASSUME NEW d \in Dir, NEW e \in Dir, NEW t, task' = [task EXCEPT ![d] = t],
             UNCHANGED <<taken, framed, seqno, mode, batch, log, wrote, stage, verdict>>,
             cancelling' \subseteq cancelling,
             \/ task[d] = "created" /\ t = "read"
             \/ task[d] = "eof" /\ mode[d] # "unwind" /\ t \in {"updating", "finished"}
             \/ task[d] = "updating" /\ t = "finished"
             \/ t = "cancelled" /\ d \notin cancelling' /\ (d \in cancelling \/ task[d] = "eof")
      PROVE  StepOf(e)
  <2>1. task'[d] = t /\ (e # d => task'[e] = task[e])
    BY <1>0, <1>t
  <2>2. KeepsBytes(e) /\ KeepsRecord(e) /\ KeepsFrame(e) /\ KeepsGate(e)
    BY <1>t, <1>g DEF KeepsBytes, KeepsRecord, KeepsFrame
  <2>3. CASE e = d
    BY <1>t, <2>1, <2>2, <2>3 DEF StepOf, Turns
  <2>4. CASE e # d
    BY <1>t, <2>1, <2>2, <2>4 DEF StepOf, Stands, KeepsTask
  <2> QED
    BY <2>3, <2>4
<1>1. ASSUME NEW d \in Dir, NEW e \in Dir, Begin(d) \/ Updated(d) PROVE Calm /\ StepOf(e)
  <2>1. Calm
    BY <1>1 DEF Begin, Updated
  <2> QED
    BY <1>1, <1>t, <2>1 DEF Begin, Updated, At
<1>2. ASSUME NEW d \in Dir, NEW e \in Dir, EndOfSource(d) \/ IdleReap(d) PROVE Calm /\ StepOf(e)
  <2>1. Calm /\ LeaveLoop(d, "flush") /\ task[d] = "read" /\ UNCHANGED <<taken, wrote, stage, verdict>>
    BY <1>2 DEF EndOfSource, IdleReap, CanRead, At
  <2>2. mode[d] = "run"
    BY <1>0, <2>1 DEF BatchInv
  <2>3. cancelling' = cancelling \ {d}
    BY <1>2 DEF EndOfSource, IdleReap, At
  <2> QED
    BY <1>l, <2>1, <2>2, <2>3
<1>3. ASSUME NEW d \in Dir, NEW e \in Dir, Tamper(d) \/ Released(d) PROVE Calm /\ StepOf(e)
  <2>1. /\ Calm /\ KeepsBytes(e) /\ KeepsRecord(e) /\ KeepsFrame(e) /\ d \notin cancelling
        /\ cancelling' = cancelling /\ task[d] \in {"captured", "held"}
    BY <1>3 DEF Tamper, Released, At, KeepsBytes, KeepsRecord, KeepsFrame
  <2>2. CurrentUnit(d) \in Unit /\ CurrentUnit(d) = <<d, batch[d].next>>
    BY <1>u, <2>1 DEF Busy, CurrentUnit
  <2>3. ASSUME NEW s, NEW v, NEW t, stage' = [stage EXCEPT ![CurrentUnit(d)] = s],
               verdict' = [verdict EXCEPT ![CurrentUnit(d)] = v] \/ verdict' = verdict,
               task' = [task EXCEPT ![d] = t]
        PROVE  /\ KeepsOthers(d) /\ stage'[CurrentUnit(d)] = s /\ task'[d] = t
               /\ e # d => Stands(e)
    <3>1. \A f \in Dir : \A x \in 1..Length[f] : <<f, x>> # CurrentUnit(d) => SameUnit(f, x)
      BY <1>0, <1>u, <2>2, <2>3 DEF SameUnit
    <3>2. KeepsOthers(d)
      BY <2>2, <3>1 DEF KeepsOthers
    <3>3. stage'[CurrentUnit(d)] = s /\ task'[d] = t
      BY <1>0, <2>2, <2>3
    <3>4. ASSUME e # d PROVE Stands(e)
      <4>1. KeepsGate(e)
        BY <2>2, <3>1, <3>4 DEF KeepsGate
      <4>2. task'[e] = task[e]
        BY <1>0, <2>3, <3>4
      <4> QED
        BY <2>1, <4>1, <4>2 DEF Stands, KeepsTask
    <3> QED
      BY <3>2, <3>3, <3>4
  <2>4. CASE Tamper(d) /\ Gate!Pass(CurrentUnit(d)) /\ task' = [task EXCEPT ![d] = "completed"]
    <3>1. /\ KeepsOthers(d) /\ stage'[CurrentUnit(d)] = "released" /\ task'[d] = "completed"
          /\ e # d => Stands(e)
      BY <2>3, <2>4 DEF Gate!Pass
    <3>2. verdict'[CurrentUnit(d)] = "FORWARD"
      BY <1>0, <2>2, <2>4 DEF Gate!Pass
    <3>3. e = d => Gates(e)
      BY <2>1, <2>4, <3>1, <3>2 DEF Gates, Gate!Pass, Tamper, At
    <3> QED
      BY <2>1, <3>1, <3>3 DEF StepOf
  <2>5. CASE Tamper(d) /\ Gate!Hold(CurrentUnit(d)) /\ task' = [task EXCEPT ![d] = "held"]
    <3>1. /\ KeepsOthers(d) /\ stage'[CurrentUnit(d)] = "held" /\ task'[d] = "held"
          /\ e # d => Stands(e)
      BY <2>3, <2>5 DEF Gate!Hold
    <3>3. e = d => Gates(e)
      BY <2>1, <2>5, <3>1 DEF Gates, Gate!Hold, Tamper, At
    <3> QED
      BY <2>1, <3>1, <3>3 DEF StepOf
  <2>6. CASE Released(d)
    <3>1. /\ KeepsOthers(d) /\ stage'[CurrentUnit(d)] = "released" /\ task'[d] = "completed"
          /\ e # d => Stands(e)
      BY <2>3, <2>6 DEF Gate!Release, Released
    <3>3. e = d => Gates(e)
      BY <2>1, <2>6, <3>1 DEF Gates, Gate!Release, Released, At
    <3> QED
      BY <2>1, <3>1, <3>3 DEF StepOf
  <2> QED
    BY <1>3, <2>4, <2>5, <2>6 DEF Tamper
<1>4. ASSUME NEW d \in Dir, NEW e \in Dir, Drop(d) \/ Drained(d) PROVE Calm /\ StepOf(e)
  <2>1. Calm
    BY <1>4 DEF Drop, Drained
  <2> QED
    BY <1>4, <1>n, <2>1 DEF Drop, Drained, At
<1>21. ASSUME NEW d \in Dir, NEW e \in Dir, RuleRaises(d) PROVE Calm /\ StepOf(e)
  <2>1. Calm
    BY <1>21 DEF RuleRaises
  <2> QED
    BY <1>21, <2>1, RaisesDoes DEF StepOf, LeavesFor, ProceedsFor
<1>5. ASSUME NEW d \in Dir, NEW e \in Dir, Relog(d) PROVE Calm /\ StepOf(e)
  <2>1. /\ Calm /\ d \notin cancelling /\ cancelling' = cancelling /\ KeepsFrame(e) /\ KeepsGate(e)
        /\ framed' = framed /\ taken' = taken /\ wrote' = wrote
    BY <1>5, <1>g DEF Relog, At, KeepsFrame
  <2>2. CASE e = d
    <3>1. /\ task'[d] = "relogged" /\ seqno'[d] = seqno[d] + 1
          /\ log'[d] = Append(log[d], [Current(d) EXCEPT !.kind = "tamper", !.seq = seqno[d]])
      BY <1>0, <1>5 DEF Relog
    <3> QED
      BY <1>5, <2>1, <2>2, <3>1 DEF StepOf, Relogs, Relog, At
  <2>3. CASE e # d
    <3>1. task'[e] = task[e] /\ seqno'[e] = seqno[e] /\ log'[e] = log[e]
      BY <1>0, <1>5, <2>3 DEF Relog
    <3> QED
      BY <2>1, <3>1 DEF StepOf, Stands, KeepsBytes, KeepsRecord, KeepsTask
  <2> QED
    BY <2>2, <2>3
<1>6. ASSUME NEW d \in Dir, NEW e \in Dir, Send(d) PROVE Calm /\ StepOf(e)
  <2>1. /\ Calm /\ d \notin cancelling /\ cancelling' = cancelling /\ KeepsFrame(e) /\ KeepsGate(e)
        /\ KeepsBytes(e) /\ log' = log
    BY <1>6, <1>g DEF Send, At, KeepsFrame, KeepsBytes
  <2>2. PICK k \in {"captured", "tamper"} :
            /\ IF k = "tamper" THEN task[d] = "relogged"
               ELSE task[d] = "completed" /\ verdict[CurrentUnit(d)] = "FORWARD"
            /\ Write(d, [Current(d) EXCEPT !.kind = k])
    <3>1. CASE task[d] = "relogged" /\ Write(d, [Current(d) EXCEPT !.kind = "tamper"])
      BY <3>1
    <3>2. CASE At(d, "completed") /\ verdict[CurrentUnit(d)] = "FORWARD" /\ Write(d, Current(d))
      <4>1. Current(d) = [Current(d) EXCEPT !.kind = "captured"]
        <5>1. Current(d) \in Frame /\ Current(d).kind = "captured"
          BY <3>2, CurrentFacts DEF At, Busy
        <5> QED
          BY <5>1 DEF Frame
      <4> QED
        BY <3>2, <4>1 DEF At
    <3> QED
      BY <1>6, <3>1, <3>2 DEF Send, At
  <2>3. CASE e = d
    <3>1. task'[d] = "drain"
      BY <1>0, <1>6 DEF Send
    <3>2. \/ wrote'[d] = Append(wrote[d], [Current(d) EXCEPT !.kind = k])
          \/ wrote'[d] = wrote[d] /\ Other(d) \in gone
      BY <1>0, <2>2 DEF Write
    <3> QED
      BY <2>1, <2>2, <2>3, <3>1, <3>2 DEF StepOf, Sends
  <2>4. CASE e # d
    <3>1. task'[e] = task[e] /\ wrote'[e] = wrote[e]
      BY <1>0, <1>6, <2>2, <2>4 DEF Send, Write
    <3> QED
      BY <2>1, <3>1 DEF StepOf, Stands, KeepsRecord, KeepsTask
  <2> QED
    BY <2>3, <2>4
<1>7. ASSUME NEW d \in Dir, NEW e \in Dir, EofDrained(d) PROVE Calm /\ StepOf(e)
  <2>1. /\ Calm /\ task[d] = "eof" /\ cancelling' = cancelling /\ d \notin cancelling
        /\ UNCHANGED <<taken, framed, seqno, mode, batch, log, wrote, stage, verdict>>
    BY <1>7 DEF EofDrained, At
  <2>2. PICK t : /\ task' = [task EXCEPT ![d] = t]
                 /\ IF mode[d] = "unwind" THEN t = "cancelled" ELSE t \in {"updating", "finished"}
    BY <1>0, <1>7, RunReturnsDoes, ZenonT(30) DEF EofDrained
  <2>3. CASE t = "cancelled"
    BY <1>t, <2>1, <2>2, <2>3
  <2>4. CASE mode[d] # "unwind" /\ t \in {"updating", "finished"}
    BY <1>t, <2>1, <2>2, <2>4
  <2> QED
    BY <2>2, <2>1, <2>3, <2>4
<1>8. ASSUME NEW d \in Dir, NEW e \in Dir, Cancelled(d) PROVE Calm /\ StepOf(e)
  <2>1. /\ Calm /\ d \in cancelling /\ cancelling' = cancelling \ {d}
        /\ UNCHANGED <<taken, wrote, stage, verdict>> /\ task[d] \notin {"new", "finished", "cancelled"}
    BY <1>8 DEF Cancelled, ControlInv, Ended
  <2>2. CASE mode[d] = "run" /\ task[d] # "created"
    <3>1. LeaveLoop(d, "unwind")
      BY <1>8, <2>2 DEF Cancelled
    <3>2. task[d] \in Busy \cup {"read"}
      BY <1>0, <2>1, <2>2 DEF BatchInv, TaskState, Busy
    <3> QED
      BY <1>l, <2>1, <2>2, <3>1, <3>2
  <2>3. CASE ~(mode[d] = "run" /\ task[d] # "created")
    <3>1. task' = [task EXCEPT ![d] = "cancelled"] /\ UNCHANGED <<framed, seqno, mode, batch, log>>
      BY <1>8, <2>3 DEF Cancelled
    <3> QED
      BY <1>t, <2>1, <3>1
  <2> QED
    BY <2>2, <2>3
<1>9. ASSUME NEW d \in Dir, NEW n \in 1..(Length[d] - taken[d]), NEW e \in Dir, Read(d, n)
      PROVE  Calm /\ StepOf(e)
  <2> DEFINE b == [next |-> framed[d] + 1, end |-> framed'[d], seq |-> seqno[d]]
  <2>1. framed[d] <= taken[d] /\ n \in Nat /\ taken[d] \in Nat /\ Length[d] \in Nat
    BY <1>0 DEF BatchInv
  <2>2. taken[d] <= taken[d] + n /\ taken[d] + n <= Length[d]
    BY <1>9, <2>1
  <2>3. /\ Calm /\ task[d] = "read" /\ cancelling' = cancelling \ {d}
        /\ UNCHANGED <<wrote, stage, verdict>>
    BY <1>9 DEF Read, CanRead
  <2>4. PICK ends :
        /\ ends = {x \in Boundary[d] : framed[d] < x /\ x <= taken[d] + n}
        /\ IsFiniteSet(ends)
        /\ taken' = [taken EXCEPT ![d] = @ + n]
        /\ framed' = [framed EXCEPT ![d] = Greatest(ends \cup {framed[d]})]
        /\ seqno' = [seqno EXCEPT ![d] = @ + Cardinality(ends)]
        /\ framed'[d] \in ends \cup {framed[d]} /\ \A x \in ends : x <= framed'[d]
        /\ framed'[d] \in Nat
        /\ Process(d, [next |-> framed[d] + 1, end |-> framed'[d], seq |-> seqno[d]], "run")
    <3>1. n \in Nat /\ framed[d] <= taken[d] /\ Read(d, n)
      BY <1>9, <2>1
    <3> QED
      BY ONLY <3>1, ReadDoes, TypeOK, d \in Dir
  <2>5. b \in [next : Nat, end : Nat, seq : Nat]
    <3>1. framed'[d] \in Nat /\ framed[d] \in Nat /\ seqno[d] \in Nat
      BY <1>0, <2>4
    <3> QED
      BY <3>1
  <2>6. taken'[d] = taken[d] + n /\ seqno'[d] = seqno[d] + Cardinality(ends)
    BY <1>0, <2>4
  <2>7. e # d => KeepsBytes(e)
    BY <1>0, <2>4 DEF KeepsBytes
  <2> HIDE DEF b
  <2>a. b \in [next : Nat, end : Nat, seq : Nat] /\ Process(d, b, "run")
    BY <2>4, <2>5 DEF b
  <2>8. /\ Batches(d, b, "run")
        /\ e # d => /\ task'[e] = task[e] /\ KeepsRecord(e) /\ KeepsGate(e) /\ KeepsFrame(e)
                    /\ (e \in cancelling' => e \in cancelling)
    BY <1>p, <2>3, <2>a
  <2>9. Feeds(d)
    BY <2>2, <2>3, <2>4, <2>6, <2>8 DEF Feeds, b
  <2> QED
    BY <2>3, <2>7, <2>8, <2>9 DEF StepOf, Stands, KeepsTask
<1>10. ASSUME NEW e \in Dir, SessionStep \/ ClosedStep PROVE Calm /\ StepOf(e)
  <2>1. /\ Calm /\ KeepsBytes(e) /\ KeepsRecord(e) /\ KeepsFrame(e) /\ KeepsGate(e)
        /\ cancelling' = cancelling
    BY <1>10, <1>g DEF SessionStep, ClosedStep, StartSession, CloseClient, CloseServer, Cleanup, MarkClosed,
       PublishClosed, KeepsBytes, KeepsRecord, KeepsFrame
  <2>2. CASE StartSession
    <3>1. task'[e] = "created" /\ task[e] = "new"
      BY <2>2 DEF StartSession, ControlInv
    <3> QED
      BY <2>1, <3>1 DEF StepOf, Turns
  <2>3. CASE UNCHANGED task
    BY <2>1, <2>3 DEF StepOf, Stands, KeepsTask
  <2> QED
    BY <1>10, <2>2, <2>3 DEF SessionStep, ClosedStep, CloseClient, CloseServer, Cleanup, PublishClosed
<1>11. ASSUME NEW e \in Dir, Terminate PROVE Calm /\ StepOf(e)
  <2>1. /\ Calm /\ KeepsBytes(e) /\ KeepsRecord(e) /\ KeepsFrame(e) /\ task'[e] = task[e]
    BY <1>11 DEF Terminate, MarkClosed, KeepsBytes, KeepsRecord, KeepsFrame
  <2>2. CASE UNCHANGED <<cancelling, stage, verdict>>
    BY <1>g, <2>1, <2>2 DEF StepOf, Stands, KeepsTask
  <2>3. CASE AbandonHeld
    <3> DEFINE U == {CurrentUnit(d) : d \in {x \in Live \ cancelling : task[x] = "held"}}
    <3>1. CASE U = {} /\ UNCHANGED <<stage, verdict>>
      <4>1. KeepsGate(e) /\ KeepsOthers(e)
        BY <1>g, <3>1 DEF KeepsGate, KeepsOthers
      <4>2. ~(task[e] = "held" /\ e \notin cancelling)
        BY <3>1 DEF Live, Ended
      <4> QED
        BY <2>1, <4>1, <4>2 DEF StepOf, IsCancelled
    <3>2. CASE U # {} /\ Gate!Abandon(U)
      <4>1. /\ stage' = [u \in Unit |-> IF u \in U THEN "abandoned" ELSE stage[u]] /\ verdict' = verdict
            /\ \A u \in U : stage[u] \in {"held", "decided"}
        BY <3>2 DEF Gate!Abandon
      <4>2. \A x \in 1..Length[e] : <<e, x>> \in U =>
               x = batch[e].next /\ task[e] = "held" /\ e \notin cancelling
        BY DEF CurrentUnit
      <4>3. task[e] = "held" /\ e \notin cancelling => CurrentUnit(e) \in U
        BY DEF Live, Ended
      <4> HIDE DEF U
      <4>4. \A x \in 1..Length[e] : <<e, x>> \notin U => SameUnit(e, x)
        BY <1>u, <4>1 DEF SameUnit
      <4>5. KeepsOthers(e)
        BY <4>2, <4>4 DEF KeepsOthers
      <4>6. CASE task[e] = "held" /\ e \notin cancelling
        <5>1. CurrentUnit(e) \in Unit
          BY <1>u, <4>6 DEF Busy
        <5>2. /\ stage[CurrentUnit(e)] \in {"held", "decided"} /\ stage'[CurrentUnit(e)] = "abandoned"
              /\ verdict'[CurrentUnit(e)] = verdict[CurrentUnit(e)]
          BY <4>1, <4>3, <4>6, <5>1
        <5> QED
          BY <2>1, <4>5, <4>6, <5>2 DEF StepOf, IsCancelled
      <4>7. CASE ~(task[e] = "held" /\ e \notin cancelling)
        <5>1. KeepsGate(e)
          BY <4>2, <4>4, <4>7 DEF KeepsGate
        <5> QED
          BY <2>1, <4>5, <4>7, <5>1 DEF StepOf, IsCancelled
      <4> QED
        BY <4>6, <4>7
    <3> QED
      BY <2>3, <3>1, <3>2 DEF AbandonHeld
  <2> QED
    BY <1>11, <2>2, <2>3 DEF Terminate
<1>12. ASSUME SwapFramers PROVE World /\ \A e \in Dir : StepOf(e)
  <2>1. ASSUME NEW e \in Dir PROVE IsSwapped(e)
    BY <1>12, <1>g DEF SwapFramers, IsSwapped, KeepsRecord, KeepsTask, KeepsFrame
  <2> QED
    BY <1>12, <2>1 DEF SwapFramers, World, StepOf
<1>13. ASSUME NEW d \in Dir, NEW e \in Dir, InjectWrite(d) PROVE Calm /\ StepOf(e)
  <2>1. Calm /\ KeepsBytes(e) /\ KeepsTask(e) /\ KeepsGate(e) /\ log' = log
    BY <1>13, <1>g DEF InjectWrite, KeepsBytes, KeepsTask, KeepsFrame
  <2>2. CASE wrote' = wrote
    BY <2>1, <2>2 DEF StepOf, Stands, KeepsRecord
  <2>3. CASE wrote' = [wrote EXCEPT ![d] = Append(@, [first |-> 0, last |-> 0, seq |-> 0, kind |-> "injected"])]
    <3> DEFINE f == [first |-> 0, last |-> 0, seq |-> 0, kind |-> "injected"]
    <3>1. f \in Frame /\ f.kind = "injected"
      BY DEF Frame
    <3> HIDE DEF f
    <3>2. CASE e = d
      <4>1. wrote'[d] = Append(wrote[d], f)
        BY <1>0, <2>3 DEF f
      <4> QED
        BY <2>1, <3>1, <3>2, <4>1 DEF StepOf, IsInjected, KeepsBytes
    <3>3. CASE e # d
      <4>1. wrote'[e] = wrote[e]
        BY <1>0, <2>3, <3>3
      <4> QED
        BY <2>1, <4>1 DEF StepOf, Stands, KeepsRecord
    <3> QED
      BY <3>2, <3>3
  <2> QED
    BY <1>13, <2>2, <2>3 DEF InjectWrite, Write
<1>14. ASSUME NEW d \in Dir, NEW e \in Dir, InjectLog(d) PROVE Calm /\ StepOf(e)
  <2>1. /\ Calm /\ KeepsTask(e) /\ KeepsGate(e) /\ UNCHANGED <<framed, taken, wrote, registered>>
    BY <1>14, <1>g DEF InjectLog, KeepsTask, KeepsFrame
  <2>2. CASE e = d
    <3> DEFINE f == [first |-> 0, last |-> 0, kind |-> "injected",
                     seq |-> IF registered THEN seqno[d] ELSE Len(log[d])]
    <3>1. Len(log[d]) \in Nat
      BY <1>0, LenProperties
    <3>2. f \in Frame /\ f.kind = "injected" /\ (registered => f.seq = seqno[d])
      BY <1>0, <3>1 DEF Frame
    <3>3. log'[d] = Append(log[d], f) /\ (registered => seqno'[d] = seqno[d] + 1)
      BY <1>0, <1>14 DEF InjectLog
    <3> HIDE DEF f
    <3> QED
      BY <2>1, <2>2, <3>2, <3>3 DEF StepOf, IsInjected
  <2>3. CASE e # d
    <3>1. seqno'[e] = seqno[e] /\ log'[e] = log[e]
      BY <1>0, <1>14, <2>3 DEF InjectLog
    <3> QED
      BY <2>1, <3>1 DEF StepOf, Stands, KeepsBytes, KeepsRecord
  <2> QED
    BY <2>2, <2>3
<1>15. ASSUME NEW d \in Dir, NEW e \in Dir, InjectFails(d) \/ PeerCloses(d) PROVE Calm /\ StepOf(e)
  BY <1>15, <1>g DEF InjectFails, PeerCloses, StepOf, Stands, KeepsBytes, KeepsRecord, KeepsTask, KeepsFrame
<1>16. ASSUME NEW U, NEW a \in Gate!Action, Decide(U, a), NEW e \in Dir PROVE Calm /\ StepOf(e)
  <2>1. Calm /\ KeepsBytes(e) /\ KeepsTask(e) /\ KeepsRecord(e)
    BY <1>16 DEF Decide, KeepsBytes, KeepsRecord, KeepsTask, KeepsFrame
  <2>2. /\ stage' = [u \in Unit |-> IF u \in U THEN "decided" ELSE stage[u]]
        /\ verdict' = [u \in Unit |-> IF u \in U THEN a ELSE verdict[u]]
        /\ \A u \in U : stage[u] = "held"
    BY <1>16 DEF Decide, Gate!Decide
  <2>3. IsTold(e)
    <3>1. ASSUME NEW x \in 1..Length[e]
          PROVE  \/ SameUnit(e, x)
                 \/ /\ stage[<<e, x>>] = "held" /\ stage'[<<e, x>>] = "decided"
                    /\ verdict'[<<e, x>>] \in Gate!Action
      BY <1>u, <2>2 DEF SameUnit
    <3> QED
      BY <2>1, <3>1 DEF IsTold
  <2> QED
    BY <2>1, <2>3 DEF StepOf
<1>17. ASSUME ForwardAll, NEW e \in Dir PROVE Calm /\ StepOf(e)
  <2>1. "FORWARD" \in Gate!Action
    BY DEF Gate!Action
  <2> QED
    BY <1>16, <1>17, <2>1 DEF ForwardAll
<1>18. ASSUME UNCHANGED vars, NEW e \in Dir PROVE Calm /\ StepOf(e)
  BY <1>18, <1>g DEF vars, StepOf, Stands, KeepsBytes, KeepsRecord, KeepsTask, KeepsFrame
<1>19. ASSUME NEW d \in Dir, RelayStep(d) \/ DrainStep(d), NEW e \in Dir PROVE Calm /\ StepOf(e)
  BY <1>1, <1>2, <1>3, <1>4, <1>5, <1>6, <1>7, <1>8, <1>19, <1>21 DEF RelayStep, DrainStep
<1>20. ASSUME NEW e \in Dir, ~SwapFramers PROVE Calm /\ StepOf(e)
  BY <1>2, <1>9, <1>10, <1>11, <1>13, <1>14, <1>15, <1>16, <1>17, <1>18, <1>19, <1>20 DEF Next
<1> QED
  <2>1. CASE SwapFramers
    BY <1>12, <2>1
  <2>2. CASE ~SwapFramers
    <3>1. ASSUME NEW e \in Dir PROVE Calm /\ StepOf(e)
      BY <1>20, <2>2
    <3>2. Calm
      BY <3>1 DEF Dir
    <3> QED
      BY <3>1, <3>2 DEF World
  <2> QED
    BY <2>1, <2>2

------------------------------------------------------------------------------
(* The bytes, the batch and the gate                                        *)

\* Every step keeps the batch within what left the framer, and what left the
\* framer within what was read.
LEMMA BatchStep ==
  ASSUME TypeOK, TypeOK', NEW d \in Dir, BatchInv(d), World, StepOf(d)
  PROVE  BatchInv(d)'
<1>0. /\ taken[d] \in Nat /\ framed[d] \in Nat /\ taken'[d] \in Nat /\ framed'[d] \in Nat
      /\ Length[d] \in Nat /\ swaps \in Nat
      /\ batch[d] \in [next : Nat, end : Nat, seq : Nat]
      /\ mode[d] \in {"run", "flush", "unwind"}
  BY RelayAssumption DEF TypeOK
<1>w. swaps' = 0 => swaps = 0
  BY <1>0, d \in Dir DEF World, IsSwapped
<1>1. ASSUME KeepsFrame(d), framed'[d] = framed[d], taken'[d] = taken[d],
             task'[d] \in Busy => task[d] \in Busy,
             mode[d] = "run" => task'[d] \notin {"eof", "updating", "finished"},
             mode[d] = "unwind" => task'[d] \notin {"updating", "finished"},
             mode[d] # "run" => task'[d] \notin {"new", "created", "read"}
      PROVE  BatchInv(d)'
  BY <1>1, <1>w DEF BatchInv, KeepsFrame
<1>2. CASE Stands(d)
  BY <1>1, <1>2 DEF Stands, KeepsTask, KeepsBytes, BatchInv
<1>3. CASE Turns(d)
  BY <1>1, <1>3 DEF Turns, KeepsBytes, BatchInv, Busy
<1>4. ASSUME NEW b \in [next : Nat, end : Nat, seq : Nat], NEW m \in {"run", "flush", "unwind"},
             Batches(d, b, m),
             1 <= b.next, b.end <= framed'[d], framed'[d] <= taken'[d], taken'[d] <= Length[d],
             swaps = 0 /\ b.next <= b.end => b.end = framed'[d], m # "run" => framed'[d] = taken'[d]
      PROVE  BatchInv(d)'
  BY <1>4, <1>w DEF BatchInv, Batches, Busy
<1>5. CASE Feeds(d)
  <2>1. framed'[d] <= taken'[d]
    BY <1>0, <1>5 DEF Feeds, BatchInv
  <2>2. [next |-> framed[d] + 1, end |-> framed'[d], seq |-> seqno[d]] \in [next : Nat, end : Nat, seq : Nat]
    <3>1. seqno[d] \in Nat
      BY DEF TypeOK
    <3> QED
      BY <1>0, <3>1
  <2> QED
    BY <1>0, <1>4, <1>5, <2>1, <2>2 DEF Feeds
<1>6. ASSUME NEW m \in {"flush", "unwind"}, Leaves(d, m) PROVE BatchInv(d)'
  <2>1. [next |-> framed[d] + 1, end |-> taken[d], seq |-> seqno[d]] \in [next : Nat, end : Nat, seq : Nat]
    <3>1. seqno[d] \in Nat
      BY DEF TypeOK
    <3> QED
      BY <1>0, <3>1
  <2> QED
    BY <1>0, <1>4, <1>6, <2>1 DEF Leaves, BatchInv
<1>7. CASE Proceeds(d)
  <2> DEFINE b == [next |-> Current(d).last + 1, end |-> batch[d].end, seq |-> batch[d].seq + 1]
  <2>1. task[d] \in Busy /\ framed'[d] = framed[d] /\ taken'[d] = taken[d] /\ Batches(d, b, mode[d])
    BY <1>7 DEF Proceeds, Busy, KeepsBytes
  <2>2. Current(d).last \in Nat
    BY <2>1, CurrentFacts
  <2>3. b \in [next : Nat, end : Nat, seq : Nat] /\ 1 <= b.next /\ b.end = batch[d].end
    BY <1>0, <2>2
  <2> HIDE DEF b
  <2>4. /\ b.end <= framed'[d] /\ framed'[d] <= taken'[d] /\ taken'[d] <= Length[d]
        /\ (swaps = 0 => b.end = framed'[d]) /\ (mode[d] # "run" => framed'[d] = taken'[d])
    BY <2>1, <2>3 DEF BatchInv
  <2> QED
    BY <1>0, <1>4, <2>1, <2>3, <2>4
<1>8. CASE Gates(d)
  BY <1>1, <1>8 DEF Gates, KeepsBytes, BatchInv, Busy
<1>9. CASE Relogs(d)
  BY <1>1, <1>9 DEF Relogs, BatchInv, Busy
<1>10. CASE Sends(d)
  BY <1>1, <1>10 DEF Sends, KeepsBytes, BatchInv, Busy
<1>11. CASE IsTold(d)
  BY <1>1, <1>11 DEF IsTold, KeepsTask, KeepsBytes, BatchInv
<1>12. CASE IsCancelled(d)
  BY <1>1, <1>12 DEF IsCancelled, KeepsBytes, BatchInv
<1>13. CASE IsSwapped(d)
  <2>1. swaps' # 0
    BY <1>0, <1>13 DEF IsSwapped
  <2> QED
    BY <1>0, <1>13, <2>1 DEF IsSwapped, KeepsTask, KeepsFrame, BatchInv
<1>14. CASE IsInjected(d)
  BY <1>1, <1>14 DEF IsInjected, KeepsTask, BatchInv
<1> QED
  BY <1>2, <1>3, <1>5, <1>6, <1>7, <1>8, <1>9, <1>10, <1>11, <1>12, <1>13, <1>14 DEF StepOf

\* A frame in hand has a unit the gate has not let go yet, or one it just did.
LEMMA GateInvStep ==
  ASSUME TypeOK, TypeOK', NEW d \in Dir, BatchInv(d), BatchInv(d)', GateInv(d), StepOf(d)
  PROVE  GateInv(d)'
<1>0. /\ taken[d] \in Nat /\ framed[d] \in Nat /\ taken'[d] \in Nat /\ framed'[d] \in Nat
      /\ Length[d] \in Nat /\ framed[d] <= taken[d]
      /\ batch[d].next \in Nat /\ batch[d].end \in Nat
  BY RelayAssumption DEF TypeOK, BatchInv
<1> DEFINE C == CurrentUnit(d)
<1>u. /\ C = <<d, batch[d].next>>
      /\ task[d] \in Busy => batch[d].next \in 1..Length[d]
  BY UnitFacts DEF CurrentUnit
<1>k. ASSUME KeepsFrame(d), KeepsGate(d), framed[d] <= framed'[d],
             task'[d] \in Busy => task[d] \in Busy,
             task'[d] = "captured" => task[d] = "captured",
             task[d] = "held" /\ d \notin cancelling => task'[d] = "held" /\ d \notin cancelling',
             task'[d] \in {"completed", "relogged", "drain"} => task[d] \in {"completed", "relogged", "drain"},
             task'[d] = "relogged" => verdict[C] = "MODIFIED"
      PROVE  GateInv(d)'
  <2>1. CurrentUnit(d)' = C /\ batch'[d] = batch[d]
    BY <1>k DEF CurrentUnit, KeepsFrame
  <2>2. \A x \in 1..Length[d] : x <= framed[d] => x <= framed'[d]
    BY <1>0, <1>k
  <2>3. \A x \in 1..Length[d] : SameUnit(d, x)
    BY <1>k DEF KeepsGate
  <2>4. task'[d] \in Busy => SameUnit(d, batch[d].next)
    BY <1>k, <1>u, <2>3
  <2>5. /\ task'[d] \in {"completed", "relogged", "drain"} => stage'[C] = "released"
        /\ task'[d] = "relogged" => verdict'[C] = "MODIFIED"
    BY <1>k, <1>u, <2>4 DEF GateInv, UnitInv, SameUnit, Busy
  <2>6. ASSUME NEW x \in 1..Length[d]
        PROVE  UnitInv(d, x)'
    BY <1>k, <2>1, <2>2, <2>3 DEF GateInv, UnitInv, SameUnit
  <2> QED
    BY <2>1, <2>5, <2>6 DEF GateInv
<1>b. ASSUME NEW b, NEW m, Batches(d, b, m), b.next \in Nat, framed[d] <= framed'[d],
             \A x \in 1..Length[d] : stage[<<d, x>>] # "new" => x < b.next,
             \A x \in 1..Length[d] : stage[<<d, x>>] # "held"
      PROVE  GateInv(d)'
  <2>1. \A x \in 1..Length[d] : x <= framed[d] => x <= framed'[d]
    BY <1>0, <1>b
  <2>2. batch'[d] = b /\ task'[d] \notin {"completed", "relogged", "drain", "held"}
    BY <1>b DEF Batches
  <2>3. ASSUME NEW x \in 1..Length[d]
        PROVE  UnitInv(d, x)'
    <3>1. SameUnit(d, x)
      BY <1>b DEF Batches, KeepsGate
    <3> QED
      BY <1>b, <2>1, <2>2, <3>1 DEF GateInv, UnitInv, SameUnit
  <2> QED
    BY <2>2, <2>3 DEF GateInv, UnitInv, Gate!Action
<1>2. CASE Stands(d)
  BY <1>0, <1>k, <1>2 DEF Stands, KeepsTask, KeepsBytes, GateInv, UnitInv
<1>3. CASE Turns(d)
  <2>1. KeepsFrame(d) /\ KeepsGate(d) /\ framed[d] <= framed'[d] /\ task'[d] \notin Busy
    BY <1>0, <1>3 DEF Turns, KeepsBytes, Busy
  <2>2. task[d] = "held" => d \in cancelling
    BY <1>3 DEF Turns
  <2> QED
    BY <1>k, <2>1, <2>2 DEF Busy
<1>5. CASE Feeds(d)
  <2>1. framed[d] <= framed'[d] /\ task[d] = "read"
    BY <1>0, <1>5 DEF Feeds
  <2>2. \A x \in 1..Length[d] : stage[<<d, x>>] # "held" /\ (stage[<<d, x>>] # "new" => x < framed[d] + 1)
    BY <1>0, <2>1 DEF GateInv, UnitInv
  <2> QED
    BY <1>0, <1>b, <1>5, <2>1, <2>2 DEF Feeds
<1>6. ASSUME NEW m \in {"flush", "unwind"}, Leaves(d, m) PROVE GateInv(d)'
  <2>1. framed[d] <= framed'[d] /\ (task[d] # "held" \/ d \in cancelling)
    BY <1>0, <1>6 DEF Leaves
  <2>2. \A x \in 1..Length[d] : stage[<<d, x>>] # "held" /\ (stage[<<d, x>>] # "new" => x < framed[d] + 1)
    BY <1>0, <2>1 DEF GateInv, UnitInv
  <2> QED
    BY <1>0, <1>b, <1>6, <2>1, <2>2 DEF Leaves
<1>7. CASE Proceeds(d)
  <2> DEFINE b == [next |-> Current(d).last + 1, end |-> batch[d].end, seq |-> batch[d].seq + 1]
  <2>1. task[d] \in Busy /\ task[d] # "held" /\ framed'[d] = framed[d] /\ Batches(d, b, mode[d])
    BY <1>7 DEF Proceeds, Busy, KeepsBytes
  <2>2. Current(d).last \in Nat /\ batch[d].next <= Current(d).last
    BY <2>1, CurrentFacts
  <2>3. \A x \in 1..Length[d] : stage[<<d, x>>] # "held" /\ (stage[<<d, x>>] # "new" => x < b.next)
    BY <1>0, <2>1, <2>2 DEF GateInv, UnitInv
  <2>4. b.next \in Nat
    BY <2>2
  <2> HIDE DEF b
  <2>5. framed[d] <= framed'[d]
    BY <1>0, <2>1
  <2> QED
    BY <1>b, <2>1, <2>3, <2>4, <2>5
<1>8. CASE Gates(d)
  <2>1. /\ framed'[d] = framed[d] /\ batch'[d] = batch[d] /\ KeepsOthers(d) /\ d \notin cancelling'
        /\ task[d] \in {"captured", "held"} /\ task'[d] \in {"held", "completed"}
        /\ stage'[C] \in {"held", "released"} /\ stage[C] \in {"new", "decided"}
        /\ stage'[C] = "held" => task'[d] = "held"
        /\ task'[d] = "completed" => stage'[C] = "released"
    BY <1>8 DEF Gates, KeepsBytes, KeepsFrame
  <2>2. CurrentUnit(d)' = C /\ batch[d].next \in 1..Length[d] /\ batch[d].next <= framed[d]
    BY <1>0, <1>u, <2>1 DEF CurrentUnit, Busy, BatchInv
  <2>3. stage'[C] = "released" => verdict'[C] \in Gate!Action
    BY <1>8, <1>u, <2>2 DEF Gates, Gate!Action, GateInv, UnitInv
  <2>4. ASSUME NEW x \in 1..Length[d]
        PROVE  UnitInv(d, x)'
    <3>1. CASE x = batch[d].next
      BY <1>0, <1>u, <2>1, <2>2, <2>3, <3>1 DEF UnitInv
    <3>2. CASE x # batch[d].next
      <4>1. SameUnit(d, x)
        BY <2>1, <3>2 DEF KeepsOthers
      <4>2. task[d] = "held" => stage[<<d, x>>] # "held"
        BY <3>2 DEF GateInv, UnitInv
      <4>3. stage[<<d, x>>] # "held"
        BY <2>1, <4>2 DEF GateInv, UnitInv
      <4> QED
        BY <2>1, <4>1, <4>3 DEF GateInv, UnitInv, SameUnit, Busy
    <3> QED
      BY <3>1, <3>2
  <2> QED
    BY <2>1, <2>2, <2>4 DEF GateInv, UnitInv, Gate!Action
<1>9. CASE Relogs(d)
  BY <1>0, <1>k, <1>9 DEF Relogs, Busy
<1>10. CASE Sends(d)
  BY <1>0, <1>k, <1>10 DEF Sends, KeepsBytes, Busy
<1>11. CASE IsTold(d)
  <2>1. /\ framed'[d] = framed[d] /\ batch'[d] = batch[d] /\ task'[d] = task[d]
        /\ d \in cancelling' => d \in cancelling
    BY <1>11 DEF IsTold, KeepsBytes, KeepsTask, KeepsFrame
  <2>2. CurrentUnit(d)' = C
    BY <2>1 DEF CurrentUnit
  <2>3. ASSUME NEW x \in 1..Length[d]
        PROVE  UnitInv(d, x)'
    BY <1>11, <2>1 DEF IsTold, SameUnit, GateInv, UnitInv
  <2>4. /\ task[d] \in {"completed", "relogged", "drain"} => SameUnit(d, batch[d].next)
    BY <1>11, <1>u DEF IsTold, GateInv, UnitInv, Busy
  <2> QED
    BY <1>u, <2>1, <2>2, <2>3, <2>4 DEF GateInv, UnitInv, SameUnit, Gate!Action
<1>12. CASE IsCancelled(d)
  <2>1. /\ framed'[d] = framed[d] /\ batch'[d] = batch[d] /\ task'[d] = task[d] /\ KeepsOthers(d)
    BY <1>12 DEF IsCancelled, KeepsBytes, KeepsFrame
  <2>2. CurrentUnit(d)' = C
    BY <2>1 DEF CurrentUnit
  <2>3. CASE task[d] = "held" /\ d \notin cancelling
    <3>1. stage'[C] = "abandoned" /\ stage[C] \in {"held", "decided"}
      BY <1>12, <2>3 DEF IsCancelled
    <3>2. ASSUME NEW x \in 1..Length[d]
          PROVE  UnitInv(d, x)'
      <4>1. CASE x = batch[d].next
        BY <1>u, <2>1, <2>3, <3>1, <4>1 DEF GateInv, UnitInv, Busy
      <4>2. CASE x # batch[d].next
        BY <2>1, <2>3, <4>2 DEF KeepsOthers, SameUnit, GateInv, UnitInv, Busy
      <4> QED
        BY <4>1, <4>2
    <3> QED
      BY <2>1, <2>3, <3>2 DEF GateInv, UnitInv, Gate!Action
  <2>4. CASE ~(task[d] = "held" /\ d \notin cancelling)
    <3>1. KeepsGate(d)
      BY <1>12, <2>4 DEF IsCancelled
    <3> QED
      BY <1>0, <1>k, <1>12, <2>1, <2>4, <3>1 DEF IsCancelled, GateInv, UnitInv
  <2> QED
    BY <2>3, <2>4
<1>13. CASE IsSwapped(d)
  BY <1>0, <1>k, <1>13 DEF IsSwapped, KeepsTask, GateInv, UnitInv
<1>14. CASE IsInjected(d)
  BY <1>0, <1>k, <1>14 DEF IsInjected, KeepsTask, GateInv, UnitInv
<1> QED
  BY <1>2, <1>3, <1>5, <1>6, <1>7, <1>8, <1>9, <1>10, <1>11, <1>12, <1>13, <1>14 DEF StepOf

------------------------------------------------------------------------------
(* The wire and the log                                                     *)

\* Log and wire only grow.
LEMMA RecordGrows ==
  ASSUME TypeOK, NEW d \in Dir, BatchInv(d), StepOf(d)
  PROVE  /\ \A i \in Indices(log[d]) : i \in Indices(log'[d]) /\ log'[d][i] = log[d][i]
         /\ \A i \in Indices(wrote[d]) : i \in Indices(wrote'[d]) /\ wrote'[d][i] = wrote[d][i]
<1>0. log[d] \in Seq(Frame) /\ wrote[d] \in Seq(Frame)
  BY DEF TypeOK
<1> DEFINE Grows(s, t) == \A i \in Indices(s) : i \in Indices(t) /\ t[i] = s[i]
<1>1. ASSUME NEW s \in Seq(Frame), NEW f \in Frame, NEW t, t = Append(s, f) PROVE Grows(s, t)
  BY <1>1, AppendFacts
<1>2. ASSUME NEW s PROVE Grows(s, s)
  OBVIOUS
<1> SUFFICES Grows(log[d], log'[d]) /\ Grows(wrote[d], wrote'[d])
  OBVIOUS
<1> HIDE DEF Grows
<1>h. ASSUME NEW b \in [next : Nat, end : Nat, seq : Nat], NEW m, Batches(d, b, m)
      PROVE  Grows(log[d], log'[d]) /\ Grows(wrote[d], wrote'[d])
  <2>1. b.next <= b.end => Head1(d, b) \in Frame
    BY HeadBounds
  <2> QED
    BY <1>0, <1>1, <1>2, <1>h, <2>1 DEF Batches
<1>t. /\ seqno[d] \in Nat /\ framed[d] \in Nat /\ taken[d] \in Nat /\ batch[d].end \in Nat
      /\ batch[d].seq \in Nat
  BY DEF TypeOK
<1>c. task[d] \in Busy => /\ Current(d) \in Frame /\ Current(d).last \in Nat
                          /\ \A k \in {"captured", "tamper"} : [Current(d) EXCEPT !.kind = k] \in Frame
                          /\ [Current(d) EXCEPT !.kind = "tamper", !.seq = seqno[d]] \in Frame
  <2>1. task[d] \in Busy => Current(d) \in Frame /\ Current(d).last \in Nat
    BY CurrentFacts
  <2> QED
    BY <1>t, <2>1 DEF Frame
<1>3. CASE KeepsRecord(d)
  BY <1>2, <1>3 DEF KeepsRecord
<1>4. CASE Feeds(d)
  <2>1. framed'[d] \in Nat
    BY <1>4, <1>t, RelayAssumption DEF Feeds
  <2>2. [next |-> framed[d] + 1, end |-> framed'[d], seq |-> seqno[d]] \in [next : Nat, end : Nat, seq : Nat]
    BY <1>t, <2>1
  <2> QED
    BY <1>h, <1>4, <2>2 DEF Feeds
<1>5. CASE Leaves(d, "flush") \/ Leaves(d, "unwind")
  <2>2. [next |-> framed[d] + 1, end |-> taken[d], seq |-> seqno[d]] \in [next : Nat, end : Nat, seq : Nat]
    BY <1>t
  <2> QED
    BY <1>h, <1>5, <2>2 DEF Leaves
<1>6. CASE Proceeds(d)
  <2> DEFINE b == [next |-> Current(d).last + 1, end |-> batch[d].end, seq |-> batch[d].seq + 1]
  <2>1. task[d] \in Busy /\ Batches(d, b, mode[d])
    BY <1>6 DEF Proceeds, Busy
  <2>2. b \in [next : Nat, end : Nat, seq : Nat]
    BY <1>c, <1>t, <2>1
  <2> HIDE DEF b
  <2> QED
    BY <1>h, <2>1, <2>2
<1>7. CASE Relogs(d)
  BY <1>0, <1>1, <1>2, <1>7, <1>c DEF Relogs, Busy
<1>8. CASE Sends(d)
  BY <1>0, <1>1, <1>2, <1>8, <1>c DEF Sends, Busy
<1>9. CASE IsInjected(d)
  BY <1>0, <1>1, <1>2, <1>9 DEF IsInjected
<1>10. KeepsRecord(d) \/ Feeds(d) \/ Leaves(d, "flush") \/ Leaves(d, "unwind") \/ Proceeds(d)
       \/ Relogs(d) \/ Sends(d) \/ IsInjected(d)
  BY DEF StepOf, Stands, Turns, Gates, IsTold, IsCancelled, IsSwapped
<1> QED
  BY <1>3, <1>4, <1>5, <1>6, <1>7, <1>8, <1>9, <1>10

\* What the gate released stays released, with its verdict.
LEMMA ReleasedStays ==
  ASSUME TypeOK, NEW d \in Dir, BatchInv(d), StepOf(d),
         NEW x \in 1..Length[d], stage[<<d, x>>] = "released"
  PROVE  SameUnit(d, x)
<1>1. CASE KeepsGate(d)
  BY <1>1 DEF KeepsGate
<1>2. CASE Gates(d)
  <2>1. stage[CurrentUnit(d)] # "released" /\ KeepsOthers(d)
    BY <1>2 DEF Gates
  <2> QED
    BY <2>1 DEF KeepsOthers, CurrentUnit
<1>3. CASE IsTold(d)
  BY <1>3 DEF IsTold
<1>4. CASE IsCancelled(d)
  BY <1>4 DEF IsCancelled, KeepsOthers, KeepsGate, CurrentUnit
<1>5. KeepsGate(d) \/ Gates(d) \/ IsTold(d) \/ IsCancelled(d)
  BY DEF StepOf, Stands, Turns, Feeds, Leaves, Proceeds, Batches, Relogs, Sends, IsSwapped, IsInjected
<1> QED
  BY <1>1, <1>2, <1>3, <1>4, <1>5

\* How far a direction has come: no further than what left its framer.
LEMMA ReachedFacts ==
  ASSUME TypeOK, NEW d \in Dir, BatchInv(d)
  PROVE  /\ Reached(d) \in Nat /\ Reached(d) <= framed[d]
         /\ task[d] \notin Busy => Reached(d) = framed[d]
         /\ task[d] = "drain" => Reached(d) = Current(d).last
         /\ task[d] \in Busy \ {"drain"} => Reached(d) = batch[d].next - 1
<1>0. /\ framed[d] \in Nat /\ batch[d].next \in Nat /\ batch[d].end \in Nat
      /\ 1 <= batch[d].next /\ batch[d].end <= framed[d]
      /\ task[d] \in Busy => batch[d].next <= batch[d].end
  BY DEF TypeOK, BatchInv
<1>c. task[d] \in Busy => Current(d).last \in Nat /\ Current(d).last <= batch[d].end
  BY CurrentFacts
<1>1. CASE task[d] = "drain"
  BY <1>0, <1>1, <1>c DEF Reached, Busy
<1>2. CASE task[d] \in Busy \ {"drain"}
  BY <1>0, <1>2 DEF Reached, Busy
<1>3. CASE task[d] \notin Busy
  BY <1>0, <1>3 DEF Reached, Busy
<1> QED
  BY <1>1, <1>2, <1>3 DEF Busy

\* With a new batch: up to its first frame, or all that left the framer.
LEMMA BatchReached ==
  ASSUME NEW d \in Dir, NEW b \in [next : Nat, end : Nat, seq : Nat], NEW m, Batches(d, b, m)
  PROVE  Reached(d)' = IF b.next <= b.end THEN b.next - 1 ELSE framed'[d]
<1>0. b.next \in Nat /\ b.end \in Nat /\ batch'[d] = b
  BY DEF Batches
<1>1. CASE b.next <= b.end
  <2>1. task'[d] = "captured"
    BY <1>0, <1>1 DEF Batches
  <2> QED
    BY <1>0, <1>1, <2>1 DEF Reached, Busy
<1>2. CASE ~(b.next <= b.end)
  <2>1. task'[d] \notin Busy
    BY <1>0, <1>2 DEF Batches, Busy
  <2> QED
    BY <1>2, <2>1 DEF Reached, Busy
<1> QED
  BY <1>1, <1>2

\* What a direction has newly disposed of after a step.
Gain(d) ==
    \/ Reached(d)' = Reached(d)
    \/ swaps' # 0 \/ mode'[d] = "unwind" \/ task'[d] = "cancelled"
    \/ /\ Reached(d)' = Current(d).last
       /\ Sends(d) \/ (task[d] = "completed" /\ verdict[CurrentUnit(d)] = "DROP")
    \/ \E x \in Nat : Costs(d, x) /\ Reached(d)' = x

\* It never shrinks; in the loop, and in the flush, it grows by nothing but the
\* frame that is dropped or written, or by what an exception costs.
LEMMA ReachedGrows ==
  ASSUME TypeOK, TypeOK', NEW d \in Dir, BatchInv(d), BatchInv(d)', World, StepOf(d)
  PROVE  /\ Reached(d)' \in Nat /\ Reached(d) <= Reached(d)' /\ Gain(d)
         /\ Leaves(d, "flush") => batch[d].end <= Reached(d)'
         /\ Proceeds(d) => Current(d).last <= Reached(d)'
<1>0. /\ taken[d] \in Nat /\ framed[d] \in Nat /\ framed[d] <= taken[d]
      /\ batch[d] \in [next : Nat, end : Nat, seq : Nat] /\ seqno[d] \in Nat
      /\ framed'[d] \in Nat /\ swaps \in Nat
      /\ 1 <= batch[d].next /\ batch[d].end <= framed[d]
      /\ task[d] \in Busy => batch[d].next <= batch[d].end
  BY DEF TypeOK, BatchInv
<1>r. /\ Reached(d) \in Nat /\ Reached(d) <= framed[d]
      /\ task[d] \notin Busy => Reached(d) = framed[d]
      /\ task[d] = "drain" => Reached(d) = Current(d).last
      /\ task[d] \in Busy \ {"drain"} => Reached(d) = batch[d].next - 1
  BY ReachedFacts
<1>c. task[d] \in Busy => /\ Current(d).last \in Nat /\ batch[d].next <= Current(d).last
                          /\ Current(d).last <= batch[d].end
  BY CurrentFacts
<1>k. ASSUME KeepsFrame(d) PROVE Current(d)' = Current(d) /\ batch'[d] = batch[d]
  BY <1>k DEF KeepsFrame, Current, Head1
<1>n. task'[d] \notin Busy => Reached(d)' = framed'[d]
  BY DEF Reached, Busy
<1>1. ASSUME NEW m \in {"flush", "unwind"}, Leaves(d, m)
      PROVE  /\ Reached(d)' \in Nat /\ Reached(d) <= Reached(d)' /\ batch[d].end <= Reached(d)'
             /\ \/ mode'[d] = "unwind" \/ swaps' # 0
                \/ Reached(d)' = IF task[d] \in Busy THEN batch[d].end ELSE Reached(d)
  <2> DEFINE b == [next |-> framed[d] + 1, end |-> taken[d], seq |-> seqno[d]]
  <2>1. b \in [next : Nat, end : Nat, seq : Nat]
    BY <1>0
  <2>2. Batches(d, b, m) /\ framed'[d] = taken[d] /\ mode'[d] = m
    BY <1>1 DEF Leaves, Batches
  <2>3. Reached(d)' = IF b.next <= b.end THEN b.next - 1 ELSE framed'[d]
    BY ONLY <2>1, <2>2, BatchReached, d \in Dir
  <2>4. Reached(d)' = framed[d]
    BY <1>0, <2>2, <2>3
  <2>5. task[d] \in Busy => swaps' # 0 \/ batch[d].end = framed[d]
    BY <1>0 DEF BatchInv, World, IsSwapped
  <2> QED
    BY <1>0, <1>r, <2>2, <2>4, <2>5
<1>2. ASSUME Proceeds(d)
      PROVE  /\ Reached(d)' \in Nat /\ Reached(d) <= Reached(d)' /\ Current(d).last <= Reached(d)'
             /\ swaps' # 0 \/ Reached(d)' = Current(d).last
             /\ task[d] = "drain" => swaps' # 0 \/ Reached(d)' = Reached(d)
  <2> DEFINE b == [next |-> Current(d).last + 1, end |-> batch[d].end, seq |-> batch[d].seq + 1]
  <2>1. /\ task[d] \in {"captured", "completed", "drain"}
        /\ Batches(d, b, mode[d]) /\ framed'[d] = framed[d]
    BY <1>2 DEF Proceeds, KeepsBytes
  <2>2. /\ Current(d).last \in Nat /\ batch[d].next <= Current(d).last
        /\ Current(d).last <= batch[d].end
    BY <1>c, <2>1 DEF Busy
  <2>3. b \in [next : Nat, end : Nat, seq : Nat]
    BY <1>0, <2>2
  <2>4. Reached(d)' = IF b.next <= b.end THEN b.next - 1 ELSE framed'[d]
    BY ONLY <2>1, <2>3, BatchReached, d \in Dir
  <2>5. /\ Reached(d)' \in Nat /\ Current(d).last <= Reached(d)'
        /\ batch[d].end = framed[d] => Reached(d)' = Current(d).last
    BY <1>0, <2>1, <2>2, <2>4
  <2>6. swaps' # 0 \/ batch[d].end = framed[d]
    BY <1>0, <2>1 DEF BatchInv, Busy, World, IsSwapped
  <2>7. Reached(d) = IF task[d] = "drain" THEN Current(d).last ELSE batch[d].next - 1
    BY <1>r, <2>1 DEF Busy
  <2> QED
    BY <1>0, <2>1, <2>2, <2>5, <2>6, <2>7
<1>3. /\ Leaves(d, "flush") => batch[d].end <= Reached(d)'
      /\ Proceeds(d) => Current(d).last <= Reached(d)'
  BY <1>1, <1>2
<1> SUFFICES Reached(d)' \in Nat /\ Reached(d) <= Reached(d)' /\ Gain(d)
  BY <1>3
<1> USE DEF Gain
<1>4. CASE KeepsFrame(d) /\ task'[d] = task[d] /\ framed'[d] = framed[d]
  <2>1. Reached(d)' = Reached(d)
    BY <1>k, <1>4 DEF Reached
  <2> QED
    BY <1>r, <2>1
<1>5. CASE Turns(d)
  <2>1. framed'[d] = framed[d] /\ Reached(d)' = framed[d]
    BY <1>5, <1>n DEF Turns, KeepsBytes, Busy
  <2>2. CASE task'[d] = "cancelled"
    BY <1>0, <1>r, <2>1, <2>2
  <2>3. CASE task'[d] # "cancelled"
    <3>1. task[d] \notin Busy
      BY <1>5, <2>3 DEF Turns, Busy
    <3> QED
      BY <1>0, <1>r, <2>1, <3>1
  <2> QED
    BY <2>2, <2>3
<1>6. CASE Feeds(d)
  <2> DEFINE b == [next |-> framed[d] + 1, end |-> framed'[d], seq |-> seqno[d]]
  <2>1. b \in [next : Nat, end : Nat, seq : Nat]
    BY <1>0
  <2>2. Batches(d, b, "run") /\ task[d] \notin Busy /\ framed[d] <= framed'[d]
    BY <1>0, <1>6 DEF Feeds, Busy
  <2>3. Reached(d)' = IF b.next <= b.end THEN b.next - 1 ELSE framed'[d]
    BY ONLY <2>1, <2>2, BatchReached, d \in Dir
  <2>4. Reached(d)' = framed[d]
    BY <1>0, <2>2, <2>3
  <2> QED
    BY <1>0, <1>r, <2>2, <2>4
<1>7. CASE Gates(d) \/ Relogs(d)
  <2>1. /\ KeepsFrame(d) /\ task[d] \in Busy \ {"drain"} /\ task'[d] \in Busy \ {"drain"}
    BY <1>7 DEF Gates, Relogs, Busy
  <2>2. Reached(d)' = batch[d].next - 1
    BY <1>k, <2>1 DEF Reached
  <2> QED
    BY <1>r, <2>1, <2>2
<1>8. CASE Sends(d)
  <2>1. KeepsFrame(d) /\ task[d] \in Busy \ {"drain"} /\ task'[d] = "drain"
    BY <1>8 DEF Sends, Busy
  <2>2. Reached(d)' = Current(d).last
    BY <1>k, <2>1 DEF Reached
  <2> QED
    BY <1>0, <1>8, <1>c, <1>r, <2>1, <2>2
<1>9. CASE IsSwapped(d)
  <2>1. swaps' # 0 /\ framed'[d] = taken[d] /\ KeepsFrame(d) /\ task'[d] = task[d]
    BY <1>0, <1>9 DEF IsSwapped, KeepsTask
  <2>2. Reached(d)' = IF task[d] \in Busy THEN Reached(d) ELSE framed'[d]
    BY <1>k, <2>1 DEF Reached, Busy
  <2> QED
    BY <1>0, <1>r, <2>1, <2>2
<1>10. \/ KeepsFrame(d) /\ task'[d] = task[d] /\ framed'[d] = framed[d]
       \/ Turns(d) \/ Feeds(d) \/ (Leaves(d, "flush") /\ LeavesFor(d)) \/ Leaves(d, "unwind")
       \/ (Proceeds(d) /\ ProceedsFor(d)) \/ Gates(d) \/ Relogs(d) \/ Sends(d) \/ IsSwapped(d)
  BY DEF StepOf, Stands, IsTold, IsCancelled, IsInjected, KeepsTask, KeepsBytes
<1>11. CASE Leaves(d, "flush") /\ LeavesFor(d)
  <2>1. CASE task[d] = "read"
    BY <1>1, <1>11, <2>1 DEF Busy
  <2>2. CASE Costs(d, batch[d].end)
    <3>1. task[d] \in Busy
      BY <2>2 DEF Costs, Busy
    <3> QED
      BY <1>0, <1>1, <1>11, <2>2, <3>1
  <2> QED
    BY <1>11, <2>1, <2>2 DEF LeavesFor
<1>12. CASE Proceeds(d) /\ ProceedsFor(d)
  <2>1. CASE task[d] = "drain"
    BY <1>2, <1>12, <2>1
  <2>2. CASE task[d] = "completed" /\ verdict[CurrentUnit(d)] = "DROP"
    BY <1>2, <1>12, <2>2
  <2>3. CASE Costs(d, Current(d).last)
    <3>1. Current(d).last \in Nat
      BY <1>c, <2>3 DEF Costs, Busy
    <3> QED
      BY <1>2, <1>12, <2>3, <3>1
  <2> QED
    BY <1>12, <2>1, <2>2, <2>3 DEF ProceedsFor
<1>13. CASE Leaves(d, "unwind")
  <2>1. mode'[d] = "unwind"
    BY <1>13 DEF Leaves, Batches
  <2> QED
    BY <1>1, <1>13, <2>1
<1> QED
  BY <1>4, <1>5, <1>6, <1>7, <1>8, <1>9, <1>10, <1>11, <1>12, <1>13

\* What was written stays as it was written: no further than the direction has
\* come, with the verdict it got, and logged.
LEMMA WrittenStays ==
  ASSUME TypeOK, TypeOK', NEW d \in Dir, BatchInv(d), BatchInv(d)', World, StepOf(d),
         NEW f \in Frame, Written(d, f)
  PROVE  Written(d, f)'
<1>1. Reached(d) <= Reached(d)' /\ Reached(d) \in Nat /\ Reached(d)' \in Nat
  BY ReachedGrows, ReachedFacts
<1>2. f.first \in 1..Length[d] /\ f.last <= Reached(d)' /\ f.last \in Nat
  <2>1. f.last \in Nat
    BY DEF Frame
  <2> QED
    BY <1>1, <2>1 DEF Written
<1>3. SameUnit(d, f.first)
  BY <1>2, ReleasedStays DEF Written
<1>4. PICK j \in Indices(log[d]) : SameBytes(log[d][j], f)
  BY DEF Written
<1>5. j \in Indices(log'[d]) /\ log'[d][j] = log[d][j]
  BY RecordGrows
<1>6. SameBytes(log'[d][j], f)
  BY <1>4, <1>5
<1> QED
  BY <1>2, <1>3, <1>5, <1>6 DEF Written, SameUnit

\* A direction writes the frame in hand behind all it wrote, once the gate
\* released it and with the bytes the log has.
LEMMA WireStep ==
  ASSUME TypeOK, TypeOK', NEW d \in Dir, BatchInv(d), BatchInv(d)', World, StepOf(d),
         GateInv(d), WireInv(d)
  PROVE  WireInv(d)'
<1>0. /\ log[d] \in Seq(Frame) /\ wrote[d] \in Seq(Frame)
      /\ log'[d] \in Seq(Frame) /\ wrote'[d] \in Seq(Frame)
  BY DEF TypeOK
<1>g. /\ \A i \in Indices(log[d]) : i \in Indices(log'[d]) /\ log'[d][i] = log[d][i]
      /\ \A i \in Indices(wrote[d]) : i \in Indices(wrote'[d]) /\ wrote'[d][i] = wrote[d][i]
  BY RecordGrows
<1>o. ASSUME NEW i \in Traffic(wrote[d]), NEW f, f = wrote[d][i] PROVE f \in Frame /\ Written(d, f)'
  <2>1. f \in Frame /\ Written(d, f)
    BY <1>0, <1>o DEF Traffic, Indices, WireInv
  <2> QED
    BY <2>1, WrittenStays
<1> DEFINE OnWire == /\ \A i \in Traffic(wrote'[d]) : \A f : f = wrote'[d][i] => Written(d, f)'
                     /\ \A i, j \in Traffic(wrote'[d]) : i < j => wrote'[d][i].last < wrote'[d][j].first
           InHand == /\ task'[d] \in Busy => Logged(d, "captured")'
                     /\ task'[d] = "relogged" => Logged(d, "tamper")'
<1>w1. ASSUME wrote'[d] = wrote[d] PROVE OnWire
  BY <1>o, <1>w1 DEF WireInv
<1>w2. ASSUME NEW f \in Frame, f.kind = "injected", wrote'[d] = Append(wrote[d], f) PROVE OnWire
  <2>1. \A i \in Traffic(wrote'[d]) : i \in Traffic(wrote[d]) /\ wrote'[d][i] = wrote[d][i]
    <3>1. /\ \A i \in Indices(wrote'[d]) : i \in Indices(wrote[d]) \/ i = Len(wrote[d]) + 1
          /\ wrote'[d][Len(wrote[d]) + 1] = f
      BY <1>0, <1>w2, AppendFacts
    <3>2. \A i \in Traffic(wrote'[d]) : i \in Indices(wrote[d]) /\ wrote'[d][i] = wrote[d][i]
      BY <1>g, <1>w2, <3>1 DEF Traffic
    <3> QED
      BY <3>2 DEF Traffic
  <2> QED
    BY <1>o, <2>1 DEF WireInv
<1>h1. ASSUME KeepsFrame(d), task'[d] \in Busy => task[d] \in Busy, task'[d] = "relogged" => task[d] = "relogged"
       PROVE  InHand
  <2>1. Current(d)' = Current(d)
    BY <1>h1 DEF KeepsFrame, Current, Head1
  <2>2. ASSUME NEW k, Logged(d, k) PROVE Logged(d, k)'
    <3>1. PICK j \in Indices(log[d]) : SameBytes(log[d][j], [Current(d) EXCEPT !.kind = k])
      BY <2>2 DEF Logged
    <3>2. j \in Indices(log'[d]) /\ SameBytes(log'[d][j], [Current(d)' EXCEPT !.kind = k])
      BY <1>g, <2>1, <3>1
    <3> QED
      BY <3>2 DEF Logged
  <2> QED
    BY <1>h1, <2>2 DEF WireInv
<1>h2. ASSUME NEW b \in [next : Nat, end : Nat, seq : Nat], NEW m, Batches(d, b, m) PROVE InHand
  <2>1. task'[d] # "relogged" /\ batch'[d] = b
    BY <1>h2 DEF Batches
  <2>2. ASSUME task'[d] \in Busy PROVE Logged(d, "captured")'
    <3>1. b.next <= b.end /\ log'[d] = Append(log[d], Head1(d, b))
      BY <1>h2, <2>2 DEF Batches, Busy
    <3>2. Head1(d, b) \in Frame /\ Head1(d, b).kind = "captured"
      BY <3>1, HeadBounds
    <3>3. Len(log[d]) + 1 \in Indices(log'[d]) /\ log'[d][Len(log[d]) + 1] = Head1(d, b)
      BY <1>0, <3>1, <3>2, AppendFacts
    <3>4. Current(d)' = Head1(d, b)
      BY <2>1 DEF Current
    <3>5. SameBytes(Head1(d, b), [Head1(d, b) EXCEPT !.kind = "captured"])
      BY <3>2 DEF SameBytes, Frame
    <3>6. SameBytes(log'[d][Len(log[d]) + 1], [Current(d)' EXCEPT !.kind = "captured"])
      BY <3>3, <3>4, <3>5
    <3> QED
      BY <3>3, <3>6 DEF Logged
  <2> QED
    BY <2>1, <2>2
<1>t. /\ seqno[d] \in Nat /\ framed[d] \in Nat /\ taken[d] \in Nat /\ framed'[d] \in Nat
      /\ batch[d] \in [next : Nat, end : Nat, seq : Nat]
  BY DEF TypeOK
<1> SUFFICES OnWire /\ InHand
  <2>1. ASSUME OnWire PROVE (\A i \in Traffic(wrote[d]) : Written(d, wrote[d][i]))'
    BY <2>1 DEF Written
  <2> QED
    BY <2>1 DEF WireInv
<1> HIDE DEF OnWire, InHand
<1>1. CASE wrote'[d] = wrote[d] /\ KeepsFrame(d) /\ (task'[d] \in Busy => task[d] \in Busy)
           /\ (task'[d] = "relogged" => task[d] = "relogged")
  BY <1>1, <1>w1, <1>h1
<1>2. CASE Feeds(d)
  <2>1. [next |-> framed[d] + 1, end |-> framed'[d], seq |-> seqno[d]] \in [next : Nat, end : Nat, seq : Nat]
    BY <1>t
  <2> QED
    BY <1>2, <1>w1, <1>h2, <2>1 DEF Feeds, Batches
<1>3. CASE Leaves(d, "flush") \/ Leaves(d, "unwind")
  <2>1. [next |-> framed[d] + 1, end |-> taken[d], seq |-> seqno[d]] \in [next : Nat, end : Nat, seq : Nat]
    BY <1>t
  <2> QED
    BY <1>3, <1>w1, <1>h2, <2>1 DEF Leaves, Batches
<1>4. CASE Proceeds(d)
  <2> DEFINE b == [next |-> Current(d).last + 1, end |-> batch[d].end, seq |-> batch[d].seq + 1]
  <2>1. task[d] \in Busy /\ Batches(d, b, mode[d])
    BY <1>4 DEF Proceeds, Busy
  <2>2. Current(d).last \in Nat
    BY <2>1, CurrentFacts
  <2>3. b \in [next : Nat, end : Nat, seq : Nat]
    BY <1>t, <2>2
  <2>4. wrote'[d] = wrote[d]
    BY <2>1 DEF Batches
  <2> HIDE DEF b
  <2> QED
    BY <1>w1, <1>h2, <2>1, <2>3, <2>4
<1>5. CASE Relogs(d)
  <2>1. /\ task[d] \in Busy /\ KeepsFrame(d) /\ wrote'[d] = wrote[d] /\ task'[d] = "relogged"
        /\ log'[d] = Append(log[d], [Current(d) EXCEPT !.kind = "tamper", !.seq = seqno[d]])
    BY <1>5 DEF Relogs, Busy
  <2>2. Current(d) \in Frame
    BY <2>1, CurrentFacts
  <2>3. [Current(d) EXCEPT !.kind = "tamper", !.seq = seqno[d]] \in Frame
    BY <1>t, <2>2 DEF Frame
  <2>4. Current(d)' = Current(d)
    BY <2>1 DEF KeepsFrame, Current, Head1
  <2>5. SameBytes([Current(d) EXCEPT !.kind = "tamper", !.seq = seqno[d]], [Current(d) EXCEPT !.kind = "tamper"])
    BY <2>2 DEF SameBytes, Frame
  <2>6. /\ Len(log[d]) + 1 \in Indices(log'[d])
        /\ log'[d][Len(log[d]) + 1] = [Current(d) EXCEPT !.kind = "tamper", !.seq = seqno[d]]
    BY <1>0, <2>1, <2>3, AppendFacts
  <2>7. SameBytes(log'[d][Len(log[d]) + 1], [Current(d)' EXCEPT !.kind = "tamper"])
    BY <2>4, <2>5, <2>6
  <2>8. Logged(d, "tamper")'
    BY <2>6, <2>7 DEF Logged
  <2>9. Logged(d, "captured")'
    <3>1. PICK j \in Indices(log[d]) : SameBytes(log[d][j], [Current(d) EXCEPT !.kind = "captured"])
      BY <2>1 DEF WireInv, Logged
    <3>2. j \in Indices(log'[d]) /\ SameBytes(log'[d][j], [Current(d)' EXCEPT !.kind = "captured"])
      BY <1>g, <2>4, <3>1
    <3> QED
      BY <3>2 DEF Logged
  <2> QED
    BY <1>w1, <2>1, <2>8, <2>9 DEF InHand
<1>6. CASE Sends(d)
  <2>1. /\ task[d] \in Busy \ {"drain"} /\ KeepsFrame(d) /\ KeepsGate(d) /\ log'[d] = log[d]
        /\ task[d] \in {"completed", "relogged"}
        /\ task'[d] = "drain"
    BY <1>6 DEF Sends, Busy
  <2>2. InHand
    BY <1>h1, <2>1 DEF Busy
  <2>3. PICK k \in {"captured", "tamper"} :
          /\ IF k = "tamper" THEN task[d] = "relogged"
             ELSE task[d] = "completed" /\ verdict[CurrentUnit(d)] = "FORWARD"
          /\ \/ wrote'[d] = Append(wrote[d], [Current(d) EXCEPT !.kind = k])
             \/ wrote'[d] = wrote[d]
    BY <1>6 DEF Sends
  <2>4. CASE wrote'[d] = wrote[d]
    BY <1>w1, <2>2, <2>4
  <2>5. CASE wrote'[d] = Append(wrote[d], [Current(d) EXCEPT !.kind = k])
    <3>0. PICK f : f = [Current(d) EXCEPT !.kind = k]
      OBVIOUS
    <3>1. Current(d) \in Frame /\ Current(d).first = batch[d].next
      BY <2>1, CurrentFacts DEF Busy
    <3>2. f \in Frame /\ f.first = batch[d].next /\ f.last = Current(d).last /\ f.kind = k
      BY <3>0, <3>1 DEF Frame
    <3>3. batch[d].next \in 1..Length[d] /\ CurrentUnit(d) = <<d, batch[d].next>>
      BY <2>1, UnitFacts DEF CurrentUnit, Busy
    <3>4. Reached(d) = batch[d].next - 1
      BY <2>1, ReachedFacts DEF Busy
    <3>5. Reached(d)' = Current(d).last
      <4>1. Current(d)' = Current(d)
        BY <2>1 DEF KeepsFrame, Current, Head1
      <4> QED
        BY <2>1, <4>1 DEF Reached
    <3>6. PICK j \in Indices(log[d]) : SameBytes(log[d][j], f)
      BY <2>1, <2>3, <3>0 DEF WireInv, Logged, Busy
    <3>7. stage[<<d, batch[d].next>>] = "released"
          /\ verdict[<<d, batch[d].next>>] = IF k = "tamper" THEN "MODIFIED" ELSE "FORWARD"
      BY <2>1, <2>3, <3>3 DEF GateInv
    <3>8. SameUnit(d, batch[d].next)
      BY <2>1, <3>3 DEF KeepsGate
    <3>9. f.last \in Nat
      BY <3>2 DEF Frame
    <3>10. Written(d, f)'
      <4>0. log'[d] = log[d]
        BY <2>1
      <4>1. f.last <= Reached(d)'
        BY <3>2, <3>5, <3>9
      <4>2. stage'[<<d, f.first>>] = "released"
            /\ verdict'[<<d, f.first>>] = IF f.kind = "tamper" THEN "MODIFIED" ELSE "FORWARD"
        BY <3>2, <3>7, <3>8 DEF SameUnit
      <4>3. f.first \in 1..Length[d]
        BY <3>2, <3>3
      <4> QED
        BY <3>6, <4>0, <4>1, <4>2, <4>3 DEF Written
    <3>11. /\ \A i \in Traffic(wrote'[d]) : \/ i \in Traffic(wrote[d]) /\ wrote'[d][i] = wrote[d][i]
                                                 /\ i <= Len(wrote[d])
                                            \/ i = Len(wrote[d]) + 1 /\ wrote'[d][i] = f
           /\ Len(wrote[d]) \in Nat
      BY <1>0, <1>g, <2>5, <3>0, <3>2, AppendFacts DEF Traffic, Indices
    <3>12. \A i \in Traffic(wrote'[d]) : \A g : g = wrote'[d][i] => Written(d, g)'
      BY <1>o, <3>10, <3>11
    <3>13. \A i \in Traffic(wrote[d]) : wrote[d][i].last < f.first
      <4>1. \A i \in Traffic(wrote[d]) : wrote[d][i].last <= batch[d].next - 1 /\ wrote[d][i] \in Frame
        <5>1. \A i \in Traffic(wrote[d]) : wrote[d][i] \in Frame
          BY <1>0 DEF Traffic, Indices
        <5>2. \A i \in Traffic(wrote[d]) : wrote[d][i].last <= Reached(d)
          BY DEF WireInv, Written
        <5> QED
          BY <3>4, <5>1, <5>2
      <4>2. \A g \in Frame : g.last \in Nat
        BY DEF Frame
      <4> QED
        BY <3>2, <3>3, <4>1, <4>2
    <3>14. ASSUME NEW i \in Traffic(wrote'[d]), NEW j2 \in Traffic(wrote'[d]), i < j2
           PROVE  wrote'[d][i].last < wrote'[d][j2].first
      <4>1. i \in Nat /\ j2 \in Nat
        BY DEF Traffic, Indices
      <4>2. i \in Traffic(wrote[d]) /\ wrote'[d][i] = wrote[d][i]
        BY <3>11, <3>14, <4>1
      <4>3. CASE j2 \in Traffic(wrote[d]) /\ wrote'[d][j2] = wrote[d][j2]
        BY <3>14, <4>2, <4>3 DEF WireInv
      <4>4. CASE wrote'[d][j2] = f
        BY <3>13, <4>2, <4>4
      <4> QED
        BY <3>11, <4>3, <4>4
    <3> QED
      BY <2>2, <3>12, <3>14 DEF OnWire
  <2> QED
    BY <2>3, <2>4, <2>5
<1>7. CASE IsInjected(d)
  <2>1. InHand
    BY <1>7, <1>h1 DEF IsInjected, KeepsTask
  <2>2. OnWire
    BY <1>7, <1>w1, <1>w2 DEF IsInjected
  <2> QED
    BY <2>1, <2>2
<1>8. \/ wrote'[d] = wrote[d] /\ KeepsFrame(d) /\ (task'[d] \in Busy => task[d] \in Busy)
           /\ (task'[d] = "relogged" => task[d] = "relogged")
      \/ Feeds(d) \/ Leaves(d, "flush") \/ Leaves(d, "unwind") \/ Proceeds(d)
      \/ Relogs(d) \/ Sends(d) \/ IsInjected(d)
  BY DEF StepOf, Stands, Turns, Gates, IsTold, IsCancelled, IsSwapped, KeepsTask, KeepsRecord, Busy
<1> QED
  BY <1>1, <1>2, <1>3, <1>4, <1>5, <1>6, <1>7, <1>8

\* A byte that was accounted for stays so.
LEMMA AccountedStays ==
  ASSUME TypeOK, NEW d \in Dir, BatchInv(d), StepOf(d), NEW b, Accounted(d, b)
  PROVE  Accounted(d, b)'
<1>g. /\ \A i \in Indices(log[d]) : i \in Indices(log'[d]) /\ log'[d][i] = log[d][i]
      /\ \A i \in Indices(wrote[d]) : i \in Indices(wrote'[d]) /\ wrote'[d][i] = wrote[d][i]
  BY RecordGrows
<1>1. PICK i \in Indices(log[d]) : LET f == log[d][i] IN
        /\ f.first <= b /\ b <= f.last /\ f.first \in 1..Length[d]
        /\ \/ stage[<<d, f.first>>] = "released" /\ verdict[<<d, f.first>>] = "DROP"
           \/ \E j \in Indices(wrote[d]) : wrote[d][j].first = f.first
  BY DEF Accounted
<1>2. i \in Indices(log'[d]) /\ log'[d][i] = log[d][i]
  BY <1>1, <1>g
<1>3. CASE stage[<<d, log[d][i].first>>] = "released" /\ verdict[<<d, log[d][i].first>>] = "DROP"
  <2>1. SameUnit(d, log[d][i].first)
    BY <1>1, <1>3, ReleasedStays
  <2> QED
    BY <1>1, <1>2, <1>3, <2>1 DEF Accounted, SameUnit
<1>4. CASE \E j \in Indices(wrote[d]) : wrote[d][j].first = log[d][i].first
  BY <1>1, <1>2, <1>4, <1>g DEF Accounted
<1> QED
  BY <1>1, <1>3, <1>4

\* No byte is passed by that was neither dropped nor written.
LEMMA KeptStep ==
  ASSUME TypeOK, TypeOK', NEW d \in Dir, BatchInv(d), BatchInv(d)', World, StepOf(d),
         GateInv(d), WireInv(d), KeptInv(d), LossOf(d)
  PROVE  KeptInv(d)'
<1> SUFFICES ASSUME swaps' = 0, Other(d) \notin gone', mode'[d] # "unwind", task'[d] # "cancelled",
                    NEW b \in 1..Reached(d)', b \notin lost'[d]
             PROVE  Accounted(d, b)'
  BY DEF KeptInv
<1>l. lost[d] \subseteq lost'[d]
  BY DEF LossOf, Costs
<1>0. /\ swaps = 0 /\ Other(d) \notin gone /\ swaps \in Nat
  BY d \in Dir DEF World, IsSwapped, TypeOK
<1>1. mode[d] # "unwind" /\ task[d] # "cancelled"
  BY DEF StepOf, Stands, Turns, Feeds, Leaves, Proceeds, Batches, Gates, Relogs, Sends, IsTold,
         IsCancelled, IsSwapped, IsInjected, KeepsTask, KeepsFrame, BatchInv, Busy
<1>2. \A c \in (1..Reached(d)) \ lost[d] : Accounted(d, c)
  BY <1>0, <1>1 DEF KeptInv
<1>r. Reached(d) \in Nat /\ Reached(d)' \in Nat
  BY ReachedGrows, ReachedFacts
<1>3. CASE b <= Reached(d)
  <2>1. Accounted(d, b)
    BY <1>2, <1>3, <1>l, <1>r
  <2> QED
    BY <2>1, AccountedStays
<1>4. CASE ~(b <= Reached(d))
  <2>1. Reached(d)' # Reached(d) /\ b \in Nat /\ Reached(d) < b
    BY <1>4, <1>r
  <2>a. ASSUME NEW x \in Nat, Costs(d, x), Reached(d)' = x PROVE FALSE
    <3>1. Reached(d) = batch[d].next - 1 /\ batch[d].next \in Nat
      BY <2>a, ReachedFacts DEF Costs, Busy, TypeOK
    <3>2. b \in batch[d].next..x
      BY <1>r, <2>1, <2>a, <3>1
    <3> QED
      BY <2>a, <3>2 DEF Costs
  <2>2. /\ Reached(d)' = Current(d).last
        /\ Sends(d) \/ (task[d] = "completed" /\ verdict[CurrentUnit(d)] = "DROP")
    BY <2>1, <2>a, ReachedGrows DEF Gain
  <2>3. task[d] \in Busy \ {"drain"} /\ task[d] \in {"completed", "relogged"}
    BY <2>2 DEF Sends, Busy
  <2>4. Reached(d) = batch[d].next - 1
    BY <2>3, ReachedFacts
  <2>5. /\ Current(d) \in Frame /\ Current(d).first = batch[d].next /\ Current(d).kind = "captured"
        /\ batch[d].next \in Nat
    BY <2>3, CurrentFacts DEF Busy, TypeOK
  <2>6. batch[d].next <= b /\ b <= Current(d).last
    <3>1. b <= Reached(d)'
      BY <1>r
    <3> QED
      BY <2>1, <2>2, <2>4, <2>5, <3>1
  <2>7. batch[d].next \in 1..Length[d] /\ CurrentUnit(d) = <<d, batch[d].next>>
    BY <2>3, UnitFacts DEF CurrentUnit
  <2>8. PICK j \in Indices(log[d]) : log[d][j].first = batch[d].next /\ log[d][j].last = Current(d).last
    <3>1. PICK j \in Indices(log[d]) : SameBytes(log[d][j], [Current(d) EXCEPT !.kind = "captured"])
      BY <2>3 DEF WireInv, Logged
    <3> QED
      BY <2>5, <3>1 DEF SameBytes, Frame
  <2>9. j \in Indices(log'[d]) /\ log'[d][j] = log[d][j]
    BY RecordGrows
  <2>10. CASE task[d] = "completed" /\ verdict[CurrentUnit(d)] = "DROP"
    <3>1. stage[<<d, batch[d].next>>] = "released" /\ verdict[<<d, batch[d].next>>] = "DROP"
      BY <2>7, <2>10 DEF Proceeds, GateInv
    <3>2. SameUnit(d, batch[d].next)
      BY <2>7, <3>1, ReleasedStays
    <3> QED
      BY <2>6, <2>7, <2>8, <2>9, <3>1, <3>2 DEF Accounted, SameUnit
  <2>11. CASE Sends(d)
    <3>1. PICK k \in {"captured", "tamper"} : wrote'[d] = Append(wrote[d], [Current(d) EXCEPT !.kind = k])
      BY <1>0, <2>11 DEF Sends
    <3>2. [Current(d) EXCEPT !.kind = k] \in Frame /\ [Current(d) EXCEPT !.kind = k].first = batch[d].next
      BY <2>5 DEF Frame
    <3>3. wrote[d] \in Seq(Frame)
      BY DEF TypeOK
    <3>4. \E n \in Indices(wrote'[d]) : wrote'[d][n].first = batch[d].next
      BY <3>1, <3>2, <3>3, AppendFacts
    <3> QED
      BY <2>6, <2>7, <2>8, <2>9, <3>4 DEF Accounted
  <2> QED
    BY <2>2, <2>10, <2>11
<1> QED
  BY <1>3, <1>4

\* What is lost is lost behind the direction, and nothing it wrote.
LEMMA LossStep ==
  ASSUME TypeOK, TypeOK', NEW d \in Dir, BatchInv(d), BatchInv(d)', World, StepOf(d), LossOf(d),
         WireInv(d), LossInv(d)
  PROVE  LossInv(d)'
<1>r. /\ Reached(d) \in Nat /\ Reached(d)' \in Nat /\ Reached(d) <= Reached(d)'
      /\ Leaves(d, "flush") => batch[d].end <= Reached(d)'
      /\ Proceeds(d) => Current(d).last <= Reached(d)'
  BY ReachedGrows, ReachedFacts
<1>0. lost[d] \subseteq 1..Reached(d)
  BY DEF LossInv
<1>w. wrote[d] \in Seq(Frame) /\ wrote'[d] \in Seq(Frame)
  BY DEF TypeOK
<1>x. ASSUME NEW x, Costs(d, x), x \in Nat, x <= Reached(d)'
      PROVE  /\ lost'[d] \subseteq 1..Reached(d)' /\ d \in BadRules
             /\ \A y \in lost'[d] \ lost[d] : y > Reached(d) /\ y \in Nat
  <2>1. Reached(d) = batch[d].next - 1 /\ batch[d].next \in Nat /\ 1 <= batch[d].next
    BY <1>x, ReachedFacts DEF Costs, Busy, TypeOK, BatchInv
  <2>2. lost'[d] = lost[d] \cup batch[d].next..x /\ d \in BadRules
    BY <1>x DEF Costs
  <2>3. lost[d] \subseteq 1..Reached(d)'
    BY <1>0, <1>r
  <2>4. batch[d].next..x \subseteq 1..Reached(d)'
    BY <1>x, <1>r, <2>1
  <2>5. \A y \in batch[d].next..x : y > Reached(d) /\ y \in Nat
    BY <1>x, <2>1
  <2> QED
    BY <2>2, <2>3, <2>4, <2>5
<1>1. /\ lost'[d] \subseteq 1..Reached(d)' /\ (d \notin BadRules => lost'[d] = {})
      /\ \A y \in lost'[d] \ lost[d] : y > Reached(d) /\ y \in Nat
  <2>1. CASE lost'[d] = lost[d]
    <3>1. lost'[d] \subseteq 1..Reached(d)'
      BY <1>0, <1>r, <2>1
    <3> QED
      BY <2>1, <3>1 DEF LossInv
  <2>2. CASE Leaves(d, "flush") /\ Costs(d, batch[d].end)
    <3>1. batch[d].end \in Nat
      BY DEF TypeOK
    <3> QED
      BY <1>r, <1>x, <2>2, <3>1
  <2>3. CASE Proceeds(d) /\ Costs(d, Current(d).last)
    <3>1. Current(d).last \in Nat
      BY <2>3, CurrentFacts DEF Costs, Busy
    <3> QED
      BY <1>r, <1>x, <2>3, <3>1
  <2> QED
    BY <2>1, <2>2, <2>3 DEF LossOf
<1>2. ASSUME NEW i \in Traffic(wrote'[d]), NEW y \in lost'[d],
             y \in wrote'[d][i].first..wrote'[d][i].last
      PROVE  FALSE
  <2>1. CASE i \in Indices(wrote[d])
    <3>1. wrote'[d][i] = wrote[d][i]
      BY <2>1, RecordGrows
    <3>2. i \in Traffic(wrote[d]) /\ wrote[d][i] \in Frame
      BY <1>2, <1>w, <2>1, <3>1 DEF Traffic, Indices
    <3>3. y \notin lost[d]
      BY <1>2, <3>1, <3>2 DEF LossInv
    <3>4. y > Reached(d) /\ y \in Nat
      BY <1>1, <1>2, <3>3
    <3>5. wrote[d][i].last <= Reached(d) /\ wrote[d][i].last \in Nat /\ wrote[d][i].first \in Nat
      BY <3>2 DEF WireInv, Written, Frame
    <3> QED
      BY <1>2, <1>r, <3>1, <3>4, <3>5
  <2>2. CASE i \notin Indices(wrote[d])
    <3>1. PICK k \in {"captured", "tamper"} :
             wrote'[d] = Append(wrote[d], [Current(d) EXCEPT !.kind = k]) /\ Sends(d)
      <4>1. wrote'[d] # wrote[d]
        BY <1>2, <2>2 DEF Traffic
      <4>2. Sends(d) \/ IsInjected(d)
        BY <4>1 DEF StepOf, Stands, Turns, Feeds, Leaves, Proceeds, Batches, Gates, Relogs, IsTold,
                    IsCancelled, IsSwapped, KeepsRecord
      <4>3. ASSUME NEW f \in Frame, f.kind = "injected", wrote'[d] = Append(wrote[d], f) PROVE FALSE
        <5>1. wrote'[d][i] = f
          BY <1>2, <1>w, <2>2, <4>3, AppendFacts DEF Traffic, Indices
        <5> QED
          BY <1>2, <4>3, <5>1 DEF Traffic
      <4> QED
        BY <4>1, <4>2, <4>3 DEF Sends, IsInjected
    <3>2. task[d] \in {"completed", "relogged"} /\ Current(d) \in Frame /\ Current(d).first = batch[d].next
      BY <3>1, CurrentFacts DEF Sends, Busy
    <3>3. wrote'[d][i] = [Current(d) EXCEPT !.kind = k]
      <4>1. [Current(d) EXCEPT !.kind = k] \in Frame
        BY <3>2 DEF Frame
      <4> QED
        BY <1>2, <1>w, <2>2, <3>1, <4>1, AppendFacts DEF Traffic, Indices
    <3>4. wrote'[d][i].first = batch[d].next /\ Reached(d) = batch[d].next - 1 /\ batch[d].next \in Nat
          /\ wrote'[d][i].last \in Nat
      BY <3>2, <3>3, ReachedFacts DEF Frame, Busy, TypeOK
    <3>5. y \in Nat /\ y > Reached(d)
      BY <1>2, <1>r, <3>4
    <3>6. lost'[d] = lost[d]
      BY <3>1 DEF LossOf, Leaves, Proceeds, Batches, Sends
    <3> QED
      BY <1>0, <1>2, <1>r, <3>5, <3>6
  <2> QED
    BY <2>1, <2>2
<1> QED
  BY <1>1, <1>2 DEF LossInv

\* A batch that is not empty has finitely many frame ends ahead, one at least;
\* without the frame in hand there is one less.
LEMMA AheadFacts ==
  ASSUME TypeOK, NEW d \in Dir, BatchInv(d), task[d] \in Busy
  PROVE  /\ IsFiniteSet(Ahead(d)) /\ Cardinality(Ahead(d)) \in Nat
         /\ 1 <= Cardinality(Ahead(d))
         /\ Current(d).last < batch[d].end =>
              /\ {x \in Boundary[d] : Current(d).last + 1 <= x /\ x <= batch[d].end} \cup {batch[d].end}
                   = Ahead(d) \ {Current(d).last}
              /\ Cardinality(Ahead(d) \ {Current(d).last}) = Cardinality(Ahead(d)) - 1
              /\ 2 <= Cardinality(Ahead(d))
<1>0. /\ batch[d].next \in Nat /\ batch[d].end \in Nat /\ batch[d].next <= batch[d].end
      /\ Boundary[d] \in SUBSET Nat
  BY RelayAssumption DEF TypeOK, BatchInv
<1>1. Ahead(d) \in SUBSET Nat /\ batch[d].end \in Ahead(d) /\ \A x \in Ahead(d) : x <= batch[d].end
  BY <1>0 DEF Ahead
<1>2. IsFiniteSet(Ahead(d)) /\ Cardinality(Ahead(d)) \in Nat
  BY <1>0, <1>1, FS_BoundedSetOfNaturals, FS_CardinalityType
<1>3. Cardinality(Ahead(d)) # 0
  BY <1>1, <1>2, FS_EmptySet
<1>c. /\ Current(d).last \in Ahead(d) /\ \A x \in Ahead(d) : Current(d).last <= x
      /\ Current(d).last \in Nat /\ batch[d].next <= Current(d).last
  BY CurrentFacts
<1>4. ASSUME Current(d).last < batch[d].end
      PROVE  /\ {x \in Boundary[d] : Current(d).last + 1 <= x /\ x <= batch[d].end} \cup {batch[d].end}
                   = Ahead(d) \ {Current(d).last}
             /\ Cardinality(Ahead(d) \ {Current(d).last}) = Cardinality(Ahead(d)) - 1
             /\ 2 <= Cardinality(Ahead(d))
  <2> DEFINE R == {x \in Boundary[d] : Current(d).last + 1 <= x /\ x <= batch[d].end} \cup {batch[d].end}
  <2>1. ASSUME NEW x \in R PROVE x \in Ahead(d) \ {Current(d).last}
    <3>1. x \in Nat /\ x # Current(d).last /\ batch[d].next <= x
      BY <1>0, <1>4, <1>c
    <3> QED
      BY <3>1 DEF Ahead
  <2>2. ASSUME NEW x \in Ahead(d) \ {Current(d).last} PROVE x \in R
    <3>1. x \in Nat /\ Current(d).last + 1 <= x
      BY <1>1, <1>c
    <3> QED
      BY <3>1 DEF Ahead
  <2>3. R = Ahead(d) \ {Current(d).last}
    BY <2>1, <2>2
  <2>4. /\ IsFiniteSet(Ahead(d) \ {Current(d).last})
        /\ Cardinality(Ahead(d) \ {Current(d).last}) = Cardinality(Ahead(d)) - 1
    BY <1>2, <1>c, FS_RemoveElement
  <2>5. batch[d].end \in Ahead(d) \ {Current(d).last}
    BY <1>0, <1>1, <1>4, <1>c
  <2>6. Cardinality(Ahead(d) \ {Current(d).last}) # 0
    BY <2>4, <2>5, FS_EmptySet
  <2>7. 2 <= Cardinality(Ahead(d))
    BY <1>2, <1>3, <2>4, <2>6
  <2> QED
    BY <2>3, <2>4, <2>7
<1>5. 1 <= Cardinality(Ahead(d))
  BY <1>2, <1>3
<1> QED
  BY <1>2, <1>4, <1>5

\* Each frame of a batch has a number of its own, reserved when it was fed;
\* what is numbered meanwhile takes the numbers behind the batch.
LEMMA NumStep ==
  ASSUME TypeOK, TypeOK', NEW d \in Dir, BatchInv(d), BatchInv(d)', World, StepOf(d), NumInv(d)
  PROVE  NumInv(d)'
<1> DEFINE Own(l, q) == /\ \A i \in Indices(l) : l[i].seq < q
                        /\ \A i, j \in Indices(l) : i # j => l[i].seq # l[j].seq
           Clear(l, s, n) == \A i \in Indices(l) : l[i].seq <= s \/ l[i].seq >= s + n
<1>0. /\ taken[d] \in Nat /\ framed[d] \in Nat /\ framed[d] <= taken[d] /\ seqno[d] \in Nat
      /\ taken'[d] \in Nat /\ framed'[d] \in Nat /\ seqno'[d] \in Nat
      /\ batch[d] \in [next : Nat, end : Nat, seq : Nat] /\ log[d] \in Seq(Frame)
      /\ batch[d].end <= framed[d] /\ Boundary[d] \in SUBSET Nat
      /\ swaps \in Nat /\ \A i \in Indices(log[d]) : log[d][i].seq \in Nat
  <2>1. log[d] \in Seq(Frame)
    BY DEF TypeOK
  <2>2. \A i \in Indices(log[d]) : log[d][i].seq \in Nat
    <3>1. \A i \in Indices(log[d]) : log[d][i] \in Frame
      BY <2>1 DEF Indices
    <3>2. \A f \in Frame : f.seq \in Nat
      BY DEF Frame
    <3> QED
      BY <3>1, <3>2
  <2> QED
    BY <2>1, <2>2, RelayAssumption DEF TypeOK, BatchInv
<1> SUFFICES ASSUME swaps' = 0
             PROVE  /\ \A x \in Boundary[d] : ~(framed'[d] < x /\ x <= taken'[d])
                    /\ registered' =>
                         /\ Own(log'[d], seqno'[d])
                         /\ task'[d] \in Busy => /\ Clear(log'[d], batch'[d].seq, Cardinality(Ahead(d))')
                                                 /\ batch'[d].seq + Cardinality(Ahead(d))' <= seqno'[d]
  BY DEF NumInv
<1>1. swaps = 0 /\ ~IsSwapped(d) /\ (registered' => registered)
  BY <1>0, d \in Dir DEF World, IsSwapped
<1>2. /\ \A x \in Boundary[d] : ~(framed[d] < x /\ x <= taken[d])
      /\ registered =>
           /\ Own(log[d], seqno[d])
           /\ task[d] \in Busy => /\ Clear(log[d], batch[d].seq, Cardinality(Ahead(d)))
                                  /\ batch[d].seq + Cardinality(Ahead(d)) <= seqno[d]
  BY <1>1 DEF NumInv
<1>3. ASSUME NEW x \in Boundary[d] PROVE ~(framed'[d] < x /\ x <= taken'[d])
  <2>0. x \in Nat
    BY <1>0
  <2>1. CASE Feeds(d)
    <3>1. framed[d] <= framed'[d] /\ (framed[d] < x /\ x <= taken'[d] => x <= framed'[d])
      BY <1>0, <2>1 DEF Feeds
    <3> QED
      BY <1>0, <2>0, <3>1
  <2>2. CASE framed'[d] = taken'[d]
    BY <1>0, <2>0, <2>2
  <2>3. CASE framed'[d] = framed[d] /\ taken'[d] = taken[d]
    BY <1>2, <2>3
  <2> QED
    BY <1>1, <2>1, <2>2, <2>3 DEF StepOf, Stands, Turns, Leaves, Proceeds, Gates, Relogs, Sends, IsTold,
       IsCancelled, IsInjected, KeepsBytes
<1>k. ASSUME KeepsFrame(d) PROVE Ahead(d)' = Ahead(d) /\ batch'[d] = batch[d]
  BY <1>k DEF KeepsFrame, Ahead
<1>a. ASSUME NEW f \in Frame, Own(log[d], seqno[d]), log'[d] = Append(log[d], f), seqno[d] <= seqno'[d], f.seq < seqno'[d],
             \A i \in Indices(log[d]) : log[d][i].seq # f.seq
      PROVE  Own(log'[d], seqno'[d])
  <2>1. /\ \A i \in Indices(log[d]) : i \in Indices(log'[d]) /\ log'[d][i] = log[d][i]
        /\ \A i \in Indices(log'[d]) : i \in Indices(log[d]) \/ i = Len(log[d]) + 1
        /\ log'[d][Len(log[d]) + 1] = f
    <3>1. log[d] \in Seq(Frame) /\ log'[d] = Append(log[d], f) /\ f \in Frame
      BY <1>0, <1>a
    <3> QED
      <4>1. \A i \in Indices(Append(log[d], f)) : i \in Indices(log[d]) \/ i = Len(log[d]) + 1
        BY ONLY <3>1, AppendFacts
      <4>2. /\ \A i \in Indices(log[d]) : i \in Indices(Append(log[d], f)) /\ Append(log[d], f)[i] = log[d][i]
            /\ Append(log[d], f)[Len(log[d]) + 1] = f
        BY ONLY <3>1, AppendFacts
      <4> QED
        BY <3>1, <4>1, <4>2
  <2>2. \A i \in Indices(log'[d]) : log'[d][i].seq < seqno'[d]
    <3>1. ASSUME NEW i \in Indices(log'[d]) PROVE log'[d][i].seq < seqno'[d]
      <4>1. CASE i \in Indices(log[d])
        <5>1. log[d][i].seq < seqno[d] /\ log[d][i].seq \in Nat /\ log'[d][i] = log[d][i]
          BY <1>0, <1>a, <2>1, <4>1
        <5> QED
          BY <1>0, <1>a, <5>1, SMTT(30)
      <4>2. CASE i = Len(log[d]) + 1
        BY <1>a, <2>1, <4>2
      <4> QED
        BY <2>1, <4>1, <4>2
    <3> QED
      BY <3>1
  <2>3. ASSUME NEW i \in Indices(log'[d]), NEW j \in Indices(log'[d]), i # j
        PROVE  log'[d][i].seq # log'[d][j].seq
    <3>1. CASE i \in Indices(log[d]) /\ j \in Indices(log[d])
      BY <1>a, <2>1, <2>3, <3>1
    <3>2. CASE i = Len(log[d]) + 1 /\ j \in Indices(log[d])
      BY <1>a, <2>1, <3>2
    <3>3. CASE j = Len(log[d]) + 1 /\ i \in Indices(log[d])
      BY <1>a, <2>1, <3>3
    <3> QED
      BY <2>1, <2>3, <3>1, <3>2, <3>3
  <2> QED
    BY <2>2, <2>3
<1>c. ASSUME NEW f \in Frame, NEW s \in Nat, NEW n \in Nat, Clear(log[d], s, n),
             log'[d] = Append(log[d], f), f.seq <= s \/ f.seq >= s + n
      PROVE  Clear(log'[d], s, n)
  <2>1. /\ \A i \in Indices(log[d]) : i \in Indices(log'[d]) /\ log'[d][i] = log[d][i]
        /\ \A i \in Indices(log'[d]) : i \in Indices(log[d]) \/ i = Len(log[d]) + 1
        /\ log'[d][Len(log[d]) + 1] = f
    <3>1. log[d] \in Seq(Frame) /\ log'[d] = Append(log[d], f) /\ f \in Frame
      BY <1>0, <1>c
    <3> QED
      <4>1. \A i \in Indices(Append(log[d], f)) : i \in Indices(log[d]) \/ i = Len(log[d]) + 1
        BY ONLY <3>1, AppendFacts
      <4>2. /\ \A i \in Indices(log[d]) : i \in Indices(Append(log[d], f)) /\ Append(log[d], f)[i] = log[d][i]
            /\ Append(log[d], f)[Len(log[d]) + 1] = f
        BY ONLY <3>1, AppendFacts
      <4> QED
        BY <3>1, <4>1, <4>2
  <2> QED
    BY <1>c, <2>1
<1>w. ASSUME Own(log[d], seqno[d]), log'[d] = log[d], seqno[d] <= seqno'[d] PROVE Own(log'[d], seqno'[d])
  BY <1>0, <1>w, SMTT(30)
<1>s. ASSUME NEW s \in Nat, NEW n \in Nat, NEW t \in Nat, t < s,
             \A i \in Indices(log[d]) : log[d][i].seq <= t \/ log[d][i].seq >= s + n, 1 <= n
      PROVE  Clear(log[d], s, n) /\ \A i \in Indices(log[d]) : log[d][i].seq # s
  <2>1. ASSUME NEW i \in Indices(log[d]) PROVE (log[d][i].seq <= s \/ log[d][i].seq >= s + n) /\ log[d][i].seq # s
    <3>1. log[d][i].seq \in Nat /\ (log[d][i].seq <= t \/ log[d][i].seq >= s + n)
      BY <1>0, <1>s
    <3> QED
      BY <1>s, <3>1
  <2> QED
    BY <2>1
<1>q. ASSUME Own(log[d], seqno[d]), NEW n \in Nat, 1 <= n
      PROVE  Clear(log[d], seqno[d], n) /\ \A i \in Indices(log[d]) : log[d][i].seq # seqno[d]
  BY <1>0, <1>q, SMTT(30)
<1> SUFFICES ASSUME registered', registered
             PROVE  /\ Own(log'[d], seqno'[d])
                    /\ task'[d] \in Busy => /\ Clear(log'[d], batch'[d].seq, Cardinality(Ahead(d))')
                                            /\ batch'[d].seq + Cardinality(Ahead(d))' <= seqno'[d]
  BY <1>1, <1>3
<1>o. Own(log[d], seqno[d])
  BY <1>2
<1>f. task[d] \in Busy => Cardinality(Ahead(d)) \in Nat /\ 1 <= Cardinality(Ahead(d))
  BY AheadFacts
<1>r. task[d] \in Busy => /\ Clear(log[d], batch[d].seq, Cardinality(Ahead(d)))
                          /\ batch[d].seq + Cardinality(Ahead(d)) <= seqno[d]
  BY <1>2
<1> HIDE DEF Own, Clear
<1>b. ASSUME NEW b \in [next : Nat, end : Nat, seq : Nat], NEW m, Batches(d, b, m),
             seqno[d] <= seqno'[d],
             NEW n \in Nat,
             b.next <= b.end => /\ n = Cardinality(Ahead(d))' /\ b.seq + n <= seqno'[d] /\ 1 <= n
                                /\ Clear(log[d], b.seq, n)
                                /\ \A i \in Indices(log[d]) : log[d][i].seq # b.seq
      PROVE  /\ Own(log'[d], seqno'[d])
             /\ task'[d] \in Busy => /\ Clear(log'[d], batch'[d].seq, Cardinality(Ahead(d))')
                                     /\ batch'[d].seq + Cardinality(Ahead(d))' <= seqno'[d]
  <2>1. CASE b.next <= b.end
    <3>1. log'[d] = Append(log[d], Head1(d, b)) /\ batch'[d] = b
      BY <1>b, <2>1 DEF Batches
    <3>2. Head1(d, b) \in Frame /\ Head1(d, b).seq = b.seq
      BY <2>1, HeadBounds
    <3>3. b.seq < seqno'[d] /\ b.seq \in Nat
      BY <1>0, <1>b, <2>1
    <3>4. Own(log'[d], seqno'[d])
      BY <1>a, <1>b, <1>o, <2>1, <3>1, <3>2, <3>3
    <3>5. Clear(log'[d], b.seq, n)
      BY <1>b, <1>c, <2>1, <3>1, <3>2, <3>3
    <3> QED
      BY <1>b, <2>1, <3>1, <3>4, <3>5
  <2>2. CASE ~(b.next <= b.end)
    <3>1. log'[d] = log[d] /\ task'[d] \notin Busy
      BY <1>b, <2>2 DEF Batches, Busy
    <3> QED
      BY <1>b, <1>o, <1>w, <3>1
  <2> QED
    BY <2>1, <2>2
<1>4. CASE KeepsFrame(d) /\ log'[d] = log[d] /\ seqno'[d] = seqno[d] /\ (task'[d] \in Busy => task[d] \in Busy)
  <2>1. Ahead(d)' = Ahead(d) /\ batch'[d] = batch[d]
    BY <1>4, <1>k
  <2> QED
    BY <1>4, <1>o, <1>r, <2>1
<1>5. ASSUME NEW f \in Frame, KeepsFrame(d), log'[d] = Append(log[d], f), f.seq = seqno[d],
             seqno'[d] = seqno[d] + 1, task'[d] \in Busy => task[d] \in Busy
      PROVE  /\ Own(log'[d], seqno'[d])
             /\ task'[d] \in Busy => /\ Clear(log'[d], batch'[d].seq, Cardinality(Ahead(d))')
                                     /\ batch'[d].seq + Cardinality(Ahead(d))' <= seqno'[d]
  <2>1. Ahead(d)' = Ahead(d) /\ batch'[d] = batch[d]
    BY <1>5, <1>k
  <2>2. \A i \in Indices(log[d]) : log[d][i].seq # f.seq
    BY <1>5, <1>o, <1>q
  <2>3. seqno[d] <= seqno'[d] /\ f.seq < seqno'[d]
    BY <1>0, <1>5
  <2>4. Own(log'[d], seqno'[d])
    BY <1>5, <1>a, <1>o, <2>2, <2>3
  <2>5. ASSUME task'[d] \in Busy
        PROVE  /\ Clear(log[d], batch[d].seq, Cardinality(Ahead(d)))
               /\ batch[d].seq + Cardinality(Ahead(d)) <= seqno[d]
               /\ Cardinality(Ahead(d)) \in Nat /\ batch[d].seq \in Nat
    BY <1>0, <1>5, <1>f, <1>r, <2>5
  <2>6. ASSUME task'[d] \in Busy
        PROVE  /\ Clear(log'[d], batch[d].seq, Cardinality(Ahead(d)))
               /\ batch[d].seq + Cardinality(Ahead(d)) <= seqno'[d]
    <3>1. f.seq >= batch[d].seq + Cardinality(Ahead(d))
      BY <1>0, <1>5, <2>5, <2>6
    <3>2. Clear(log'[d], batch[d].seq, Cardinality(Ahead(d)))
      BY <1>5, <1>c, <2>5, <2>6, <3>1
    <3> QED
      BY <1>0, <1>5, <2>5, <2>6, <3>2
  <2> QED
    BY <2>1, <2>4, <2>6
<1>6. CASE Feeds(d)
  <2> DEFINE b == [next |-> framed[d] + 1, end |-> framed'[d], seq |-> seqno[d]]
             ends == {x \in Boundary[d] : framed[d] < x /\ x <= taken'[d]}
  <2>1. /\ IsFiniteSet(ends) /\ framed'[d] \in ends \cup {framed[d]} /\ \A x \in ends : x <= framed'[d]
        /\ seqno'[d] = seqno[d] + Cardinality(ends) /\ Batches(d, b, "run")
    BY <1>6 DEF Feeds
  <2>2. b \in [next : Nat, end : Nat, seq : Nat] /\ batch'[d] = b /\ b.seq = seqno[d]
    BY <1>0, <2>1 DEF Batches
  <2>3. Cardinality(ends) \in Nat /\ seqno[d] <= seqno'[d]
    <3>1. Cardinality(ends) \in Nat
      BY <2>1, FS_CardinalityType
    <3> QED
      BY <1>0, <2>1, <3>1
  <2>4. ASSUME b.next <= b.end PROVE Ahead(d)' = ends /\ 1 <= Cardinality(ends)
    <3>1. framed[d] < framed'[d] /\ framed'[d] \in ends
      BY <1>0, <2>1, <2>4
    <3>2. Ahead(d)' = {x \in Boundary[d] : framed[d] + 1 <= x /\ x <= framed'[d]} \cup {framed'[d]}
      BY <2>2 DEF Ahead
    <3>3. \A x \in Boundary[d] : (framed[d] + 1 <= x /\ x <= framed'[d]) <=> (framed[d] < x /\ x <= taken'[d])
      <4>1. framed'[d] <= taken'[d]
        BY DEF BatchInv
      <4>2. ASSUME NEW x \in Boundary[d]
            PROVE (framed[d] + 1 <= x /\ x <= framed'[d]) <=> (framed[d] < x /\ x <= taken'[d])
        <5>1. x \in Nat /\ (framed[d] < x /\ x <= taken'[d] => x <= framed'[d])
          BY <1>0, <2>1
        <5> QED
          BY <1>0, <4>1, <5>1
      <4> QED
        BY <4>2
    <3>4. Ahead(d)' = ends
      BY <3>1, <3>2, <3>3
    <3>5. Cardinality(ends) # 0
      BY <2>1, <3>1, FS_EmptySet
    <3> QED
      BY <2>3, <3>4, <3>5
  <2>5. ASSUME b.next <= b.end
        PROVE  /\ Cardinality(ends) = Cardinality(Ahead(d))' /\ b.seq + Cardinality(ends) <= seqno'[d]
               /\ 1 <= Cardinality(ends) /\ Clear(log[d], b.seq, Cardinality(ends))
               /\ \A i \in Indices(log[d]) : log[d][i].seq # b.seq
    <3>1. Ahead(d)' = ends /\ 1 <= Cardinality(ends)
      BY <2>4, <2>5
    <3>2. Clear(log[d], seqno[d], Cardinality(ends)) /\ \A i \in Indices(log[d]) : log[d][i].seq # seqno[d]
      BY <1>o, <1>q, <2>3, <3>1
    <3>3. seqno[d] + Cardinality(ends) <= seqno'[d]
      BY <1>0, <2>1, <2>3
    <3> QED
      BY <2>2, <3>1, <3>2, <3>3
  <2> HIDE DEF b, ends
  <2> QED
    BY <1>b, <2>1, <2>2, <2>3, <2>5
<1>7. ASSUME NEW m \in {"flush", "unwind"}, Leaves(d, m)
      PROVE  /\ Own(log'[d], seqno'[d])
             /\ task'[d] \in Busy => /\ Clear(log'[d], batch'[d].seq, Cardinality(Ahead(d))')
                                     /\ batch'[d].seq + Cardinality(Ahead(d))' <= seqno'[d]
  <2> DEFINE b == [next |-> framed[d] + 1, end |-> taken[d], seq |-> seqno[d]]
  <2>1. Batches(d, b, m) /\ seqno'[d] = seqno[d] + IF framed[d] < taken[d] THEN 1 ELSE 0
    BY <1>7 DEF Leaves
  <2>2. b \in [next : Nat, end : Nat, seq : Nat] /\ batch'[d] = b /\ b.seq = seqno[d]
    BY <1>0, <2>1 DEF Batches
  <2>3. seqno[d] <= seqno'[d]
    BY <1>0, <2>1
  <2>4. ASSUME b.next <= b.end
        PROVE  /\ 1 = Cardinality(Ahead(d))' /\ b.seq + 1 <= seqno'[d]
               /\ Clear(log[d], b.seq, 1) /\ \A i \in Indices(log[d]) : log[d][i].seq # b.seq
    <3>1. framed[d] < taken[d]
      BY <1>0, <2>4
    <3>2. Ahead(d)' = {x \in Boundary[d] : framed[d] + 1 <= x /\ x <= taken[d]} \cup {taken[d]}
      BY <2>2 DEF Ahead
    <3>3. {x \in Boundary[d] : framed[d] + 1 <= x /\ x <= taken[d]} = {}
      <4>1. ASSUME NEW x \in Boundary[d] PROVE ~(framed[d] + 1 <= x /\ x <= taken[d])
        <5>1. x \in Nat /\ ~(framed[d] < x /\ x <= taken[d])
          BY <1>0, <1>2
        <5> QED
          BY <1>0, <5>1
      <4> QED
        BY <4>1
    <3>4. Cardinality(Ahead(d))' = 1
      <4>1. Ahead(d)' = {taken[d]}
        BY <3>2, <3>3
      <4>2. Cardinality({taken[d]}) = 1
        BY FS_Singleton
      <4> QED
        BY <4>1, <4>2
    <3>5. Clear(log[d], seqno[d], 1) /\ \A i \in Indices(log[d]) : log[d][i].seq # seqno[d]
      BY <1>o, <1>q
    <3>6. seqno[d] + 1 <= seqno'[d]
      BY <1>0, <2>1, <3>1
    <3> QED
      BY <2>2, <3>4, <3>5, <3>6
  <2> HIDE DEF b
  <2> QED
    BY <1>b, <2>1, <2>2, <2>3, <2>4
<1>8. CASE Proceeds(d)
  <2> DEFINE b == [next |-> Current(d).last + 1, end |-> batch[d].end, seq |-> batch[d].seq + 1]
             n == Cardinality(Ahead(d)) - 1
  <2>1. task[d] \in Busy /\ Batches(d, b, mode[d]) /\ seqno'[d] = seqno[d]
    BY <1>8 DEF Proceeds, Busy, KeepsBytes
  <2>2. Current(d).last \in Nat /\ Cardinality(Ahead(d)) \in Nat /\ 1 <= Cardinality(Ahead(d))
    BY <2>1, CurrentFacts, <1>f
  <2>3. /\ b \in [next : Nat, end : Nat, seq : Nat] /\ batch'[d] = b /\ b.seq = batch[d].seq + 1
        /\ n \in Nat
    <3>1. batch[d].end \in Nat /\ batch[d].seq \in Nat
      BY <1>0
    <3>2. n \in Nat
      BY <2>2
    <3>3. Current(d).last + 1 \in Nat /\ batch[d].seq + 1 \in Nat
      BY <2>2, <3>1
    <3>4. b \in [next : Nat, end : Nat, seq : Nat] /\ b.seq = batch[d].seq + 1
      BY <3>1, <3>3
    <3>5. batch'[d] = b
      BY <2>1 DEF Batches
    <3> QED
      BY <3>2, <3>4, <3>5
  <2>4. seqno[d] <= seqno'[d]
    BY <1>0, <2>1
  <2>5. ASSUME b.next <= b.end
        PROVE  /\ n = Cardinality(Ahead(d))' /\ b.seq + n <= seqno'[d] /\ 1 <= n
               /\ Clear(log[d], b.seq, n) /\ \A i \in Indices(log[d]) : log[d][i].seq # b.seq
    <3>1. Current(d).last < batch[d].end
      BY <1>0, <2>2, <2>5
    <3>2. /\ {x \in Boundary[d] : Current(d).last + 1 <= x /\ x <= batch[d].end} \cup {batch[d].end}
                   = Ahead(d) \ {Current(d).last}
          /\ Cardinality(Ahead(d) \ {Current(d).last}) = n
          /\ 2 <= Cardinality(Ahead(d))
      BY <2>1, <3>1, AheadFacts
    <3>3. Ahead(d)' = {x \in Boundary[d] : Current(d).last + 1 <= x /\ x <= batch[d].end} \cup {batch[d].end}
      BY <2>3 DEF Ahead
    <3>4. n = Cardinality(Ahead(d))' /\ 1 <= n
      <4>1. Cardinality(Ahead(d))' = Cardinality(Ahead(d) \ {Current(d).last})
        BY <3>2, <3>3
      <4> QED
        BY <2>2, <3>2, <4>1
    <3>5. /\ Clear(log[d], batch[d].seq, Cardinality(Ahead(d)))
          /\ batch[d].seq + Cardinality(Ahead(d)) <= seqno[d] /\ batch[d].seq \in Nat
      BY <1>0, <1>r, <2>1
    <3>6. b.seq + n <= seqno'[d] /\ batch[d].seq < b.seq /\ b.seq \in Nat
          /\ b.seq + n = batch[d].seq + Cardinality(Ahead(d))
      <4>1. b.seq = batch[d].seq + 1 /\ seqno'[d] = seqno[d] /\ batch[d].seq \in Nat
        BY <2>1, <2>3, <3>5
      <4>2. b.seq + n = batch[d].seq + Cardinality(Ahead(d)) /\ batch[d].seq < b.seq /\ b.seq \in Nat
        BY <2>2, <4>1
      <4> QED
        BY <3>5, <4>1, <4>2
    <3>7. \A i \in Indices(log[d]) : log[d][i].seq <= batch[d].seq \/ log[d][i].seq >= b.seq + n
      BY <3>5, <3>6 DEF Clear
    <3>8. Clear(log[d], b.seq, n) /\ \A i \in Indices(log[d]) : log[d][i].seq # b.seq
      BY <1>s, <2>3, <3>4, <3>5, <3>6, <3>7
    <3> QED
      BY <3>4, <3>6, <3>8
  <2> HIDE DEF b, n
  <2> QED
    BY <1>b, <2>1, <2>3, <2>4, <2>5
<1>9. CASE Relogs(d)
  <2> DEFINE f == [Current(d) EXCEPT !.kind = "tamper", !.seq = seqno[d]]
  <2>1. /\ task[d] \in Busy /\ KeepsFrame(d) /\ log'[d] = Append(log[d], f) /\ seqno'[d] = seqno[d] + 1
    BY <1>9 DEF Relogs, Busy
  <2>2. Current(d) \in Frame
    BY <2>1, CurrentFacts
  <2>3. f \in Frame /\ f.seq = seqno[d]
    BY <1>0, <2>2 DEF Frame
  <2> HIDE DEF f
  <2> QED
    BY <1>5, <2>1, <2>3
<1>10. CASE IsInjected(d)
  <2>1. PICK f \in Frame :
          \/ seqno'[d] = seqno[d] /\ log'[d] = log[d]
          \/ log'[d] = Append(log[d], f) /\ f.seq = seqno[d] /\ seqno'[d] = seqno[d] + 1
    BY <1>10 DEF IsInjected
  <2>2. KeepsFrame(d) /\ task'[d] = task[d]
    BY <1>10 DEF IsInjected, KeepsTask
  <2> QED
    BY <1>4, <1>5, <2>1, <2>2
<1>11. \/ KeepsFrame(d) /\ log'[d] = log[d] /\ seqno'[d] = seqno[d] /\ (task'[d] \in Busy => task[d] \in Busy)
       \/ Feeds(d) \/ Leaves(d, "flush") \/ Leaves(d, "unwind") \/ Proceeds(d) \/ Relogs(d) \/ IsInjected(d)
  BY <1>1 DEF StepOf, Stands, Turns, Gates, Sends, IsTold, IsCancelled, KeepsTask, KeepsBytes, KeepsRecord, Busy
<1> QED
  BY <1>4, <1>6, <1>7, <1>8, <1>9, <1>10, <1>11

------------------------------------------------------------------------------
(* The theorems                                                             *)

\* The inductive invariant holds throughout.
LEMMA IInvHolds == Spec => []IInv
<1> USE DEF None
<1>1. ASSUME Init PROVE IInv
  <2>0. /\ \A d \in Dir : /\ task[d] = "new" /\ mode[d] = "run" /\ framed[d] = 0 /\ taken[d] = 0 /\ seqno[d] = 0
                          /\ batch[d] = [next |-> 1, end |-> 0, seq |-> 0]
                          /\ log[d] = <<>> /\ wrote[d] = <<>> /\ lost[d] = {}
        /\ \A d \in Dir : \A x \in 1..Length[d] : stage[<<d, x>>] = "new"
    <3>1. stage = [u \in Unit |-> "new"]
      BY <1>1 DEF Init, Gate!GateInit
    <3>2. \A d \in Dir : \A x \in 1..Length[d] : <<d, x>> \in Unit
      BY DEF Unit
    <3> QED
      BY <1>1, <3>1, <3>2 DEF Init
  <2>1. TypeOK
    <3>1. <<>> \in Seq(Frame)
      OBVIOUS
    <3>2. [next |-> 1, end |-> 0, seq |-> 0] \in [next : Nat, end : Nat, seq : Nat]
      OBVIOUS
    <3>3. /\ stage \in [Unit -> Gate!Stage]
          /\ verdict \in [Unit -> Gate!Action \cup {Gate!NoVerdict}]
      BY <1>1 DEF Init, Gate!GateInit, Gate!Stage, Gate!NoVerdict
    <3>4. terminates \in 0..MaxTerminates /\ swaps \in 0..MaxSwaps
      BY <1>1, RelayAssumption DEF Init
    <3> QED
      BY <1>1, <3>1, <3>2, <3>3, <3>4 DEF Init, TypeOK, TaskState
  <2>2. ControlInv
    BY <1>1, <2>0 DEF Init, ControlInv, Ended
  <2>3. ASSUME NEW d \in Dir PROVE  /\ BatchInv(d) /\ GateInv(d) /\ WireInv(d) /\ KeptInv(d)
                                  /\ LossInv(d) /\ NumInv(d)
    <3>0. Length[d] \in Nat /\ Boundary[d] \in SUBSET Nat /\ Indices(<<>>) = {}
      BY RelayAssumption DEF Indices
    <3>1. BatchInv(d)
      BY <2>0, <3>0 DEF BatchInv, Busy
    <3>2. GateInv(d)
      BY <2>0 DEF GateInv, UnitInv
    <3>3. WireInv(d)
      BY <2>0, <3>0 DEF WireInv, Traffic, Busy
    <3>4. KeptInv(d)
      BY <2>0 DEF KeptInv, Reached, Busy
    <3>5. NumInv(d)
      BY <2>0, <3>0 DEF NumInv, Busy
    <3>6. LossInv(d)
      BY <2>0, <3>0 DEF LossInv, Traffic
    <3> QED
      BY <3>1, <3>2, <3>3, <3>4, <3>5, <3>6
  <2> QED
    BY <2>1, <2>2, <2>3 DEF IInv
<1>2. ASSUME IInv, [Next]_vars PROVE IInv'
  <2>0. TypeOK /\ ControlInv /\ \A d \in Dir : BatchInv(d)
    BY <1>2 DEF IInv
  <2>1. TypeOK' /\ ControlInv' /\ World /\ \A d \in Dir : StepOf(d) /\ LossOf(d)
    BY <1>2, <2>0, TypeStep, ControlStep, StepSplits, LossSplits
  <2>2. ASSUME NEW d \in Dir 
        PROVE  (BatchInv(d) /\ GateInv(d) /\ WireInv(d) /\ KeptInv(d) /\ LossInv(d) /\ NumInv(d))'
    <3>1. /\ TypeOK /\ TypeOK' /\ World /\ StepOf(d) /\ LossOf(d)
          /\ BatchInv(d) /\ GateInv(d) /\ WireInv(d) /\ KeptInv(d) /\ LossInv(d) /\ NumInv(d)
      BY <1>2, <2>1 DEF IInv
    <3>2. BatchInv(d)'
      BY <3>1, BatchStep
    <3>3. GateInv(d)'
      BY <3>1, <3>2, GateInvStep
    <3>4. WireInv(d)'
      BY <3>1, <3>2, WireStep
    <3>5. KeptInv(d)'
      BY <3>1, <3>2, KeptStep
    <3>6. NumInv(d)'
      BY <3>1, <3>2, NumStep
    <3>7. LossInv(d)'
      BY <3>1, <3>2, LossStep
    <3> QED
      BY <3>2, <3>3, <3>4, <3>5, <3>6, <3>7
  <2> QED
    BY <2>1, <2>2 DEF IInv
<1> QED
  BY <1>1, <1>2, PTL DEF Spec

\* A session marked CLOSED is quiet: both relay tasks are over, no frame of it
\* waits for the operator, and it is in none of the engine's maps, whenever it
\* was told to end and whatever its relays were doing then.
THEOREM ClosedIsAlwaysQuiet == Spec => []ClosedIsQuiet
<1>1. ASSUME IInv PROVE ClosedIsQuiet
  <2> SUFFICES ASSUME state = "CLOSED" PROVE (\A d \in Dir : Ended(d)) /\ Held = {} /\ ~registered
    BY DEF ClosedIsQuiet
  <2>1. main \in {"publish", "done"} /\ ~registered /\ \A d \in Dir : Ended(d)
    BY <1>1 DEF IInv, ControlInv
  <2>2. ASSUME NEW u \in Unit, stage[u] = "held" PROVE FALSE
    <3>1. PICK d \in Dir : \E x \in 1..Length[d] : u = <<d, x>>
      BY DEF Unit
    <3>2. task[d] = "held"
      BY <1>1, <2>2, <3>1 DEF IInv, GateInv, UnitInv
    <3> QED
      BY <2>1, <3>2 DEF Ended
  <2> QED
    BY <2>1, <2>2 DEF Held
<1> QED
  BY <1>1, IInvHolds, PTL

\* Nothing is written before the gate released it, nothing that was dropped,
\* and the edited bytes exactly when the operator edited: for any number of
\* frames, swaps and cancellations.
THEOREM VerdictAlwaysGoverns == Spec => []VerdictGoverns
<1>1. ASSUME IInv PROVE VerdictGoverns
  BY <1>1 DEF IInv, WireInv, Written, VerdictGoverns
<1> QED
  BY <1>1, IInvHolds, PTL

\* A direction writes what it captured in order, each frame at most once and
\* as it is logged; a relay that ends on its own, by an exception of a rule
\* too, has lost no byte but those the exception cost, and these are none that
\* were sent or that the framer still held; and no two entries of a live
\* session's log share a number.
THEOREM StreamsStayIntact == Spec => []StreamIntact
<1>1. ASSUME IInv PROVE StreamIntact
  <2>1. TypeOK /\ WireInOrder /\ WireIsLogged
    BY <1>1 DEF IInv, WireInv, Written, WireInOrder, WireIsLogged
  <2>2. NothingLost
    <3> SUFFICES ASSUME NEW d \in Dir, task[d] = "finished", swaps = 0, Other(d) \notin gone,
                        NEW b \in (1..taken[d]) \ lost[d]
                 PROVE  \E i \in Indices(log[d]) :
                          LET f == log[d][i] IN
                          /\ f.first <= b /\ b <= f.last
                          /\ \/ verdict[<<d, f.first>>] = "DROP"
                             \/ \E j \in Indices(wrote[d]) : wrote[d][j].first = f.first
      BY DEF NothingLost
    <3>1. TypeOK /\ BatchInv(d) /\ KeptInv(d)
      BY <1>1 DEF IInv
    <3>2. mode[d] = "flush" /\ framed[d] = taken[d] /\ Reached(d) = framed[d]
      BY <3>1, ReachedFacts DEF BatchInv, TypeOK, Busy
    <3>3. Accounted(d, b)
      BY <3>1, <3>2 DEF KeptInv
    <3> QED
      BY <3>3 DEF Accounted
  <2>3. NumbersUnique
    BY <1>1 DEF IInv, NumInv, NumbersUnique
  <2>4. LossIsBounded
    <3> SUFFICES ASSUME NEW d \in Dir PROVE lost[d] \subseteq 1..framed[d]
      BY <1>1 DEF IInv, LossInv, LossIsBounded
    <3>1. TypeOK /\ BatchInv(d) /\ lost[d] \subseteq 1..Reached(d)
      BY <1>1 DEF IInv, LossInv
    <3>2. Reached(d) \in Nat /\ Reached(d) <= framed[d] /\ framed[d] \in Nat
      BY <3>1, ReachedFacts DEF TypeOK
    <3> QED
      BY <3>1, <3>2
  <2> QED
    BY <2>1, <2>2, <2>3, <2>4 DEF StreamIntact
<1> QED
  BY <1>1, IInvHolds, PTL

\* The state changes when the session is marked CLOSED, or when the first relay
\* ends, and then the session is not CLOSED.
LEMMA StateStep ==
  ASSUME TypeOK, ControlInv, \A d \in Dir : BatchInv(d), [Next]_vars
  PROVE  state' = state \/ state' = "CLOSED" \/ (first_done = None /\ state # "CLOSED")
<1> USE DEF envVars, relayVars, recordVars, sessionVars
<1> DEFINE Moves == state' = state \/ state' = "CLOSED" \/ (first_done = None /\ state # "CLOSED")
<1>p. ASSUME NEW d \in Dir, NEW b \in [next : Nat, end : Nat, seq : Nat],
             NEW m \in {"run", "flush", "unwind"}, Process(d, b, m), task[d] \notin {"new", "finished", "cancelled"}
      PROVE  Moves
  <2>1. state # "CLOSED"
    BY <1>p, AliveIsGathered
  <2>2. CASE FinishRun(d, m)
    BY <2>1, <2>2, FinishRunDoes
  <2>3. CASE state' = state
    BY <2>3
  <2> QED
    BY <1>p, <2>2, <2>3, ProcessDoes
<1>1. ASSUME NEW d \in Dir, EndOfSource(d) \/ IdleReap(d) \/ Cancelled(d) PROVE Moves
  <2>1. task[d] \notin {"new", "finished", "cancelled"}
    BY <1>1 DEF EndOfSource, IdleReap, Cancelled, CanRead, At, ControlInv, Ended
  <2>2. CASE state' = state
    BY <2>2
  <2>3. ASSUME NEW m \in {"flush", "unwind"}, LeaveLoop(d, m) PROVE Moves
    <3>1. [next |-> framed[d] + 1, end |-> taken[d], seq |-> seqno[d]] \in [next : Nat, end : Nat, seq : Nat]
      BY SMTT(30) DEF TypeOK
    <3>2. Process(d, [next |-> framed[d] + 1, end |-> taken[d], seq |-> seqno[d]], m)
      BY <2>3, LeaveLoopDoes
    <3> QED
      BY <1>p, <2>1, <3>1, <3>2
  <2> QED
    BY <1>1, <2>2, <2>3 DEF EndOfSource, IdleReap, Cancelled
<1>10. ASSUME NEW d \in Dir, NextFrame(d), task[d] \in Busy PROVE Moves
  <2>1. task[d] \notin {"new", "finished", "cancelled"}
    BY <1>10 DEF Busy
  <2>2. PICK b \in [next : Nat, end : Nat, seq : Nat] :
           mode[d] \in {"run", "flush", "unwind"} /\ Process(d, b, mode[d])
    BY <1>10, NextFrameDoes
  <2> QED
    BY <1>p, <2>1, <2>2
<1>2. ASSUME NEW d \in Dir, Drop(d) \/ Drained(d) PROVE Moves
  BY <1>2, <1>10 DEF Drop, Drained, At, Busy
<1>11. ASSUME NEW d \in Dir, RuleRaises(d) PROVE Moves
  <2>1. task[d] \in Busy /\ task[d] \notin {"new", "finished", "cancelled"}
    BY <1>11 DEF RuleRaises, At, Busy
  <2>2. CASE LeaveLoop(d, "flush")
    <3>1. [next |-> framed[d] + 1, end |-> taken[d], seq |-> seqno[d]] \in [next : Nat, end : Nat, seq : Nat]
      BY SMTT(30) DEF TypeOK
    <3>2. Process(d, [next |-> framed[d] + 1, end |-> taken[d], seq |-> seqno[d]], "flush")
      BY <2>2, LeaveLoopDoes
    <3> QED
      BY <1>p, <2>1, <3>1, <3>2
  <2> QED
    BY <1>10, <1>11, <2>1, <2>2 DEF RuleRaises
<1>3. ASSUME NEW d \in Dir, EofDrained(d) PROVE Moves
  <2>1. task[d] = "eof" /\ RunReturns(d, mode[d]) /\ mode[d] \in {"run", "flush", "unwind"}
    BY <1>3 DEF EofDrained, At, TypeOK
  <2>2. state # "CLOSED"
    BY <2>1, AliveIsGathered
  <2> QED
    BY <2>1, <2>2, RunReturnsDoes
<1>4. ASSUME NEW d \in Dir, NEW n \in 1..(Length[d] - taken[d]), Read(d, n) PROVE Moves
  <2>1. framed[d] <= taken[d] /\ n \in Nat /\ task[d] = "read"
    BY <1>4 DEF BatchInv, Read, CanRead
  <2>2. /\ framed'[d] \in Nat
        /\ Process(d, [next |-> framed[d] + 1, end |-> framed'[d], seq |-> seqno[d]], "run")
    BY <1>4, <2>1, ReadDoes
  <2>3. [next |-> framed[d] + 1, end |-> framed'[d], seq |-> seqno[d]] \in [next : Nat, end : Nat, seq : Nat]
    <3>1. framed[d] \in Nat /\ seqno[d] \in Nat
      BY DEF TypeOK
    <3> QED
      BY <2>2, <3>1
  <2> QED
    BY <1>p, <2>1, <2>2, <2>3
<1>5. ASSUME NEW d \in Dir, RelayStep(d) \/ DrainStep(d) PROVE Moves
  BY <1>1, <1>2, <1>3, <1>5, <1>11 DEF RelayStep, DrainStep, Begin, Tamper, Released, Relog, Send, Updated
<1>6. CASE SessionStep \/ ClosedStep \/ Terminate
  BY <1>6 DEF SessionStep, ClosedStep, StartSession, CloseClient, CloseServer, Cleanup, PublishClosed, Terminate, MarkClosed
<1>7. CASE SwapFramers \/ ForwardAll \/ \E u \in Unit, a \in Gate!Action : Decide({u}, a)
  BY <1>7 DEF SwapFramers, ForwardAll, Decide
<1>8. ASSUME NEW d \in Dir, PeerCloses(d) \/ InjectWrite(d) \/ InjectLog(d) \/ InjectFails(d) PROVE Moves
  BY <1>8 DEF PeerCloses, InjectWrite, InjectLog, InjectFails
<1>9. CASE UNCHANGED vars
  BY <1>9 DEF vars
<1> QED
  BY <1>1, <1>4, <1>5, <1>6, <1>7, <1>8, <1>9 DEF Next

\* CLOSED is final: no callback of a relay meets a session that is closed.  And
\* a half-open state names the side whose relay still runs: it is entered once,
\* by the first relay to end, while the other one is not finished.
THEOREM StatesAlwaysAgree == Spec => StatesAgree
<1> DEFINE HalfOpen == state' # state =>
             /\ state' = "ONLY_SERVER" => task["down"] # "finished"
             /\ state' = "ONLY_CLIENT" => task["up"] # "finished"
             /\ state \in {"ONLY_SERVER", "ONLY_CLIENT"} => state' = "CLOSED"
<1>1. ASSUME IInv, [Next]_vars PROVE (state = "CLOSED" => state' = "CLOSED") /\ HalfOpen
  <2>0. /\ "up" \in Dir /\ "down" \in Dir /\ ControlInv
        /\ state' = state \/ state' = "CLOSED" \/ (first_done = None /\ state # "CLOSED")
    BY <1>1, StateStep DEF IInv, Dir
  <2>1. CASE state' = state \/ state' = "CLOSED"
    BY <2>1
  <2>2. CASE first_done = None /\ state # "CLOSED"
    BY <2>0, <2>2 DEF ControlInv
  <2> QED
    BY <2>0, <2>1, <2>2
<1> QED
  <2>1. IInv /\ [Next]_vars => [state = "CLOSED" => state' = "CLOSED"]_vars /\ [HalfOpen]_vars
    BY <1>1
  <2> QED
    BY <2>1, IInvHolds, PTL DEF Spec, StatesAgree, ClosedIsFinal, HalfOpenNamesSurvivor
==============================================================================
