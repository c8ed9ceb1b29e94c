--------------------------- MODULE ProjectProofs ---------------------------
(***************************************************************************)
(* Theorems about the project and the knowledge base, for any number of    *)
(* files, entries, edits, saves and attempts to open, and with any member  *)
(* of a stranger's project damaged.  IInv is the inductive invariant they  *)
(* rest on.                                                                *)
(***************************************************************************)
EXTENDS Project, SequenceTheorems, WellFoundedInduction, TLAPS

Authors == {"user", "ai"}

\* The knowledge base, on the screen, in the manager's hands or in a file.
IsNotebook(k) ==
    /\ k = [notes |-> k.notes, entry |-> k.entry, lastBy |-> k.lastBy]
    /\ k.notes \in Seq(Entries) /\ IsInjective(k.notes)
    /\ DOMAIN k.entry = Entries
    /\ k.lastBy \in [Entries -> Authors]

KnowledgeInv ==
    /\ notes \in Seq(Entries) /\ IsInjective(notes)
    /\ DOMAIN entry = Entries
    /\ lastBy \in [Entries -> Authors]
    /\ form = NoForm \/ form.id \in Entries
    /\ work \in Nat

\* What the manager holds is the live work, unless a project was read half-way.
HeldInv ==
    /\ DOMAIN held = Members /\ IsNotebook(held["knowledge"])
    /\ ~spoilt => apart \subseteq Synced
    /\ spoilt \in BOOLEAN

\* A file of which it is known what was on the screen holds just that.
FileInv ==
    /\ DOMAIN disk = Paths /\ DOMAIN seen = Paths
    /\ \A p \in Paths :
          /\ disk[p].state = "whole" => IsNotebook(disk[p].content["knowledge"])
          /\ seen[p] # <<>> => /\ disk[p].state = "whole" /\ disk[p].at = 0
                               /\ \A m \in Members : disk[p].content[m] = seen[p][m]

StarInv ==
    /\ DOMAIN live = Versioned /\ dirty \in BOOLEAN
    /\ NoStarMeansSaved

IInv ==
    /\ KnowledgeInv /\ HeldInv /\ FileInv /\ StarInv
    /\ did \in [edits : Nat, saves : Nat, opens : Nat]

---------------------------------------------------------------------------
(* Lists of entries.                                                       *)

(* The first place of an entry in a list is a place where it is.           *)
LEMMA FirstPlace ==
  ASSUME NEW I, I \subseteq Nat, I # {}
  PROVE  Min(I) \in I
  <1> DEFINE R == OpToRel(<, Nat)
  <1>1. PICK x \in I : \A y \in I : ~ (<<y, x>> \in R)
    <2>1. IsWellFoundedOn(R, Nat)
      BY NatLessThanWellFounded
    <2> HIDE DEF R
    <2> QED
      BY <2>1, WFMin
  <1>2. \A y \in I : x <= y
    <2> SUFFICES ASSUME NEW y \in I PROVE x <= y
      OBVIOUS
    <2>1. x \in Nat /\ y \in Nat
      OBVIOUS
    <2>2. ~(y < x)
      BY <1>1, <2>1 DEF OpToRel
    <2> QED
      BY <2>1, <2>2
  <1> QED
    BY <1>2 DEF Min

(* A list without what is at one place.                                    *)
LEMMA RemoveAtFacts ==
  ASSUME NEW S, NEW s \in Seq(S), NEW n \in 1 .. Len(s)
  PROVE  /\ RemoveAt(s, n) \in Seq(S)
         /\ Len(RemoveAt(s, n)) = Len(s) - 1
         /\ \A i \in 1 .. Len(s) - 1 : RemoveAt(s, n)[i] = IF i < n THEN s[i] ELSE s[i + 1]
  <1> DEFINE a == SubSeq(s, 1, n - 1)
             b == SubSeq(s, n + 1, Len(s))
  <1>0. Len(s) \in Nat /\ n \in Nat /\ 1 <= n /\ n <= Len(s)
    BY LenProperties
  <1>1. a \in Seq(S) /\ Len(a) = n - 1 /\ \A i \in 1 .. n - 1 : a[i] = s[i]
    <2>1. \A i \in 1 .. n - 1 : i \in 1 .. Len(s)
      BY <1>0
    <2>2. \A i \in 1 .. n - 1 : s[i] \in S
      BY <2>1, ElementOfSeq
    <2> QED
      BY <1>0, <2>1, <2>2, SubSeqProperties
  <1>2. b \in Seq(S) /\ Len(b) = Len(s) - n /\ \A i \in 1 .. Len(s) - n : b[i] = s[n + i]
    <2>1. \A i \in n + 1 .. Len(s) : s[i] \in S
      <3>1. \A i \in n + 1 .. Len(s) : i \in 1 .. Len(s)
        BY <1>0
      <3> QED
        BY <3>1, ElementOfSeq
    <2>2. CASE n + 1 <= Len(s)
      BY <1>0, <2>1, <2>2, SubSeqProperties
    <2>3. CASE n = Len(s)
      BY <1>0, <2>1, <2>3, SubSeqProperties
    <2>4. \A l, k \in Nat : k <= l => k + 1 <= l \/ k = l
      OBVIOUS
    <2>5. n + 1 <= Len(s) \/ n = Len(s)
      BY <1>0, <2>4
    <2> QED
      BY <2>2, <2>3, <2>5
  <1> HIDE DEF a, b
  <1>3. /\ a \o b \in Seq(S) /\ Len(a \o b) = Len(a) + Len(b)
        /\ \A i \in 1 .. Len(a) + Len(b) : (a \o b)[i] = IF i <= Len(a) THEN a[i] ELSE b[i - Len(a)]
    BY <1>1, <1>2, ConcatProperties
  <1>4. RemoveAt(s, n) = a \o b
    BY DEF RemoveAt, a, b
  <1>5. ASSUME NEW i \in 1 .. Len(s) - 1 PROVE (a \o b)[i] = IF i < n THEN s[i] ELSE s[i + 1]
    <2>1. i \in 1 .. Len(a) + Len(b) /\ (i <= Len(a) <=> i < n)
      BY <1>0, <1>1, <1>2
    <2>2. CASE i < n
      <3>1. (a \o b)[i] = a[i] /\ i \in 1 .. n - 1
        BY <1>0, <1>3, <2>1, <2>2
      <3> QED
        BY <3>1, <1>1, <2>2
    <2>3. CASE ~(i < n)
      <3>1. (a \o b)[i] = b[i - Len(a)]
        BY <1>3, <2>1, <2>3
      <3>2. i - Len(a) \in 1 .. Len(s) - n /\ n + (i - Len(a)) = i + 1
        BY <1>0, <1>1, <2>3
      <3> QED
        BY <3>1, <3>2, <1>2, <2>3
    <2> QED
      BY <2>2, <2>3
  <1> QED
    <2>1. Len(a) + Len(b) = Len(s) - 1
      BY <1>0, <1>1, <1>2
    <2> QED
      BY <2>1, <1>3, <1>4, <1>5

(* remove_finding, remove_note: what is left was there, once, and only the *)
(* removed entry is missing.                                               *)
LEMMA RemoveFacts ==
  ASSUME NEW S, NEW s \in Seq(S), NEW e
  PROVE  /\ RemoveFirst(s, e) \in Seq(S)
         /\ IsInjective(s) => IsInjective(RemoveFirst(s, e))
         /\ \A x : Contains(s, x) /\ x # e => Contains(RemoveFirst(s, e), x)
  <1> DEFINE I == {i \in 1 .. Len(s) : s[i] = e}
             r == RemoveFirst(s, e)
  <1>0. Len(s) \in Nat /\ DOMAIN s = 1 .. Len(s)
    BY LenProperties
  <1>1. CASE I = {}
    <2>1. r = s
      BY <1>1 DEF RemoveFirst
    <2> QED
      BY <2>1
  <1>2. CASE I # {}
    <2> DEFINE n == Min(I)
    <2>1. n \in 1 .. Len(s) /\ s[n] = e
      <3>1. I \subseteq Nat
        BY <1>0
      <3>2. n \in I
        BY <3>1, <1>2, FirstPlace
      <3> QED
        BY <3>2
    <2>2. r = RemoveAt(s, n)
      BY <1>2 DEF RemoveFirst, SelectInSeq
    <2> HIDE DEF n, r, I
    <2>3. /\ r \in Seq(S) /\ Len(r) = Len(s) - 1
          /\ \A i \in 1 .. Len(s) - 1 : r[i] = IF i < n THEN s[i] ELSE s[i + 1]
      BY <2>1, <2>2, RemoveAtFacts
    <2>4. DOMAIN r = 1 .. Len(s) - 1
      BY <2>3, LenProperties
    <2> DEFINE old(i) == IF i < n THEN i ELSE i + 1
    <2>5. \A i \in DOMAIN r : old(i) \in DOMAIN s /\ r[i] = s[old(i)]
      BY <1>0, <2>1, <2>3, <2>4
    <2>6. \A i, j \in DOMAIN r : old(i) = old(j) => i = j
      BY <1>0, <2>1, <2>4
    <2>7. \A k \in DOMAIN s : k # n => \E i \in DOMAIN r : old(i) = k
      <3> SUFFICES ASSUME NEW k \in DOMAIN s, k # n PROVE \E i \in DOMAIN r : old(i) = k
        OBVIOUS
      <3>1. CASE k < n
        <4>1. k \in DOMAIN r /\ old(k) = k
          BY <1>0, <2>1, <2>4, <3>1
        <4> QED
          BY <4>1
      <3>2. CASE k > n
        <4>1. k - 1 \in DOMAIN r /\ old(k - 1) = k
          BY <1>0, <2>1, <2>4, <3>2
        <4> QED
          BY <4>1
      <3> QED
        BY <1>0, <2>1, <3>1, <3>2
    <2> HIDE DEF old
    <2>8. IsInjective(s) => IsInjective(r)
      BY <2>5, <2>6 DEF IsInjective
    <2>9. ASSUME NEW x, Contains(s, x), x # e PROVE Contains(r, x)
      <3>1. PICK k \in DOMAIN s : s[k] = x
        BY <1>0, <2>9 DEF Contains
      <3>2. PICK i \in DOMAIN r : old(i) = k
        BY <2>1, <2>7, <2>9, <3>1
      <3>3. r[i] = x /\ DOMAIN r = 1 .. Len(r)
        BY <2>3, <2>4, <2>5, <3>1, <3>2
      <3> QED
        BY <3>3 DEF Contains
    <2> QED
      BY <2>3, <2>8, <2>9 DEF r
  <1> QED
    BY <1>1, <1>2

(* A new entry at the end of a list.                                       *)
LEMMA AppendFacts ==
  ASSUME NEW S, NEW s \in Seq(S), NEW e \in S
  PROVE  /\ Append(s, e) \in Seq(S)
         /\ IsInjective(s) /\ ~Contains(s, e) => IsInjective(Append(s, e))
         /\ Contains(Append(s, e), e)
         /\ \A x : Contains(s, x) => Contains(Append(s, e), x)
  <1> DEFINE r == Append(s, e)
  <1>1. /\ Len(s) \in Nat /\ DOMAIN s = 1 .. Len(s) /\ r \in Seq(S) /\ Len(r) = Len(s) + 1
        /\ DOMAIN r = 1 .. Len(s) + 1
        /\ \A i \in 1 .. Len(s) : r[i] = s[i]
        /\ r[Len(s) + 1] = e
    <2>1. /\ r \in Seq(S) /\ Len(r) = Len(s) + 1 /\ \A i \in 1 .. Len(s) : r[i] = s[i]
          /\ r[Len(s) + 1] = e
      BY AppendProperties
    <2> QED
      BY <2>1, LenProperties
  <1> HIDE DEF r
  <1>2. IsInjective(s) /\ ~Contains(s, e) => IsInjective(r)
    <2> SUFFICES ASSUME IsInjective(s), ~Contains(s, e), NEW i \in DOMAIN r, NEW j \in DOMAIN r, r[i] = r[j]
                 PROVE  i = j
      BY DEF IsInjective
    <2>1. CASE i \in 1 .. Len(s) /\ j \in 1 .. Len(s)
      BY <1>1, <2>1 DEF IsInjective
    <2>2. CASE i \in 1 .. Len(s) /\ j = Len(s) + 1
      BY <1>1, <2>2 DEF Contains
    <2>3. CASE i = Len(s) + 1 /\ j \in 1 .. Len(s)
      BY <1>1, <2>3 DEF Contains
    <2> QED
      BY <1>1, <2>1, <2>2, <2>3
  <1>3. Contains(r, e) /\ \A x : Contains(s, x) => Contains(r, x)
    <2>1. Len(s) + 1 \in 1 .. Len(r) /\ \A i \in 1 .. Len(s) : i \in 1 .. Len(r)
      BY <1>1
    <2> QED
      BY <1>1, <2>1 DEF Contains
  <1> QED
    BY <1>1, <1>2, <1>3 DEF r

---------------------------------------------------------------------------
(* The knowledge base.                                                     *)

(* What a step of the operator or of the AI may do to the entries.         *)
LEMMA KnowledgeStep ==
  ASSUME KnowledgeInv, KnowledgeNext
  PROVE  /\ KnowledgeInv'
         /\ \A e \in Entries :
               lastBy[e] = "user" /\ entry[e].locked /\ Has(e) /\ ~ByOperator
                  => entry'[e] = entry[e] /\ Contains(notes', e)
         /\ \A e \in Entries : lastBy'[e] = "user" /\ entry'[e] # entry[e] => Contains(notes', e)
  <1> USE DEF KnowledgeInv
  <1> DEFINE Kept == \A e \in Entries :
                        lastBy[e] = "user" /\ entry[e].locked /\ Has(e) /\ ~ByOperator
                           => entry'[e] = entry[e] /\ Contains(notes', e)
             Listed == \A e \in Entries : lastBy'[e] = "user" /\ entry'[e] # entry[e] => Contains(notes', e)
             Goal == KnowledgeInv' /\ Kept /\ Listed
  <1>f. form # NoForm => form.id \in Entries
    OBVIOUS
  <1>n. NoForm.id = NoEntry
    BY DEF NoForm
  <1>1. ASSUME Highlight \/ RefreshTable \/ Cancel \/ AskDelete PROVE Goal
    <2>1. UNCHANGED <<notes, entry, lastBy, work>> /\ (form' = form \/ form' = NoForm)
      BY <1>1 DEF Highlight, RefreshTable, Refresh, Cancel, AskDelete
    <2> QED
      BY <2>1 DEF Has
  <1>2. ASSUME OpenNew PROVE Goal
    <2>1. UNCHANGED <<notes, entry, lastBy, work>> /\ form'.id \in Entries
      BY <1>2 DEF OpenNew, Fresh
    <2> QED
      BY <2>1 DEF Has
  <1>3. ASSUME OpenEdit PROVE Goal
    <2>1. UNCHANGED <<notes, entry, lastBy, work>> /\ form'.id = selected /\ Has(selected)
      BY <1>3 DEF OpenEdit
    <2>2. selected \in Entries
      BY <2>1, ElementOfSeq DEF Has, Contains
    <2> QED
      BY <2>1, <2>2 DEF Has
  <1>4. ASSUME Save PROVE Goal
    <2>1. PICK t \in Texts, s \in ValidStatuses, lock \in BOOLEAN :
             /\ entry' = [entry EXCEPT ![form.id] =
                             Written(IF form.new THEN "user" ELSE @.author, form.new \/ lock, t, s)]
             /\ lastBy' = [lastBy EXCEPT ![form.id] = "user"]
      BY <1>4 DEF Save
    <2>2. /\ form # NoForm /\ form' = NoForm /\ work' = work + 1
          /\ notes' = IF Has(form.id) THEN notes ELSE Append(notes, form.id)
      BY <1>4 DEF Save, Worked
    <2>3. form.id \in Entries
      BY <1>f, <2>2
    <2>4. /\ notes' \in Seq(Entries) /\ IsInjective(notes') /\ Contains(notes', form.id)
      BY <2>2, <2>3, AppendFacts DEF Has
    <2>5. ByOperator
      BY <2>2 DEF ByOperator
    <2>6. DOMAIN entry' = Entries /\ lastBy' \in [Entries -> Authors]
          /\ \A e \in Entries : e # form.id => entry'[e] = entry[e]
      BY <2>1, <2>3 DEF Authors
    <2>7. KnowledgeInv'
      BY <2>2, <2>4, <2>6
    <2> QED
      BY <2>4, <2>5, <2>6, <2>7
  <1>5. ASSUME AnswerDelete PROVE Goal
    <2>1. /\ UNCHANGED <<entry, form, lastBy>> /\ asking /\ ~asking'
          /\ work' = work + 1 \/ work' = work
          /\ notes' = RemoveFirst(notes, selected) \/ notes' = notes
      BY <1>5 DEF AnswerDelete, Worked
    <2>2. notes' \in Seq(Entries) /\ IsInjective(notes')
      BY <2>1, RemoveFacts
    <2>3. ByOperator
      BY <2>1 DEF ByOperator
    <2> QED
      BY <2>1, <2>2, <2>3
  <1>6. ASSUME AiAdd PROVE Goal
    <2>1. PICK a \in Fresh, t \in Texts, s \in Statuses \intersect ValidStatuses :
             /\ entry' = [entry EXCEPT ![a] = Written("ai", FALSE, t, s)]
             /\ notes' = Append(notes, a)
             /\ lastBy' = [lastBy EXCEPT ![a] = "ai"]
      BY <1>6 DEF AiAdd
    <2>2. UNCHANGED form /\ work' = work + 1
      BY <1>6 DEF AiAdd, ByAi, Worked
    <2>3. a \in Entries /\ ~Contains(notes, a)
      BY DEF Fresh, ToSet, Contains
    <2>4. /\ notes' \in Seq(Entries) /\ IsInjective(notes')
          /\ \A x : Contains(notes, x) => Contains(notes', x)
      BY <2>1, <2>3, AppendFacts
    <2>5. /\ DOMAIN entry' = Entries /\ lastBy' \in [Entries -> Authors] /\ lastBy'[a] = "ai"
          /\ \A e \in Entries : e # a => entry'[e] = entry[e]
      BY <2>1, <2>3 DEF Authors
    <2>6. KnowledgeInv'
      BY <2>2, <2>4, <2>5
    <2>7. Kept
      BY <2>3, <2>4, <2>5 DEF Has
    <2>8. Listed
      BY <2>5
    <2> QED
      BY <2>6, <2>7, <2>8
  <1>7. ASSUME AiUpdate PROVE Goal
    <2>1. PICK a \in Entries :
             /\ AiCanMutate(a)
             /\ DOMAIN entry' = Entries /\ \A e \in Entries : e # a => entry'[e] = entry[e]
             /\ lastBy' = [lastBy EXCEPT ![a] = "ai"]
      BY <1>7 DEF AiUpdate
    <2>2. UNCHANGED <<notes, form>> /\ work' = work + 1
      BY <1>7 DEF AiUpdate, ByAi, Worked
    <2>3. /\ DOMAIN entry' = Entries /\ lastBy' \in [Entries -> Authors] /\ lastBy'[a] = "ai"
          /\ \A e \in Entries : e # a => entry'[e] = entry[e]
      BY <2>1 DEF Authors
    <2>4. ~entry[a].locked
      BY <2>1 DEF AiCanMutate
    <2> QED
      BY <2>2, <2>3, <2>4 DEF Has
  <1>8. ASSUME AiRemove PROVE Goal
    <2>1. PICK a \in Entries : AiCanMutate(a) /\ notes' = RemoveFirst(notes, a)
      BY <1>8 DEF AiRemove
    <2>2. UNCHANGED <<entry, lastBy, form>> /\ work' = work + 1 /\ ~entry[a].locked
      BY <1>8, <2>1 DEF AiRemove, ByAi, Worked, AiCanMutate
    <2>3. /\ notes' \in Seq(Entries) /\ IsInjective(notes')
          /\ \A x : Contains(notes, x) /\ x # a => Contains(notes', x)
      BY <2>1, RemoveFacts
    <2> QED
      BY <2>2, <2>3 DEF Has
  <1> QED
    BY <1>1, <1>2, <1>3, <1>4, <1>5, <1>6, <1>7, <1>8 DEF KnowledgeNext

---------------------------------------------------------------------------
(* The project.                                                            *)

(* The members of a project.                                               *)
LEMMA MembersAre ==
  /\ "knowledge" \in Members /\ Versioned \subseteq Members /\ "knowledge" \notin Versioned
  /\ \A m \in Members : m # "knowledge" => m \in Versioned
  /\ Marking \subseteq Versioned /\ "knowledge" \notin Synced /\ Synced \subseteq Members
  /\ "forwarders" \in Versioned /\ "knowledge" \notin Switched
  <1>1. Members = {"forwarders", "rules", "forge", "logs", "filters", "mcp", "knowledge"}
    <2>1. DOMAIN Order = 1 .. 7
      BY DEF Order
    <2>2. \A i \in 1 .. 7 : i = 1 \/ i = 2 \/ i = 3 \/ i = 4 \/ i = 5 \/ i = 6 \/ i = 7
      OBVIOUS
    <2>3. Order[1] = "forwarders" /\ Order[2] = "rules" /\ Order[3] = "forge" /\ Order[4] = "logs"
          /\ Order[5] = "filters" /\ Order[6] = "mcp" /\ Order[7] = "knowledge"
      BY DEF Order
    <2> HIDE DEF Order
    <2>4. \A m : m \in ToSet(Order) <=> \E i \in 1 .. 7 : Order[i] = m
      BY <2>1 DEF ToSet
    <2> QED
      BY <2>2, <2>3, <2>4 DEF Members
  <1> QED
    BY <1>1 DEF Versioned, Marking, Synced, Switched

(* What opening makes of a part: the knowledge base comes as it is, and    *)
(* every other part as ComesBack says.                                     *)
LEMMA OpenedFacts ==
  ASSUME NEW c, NEW m \in Members
  PROVE  /\ Opened(c)[m] = Adopts(m, Reads(m, c[m]))
         /\ m = "knowledge" => Opened(c)[m] = c[m] /\ Reads(m, c[m]) = c[m]
         /\ ComesBack(m, c[m], Opened(c)[m])
  <1>1. Opened(c)[m] = Adopts(m, Reads(m, c[m]))
    BY DEF Opened
  <1>2. ASSUME m \notin Switched PROVE Opened(c)[m] = c[m] /\ Reads(m, c[m]) = c[m]
    BY <1>1, <1>2 DEF Adopts, Reads, Switched
  <1>3. ASSUME m = "forwarders" PROVE ComesBack(m, c[m], Opened(c)[m])
    <2>1. Opened(c)[m] = Version(Reads(m, c[m]).v, FALSE)
      BY <1>1, <1>3 DEF Adopts
    <2>2. Opened(c)[m].v = Reads(m, c[m]).v /\ Opened(c)[m].on = FALSE
      BY <2>1 DEF Version
    <2>3. Reads(m, c[m]) = IF c[m].v = NoForwarders THEN DefaultForwarder ELSE c[m]
      BY <1>3 DEF Reads
    <2> QED
      BY <1>3, <2>2, <2>3 DEF ComesBack, Switched
  <1>4. ASSUME m = "forge" PROVE ComesBack(m, c[m], Opened(c)[m])
    <2>1. Opened(c)[m] = Version(c[m].v, FALSE)
      BY <1>1, <1>4 DEF Adopts, Reads
    <2>2. Opened(c)[m].v = c[m].v /\ Opened(c)[m].on = FALSE
      BY <2>1 DEF Version
    <2> QED
      BY <1>4, <2>2 DEF ComesBack, Switched
  <1>5. ASSUME m = "mcp" PROVE ComesBack(m, c[m], Opened(c)[m])
    <2>1. Opened(c)[m] = Version(c[m].v, c[m].on /\ McpAvailable)
      BY <1>1, <1>5 DEF Adopts, Reads
    <2>2. Opened(c)[m].v = c[m].v /\ Opened(c)[m].on = (c[m].on /\ McpAvailable)
      BY <2>1 DEF Version
    <2> QED
      BY <1>5, <2>2 DEF ComesBack, Switched
  <1>6. m \notin Switched => ComesBack(m, c[m], Opened(c)[m])
    BY <1>2 DEF ComesBack
  <1> QED
    BY <1>1, <1>2, <1>3, <1>4, <1>5, <1>6, MembersAre DEF Switched

(* The live work, and what the manager holds, have a sound knowledge base. *)
LEMMA WorkIsSound ==
  ASSUME KnowledgeInv, HeldInv
  PROVE  /\ IsNotebook(Notebook) /\ Live["knowledge"] = Notebook
         /\ IsNotebook(Sync["knowledge"])
         /\ ~spoilt => \A m \in Members : Sync[m] = Live[m]
  <1>1. IsNotebook(Notebook)
    BY DEF KnowledgeInv, Notebook, IsNotebook
  <1>2. Live["knowledge"] = Notebook
    BY MembersAre DEF Live
  <1>3. Sync["knowledge"] = Held["knowledge"]
    BY MembersAre DEF Sync
  <1>4. Held["knowledge"] = held["knowledge"] \/ Held["knowledge"] = Live["knowledge"]
    BY MembersAre DEF Held
  <1>5. ASSUME ~spoilt, NEW m \in Members PROVE Sync[m] = Live[m]
    <2>1. m \in Synced \/ m \notin apart
      BY <1>5 DEF HeldInv
    <2> QED
      BY <2>1 DEF Sync, Held
  <1> QED
    BY <1>1, <1>2, <1>3, <1>4, <1>5 DEF HeldInv

(* Saving, or failing to save, in whatever place.                          *)
LEMMA SaveStep ==
  ASSUME IInv, NEW p \in Paths \cup {path}, SaveTo(p)
  PROVE  IInv'
  <1>i. /\ KnowledgeInv /\ HeldInv /\ FileInv /\ StarInv
        /\ did \in [edits : Nat, saves : Nat, opens : Nat]
    BY DEF IInv
  <1>1. /\ UNCHANGED <<kvars, live, apart, waking, spoilt>>
        /\ held' = [m \in Members |-> IF m \in Synced THEN Sync[m] ELSE held[m]]
        /\ did' = [did EXCEPT !.saves = @ + 1]
    BY DEF SaveTo
  <1>2. PICK ok \in BOOLEAN : Write(p, Sync, ok)
    BY DEF SaveTo
  <1>k. UNCHANGED <<notes, entry, lastBy, form, work>>
    BY <1>1 DEF kvars
  <1>3. KnowledgeInv'
    BY <1>i, <1>k DEF KnowledgeInv
  <1>4. HeldInv'
    <2>1. held'["knowledge"] = held["knowledge"]
      BY <1>1, MembersAre
    <2> QED
      BY <1>i, <1>1, <2>1 DEF HeldInv
  <1>5. FileInv'
    <2>1. DOMAIN disk' = Paths /\ DOMAIN seen' = Paths
      BY <1>i, <1>2 DEF Write, FileInv
    <2>2. ASSUME NEW q \in Paths
          PROVE  /\ disk'[q].state = "whole" => IsNotebook(disk'[q].content["knowledge"])
                 /\ seen'[q] # <<>> => /\ disk'[q].state = "whole" /\ disk'[q].at = 0
                                       /\ \A m \in Members : disk'[q].content[m] = seen'[q][m]
      <3>1. CASE q # p
        <4>1. disk'[q] = disk[q] /\ seen'[q] = seen[q]
          BY <1>i, <1>2, <3>1 DEF Write, FileInv
        <4> QED
          BY <1>i, <4>1 DEF FileInv
      <3>2. CASE q = p /\ ok
        <4>1. /\ disk'[q] = [state |-> "whole", at |-> 0, content |-> Sync]
              /\ seen'[q] = IF ~spoilt THEN Live ELSE <<>>
          BY <1>i, <1>2, <3>2 DEF Write, FileInv
        <4>2. disk'[q].state = "whole" /\ disk'[q].at = 0 /\ disk'[q].content = Sync
          BY <4>1
        <4>3. seen'[q] # <<>> => ~spoilt /\ seen'[q] = Live
          BY <4>1
        <4> QED
          BY <1>i, <4>2, <4>3, WorkIsSound
      <3>3. CASE q = p /\ ~ok
        <4>1. disk'[q] = [NoFile EXCEPT !.state = "truncated"] /\ seen'[q] = <<>>
          BY <1>i, <1>2, <3>3 DEF Write, FileInv
        <4>2. disk'[q].state = "truncated"
          BY <4>1 DEF NoFile
        <4> QED
          BY <4>1, <4>2
      <3> QED
        BY <3>1, <3>2, <3>3
    <2> QED
      BY <2>1, <2>2 DEF FileInv
  <1>6. StarInv'
    <2>1. /\ dirty' = (IF ok THEN FALSE ELSE dirty) /\ live' = live /\ spoilt' = spoilt
          /\ basis' = (IF ok THEN [m \in Versioned |-> Sync[m]] ELSE basis)
          /\ silent' = (IF ok THEN {} ELSE silent)
      BY <1>1, <1>2 DEF Write
    <2>2. CASE ~ok
      BY <1>i, <2>1, <2>2 DEF StarInv, NoStarMeansSaved
    <2>3. CASE ok
      <3>1. ASSUME NEW m \in Marking, ~spoilt PROVE basis'[m] = live'[m]
        <4>1. Live[m] = live[m] /\ m \in Versioned
          BY MembersAre DEF Live
        <4>2. Sync[m] = Live[m]
          BY <1>i, <3>1, <4>1, WorkIsSound, MembersAre
        <4> QED
          BY <2>1, <2>3, <4>1, <4>2
      <3> QED
        BY <1>i, <2>1, <2>3, <3>1 DEF StarInv, NoStarMeansSaved
    <2> QED
      BY <2>2, <2>3
  <1>7. did' \in [edits : Nat, saves : Nat, opens : Nat]
    BY <1>i, <1>1
  <1> QED
    BY <1>3, <1>4, <1>5, <1>6, <1>7 DEF IInv

(* The process is killed, in the middle of a save or not.                  *)
LEMMA KilledStep ==
  ASSUME IInv, Killed
  PROVE  IInv'
  <1>i. /\ KnowledgeInv /\ HeldInv /\ FileInv /\ StarInv
        /\ did \in [edits : Nat, saves : Nat, opens : Nat]
    BY DEF IInv
  <1>1. /\ notes' = <<>> /\ form' = NoForm /\ entry' = BlankEntries
        /\ lastBy' = [e \in Entries |-> "ai"] /\ work' = work
        /\ live' = FreshVersions /\ basis' = FreshVersions /\ held' = Live' /\ apart' = Synced
        /\ dirty' = FALSE /\ silent' = {} /\ spoilt' = FALSE
    BY DEF Killed
  <1>2. KnowledgeInv'
    <2>1. notes' \in Seq(Entries) /\ IsInjective(notes')
      BY <1>1 DEF IsInjective
    <2> QED
      BY <1>i, <1>1, <2>1 DEF KnowledgeInv, BlankEntries, Authors
  <1>3. HeldInv'
    <2>1. IsNotebook(Notebook')
      BY <1>2 DEF KnowledgeInv, Notebook, IsNotebook
    <2>2. held'["knowledge"] = Notebook'
      BY <1>1, MembersAre DEF Live
    <2>3. DOMAIN held' = Members
      BY <1>1 DEF Live
    <2> QED
      BY <1>1, <2>1, <2>2, <2>3 DEF HeldInv
  <1>4. FileInv'
    <2>1. CASE UNCHANGED <<disk, seen>>
      BY <1>i, <2>1 DEF FileInv
    <2>2. CASE /\ disk' = [disk EXCEPT ![path] = [NoFile EXCEPT !.state = "truncated"]]
               /\ seen' = [seen EXCEPT ![path] = <<>>]
      <3>1. ASSUME NEW q \in Paths, q # path PROVE disk'[q] = disk[q] /\ seen'[q] = seen[q]
        BY <1>i, <2>2, <3>1 DEF FileInv
      <3>2. ASSUME NEW q \in Paths, q = path PROVE disk'[q].state = "truncated" /\ seen'[q] = <<>>
        BY <1>i, <2>2, <3>2 DEF FileInv, NoFile
      <3>3. DOMAIN disk' = Paths /\ DOMAIN seen' = Paths
        BY <1>i, <2>2 DEF FileInv
      <3> QED
        BY <1>i, <3>1, <3>2, <3>3 DEF FileInv
    <2> QED
      BY <2>1, <2>2 DEF Killed
  <1>5. StarInv'
    BY <1>1 DEF StarInv, NoStarMeansSaved, FreshVersions
  <1>6. did' \in [edits : Nat, saves : Nat, opens : Nat]
    BY <1>i DEF Killed
  <1> QED
    BY <1>2, <1>3, <1>4, <1>5, <1>6 DEF IInv

(* A project is opened, whole or half-way, or cannot be.                   *)
LEMMA OpenStep ==
  ASSUME IInv, OpenProject
  PROVE  IInv'
  <1>i. /\ KnowledgeInv /\ HeldInv /\ FileInv /\ StarInv
        /\ did \in [edits : Nat, saves : Nat, opens : Nat]
    BY DEF IInv
  <1>d. did' \in [edits : Nat, saves : Nat, opens : Nat]
    BY <1>i DEF OpenProject
  <1>1. ASSUME UNCHANGED <<kvars, live, held, apart, path, dirty, disk, seen, basis, silent, waking, spoilt>>
        PROVE  IInv'
    <2>1. UNCHANGED <<notes, entry, lastBy, form, work>>
      BY <1>1 DEF kvars
    <2> QED
      BY <1>i, <1>d, <1>1, <2>1 DEF IInv, KnowledgeInv, HeldInv, FileInv, StarInv, NoStarMeansSaved
  <1>2. ASSUME NEW p \in Paths, disk[p].state = "whole", OpenHalf(disk[p])
        PROVE  IInv'
    <2> DEFINE f == disk[p]
               before == {Order[i] : i \in 1 .. f.at - 1}
    <2>1. /\ held' = [m \in Members |-> IF m \in before THEN Reads(m, f.content[m]) ELSE held[m]]
          /\ apart' = apart \cup before /\ spoilt' = (spoilt \/ before # {})
          /\ UNCHANGED <<kvars, live, path, dirty, disk, seen, basis, silent, waking>>
      BY <1>2 DEF OpenHalf
    <2>2. IsNotebook(f.content["knowledge"])
      BY <1>i, <1>2 DEF FileInv
    <2> HIDE DEF f, before
    <2>3. held'["knowledge"] = f.content["knowledge"] \/ held'["knowledge"] = held["knowledge"]
      BY <2>1, MembersAre, OpenedFacts
    <2>4. HeldInv'
      BY <1>i, <2>1, <2>2, <2>3 DEF HeldInv
    <2>5. UNCHANGED <<notes, entry, lastBy, form, work>>
      BY <2>1 DEF kvars
    <2> QED
      BY <1>i, <1>d, <2>1, <2>4, <2>5 DEF IInv, KnowledgeInv, FileInv, StarInv, NoStarMeansSaved
  <1>3. ASSUME NEW p \in Paths, disk[p].state = "whole", OpenWhole(disk[p])
        PROVE  IInv'
    <2> DEFINE c == disk[p].content
    <2>1. IsNotebook(c["knowledge"])
      BY <1>i, <1>3 DEF FileInv
    <2>2. /\ live' = [m \in Versioned |-> Opened(c)[m]] /\ basis' = [m \in Versioned |-> c[m]]
          /\ silent' = {m \in Versioned : live'[m] # c[m]} /\ held' = Opened(c)
          /\ apart' = Synced /\ dirty' = FALSE /\ spoilt' = FALSE
          /\ notes' = c["knowledge"].notes /\ entry' = c["knowledge"].entry /\ lastBy' = c["knowledge"].lastBy
          /\ UNCHANGED <<form, work, disk, seen>>
      BY <1>3 DEF OpenWhole
    <2> HIDE DEF c
    <2>3. KnowledgeInv'
      BY <1>i, <2>1, <2>2 DEF KnowledgeInv, IsNotebook
    <2>4. HeldInv'
      <3>1. Opened(c)["knowledge"] = c["knowledge"]
        BY OpenedFacts, MembersAre
      <3>2. DOMAIN held' = Members
        BY <2>2 DEF Opened
      <3> QED
        BY <2>1, <2>2, <3>1, <3>2 DEF HeldInv
    <2>5. FileInv'
      BY <1>i, <2>2 DEF FileInv
    <2>6. StarInv'
      <3>1. ASSUME NEW m \in Marking \ silent' PROVE basis'[m] = live'[m]
        <4>1. m \in Versioned
          BY MembersAre
        <4>2. live'[m] = c[m] /\ basis'[m] = c[m]
          BY <2>2, <4>1
        <4> QED
          BY <4>2
      <3> QED
        BY <2>2, <3>1 DEF StarInv, NoStarMeansSaved
    <2> QED
      BY <1>d, <2>3, <2>4, <2>5, <2>6 DEF IInv
  <1> QED
    BY <1>1, <1>2, <1>3 DEF OpenProject

(* The forwarders of an opened project are enabled, without a mark.        *)
LEMMA StartStep ==
  ASSUME IInv, StartOnOpen
  PROVE  IInv'
  <1>i. /\ KnowledgeInv /\ HeldInv /\ FileInv /\ StarInv
        /\ did \in [edits : Nat, saves : Nat, opens : Nat]
    BY DEF IInv
  <1>1. /\ UNCHANGED <<kvars, apart, path, dirty, disk, seen, basis, spoilt, did>>
        /\ silent' = silent \union {"forwarders"}
    BY DEF StartOnOpen
  <1>2. live' = live \/ live' = [live EXCEPT !["forwarders"] = Version(@.v, TRUE)]
    BY DEF StartOnOpen
  <1>3. held' = held \/ held' = [held EXCEPT !["forwarders"] = Version(@.v, TRUE)]
    BY DEF StartOnOpen
  <1>4. UNCHANGED <<notes, entry, lastBy, form, work>>
    BY <1>1 DEF kvars
  <1>5. HeldInv'
    <2>1. held'["knowledge"] = held["knowledge"]
      <3>1. CASE held' = held
        BY <3>1
      <3>2. CASE held' = [held EXCEPT !["forwarders"] = Version(@.v, TRUE)]
        BY <1>i, <3>2, MembersAre DEF HeldInv
      <3> QED
        BY <1>3, <3>1, <3>2
    <2>2. DOMAIN held' = DOMAIN held
      BY <1>3
    <2> QED
      BY <1>i, <1>1, <2>1, <2>2 DEF HeldInv
  <1>6. StarInv'
    <2>1. DOMAIN live' = Versioned /\ \A m \in Versioned : m # "forwarders" => live'[m] = live[m]
      BY <1>i, <1>2 DEF StarInv
    <2> QED
      BY <1>i, <1>1, <2>1, MembersAre DEF StarInv, NoStarMeansSaved
  <1> QED
    BY <1>i, <1>1, <1>4, <1>5, <1>6 DEF IInv, KnowledgeInv, FileInv

(* IInv holds in every state.                                              *)
LEMMA IInvHolds == Spec => []IInv
  <1>1. Init => IInv
    <2> SUFFICES ASSUME Init PROVE IInv
      OBVIOUS
    <2>1. KnowledgeInv
      <3>1. notes \in Seq(Entries) /\ IsInjective(notes)
        BY DEF Init, KnowledgeInit, IsInjective
      <3> QED
        BY <3>1 DEF Init, KnowledgeInit, KnowledgeInv, BlankEntries, Authors
    <2>2. IsNotebook(Notebook) /\ Live["knowledge"] = Notebook
      BY <2>1, MembersAre DEF KnowledgeInv, Notebook, IsNotebook, Live
    <2>3. HeldInv
      <3>1. DOMAIN held = Members
        BY DEF Init, Live
      <3> QED
        BY <2>2, <3>1 DEF Init, HeldInv
    <2>4. FileInv
      <3>1. PICK p \in Paths, at \in Damage :
               disk = [q \in Paths |-> IF q # p THEN NoFile ELSE [state |-> "whole", at |-> at, content |-> Foreign]]
        BY DEF Init
      <3>2. Foreign["knowledge"] = Notebook
        BY MembersAre DEF Foreign
      <3>3. ASSUME NEW q \in Paths, disk[q].state = "whole" PROVE disk[q].content["knowledge"] = Notebook
        <4>1. q = p
          BY <3>1, <3>3 DEF NoFile
        <4>2. disk[q].content = Foreign
          BY <3>1, <4>1
        <4> QED
          BY <3>2, <4>2
      <3>4. DOMAIN disk = Paths /\ seen = [q \in Paths |-> <<>>]
        BY <3>1 DEF Init
      <3> QED
        BY <2>2, <3>3, <3>4 DEF FileInv
    <2>5. StarInv
      BY DEF Init, StarInv, NoStarMeansSaved, FreshVersions
    <2> QED
      BY <2>1, <2>3, <2>4, <2>5 DEF IInv, Init
  <1>2. IInv /\ [Next]_vars => IInv'
    <2> SUFFICES ASSUME IInv, [Next]_vars PROVE IInv'
      OBVIOUS
    <2>i. /\ KnowledgeInv /\ HeldInv /\ FileInv /\ StarInv
          /\ did \in [edits : Nat, saves : Nat, opens : Nat]
      BY DEF IInv
    <2>1. ASSUME Change PROVE IInv'
      <3>1. PICK m \in Versioned, on \in BOOLEAN, marks \in BOOLEAN :
               /\ live' = [live EXCEPT ![m] = Version(did.edits + 1, on)]
               /\ dirty' = (dirty \/ marks)
               /\ silent' = IF marks THEN silent ELSE silent \union {m}
        BY <2>1 DEF Change
      <3>2. UNCHANGED <<kvars, held, apart, path, disk, seen, basis, waking, spoilt>> /\ did' = [did EXCEPT !.edits = @ + 1]
        BY <2>1 DEF Change
      <3>3. UNCHANGED <<notes, entry, lastBy, form, work>>
        BY <3>2 DEF kvars
      <3>4. DOMAIN live' = Versioned /\ \A k \in Marking : k # m => live'[k] = live[k]
        BY <2>i, <3>1, MembersAre DEF StarInv
      <3>5. StarInv'
        BY <2>i, <3>1, <3>2, <3>4 DEF StarInv, NoStarMeansSaved
      <3>6. did' \in [edits : Nat, saves : Nat, opens : Nat]
        BY <2>i, <3>2
      <3> QED
        BY <2>i, <3>2, <3>3, <3>5, <3>6 DEF IInv, KnowledgeInv, HeldInv, FileInv
    <2>2. ASSUME WorkOnKnowledge PROVE IInv'
      <3>1. UNCHANGED <<live, held, apart, path, disk, seen, basis, silent, waking, spoilt, did>>
            /\ dirty' = (dirty \/ (ByOperator /\ notes' # notes) \/ (ByOperator /\ entry' # entry))
        BY <2>2 DEF WorkOnKnowledge
      <3>2. KnowledgeInv'
        BY <2>i, <2>2, KnowledgeStep DEF WorkOnKnowledge
      <3>3. StarInv'
        <4>1. dirty' \in BOOLEAN /\ (dirty => dirty')
          BY <3>1 DEF ByOperator
        <4> QED
          BY <2>i, <3>1, <4>1 DEF StarInv, NoStarMeansSaved
      <3> QED
        BY <2>i, <3>1, <3>2, <3>3 DEF IInv, HeldInv, FileInv
    <2>3. ASSUME SaveProject \/ SaveAs PROVE IInv'
      BY <2>3, SaveStep DEF SaveProject, SaveAs
    <2>4. ASSUME UNCHANGED vars PROVE IInv'
      <3>1. UNCHANGED <<notes, entry, lastBy, form, work, live, held, apart, path, dirty, disk,
                       seen, basis, silent, waking, spoilt, did>>
        BY <2>4 DEF vars, kvars, pvars
      <3> QED
        BY <2>i, <3>1 DEF IInv, KnowledgeInv, HeldInv, FileInv, StarInv, NoStarMeansSaved
    <2> QED
      BY <2>1, <2>2, <2>3, <2>4, KilledStep, OpenStep, StartStep DEF Next
  <1> QED
    BY <1>1, <1>2, PTL DEF Spec

---------------------------------------------------------------------------
(* The theorems.                                                           *)

(* While the title shows no star, forwarders, playbooks and MCP settings   *)
(* are as in the file last saved or opened, but for the members changed by *)
(* a way that leaves no mark, whatever save failed since; not after a      *)
(* project was read half-way.                                              *)
THEOREM NoStarAlwaysMeansSaved == Spec => []NoStarMeansSaved
  <1>1. IInv => NoStarMeansSaved
    BY DEF IInv, StarInv
  <1> QED
    BY <1>1, IInvHolds, PTL

(* Opening a project brings back rules, sessions, filters and knowledge as *)
(* they were on the screen when the file was last saved, and forwarders,   *)
(* playbooks and MCP settings with no more switched on than was, whatever  *)
(* was killed, failed or was opened in between.                            *)
THEOREM ReopenedIsAlwaysWhatWasSaved == Spec => ReopenedIsWhatWasSaved
  <1> DEFINE Reopens == path' # NoPath /\ path' # path /\ did'.opens > did.opens /\ seen[path'] # <<>>
             Same == \A m \in Members : ComesBack(m, seen[path'][m], Live'[m])
  <1>1. IInv /\ [Next]_vars => [Reopens => Same]_vars
    <2> SUFFICES ASSUME IInv, Next, Reopens PROVE Same
      BY DEF vars
    <2>1. did.opens \in Nat /\ did \in [edits : Nat, saves : Nat, opens : Nat]
      BY DEF IInv
    <2>2. OpenProject
      <3>1. CASE Change
        BY <2>1, <3>1 DEF Change
      <3>2. CASE WorkOnKnowledge
        BY <3>2 DEF WorkOnKnowledge
      <3>3. CASE SaveProject \/ SaveAs
        <4>1. did'.opens = did.opens
          BY <2>1, <3>3 DEF SaveProject, SaveAs, SaveTo
        <4> QED
          BY <2>1, <4>1
      <3>4. CASE Killed
        BY <3>4 DEF Killed
      <3>5. CASE StartOnOpen
        BY <3>5 DEF StartOnOpen
      <3> QED
        BY <3>1, <3>2, <3>3, <3>4, <3>5 DEF Next
    <2>3. PICK p \in Paths : disk[p].state = "whole" /\ disk[p].at = 0 /\ OpenWhole(disk[p]) /\ path' = p
      BY <2>2 DEF OpenProject, OpenHalf
    <2> DEFINE c == disk[p].content
    <2>4. /\ live' = [m \in Versioned |-> Opened(c)[m]]
          /\ notes' = c["knowledge"].notes /\ entry' = c["knowledge"].entry /\ lastBy' = c["knowledge"].lastBy
      BY <2>3 DEF OpenWhole
    <2>5. IsNotebook(c["knowledge"]) /\ \A m \in Members : c[m] = seen[p][m]
      BY <2>3 DEF IInv, FileInv
    <2> HIDE DEF c
    <2>6. Notebook' = c["knowledge"]
      BY <2>4, <2>5 DEF Notebook, IsNotebook
    <2>7. ASSUME NEW m \in Members PROVE Live'[m] = Opened(c)[m]
      <3>1. Live'[m] = IF m = "knowledge" THEN Notebook' ELSE live'[m]
        BY DEF Live
      <3>2. m = "knowledge" => Opened(c)[m] = c[m]
        BY OpenedFacts
      <3> QED
        BY <2>4, <2>6, <3>1, <3>2, MembersAre
    <2>8. ASSUME NEW m \in Members PROVE ComesBack(m, seen[p][m], Live'[m])
      <3>1. ComesBack(m, c[m], Opened(c)[m])
        BY OpenedFacts
      <3>2. c[m] = seen[p][m] /\ Opened(c)[m] = Live'[m]
        BY <2>5, <2>7
      <3> QED
        BY <3>1, <3>2
    <2> QED
      BY <2>3, <2>8
  <1> QED
    BY <1>1, IInvHolds, PTL DEF Spec, ReopenedIsWhatWasSaved

(* What the operator wrote and locked is changed and removed by nobody     *)
(* else; an entry the operator saves is listed afterwards, even if the AI  *)
(* removed it while it was edited; and none is ever listed twice.          *)
THEOREM LockedWordIsAlwaysFinal == Spec => LockedWordIsFinal
  <1> DEFINE Kept == /\ \A e \in Entries :
                           /\ lastBy[e] = "user" /\ entry[e].locked /\ Has(e) /\ ~ByOperator
                              => entry'[e] = entry[e] /\ Contains(notes', e)
                           /\ lastBy'[e] = "user" /\ entry'[e] # entry[e] => Contains(notes', e)
                     /\ IsInjective(notes')
  <1>1. IInv /\ [Next]_vars => [work' > work => Kept]_kvars
    <2> SUFFICES ASSUME IInv, [Next]_vars, work' > work PROVE Kept
      OBVIOUS
    <2>1. work \in Nat /\ KnowledgeInv
      BY DEF IInv, KnowledgeInv
    <2>2. KnowledgeNext
      <3>1. CASE Change
        <4>1. work' = work
          BY <3>1 DEF Change, kvars
        <4> QED
          BY <2>1, <4>1
      <3>2. CASE SaveProject \/ SaveAs
        <4>1. work' = work
          BY <3>2 DEF SaveProject, SaveAs, SaveTo, kvars
        <4> QED
          BY <2>1, <4>1
      <3>3. CASE Killed
        <4>1. work' = work
          BY <3>3 DEF Killed
        <4> QED
          BY <2>1, <4>1
      <3>4. CASE OpenProject
        <4>1. work' = work
          BY <3>4 DEF OpenProject, OpenWhole, OpenHalf, kvars
        <4> QED
          BY <2>1, <4>1
      <3>5. CASE StartOnOpen
        <4>1. work' = work
          BY <3>5 DEF StartOnOpen, kvars
        <4> QED
          BY <2>1, <4>1
      <3>6. CASE UNCHANGED vars
        <4>1. work' = work
          BY <3>6 DEF vars, kvars
        <4> QED
          BY <2>1, <4>1
      <3> QED
        BY <3>1, <3>2, <3>3, <3>4, <3>5, <3>6 DEF Next, WorkOnKnowledge
    <2> QED
      BY <2>1, <2>2, KnowledgeStep DEF KnowledgeInv
  <1> QED
    BY <1>1, IInvHolds, PTL DEF Spec, LockedWordIsFinal
=============================================================================
