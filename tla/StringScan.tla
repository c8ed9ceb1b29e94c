----------------------------- MODULE StringScan -----------------------------
(***************************************************************************)
(* extract_strings on one frame: the scan for runs of printable ASCII and  *)
(* then, if asked, for runs of the same characters in UTF-16.  A byte is   *)
(* known by its kind.                                                      *)
(***************************************************************************)
EXTENDS Naturals, Sequences

CONSTANTS
    MaxLength,  \* bound: bytes of the frame
    MinLength,  \* min_length
    MaxFound    \* max_per_frame

Kinds == {"graphic", "blank", "nul", "other"}   \* blank: 9, 10 and 13
Step == [ascii |-> 1, wide |-> 2]

VARIABLES raw, wide, pass, i, start, found
vars == <<raw, wide, pass, i, start, found>>
Outside == MaxLength + 1                        \* start, between two runs

Printable(b) == b # "other"                     \* _is_printable_ascii
Nul(k) == k <= Len(raw) /\ raw[k] = "nul"
InRange == i <= Len(raw) - (Step[pass] - 1)
Starts == Printable(raw[i]) /\ raw[i] # "nul" /\ (pass = "wide" => Nul(i + 1))
Continues == InRange /\ Starts /\ raw[i] # "blank"

Init ==
    /\ raw \in UNION {[1 .. n -> Kinds] : n \in 0 .. MaxLength}
    /\ wide \in BOOLEAN
    /\ pass = "ascii" /\ i = 1 /\ start = Outside /\ found = <<>>

Scanning == pass # "done" /\ start = Outside /\ InRange /\ Len(found) < MaxFound
Enter == Scanning /\ Starts /\ start' = i /\ UNCHANGED <<raw, wide, pass, i, found>>
Skip == Scanning /\ ~Starts /\ i' = i + 1 /\ UNCHANGED <<raw, wide, pass, start, found>>
Extend == /\ pass # "done" /\ start # Outside /\ Continues
          /\ i' = i + Step[pass]
          /\ UNCHANGED <<raw, wide, pass, start, found>>
Report == /\ pass # "done" /\ start # Outside /\ ~Continues
          /\ start' = Outside
          /\ found' = IF i - start >= MinLength * Step[pass]
                      THEN Append(found, [at |-> start, to |-> i, pass |-> pass]) ELSE found
          /\ UNCHANGED <<raw, wide, pass, i>>
PassEnds == /\ pass # "done" /\ start = Outside /\ ~(InRange /\ Len(found) < MaxFound)
            /\ pass' = IF pass = "ascii" /\ wide /\ Len(found) < MaxFound THEN "wide" ELSE "done"
            /\ i' = 1
            /\ UNCHANGED <<raw, wide, start, found>>

Next == Enter \/ Skip \/ Extend \/ Report \/ PassEnds
Spec == Init /\ [][Next]_vars /\ WF_vars(Next)

---------------------------------------------------------------------------
(* "Find printable-ASCII runs ... in every frame": the scan of every frame *)
(* comes to its end.  Not so: a blank counts as printable, so that a run   *)
(* begins at it, but ends the run as well; the scan stays at it for ever.  *)
ScanEnds == <>(pass = "done")
=============================================================================
