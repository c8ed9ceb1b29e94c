------------------------- MODULE MCTamperController --------------------------
(* Two units in two sessions and two directions, so that every filter      *)
(* tells them apart.                                                       *)
EXTENDS TamperController, TLC

CONSTANTS u1, u2, s1, s2

MCUnit == {u1, u2}
MCSession == {s1, s2}
MCDirection == {"up", "down"}
MCSessionOf == (u1 :> s1) @@ (u2 :> s2)
MCDirectionOf == (u1 :> "up") @@ (u2 :> "down")
MCSessionSets == {{}, {s1}}
MCRuleSets == {{u2}}
==============================================================================
