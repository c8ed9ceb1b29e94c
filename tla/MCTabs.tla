------------------------------- MODULE MCTabs -------------------------------
(***************************************************************************)
(* Two tabs of the terminal interface: the rules of the Tamper tab and the *)
(* playbooks of the Forge tab.  They share no state, so a behaviour is one *)
(* of the one or of the other.                                             *)
(***************************************************************************)
EXTENDS Rules, Playbooks

Form(type, text, to, dir, on, scopes, action) ==
    [type |-> type, text |-> text, to |-> to, dir |-> dir, on |-> on, scopes |-> scopes,
     action |-> action, sessions |-> Sessions]
MCReplaceForms == {Form("binary", "a", "b", None, TRUE, Scopes, "intercept"),
                   Form("regex", "b", Refused, "c2s", TRUE, {"traffic"}, "intercept"),
                   Form("script", "", "", None, TRUE, {"traffic"}, "intercept")}
MCInterceptForms == {Form("binary", "", "", None, TRUE, {}, "intercept"),
                     Form("binary", "a", "", "c2s", TRUE, {}, "forward")}

MCOpened ==
    {[books |-> <<"p">>, frames |-> [b \in Books |-> IF b = "p" THEN <<"f1", "f2">> ELSE <<>>],
      texts |-> [f \in FrameIds |-> IF f = "f1" THEN "one" ELSE IF f = "f2" THEN "two" ELSE Unborn]]}

VARIABLE open   \* the tab the behaviour is of

TabsInit ==
    /\ open \in {"tamper", "forge"}
    /\ RulesInit /\ BooksInit
TabsNext ==
    /\ UNCHANGED open
    /\ \/ open = "tamper" /\ RulesNext /\ UNCHANGED bvars
       \/ open = "forge" /\ BooksNext /\ UNCHANGED rvars
TabsSpec == TabsInit /\ [][TabsNext]_<<rvars, bvars, open>>
=============================================================================
