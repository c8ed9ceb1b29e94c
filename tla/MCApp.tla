------------------------------- MODULE MCApp -------------------------------
(* One forwarder at first, and budgets that let kinds of events meet.      *)
EXTENDS App

None0 == [ui |-> 0, edits |-> 0, ai |-> 0, faults |-> 0, clients |-> 0, mcp |-> 0,
          opens |-> 0, serverFaults |-> 0]
MCBudgets ==
    {[None0 EXCEPT !.ui = 3, !.faults = 1, !.clients = 1],
     [None0 EXCEPT !.ui = 2, !.edits = 1, !.clients = 1],
     [None0 EXCEPT !.edits = 2, !.faults = 1],
     [None0 EXCEPT !.ui = 1, !.ai = 2, !.clients = 1],
     [None0 EXCEPT !.ui = 2, !.opens = 1],
     [None0 EXCEPT !.edits = 1, !.clients = 1, !.opens = 1],
     [None0 EXCEPT !.ui = 1, !.mcp = 2],
     [None0 EXCEPT !.edits = 1, !.ai = 1, !.clients = 1],
     [None0 EXCEPT !.ui = 1, !.edits = 1, !.mcp = 1],
     [None0 EXCEPT !.mcp = 3, !.opens = 1],
     [None0 EXCEPT !.mcp = 1, !.opens = 2],
     [None0 EXCEPT !.mcp = 2, !.opens = 1, !.serverFaults = 1]}
MCSettings == {[on |-> FALSE, port |-> "p"], [on |-> TRUE, port |-> "p"]}
MCProjects == {<<"b">>, <<"b", "a">>}
============================================================================
