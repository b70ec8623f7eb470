---------------------------- MODULE MCAnalytics ----------------------------
(* An instance of Analytics for TLC: two orders created on the second day,  *)
(* and the first transaction inserted again when it has no price any more.  *)
EXTENDS Analytics

CONSTANTS src, a, b, s1, s2

Created(tx, usd) ==
    [tx |-> tx, date |-> 2, program |-> src, event |-> "OrderCreated", volume |-> usd]

MCBlock ==
    << Created(a, 4), Created(b, 2), Created(a, 0) >>

Asking(query, to) ==
    [query |-> query, fromDate |-> None, toDate |-> to, eventType |-> Any, limit |-> 100]

\* The summary is asked in MCDashboard.
MCQuestion ==
    {Asking("daily", None), Asking("daily", 1), Asking("total-stats", None)}

\* TLC and Volume both define Any.
T == INSTANCE TLC

\* No definition tells one slot from another.
SlotSymmetry == T!Permutations(Slot)
=============================================================================
