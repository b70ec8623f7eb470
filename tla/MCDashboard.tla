---------------------------- MODULE MCDashboard ----------------------------
(* An instance of Dashboard for TLC: two days, three periods of which one is *)
(* refused by the form, and an order that is inserted while the page is open.*)
EXTENDS Dashboard

CONSTANT src

Created(day, usd) == [tx |-> src, date |-> day, program |-> src, event |-> "OrderCreated", volume |-> usd]

MCBlock == <<Created(1, 4)>>

Period(from, to) == [fromDate |-> from, toDate |-> to]

MCDefault == Period(1, 2)
MCChoice == {Period(1, 1), Period(2, 1)}

MCQuestion == {SummaryOf(p) : p \in Periods} \cup {Totals}
=============================================================================
