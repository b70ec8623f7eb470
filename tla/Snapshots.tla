------------------------------ MODULE Snapshots ------------------------------
(***************************************************************************)
(* What the analytics API promises, whatever it caches: an answer is the    *)
(* result of its own question on the content the tables had at some time    *)
(* within the last Slack ticks, or an error.                                *)
(***************************************************************************)
EXTENDS Naturals

CONSTANTS
    Question,   \* the questions asked
    Last,       \* versions of the content are numbered 0..Last
    ResultsAt,  \* ResultsAt[q][v]: the results q may have on version v
    Slot,       \* requests that can be open at a time
    NoReply,
    Failed,     \* the answer 500
    Slack

VARIABLES
    version,    \* how many inserts there have been
    since,      \* since[v]: ticks since version v was replaced, at most Slack + 1
    reply       \* reply[s]: what s has been answered and not yet read

vars == <<version, since, reply>>

Recent == {v \in 0..version : v = version \/ since[v] <= Slack}

\* The answers that question q may get.
Promised(q) ==
    (UNION {{[q |-> q, result |-> x] : x \in ResultsAt[q][v]} : v \in Recent})
       \cup {[q |-> q, result |-> Failed]}

Init ==
    /\ version = 0
    /\ since = [v \in 0..Last |-> 0]
    /\ reply = [s \in Slot |-> NoReply]

Change ==
    /\ version < Last
    /\ version' = version + 1
    /\ UNCHANGED <<since, reply>>

Pass ==
    /\ since' = [v \in DOMAIN since |->
                   IF v < version /\ since[v] <= Slack THEN since[v] + 1 ELSE since[v]]
    /\ UNCHANGED <<version, reply>>

Give(s) ==
    /\ reply[s] = NoReply /\ reply'[s] # NoReply
    /\ \E q \in Question : \E answer \in Promised(q) :
          reply' = [reply EXCEPT ![s] = answer]
    /\ UNCHANGED <<version, since>>

Take(s) ==
    /\ reply[s] # NoReply
    /\ reply' = [reply EXCEPT ![s] = NoReply]
    /\ UNCHANGED <<version, since>>

Next == Change \/ Pass \/ \E s \in Slot : Give(s) \/ Take(s)

Spec == Init /\ [][Next]_vars
=============================================================================
