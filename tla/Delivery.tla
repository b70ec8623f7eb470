------------------------------ MODULE Delivery ------------------------------
(***************************************************************************)
(* What the queue between indexer and workers promises, without the        *)
(* queue: a message that was handed to the publisher is owed to a worker    *)
(* until a worker has done it, and the only other way out is a loss for     *)
(* which there is an excuse (see TxQueue!Excused for those the code and     *)
(* the broker have).  "done" and "lost" are final.                         *)
(***************************************************************************)

CONSTANT Msg        \* the calls of publishTxIngest (or of a foreign producer)

VARIABLES
    status,         \* status[m]: "new", "owed", "done" or "lost"
    excused         \* the messages there is an excuse to lose

vars == <<status, excused>>

Init ==
    /\ status = [m \in Msg |-> "new"]
    /\ excused = {}

\* What one step may do to the message m.
Allowed(m) ==
    \/ status'[m] = status[m]
    \/ status[m] = "new"  /\ status'[m] = "owed"
    \/ status[m] = "owed" /\ status'[m] = "done"
    \/ status[m] = "owed" /\ status'[m] = "lost" /\ m \in excused'

\* One step may concern several messages: a lost connection does.
Next ==
    /\ excused \subseteq excused'
    /\ \A m \in Msg : Allowed(m)

Spec == Init /\ [][Next]_vars
=============================================================================
