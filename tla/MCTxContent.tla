------------------------------ MODULE MCTxContent ------------------------------
(* Every pair of instructions with any way of logging, of our program and of    *)
(* another that has orders of its own, every triple that logs its orders, with  *)
(* the logs whole or cut; and every change of three token accounts of two mints. *)
EXTENDS TxContent

CONSTANTS dln, amm, o1, o2, x, alice, bob, sol, usdc

Byte == [create |-> 0, fulfill |-> 1, cancel |-> 2, claim |-> 3]

\* Our program's instructions, with the byte of their kind or one without a name.
OfOurs(kinds, writes) ==
    {[program |-> dln, kind |-> k, order |-> o, top |-> t, first |-> alice, writes |-> w,
      byte |-> IF known THEN Byte[k] ELSE UnknownByte] :
        k \in kinds, o \in {o1, o2}, t \in BOOLEAN, w \in writes, known \in BOOLEAN}

\* The other DLN program's, and what anybody else runs; the node decodes them or not.
OfOthers(kinds, writes) ==
    {[program |-> amm, kind |-> k, order |-> x, top |-> TRUE, first |-> bob,
      byte |-> IF decodes THEN 0 ELSE Undecodable, writes |-> w] :
        k \in kinds, w \in writes, decodes \in BOOLEAN}

AnyWay ==
    OfOurs({"create", "fulfill", "cancel"}, {"text", "data", "nothing"})
        \cup OfOthers({"create", "fulfill", "other"}, {"data", "nothing"})

Logging ==
    OfOurs({"create", "fulfill"}, {"data"}) \cup {c \in OfOurs({"cancel", "claim"}, {"nothing"}) : c.order = o1}
        \cup OfOthers({"other"}, {"nothing"}) \cup OfOthers({"create"}, {"data"})

MCExecutions ==
    {<<>>} \cup {<<a>> : a \in AnyWay} \cup (AnyWay \X AnyWay) \cup (Logging \X Logging \X Logging)

MCPlain ==
    {<<[program |-> dln, kind |-> "create", order |-> o1, top |-> TRUE, first |-> alice,
        writes |-> "data", byte |-> 0]>>}

Held == {None, 0, 1, 2}

Holder(o) ==
    {a \in [owner : {o}, mint : {sol, usdc}, pre : Held, post : Held] : a.pre # None \/ a.post # None}

MCHoldings == Holder(alice) \X Holder(bob) \X Holder(alice)

\* The fees of one account, and what another gets or not.
MCSolChanges == {<<[pre |-> 2, post |-> 1], [pre |-> 1, post |-> n]>> : n \in {1, 2}}

MCPrice == [m \in Mint |-> IF m = sol THEN 3 ELSE 1]
================================================================================
