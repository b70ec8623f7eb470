---------------------------- MODULE MCTxProcessor ----------------------------
(* The instance of TxProcessor that TLC checks.                            *)
EXTENDS TxProcessor, TLC

CONSTANTS order, plain, alice, bob, usdc, sol, c1, c2

Of(account, mint, amount) == [account |-> account, mint |-> mint, amount |-> amount]

\* plain has no DLN event.
MCHasEvent == [t \in Tx |-> t # plain]

\* In order, alice has one row and bob has two with one sorting key; bob gives
\* away wrapped SOL, which is priced because somebody's lamports grow.
MCTransfers ==
    (order :> <<Of(alice, usdc, 1), Of(bob, usdc, 2), Of(bob, sol, -1)>>)
    @@ (plain :> <<>>)

MCPrice == (usdc :> 1) @@ (sol :> 3)

Symmetry == Permutations({c1, c2})
=============================================================================
