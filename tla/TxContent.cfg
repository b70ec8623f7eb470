\* What transactions execute and what they move, all of it within the bounds of MCTxContent.
SPECIFICATION Spec
CONSTANTS
    dln = dln
    amm = amm
    o1 = o1
    o2 = o2
    x = x
    alice = alice
    bob = bob
    sol = sol
    usdc = usdc
    NoAccount = NoAccount
    Order = {o1, o2, x}
    Program = {dln, amm}
    Account = {alice, bob}
    Ours = dln
    Mint = {sol, usdc}
    WrappedSol = sol
    Price <- MCPrice
    Executions <- MCExecutions
    Plain <- MCPlain
    Lost = {0, 1, 2}
    Holdings <- MCHoldings
    SolChanges <- MCSolChanges
INVARIANTS TypeOK FirstOrderIsStored NoPhantomEvent CollectedAgrees SidesBalance
CHECK_DEADLOCK FALSE
