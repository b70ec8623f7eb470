\* An order and a transaction without an event, two calls, two faults.
SPECIFICATION Spec
CONSTANTS
    order = order
    plain = plain
    alice = alice
    bob = bob
    usdc = usdc
    sol = sol
    c1 = c1
    c2 = c2
    Tx = {order, plain}
    HasEvent <- MCHasEvent
    Transfers <- MCTransfers
    GainsSol = {order}
    SolMint = sol
    Price <- MCPrice
    Call = {c1, c2}
    NoTx = NoTx
    NoAccount = NoAccount
    MaxRetries = 2
    MaxFaults = 2
SYMMETRY Symmetry
INVARIANTS TypeOK AckedIsStored CounterIsBracketed ViewsAgainstTable
CHECK_DEADLOCK FALSE
