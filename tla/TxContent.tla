------------------------------- MODULE TxContent -------------------------------
(***************************************************************************)
(* apps/worker: what is stored of the content of a transaction, between the *)
(* answer of the node and the insert.  The worker has it parsed             *)
(* (DlnEvents), keeps type and order of the first event, reads transfers    *)
(* out of the token balances in two ways, one to know which prices to ask   *)
(* for and one for the rows, and puts rows and prices together.             *)
(*                                                                          *)
(* What a transaction executed is modelled beside what the node shows of it,*)
(* so that the rows can be compared with what happened.  Module TxProcessor *)
(* has the calls, failures and stores around these steps.                   *)
(***************************************************************************)
EXTENDS DlnEvents, Functions

CONSTANTS
    Ours,           \* message.programId, the program the parser is made for
    Mint,           \* tokens; SOL has the address of wrapped SOL
    WrappedSol,
    Price,          \* Price[m]: of a unit of m
    Executions,     \* what transactions execute: sequences of Execution
    Plain,          \* those of them that are looked at with balances
    Lost,           \* bound: numbers of lines the node may cut from the logs
    Holdings,       \* the token accounts of a transaction: sequences of TokenAccount
    SolChanges      \* lamports before and after: sequences of [pre, post]

VARIABLES
    tx,         \* what was executed, and what the node returns of it
    pc,         \* where processTransaction is
    events,     \* dlnEvents
    asked,      \* tokenMints
    transfers,  \* the transfers the rows are made of
    rows        \* rows for dln.transactions

vars == <<tx, pc, events, asked, transfers, rows>>

-----------------------------------------------------------------------------
(* What happens on the chain, and what the node shows of it.                 *)

\* An executed instruction: at the top level of the message or inside another,
\* and how its program writes the order's id to the log, if it does.  Any program
\* may create and fulfil orders: of another one the kind is what it logs.
Execution ==
    [program : Program, kind : {"create", "fulfill", "cancel", "claim", "other"},
     order : Order, top : BOOLEAN, byte : 0..Undecodable, first : Account,
     writes : {"text", "data", "nothing"}]

\* A token account before and after, None where it does not exist.
None == -1

TokenAccount == [owner : Account, mint : Mint, pre : Nat \cup {None}, post : Nat \cup {None}]

\* What our program does is what the parser makes of the byte, if it knows the byte.
Genuine(x) ==
    x.program = Ours /\ x.byte < UnknownByte =>
        x.kind = <<"create", "fulfill", "cancel", "claim", "create">>[x.byte + 1]

\* The two log lines an instruction leaves, of whatever program: its name, and then
\* the id.
Blank == [word |-> Absent, text |-> Absent, data |-> Absent]

Says(x) == x.kind \in {"create", "fulfill"}

NameLine(x) == [Blank EXCEPT !.word = IF Says(x) THEN x.kind ELSE Absent]

IdLine(x) ==
    CASE x.writes = "text"    -> [Blank EXCEPT !.text = x.order]
      [] x.writes = "data"    -> [Blank EXCEPT !.data = x.order]
      [] x.writes = "nothing" -> [Blank EXCEPT !.data = "short"]

\* The logs of all instructions; the node leaves out the last `lost' lines.
LogsOf(executed, lost) ==
    [n \in 1..2 * Len(executed) - lost |->
        IF n % 2 = 1 THEN NameLine(executed[(n + 1) \div 2]) ELSE IdLine(executed[n \div 2])]

\* The message has the instructions at the top level only.
MessageOf(executed) ==
    [i \in {j \in DOMAIN executed : executed[j].top} |->
        [program |-> executed[i].program, byte |-> executed[i].byte, first |-> executed[i].first]]

\* A transaction as the node returns it; the node cuts long logs.
Transaction(executed, lost, complete, tokens, lamports) ==
    [executed |-> executed,
     cut |-> lost > 0,
     complete |-> complete,
     logs |-> LogsOf(executed, lost),
     instructions |-> MessageOf(executed),
     tokens |-> tokens,
     lamports |-> lamports]

\* Our program does what its bytes say, and what passes for an order id is not the
\* mark of its absence; the rest says what kind of values there are.
ASSUME ContentAssumption ==
    /\ Ours \in Program
    /\ Order \cap {Absent, "short", "zeros", "ones"} = {}
    /\ WrappedSol \in Mint
    /\ Price \in [Mint -> Nat]
    /\ Executions \cup Plain \subseteq Seq(Execution)
    /\ \A executed \in Executions \cup Plain : \A i \in DOMAIN executed : Genuine(executed[i])
    /\ Lost \subseteq Nat
    /\ Holdings \subseteq Seq(TokenAccount)

-----------------------------------------------------------------------------
(* Transfers.                                                                *)

Amount(n) == IF n = None THEN 0 ELSE n

\* What a token account that exists after the transaction gained or lost.
Change(a) == Amount(a.post) - Amount(a.pre)

Remaining(tokens) == {i \in DOMAIN tokens : tokens[i].post # None}

\* collectTokenTransfers: what the accounts of each mint received.
Gains(tokens, m) == {i \in Remaining(tokens) : tokens[i].mint = m /\ Change(tokens[i]) > 0}

\* Mutant: the last account of a mint replaces the others.
CollectedLast(tokens) ==
    [m \in {n \in Mint : Gains(tokens, n) # {}} |-> Change(tokens[Max(Gains(tokens, m))])]

Collected(tokens) ==
    [m \in {n \in Mint : Gains(tokens, n) # {}} |->
        SumFunction([i \in Gains(tokens, m) |-> Change(tokens[i])])]

\* collectSolTransfer: the largest gain of lamports, if there is one.
SolMoved(lamports) == \E i \in DOMAIN lamports : lamports[i].post > lamports[i].pre

\* collectAllTransfers, as the tokens to ask prices for.
TokenMints(t) ==
    DOMAIN Collected(t.tokens) \cup (IF SolMoved(t.lamports) THEN {WrappedSol} ELSE {})

\* extractTokenTransfers: one transfer for every account that remains and changed.
ChangedFrom(a) == a.pre # None /\ a.post # None /\ Change(a) # 0    \* mutant: new accounts left out
Changed(a) == a.post # None /\ Change(a) # 0

TransferOf(a) ==
    [account |-> a.owner, mint |-> a.mint, amount |-> Change(a),
     direction |-> IF Change(a) > 0 THEN "receive" ELSE "send"]

TokenTransfers(tokens) ==
    [i \in {j \in DOMAIN tokens : Changed(tokens[j])} |-> TransferOf(tokens[i])]

-----------------------------------------------------------------------------
Abs(n) == IF n < 0 THEN -n ELSE n

\* The rows of buildTransactionRows.  A token without a price counts as 0.
RowOf(event, x, priced) ==
    [type |-> event.type, order |-> event.order, account |-> x.account, mint |-> x.mint,
     direction |-> x.direction, usd |-> IF x.mint \in priced THEN Abs(x.amount) * Price[x.mint] ELSE 0]

EmptyRow(event) ==
    [type |-> event.type, order |-> event.order, account |-> NoAccount, mint |-> Absent,
     direction |-> "unknown", usd |-> 0]

RowsOf(event, moved, priced) ==
    IF moved = <<>> THEN <<EmptyRow(event)>>
    ELSE [i \in DOMAIN moved |-> RowOf(event, moved[i], priced)]

Init ==
    /\ \/ \E executed \in Executions, lost \in Lost, complete \in BOOLEAN :
            tx = Transaction(executed, lost, complete, <<>>, <<>>)
       \/ \E executed \in Plain, tokens \in Holdings, lamports \in SolChanges :
            tx = Transaction(executed, 0, TRUE, tokens, lamports)
    /\ pc = "parse"
    /\ events = <<>>
    /\ asked = {}
    /\ transfers = <<>>
    /\ rows = <<>>

\* Without an event of a supported type the transaction is not saved.
Parse ==
    /\ pc = "parse"
    /\ events' = ParseTransaction(tx, {Ours})
    /\ pc' = IF events' = <<>> THEN "skipped" ELSE "collect"
    /\ UNCHANGED <<tx, asked, transfers, rows>>

Collect ==
    /\ pc = "collect"
    /\ asked' = TokenMints(tx)
    /\ transfers' = TokenTransfers(tx.tokens)
    /\ pc' = "build"
    /\ UNCHANGED <<tx, events, rows>>

\* dlnEvents[0]
FirstEvent(found) == found[First(DOMAIN found)]

\* The price service answers for some of the tokens asked for.
BuildRows(priced) ==
    /\ pc = "build"
    /\ rows' = RowsOf(FirstEvent(events), transfers, priced)
    /\ pc' = "done"
    /\ UNCHANGED <<tx, events, asked, transfers>>

Next == Parse \/ Collect \/ \E priced \in SUBSET asked : BuildRows(priced)

Spec == Init /\ [][Next]_vars

-----------------------------------------------------------------------------
(* What the content is correct for.                                          *)

Event == [type : {"OrderCreated", "OrderFulfilled"}, order : Order, party : Account \cup {NoAccount}]

Row == [type : {"OrderCreated", "OrderFulfilled"}, order : Order, account : Account \cup {NoAccount},
        mint : Mint \cup {Absent}, direction : {"receive", "send", "unknown"}, usd : Nat]

\* Every event and every row has one of the two types and an order id, and a
\* transaction is through with rows or not saved.
TypeOK ==
    /\ tx.logs \in Seq(LogLine)
    /\ \A i \in DOMAIN tx.instructions : tx.instructions[i] \in Instruction
    /\ tx.tokens \in Seq(TokenAccount)
    /\ pc \in {"parse", "skipped", "collect", "build", "done"}
    /\ \A i \in DOMAIN events : events[i] \in Event
    /\ asked \in SUBSET Mint
    /\ \A i \in DOMAIN rows : rows[i] \in Row
    /\ pc = "skipped" => events = <<>>
    /\ pc = "done" => rows # <<>>

Parsed == pc # "parse"

Orders(x) == x.program = Ours /\ Says(x)

Places == {i \in DOMAIN tx.executed : Orders(tx.executed[i])}

\* The instructions whose lines have the words of an order or an id.
Speaking == {i \in DOMAIN tx.executed : tx.executed[i].writes # "nothing" \/ Says(tx.executed[i])}

\* The cases the parser is made for: the node kept the logs, the first instruction
\* that creates or fulfils an order of our program logs the order's id, nobody logs
\* words or ids before it, and the custom parser can name all of those instructions
\* or none.
Readable ==
    /\ tx.complete /\ ~tx.cut
    /\ \A i \in Speaking : \E p \in Places : p <= i
    /\ Places # {} => tx.executed[First(Places)].writes # "nothing"
    /\ \/ \A i \in Places : tx.executed[i].top
       \/ ParseThrows(tx.instructions, {Ours})
       \/ \A i \in Places : ~tx.executed[i].top

\* In those cases the type and the order that are stored are those of one instruction,
\* the first of our program that creates or fulfils, whatever the transaction does
\* and any program logs after it: the id comes from the logs and the type from the
\* instructions or from the logs.
FirstOrderIsStored ==
    Parsed /\ Readable =>
        IF Places = {} THEN events = <<>>
        ELSE LET first == tx.executed[First(Places)] IN
             events # <<>> /\ FirstEvent(events).order = first.order
                           /\ FirstEvent(events).type = EventTypeOfWord(first.kind)

\* Nobody but our program logs the words of a create or a fulfil.
OnlyOursSay == \A i \in DOMAIN tx.executed : Says(tx.executed[i]) => Orders(tx.executed[i])

\* Then a transaction in which our program creates and fulfils no order gives no event,
\* even if orders are cancelled or claimed, its logs are cut or other programs log
\* 32 bytes.
NoPhantomEvent == Parsed /\ OnlyOursSay /\ events # <<>> => Places # {}

\* The two readings of the balances agree: for each token, what the accounts received
\* by one is the sum of the receive rows by the other, so a received token is always
\* among those whose price is asked for.
CollectedAgrees ==
    pc = "build" =>
        \A m \in Mint :
            LET received == {i \in DOMAIN transfers : transfers[i].mint = m /\ transfers[i].amount > 0}
                sum == SumFunction([i \in received |-> transfers[i].amount]) IN
            IF m \in DOMAIN Collected(tx.tokens)
            THEN sum = Collected(tx.tokens)[m] /\ m \in asked
            ELSE received = {}

\* No token is created or destroyed, and only empty accounts are closed.
Conserving ==
    /\ \A i \in DOMAIN tx.tokens : tx.tokens[i].post = None => tx.tokens[i].pre = 0
    /\ \A m \in Mint :
        LET held == {i \in DOMAIN tx.tokens : tx.tokens[i].mint = m} IN
        SumFunction([i \in held |-> Change(tx.tokens[i])]) = 0

\* When tokens only change hands, the rows have two sides of equal USD, whatever
\* prices were missing: a volume that adds up the rows is exactly twice what moved.
SidesBalance ==
    pc = "done" /\ Conserving =>
        LET Side(d) == SumFunction([i \in {j \in DOMAIN rows : rows[j].direction = d} |-> rows[i].usd])
        IN  Side("receive") = Side("send")
===============================================================================
