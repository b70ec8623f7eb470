--------------------------- MODULE TxContent_proofs ---------------------------
(***************************************************************************)
(* Proofs about TxContent and the parser it uses, for any orders, programs, *)
(* accounts, tokens and prices, and for transactions of any length with any *)
(* balances.                                                                *)
(*                                                                          *)
(* First the lines of the logs, the parser and the rows, one lemma for what *)
(* each of them gives; then the inductive invariant, which says that events,*)
(* transfers and rows are what the steps worked out; then what follows from *)
(* it: who wrote the words that the parser finds, which lines belong to the *)
(* first order, and what the balances of each token add up to.              *)
(***************************************************************************)
EXTENDS TxContent, Sums, SequenceTheorems

\* A set of positions has a first one, by the well-foundedness of the numbers.
LEMMA FirstIsLeast ==
    ASSUME NEW S \in SUBSET Nat, S # {}
    PROVE  First(S) \in S /\ \A n \in S : First(S) <= n
<1>1. PICK n \in S : \A k \in S : ~(<<k, n>> \in OpToRel(<, Nat))
    BY NatLessThanWellFounded, WFMin
<1>2. \A k \in S : ~(k < n)
    BY <1>1 DEF OpToRel
<1>3. \A k \in S : n <= k
    BY <1>2
<1> QED
    BY <1>3 DEF First, Min

-----------------------------------------------------------------------------
(* The logs.                                                               *)

Known == {"OrderCreated", "OrderFulfilled"}

\* The two lines of an instruction have the fields of a line.
LEMMA LinesAreLines ==
    ASSUME NEW x \in Execution
    PROVE  NameLine(x) \in LogLine /\ IdLine(x) \in LogLine
BY DEF Execution, NameLine, Says, IdLine, Blank, LogLine, Word, Bytes

\* What the parser finds in the two lines of an instruction.
LEMMA LinesSay ==
    ASSUME NEW x \in Execution
    PROVE  /\ IdOfLine(NameLine(x)) = Absent
           /\ IdOfLine(IdLine(x)) = IF x.writes = "nothing" THEN Absent ELSE x.order
           /\ NameLine(x).word = IF x.kind \in {"create", "fulfill"} THEN x.kind ELSE Absent
           /\ IdLine(x).word = Absent
<1> USE DEF Execution, NameLine, Says, IdLine, Blank, IdOfLine, IdInData
<1>1. Absent \notin Order /\ "short" \notin Order
    BY ContentAssumption
<1>2. CASE x.writes = "nothing"
    BY <1>1, <1>2 DEF Absent
<1>3. CASE x.writes = "data"
    BY <1>1, <1>3 DEF Absent
<1>4. CASE x.writes = "text"
    BY <1>1, <1>4 DEF Absent
<1> QED
    BY <1>2, <1>3, <1>4

\* A line is the name or the id of the instruction it is of.
LEMMA LineOfInstruction ==
    ASSUME NEW executed \in Seq(Execution), NEW lost \in Nat,
           NEW n \in DOMAIN LogsOf(executed, lost)
    PROVE  /\ n \in Nat
           /\ \E i \in DOMAIN executed :
              \/ n = 2 * i - 1 /\ LogsOf(executed, lost)[n] = NameLine(executed[i])
              \/ n = 2 * i /\ LogsOf(executed, lost)[n] = IdLine(executed[i])
<1>1. Len(executed) \in Nat /\ DOMAIN executed = 1..Len(executed)
    OBVIOUS
<1>2. n \in Nat /\ 1 <= n /\ n <= 2 * Len(executed)
    BY <1>1 DEF LogsOf
<1>3. CASE n % 2 = 1
    <2>1. n = 2 * ((n + 1) \div 2) - 1 /\ (n + 1) \div 2 \in 1..Len(executed)
        BY <1>1, <1>2, <1>3
    <2> QED
        BY <1>1, <1>2, <1>3, <2>1 DEF LogsOf
<1>4. CASE n % 2 # 1
    <2>1. n = 2 * (n \div 2) /\ n \div 2 \in 1..Len(executed)
        BY <1>1, <1>2, <1>4
    <2> QED
        BY <1>1, <1>2, <1>4, <2>1 DEF LogsOf
<1> QED
    BY <1>2, <1>3, <1>4

\* So the logs are lines, however many of them are lost.
LEMMA LogsAreLines ==
    ASSUME NEW executed \in Seq(Execution), NEW lost \in Nat
    PROVE  LogsOf(executed, lost) \in Seq(LogLine)
<1> DEFINE logs == LogsOf(executed, lost)
<1>1. ASSUME NEW n \in DOMAIN logs PROVE logs[n] \in LogLine
    <2>1. \A i \in DOMAIN executed : executed[i] \in Execution
        OBVIOUS
    <2> QED
        BY <2>1, LineOfInstruction, LinesAreLines
<1>2. \E k \in Nat : DOMAIN logs = 1..k
    <2>1. Len(executed) \in Nat
        OBVIOUS
    <2>2. CASE 2 * Len(executed) - lost \in Nat
        BY <2>2 DEF LogsOf
    <2>3. CASE 2 * Len(executed) - lost \notin Nat
        <3>1. 1..2 * Len(executed) - lost = 1..0
            BY <2>1, <2>3
        <3> QED
            BY <3>1 DEF LogsOf
    <2> QED
        BY <2>2, <2>3
<1>3. logs = [n \in DOMAIN logs |-> logs[n]]
    BY DEF LogsOf
<1> HIDE DEF logs
<1>4. PICK k \in Nat : DOMAIN logs = 1..k
    BY <1>2
<1>5. logs \in [1..k -> LogLine]
    BY <1>1, <1>3, <1>4
<1>6. logs \in Seq(LogLine)
    BY <1>5
<1> QED
    BY <1>6 DEF logs

-----------------------------------------------------------------------------
(* The parser.                                                             *)

\* Where there are ids and words.
LEMMA WithIdIsNat ==
    ASSUME NEW logs \in Seq(LogLine)
    PROVE  WithId(logs) \in SUBSET Nat /\ WithWord(logs) \in SUBSET Nat
BY DEF WithId, WithWord

\* What is found in the logs as an id can be one.
LEMMA IdsAreOrders ==
    ASSUME NEW logs \in Seq(LogLine), ExtractOrderId(logs) # Absent
    PROVE  ExtractOrderId(logs) \in Order
<1>1. \A n \in DOMAIN logs : logs[n] \in LogLine
    OBVIOUS
<1>2. First(WithId(logs)) \in WithId(logs)
    BY WithIdIsNat, FirstIsLeast DEF ExtractOrderId
<1>3. \A line \in LogLine : IdOfLine(line) \in Order \cup {Absent}
    BY DEF IdOfLine, IdInData, LogLine
<1> QED
    BY <1>1, <1>2, <1>3 DEF ExtractOrderId, WithId

\* A type that is found in the logs is one of two, and stands in some line.
LEMMA WordsAreTypes ==
    ASSUME NEW logs \in Seq(LogLine), TypeFromLogs(logs) # Absent
    PROVE  /\ TypeFromLogs(logs) \in Known
           /\ \E n \in WithWord(logs) : logs[n].word \in {"create", "fulfill"}
<1>1. \A n \in DOMAIN logs : logs[n] \in LogLine
    OBVIOUS
<1>2. First(WithWord(logs)) \in WithWord(logs)
    BY WithIdIsNat, FirstIsLeast DEF TypeFromLogs
<1>3. logs[First(WithWord(logs))].word \in {"create", "fulfill"}
    BY <1>1, <1>2 DEF WithWord, LogLine, Word
<1> QED
    BY <1>2, <1>3 DEF TypeFromLogs, EventTypeOfWord, Known

\* And so is the type of an instruction.
LEMMA TypesAreKnown ==
    ASSUME NEW logs \in Seq(LogLine), NEW instruction,
           DetectEventType(instruction, logs) # Absent
    PROVE  DetectEventType(instruction, logs) \in Known
BY WordsAreTypes DEF DetectEventType, Known

IsMessage(instructions) ==
    /\ DOMAIN instructions \in SUBSET Nat
    /\ \A i \in DOMAIN instructions : instructions[i] \in Instruction

AreEvents(found) ==
    /\ DOMAIN found \in SUBSET Nat
    /\ \A i \in DOMAIN found : found[i] \in Event

\* A function without positions is the empty sequence.
LEMMA EmptyFunction == ASSUME NEW f, f = [i \in DOMAIN f |-> f[i]], DOMAIN f = {} PROVE f = <<>>
<1>1. f \in [1..0 -> {}]
    OBVIOUS
<1>2. f \in Seq({}) /\ Len(f) = 0
    BY <1>1
<1> QED
    BY <1>2, EmptySeq

LEMMA NoEvents == AreEvents(<<>>) /\ DOMAIN <<>> = {} /\ \A f : DOMAIN f # {} => f # <<>>
BY DEF AreEvents

\* What is kept of the instructions are events, at positions of instructions.
LEMMA InstructionEventsAreEvents ==
    ASSUME NEW instructions, IsMessage(instructions), NEW programs, NEW id \in Order,
           NEW logs \in Seq(LogLine)
    PROVE  AreEvents(InstructionEvents(instructions, programs, id, logs))
<1> DEFINE found == InstructionEvents(instructions, programs, id, logs)
<1>1. CASE ParseThrows(instructions, programs)
    BY <1>1, NoEvents DEF InstructionEvents
<1>2. CASE ~ParseThrows(instructions, programs)
    <2>1. DOMAIN found \subseteq DOMAIN instructions
        BY <1>2 DEF InstructionEvents, OfPrograms
    <2>2. ASSUME NEW i \in DOMAIN found PROVE found[i] \in Event
        <3>1. /\ found[i] = EventOf(instructions[i], id, logs)
              /\ Typed(EventOf(instructions[i], id, logs))
            BY <1>2 DEF InstructionEvents
        <3>2. DetectEventType(instructions[i], logs) \in Known
            BY <3>1, TypesAreKnown DEF EventOf, Typed
        <3>3. instructions[i].first \in Account \cup {NoAccount}
            BY <2>1 DEF IsMessage, Instruction
        <3> QED
            BY <3>1, <3>2, <3>3 DEF EventOf, Event, Known
    <2> HIDE DEF found
    <2>3. AreEvents(found)
        BY <2>1, <2>2 DEF AreEvents, IsMessage
    <2> QED
        BY <2>3 DEF found
<1> QED
    BY <1>1, <1>2

\* Whatever the parser returns are events.
LEMMA ParsedAreEvents ==
    ASSUME NEW t, IsMessage(t.instructions), t.logs \in Seq(LogLine), NEW programs
    PROVE  AreEvents(ParseTransaction(t, programs))
<1> DEFINE id == ExtractOrderId(t.logs)
           found == InstructionEvents(t.instructions, programs, id, t.logs)
           fromLogs == EventFromLogs(id, t.logs)
<1>1. CASE ~t.complete \/ id = Absent
    BY <1>1, NoEvents DEF ParseTransaction
<1>2. CASE t.complete /\ id # Absent
    <2>1. id \in Order
        BY <1>2, IdsAreOrders
    <2>2. AreEvents(found)
        BY <2>1, InstructionEventsAreEvents
    <2>3. ASSUME Typed(fromLogs) PROVE AreEvents(<<fromLogs>>)
        <3>1. TypeFromLogs(t.logs) \in Known
            BY <2>3, WordsAreTypes DEF Typed, EventFromLogs
        <3>2. fromLogs \in Event
            BY <2>1, <3>1 DEF EventFromLogs, Event, Known
        <3> HIDE DEF fromLogs
        <3> QED
            BY <3>2 DEF AreEvents
    <2> HIDE DEF found, fromLogs
    <2>4. ParseTransaction(t, programs) =
            IF found # <<>> THEN found ELSE IF Typed(fromLogs) THEN <<fromLogs>> ELSE <<>>
        BY <1>2 DEF ParseTransaction, found, fromLogs
    <2> QED
        BY <2>2, <2>3, <2>4, NoEvents
<1> QED
    BY <1>1, <1>2

-----------------------------------------------------------------------------
(* Balances and rows.                                                      *)

\* Changes are numbers, also for accounts that did not or do not exist.
LEMMA ChangeIsInt ==
    ASSUME NEW a \in TokenAccount
    PROVE  /\ Change(a) \in Int /\ Amount(a.pre) \in Nat /\ Amount(a.post) \in Nat
           /\ a.mint \in Mint /\ a.owner \in Account
BY DEF Change, Amount, TokenAccount, None

IsTransfer(x) ==
    /\ x = [account |-> x.account, mint |-> x.mint, amount |-> x.amount, direction |-> x.direction]
    /\ x.account \in Account /\ x.mint \in Mint /\ x.amount \in Int \ {0}
    /\ x.direction = IF x.amount > 0 THEN "receive" ELSE "send"

\* A transfer is never of nothing and its direction is that of its amount: what
\* ProcessorAssumption asks of the transfers of TxProcessor.
LEMMA TransfersAreTransfers ==
    ASSUME NEW tokens \in Seq(TokenAccount)
    PROVE  /\ DOMAIN TokenTransfers(tokens) \subseteq DOMAIN tokens
           /\ \A i \in DOMAIN TokenTransfers(tokens) : IsTransfer(TokenTransfers(tokens)[i])
<1>1. \A i \in DOMAIN tokens : tokens[i] \in TokenAccount
    OBVIOUS
<1>2. ASSUME NEW a \in TokenAccount, Changed(a) PROVE IsTransfer(TransferOf(a))
    BY <1>2, ChangeIsInt DEF Changed, IsTransfer, TransferOf
<1> QED
    BY <1>1, <1>2 DEF TokenTransfers

\* Only tokens are asked for.
LEMMA MintsAreMints ==
    ASSUME NEW t, t.tokens \in Seq(TokenAccount)
    PROVE  TokenMints(t) \subseteq Mint
BY ContentAssumption DEF TokenMints, Collected

LEMMA AbsIsNat == ASSUME NEW n \in Int PROVE Abs(n) \in Nat
BY DEF Abs

LEMMA NatTimes == ASSUME NEW a \in Nat, NEW b \in Nat PROVE a * b \in Nat
OBVIOUS

\* There is always a row, and every row has a type, an order and no negative USD.
LEMMA RowsAreRows ==
    ASSUME NEW event \in Event, NEW tokens \in Seq(TokenAccount), NEW priced
    PROVE  LET built == RowsOf(event, TokenTransfers(tokens), priced)
           IN  built # <<>> /\ \A i \in DOMAIN built : built[i] \in Row
<1> DEFINE moved == TokenTransfers(tokens)
           built == RowsOf(event, moved, priced)
<1>0. /\ event.type \in {"OrderCreated", "OrderFulfilled"}
      /\ event.order \in Order
    BY DEF Event
<1>1. CASE moved = <<>>
    <2>1. EmptyRow(event) \in Row
        BY <1>0 DEF EmptyRow, Row
    <2>2. built = <<EmptyRow(event)>>
        BY <1>1 DEF RowsOf
    <2> HIDE DEF built
    <2>3. built # <<>> /\ \A i \in DOMAIN built : built[i] \in Row
        BY <2>1, <2>2
    <2> QED
        BY <2>3 DEF built
<1>2. CASE moved # <<>>
    <2>1. built = [i \in DOMAIN moved |-> RowOf(event, moved[i], priced)]
        BY <1>2 DEF RowsOf
    <2>2. moved = [i \in DOMAIN moved |-> moved[i]]
        BY DEF TokenTransfers
    <2>3. DOMAIN moved # {}
        BY <1>2, <2>2, EmptyFunction
    <2>4. ASSUME NEW x, IsTransfer(x) PROVE RowOf(event, x, priced) \in Row
        <3>1. Abs(x.amount) \in Nat /\ Price[x.mint] \in Nat
            BY <2>4, AbsIsNat, ContentAssumption DEF IsTransfer
        <3>2. Abs(x.amount) * Price[x.mint] \in Nat
            BY <3>1, NatTimes
        <3> QED
            BY <1>0, <2>4, <3>2 DEF RowOf, Row, IsTransfer
    <2>5. \A i \in DOMAIN moved : IsTransfer(moved[i])
        BY TransfersAreTransfers
    <2> HIDE DEF moved, built
    <2>6. built # <<>> /\ \A i \in DOMAIN built : built[i] \in Row
        BY <2>1, <2>3, <2>4, <2>5, NoEvents
    <2> QED
        BY <2>6 DEF built, moved
<1> QED
    BY <1>1, <1>2

-----------------------------------------------------------------------------
(* The inductive invariant: every step keeps what it worked out, which is   *)
(* a function of the transaction and of the tokens that have a price.       *)

IsTx(t) ==
    /\ t.executed \in Seq(Execution)
    /\ \A i \in DOMAIN t.executed : Genuine(t.executed[i])
    /\ \E lost \in Lost \cup {0} : t.logs = LogsOf(t.executed, lost) /\ (t.cut <=> lost > 0)
    /\ t.instructions = MessageOf(t.executed)
    /\ t.tokens \in Seq(TokenAccount)

Through == {"build", "done"}

ContentInv ==
    /\ IsTx(tx)
    /\ pc \in {"parse", "skipped", "collect", "build", "done"}
    /\ events = IF pc = "parse" THEN <<>> ELSE ParseTransaction(tx, {Ours})
    /\ pc # "parse" => (pc = "skipped" <=> events = <<>>)
    /\ asked = IF pc \in Through THEN TokenMints(tx) ELSE {}
    /\ transfers = IF pc \in Through THEN TokenTransfers(tx.tokens) ELSE <<>>
    /\ IF pc = "done"
       THEN \E priced \in SUBSET asked : rows = RowsOf(FirstEvent(events), transfers, priced)
       ELSE rows = <<>>

\* The transactions the system begins with.
LEMMA TransactionIsTx ==
    ASSUME NEW executed \in Executions \cup Plain, NEW lost \in Lost \cup {0}, NEW complete,
           NEW tokens \in Holdings \cup {<<>>}, NEW lamports
    PROVE  IsTx(Transaction(executed, lost, complete, tokens, lamports))
<1>1. executed \in Seq(Execution) /\ \A i \in DOMAIN executed : Genuine(executed[i])
    BY ContentAssumption
<1>2. tokens \in Seq(TokenAccount)
    BY ContentAssumption, EmptySeq
<1> QED
    BY <1>1, <1>2 DEF IsTx, Transaction

LEMMA InitInv == Init => ContentInv
<1> SUFFICES ASSUME Init PROVE ContentInv
    OBVIOUS
<1>1. IsTx(tx)
    BY TransactionIsTx DEF Init
<1> QED
    BY <1>1 DEF Init, ContentInv, Through

LEMMA NextInv == ContentInv /\ [Next]_vars => ContentInv'
<1> SUFFICES ASSUME ContentInv, [Next]_vars PROVE ContentInv'
    OBVIOUS
<1>1. CASE Parse
    <2>1. /\ tx' = tx /\ pc' \in {"skipped", "collect"} /\ events' = ParseTransaction(tx, {Ours})
          /\ pc' = "skipped" <=> events' = <<>>
          /\ asked' = {} /\ transfers' = <<>> /\ rows' = <<>>
        BY <1>1 DEF Parse, ContentInv, Through
    <2>2. IsTx(tx)'
        BY <2>1 DEF ContentInv, IsTx
    <2>3. ParseTransaction(tx, {Ours})' = ParseTransaction(tx, {Ours})
        BY <2>1
    <2> QED
        BY <2>1, <2>2, <2>3 DEF ContentInv, Through
<1>2. CASE Collect
    BY <1>2 DEF Collect, ContentInv, IsTx, Through
<1>3. ASSUME NEW priced \in SUBSET asked, BuildRows(priced) PROVE ContentInv'
    BY <1>3 DEF BuildRows, ContentInv, IsTx, Through
<1>4. CASE UNCHANGED vars
    BY <1>4 DEF vars, ContentInv, IsTx, Through
<1> QED
    BY <1>1, <1>2, <1>3, <1>4 DEF Next

\* It holds in every state.
LEMMA InvHolds == Spec => []ContentInv
BY InitInv, NextInv, PTL DEF Spec

-----------------------------------------------------------------------------
(* Types.                                                                  *)

\* What the node returns of such a transaction is made of lines and instructions.
LEMMA TxFacts ==
    ASSUME NEW t, IsTx(t)
    PROVE  t.logs \in Seq(LogLine) /\ IsMessage(t.instructions)
<1>1. t.logs \in Seq(LogLine)
    <2>1. Lost \cup {0} \subseteq Nat
        BY ContentAssumption
    <2> QED
        BY <2>1, LogsAreLines DEF IsTx
<1>2. \A i \in DOMAIN t.executed : t.executed[i] \in Execution /\ i \in Nat
    BY DEF IsTx
<1>3. /\ DOMAIN t.instructions \subseteq DOMAIN t.executed
      /\ \A i \in DOMAIN t.instructions :
            t.instructions[i] = [program |-> t.executed[i].program, byte |-> t.executed[i].byte,
                                 first |-> t.executed[i].first]
    BY DEF IsTx, MessageOf
<1>4. ASSUME NEW x \in Execution
      PROVE  [program |-> x.program, byte |-> x.byte, first |-> x.first] \in Instruction
    BY DEF Execution, Instruction
<1> QED
    BY <1>1, <1>2, <1>3, <1>4 DEF IsMessage

\* dlnEvents[0] is there when there are events.
LEMMA FirstEventIsEvent ==
    ASSUME NEW t, IsTx(t), ParseTransaction(t, {Ours}) # <<>>
    PROVE  FirstEvent(ParseTransaction(t, {Ours})) \in Event
<1> DEFINE found == ParseTransaction(t, {Ours})
<1>1. AreEvents(found)
    BY TxFacts, ParsedAreEvents
<1>2. DOMAIN found # {}
    <2> DEFINE id == ExtractOrderId(t.logs)
               named == InstructionEvents(t.instructions, {Ours}, id, t.logs)
               fromLogs == EventFromLogs(id, t.logs)
    <2>1. named # <<>> => named = [i \in DOMAIN named |-> named[i]]
        BY DEF InstructionEvents
    <2>2. found # <<>> /\ found \in {<<>>, named, <<fromLogs>>}
        BY DEF ParseTransaction
    <2> HIDE DEF named, fromLogs, found
    <2>3. CASE found = named
        BY <2>1, <2>2, <2>3, EmptyFunction
    <2>4. CASE found = <<fromLogs>>
        BY <2>4
    <2> QED
        BY <2>2, <2>3, <2>4
<1> HIDE DEF found
<1>3. found[First(DOMAIN found)] \in Event
    BY <1>1, <1>2, FirstIsLeast DEF AreEvents
<1> QED
    BY <1>3 DEF FirstEvent, found

\* TypeOK
LEMMA InvTypeOK == ContentInv => TypeOK
<1> SUFFICES ASSUME ContentInv PROVE TypeOK
    OBVIOUS
<1>1. /\ IsTx(tx) /\ tx.logs \in Seq(LogLine) /\ IsMessage(tx.instructions)
      /\ tx.tokens \in Seq(TokenAccount)
    BY TxFacts DEF ContentInv, IsTx
<1>2. AreEvents(events)
    BY <1>1, ParsedAreEvents, NoEvents DEF ContentInv
<1>3. asked \in SUBSET Mint
    BY <1>1, MintsAreMints DEF ContentInv
<1>4. CASE pc = "done"
    <2>1. events # <<>> /\ events = ParseTransaction(tx, {Ours}) /\ transfers = TokenTransfers(tx.tokens)
        BY <1>4 DEF ContentInv, Through
    <2>2. PICK priced \in SUBSET asked : rows = RowsOf(FirstEvent(events), transfers, priced)
        BY <1>4 DEF ContentInv
    <2>3. FirstEvent(events) \in Event
        BY <1>1, <2>1, FirstEventIsEvent
    <2>4. rows # <<>> /\ \A i \in DOMAIN rows : rows[i] \in Row
        BY <1>1, <2>1, <2>2, <2>3, RowsAreRows
    <2> QED
        BY <1>1, <1>2, <1>3, <1>4, <2>4 DEF TypeOK, IsMessage, AreEvents, ContentInv
<1>5. CASE pc # "done"
    <2>1. rows = <<>>
        BY <1>5 DEF ContentInv
    <2>2. \A i \in DOMAIN rows : rows[i] \in Row
        BY <2>1
    <2> QED
        BY <1>1, <1>2, <1>3, <1>5, <2>2 DEF TypeOK, IsMessage, AreEvents, ContentInv
<1> QED
    BY <1>4, <1>5

\* Every event and every row has one of the two types, an order and a value, and a
\* transaction that is through has rows, for transactions of any length and any logs.
THEOREM TypesAreRight == Spec => []TypeOK
BY InvHolds, InvTypeOK, PTL

-----------------------------------------------------------------------------
(* Who wrote the words and the names that the parser finds.                *)

Made == {"create", "fulfill"}

\* The words in the logs are those of an instruction that creates or fulfils.
LEMMA WordsAreOfOrders ==
    ASSUME NEW t, IsTx(t), TypeFromLogs(t.logs) # Absent
    PROVE  \E i \in DOMAIN t.executed : t.executed[i].kind \in Made
<1>1. PICK lost \in Nat : t.logs = LogsOf(t.executed, lost)
    BY ContentAssumption DEF IsTx
<1>2. PICK n \in WithWord(t.logs) : t.logs[n].word \in Made
    BY TxFacts, WordsAreTypes DEF Made
<1>3. n \in DOMAIN LogsOf(t.executed, lost)
    BY <1>1, <1>2 DEF WithWord
<1>4. PICK i \in DOMAIN t.executed :
          t.logs[n] = NameLine(t.executed[i]) \/ t.logs[n] = IdLine(t.executed[i])
    BY <1>1, <1>3, LineOfInstruction DEF IsTx
<1>5. t.executed[i] \in Execution
    BY DEF IsTx
<1>6. Absent \notin Made
    BY DEF Absent, Made
<1> QED
    BY <1>2, <1>4, <1>5, <1>6, LinesSay DEF Made

\* The parser's name for an instruction of our program tells what it does.
LEMMA NamesTell ==
    ASSUME NEW x \in Execution, Genuine(x), x.program = Ours, x.byte < UnknownByte,
           NEW instruction, instruction.byte = x.byte
    PROVE  /\ NameOf(instruction) \in {"createOrder", "createOrderWithNonce"} <=> x.kind = "create"
           /\ NameOf(instruction) = "fulfillOrder" <=> x.kind = "fulfill"
<1>1. x.byte \in 0..4
    BY DEF Execution, UnknownByte, Undecodable
<1>2. x.kind = <<"create", "fulfill", "cancel", "claim", "create">>[x.byte + 1]
    BY DEF Genuine
<1>3. x.byte = 0 \/ x.byte = 1 \/ x.byte = 2 \/ x.byte = 3 \/ x.byte = 4
    BY <1>1
<1> QED
    BY <1>2, <1>3 DEF NameOf

\* The type of an event of an instruction: what the instruction does, or the first
\* words in the logs.
LEMMA EventsTell ==
    ASSUME NEW t, IsTx(t), NEW id,
           NEW i \in DOMAIN InstructionEvents(t.instructions, {Ours}, id, t.logs)
    PROVE  LET e == InstructionEvents(t.instructions, {Ours}, id, t.logs)[i]
               x == t.executed[i]
           IN  /\ i \in DOMAIN t.executed /\ x.program = Ours
               /\ e.order = id /\ e.type # Absent
               /\ e.type = IF x.kind \in Made THEN EventTypeOfWord(x.kind) ELSE TypeFromLogs(t.logs)
<1> DEFINE found == InstructionEvents(t.instructions, {Ours}, id, t.logs)
           x == t.executed[i]
           instruction == t.instructions[i]
<1>1. ~ParseThrows(t.instructions, {Ours})
    BY NoEvents DEF InstructionEvents
<1>2. /\ i \in DOMAIN t.instructions /\ instruction.program \in {Ours}
      /\ found[i] = EventOf(instruction, id, t.logs) /\ Typed(EventOf(instruction, id, t.logs))
    BY <1>1 DEF InstructionEvents, OfPrograms
<1>3. /\ i \in DOMAIN t.executed
      /\ instruction = [program |-> x.program, byte |-> x.byte, first |-> x.first]
    BY <1>2 DEF IsTx, MessageOf
<1>4. x \in Execution /\ Genuine(x) /\ x.program = Ours /\ x.byte < UnknownByte /\ instruction.byte = x.byte
    <2>1. x \in Execution /\ Genuine(x) /\ x.program = Ours /\ instruction.byte = x.byte
        BY <1>2, <1>3 DEF IsTx
    <2>2. x.byte \in 0..Undecodable
        BY <2>1 DEF Execution
    <2>3. x.byte # UnknownByte /\ x.byte # Undecodable
        BY <1>1, <1>2, <2>1 DEF ParseThrows
    <2> HIDE DEF x
    <2>4. x.byte < UnknownByte
        BY <2>2, <2>3 DEF UnknownByte, Undecodable
    <2> QED
        BY <2>1, <2>4
<1>5. DetectEventType(instruction, t.logs)
        = IF x.kind \in Made THEN EventTypeOfWord(x.kind) ELSE TypeFromLogs(t.logs)
    <2> HIDE DEF x, instruction
    <2>1. /\ NameOf(instruction) \in {"createOrder", "createOrderWithNonce"} <=> x.kind = "create"
          /\ NameOf(instruction) = "fulfillOrder" <=> x.kind = "fulfill"
        BY <1>4, NamesTell
    <2> QED
        BY <2>1 DEF DetectEventType, EventTypeOfWord, Made
<1> HIDE DEF x, instruction, found
<1>6. /\ found[i].type = DetectEventType(instruction, t.logs) /\ found[i].order = id
      /\ found[i].type # Absent
    BY <1>2 DEF EventOf, Typed
<1> QED
    BY <1>3, <1>4, <1>5, <1>6 DEF x, found

\* NoPhantomEvent
LEMMA InvNoPhantom == ContentInv => NoPhantomEvent
<1> SUFFICES ASSUME ContentInv, events # <<>>
             PROVE  \E i \in DOMAIN tx.executed : tx.executed[i].kind \in Made
    BY DEF NoPhantomEvent, OnlyOursSay, Places, Says, Made
<1> DEFINE id == ExtractOrderId(tx.logs)
           found == InstructionEvents(tx.instructions, {Ours}, id, tx.logs)
<1>1. IsTx(tx) /\ ParseTransaction(tx, {Ours}) # <<>>
    BY DEF ContentInv
<1>2. found # <<>> \/ Typed(EventFromLogs(id, tx.logs))
    BY <1>1 DEF ParseTransaction
<1>3. CASE found # <<>>
    <2>1. DOMAIN found # {}
        BY <1>3, EmptyFunction DEF InstructionEvents
    <2>2. PICK i \in DOMAIN found : TRUE
        BY <2>1
    <2> HIDE DEF id
    <2>3. tx.executed[i].kind \in Made \/ TypeFromLogs(tx.logs) # Absent
        BY <1>1, <2>2, EventsTell
    <2>4. i \in DOMAIN tx.executed
        BY <1>1, <2>2, EventsTell
    <2> QED
        BY <1>1, <2>3, <2>4, WordsAreOfOrders
<1>4. CASE Typed(EventFromLogs(id, tx.logs))
    BY <1>1, <1>4, WordsAreOfOrders DEF Typed, EventFromLogs
<1> QED
    BY <1>2, <1>3, <1>4

\* Unless another program logs the words of a create or a fulfil, no event comes of a
\* transaction in which ours creates and fulfils no order, however its logs are cut
\* and whatever ids other programs write.
THEOREM NothingIsMadeUp == Spec => []NoPhantomEvent
BY InvHolds, InvNoPhantom, PTL

-----------------------------------------------------------------------------
(* The first order.  In logs that are not cut, the lines of instruction i are *)
(* 2 * i - 1 and 2 * i.                                                      *)

\* A least position is the first.
LEMMA FirstUnique ==
    ASSUME NEW S \in SUBSET Nat, NEW m \in S, \A n \in S : m <= n
    PROVE  First(S) = m
<1>1. First(S) \in S /\ First(S) <= m
    BY FirstIsLeast
<1>2. First(S) \in Nat /\ m \in Nat /\ m <= First(S)
    BY <1>1
<1> QED
    BY <1>1, <1>2

\* Both lines of every instruction are there.
LEMMA WholeLogs ==
    ASSUME NEW executed \in Seq(Execution)
    PROVE  LET logs == LogsOf(executed, 0) IN
           /\ DOMAIN logs = 1..2 * Len(executed)
           /\ \A i \in DOMAIN executed :
                /\ 2 * i - 1 \in DOMAIN logs /\ logs[2 * i - 1] = NameLine(executed[i])
                /\ 2 * i \in DOMAIN logs /\ logs[2 * i] = IdLine(executed[i])
<1>1. Len(executed) \in Nat /\ DOMAIN executed = 1..Len(executed)
    OBVIOUS
<1>2. 2 * Len(executed) - 0 = 2 * Len(executed)
    BY <1>1
<1>3. DOMAIN LogsOf(executed, 0) = 1..2 * Len(executed)
    BY <1>2 DEF LogsOf
<1>4. ASSUME NEW i \in DOMAIN executed
      PROVE  /\ 2 * i - 1 \in 1..2 * Len(executed) /\ 2 * i \in 1..2 * Len(executed)
             /\ (2 * i - 1) % 2 = 1 /\ (2 * i) % 2 # 1
             /\ (2 * i - 1 + 1) \div 2 = i /\ (2 * i) \div 2 = i
    <2>1. i \in Nat /\ 1 <= i /\ i <= Len(executed)
        BY <1>1
    <2>2. 2 * i - 1 \in 1..2 * Len(executed) /\ 2 * i \in 1..2 * Len(executed)
        BY <1>1, <2>1
    <2>3. 2 * i - 1 + 1 = 2 * i /\ (2 * i) \div 2 = i /\ (2 * i) % 2 = 0
        BY <2>1
    <2>4. (2 * i - 1) % 2 = 1
        BY <2>1
    <2> QED
        BY <2>2, <2>3, <2>4
<1> QED
    BY <1>2, <1>3, <1>4 DEF LogsOf

\* The instructions that create or fulfil an order of our program; and what Readable
\* says of the lines, that the first of them comes before all others that log words
\* or ids.
PlacesIn(executed) == {i \in DOMAIN executed : Orders(executed[i])}

FirstSpeaks(executed) ==
    /\ PlacesIn(executed) # {}
    /\ executed[First(PlacesIn(executed))].writes # "nothing"
    /\ \A i \in DOMAIN executed :
          executed[i].writes # "nothing" \/ Says(executed[i]) => \E p \in PlacesIn(executed) : p <= i

\* No line before those of the first order has words or an id.
LEMMA NothingBeforeFirst ==
    ASSUME NEW executed \in Seq(Execution), FirstSpeaks(executed),
           NEW n \in WithId(LogsOf(executed, 0)) \cup WithWord(LogsOf(executed, 0))
    PROVE  LET logs == LogsOf(executed, 0)
               f == First(PlacesIn(executed)) IN
           /\ n \in Nat
           /\ n \in WithId(logs) => 2 * f <= n
           /\ n \in WithWord(logs) => 2 * f - 1 <= n
<1> DEFINE logs == LogsOf(executed, 0)
           P == PlacesIn(executed)
<1>1. PICK i \in DOMAIN executed :
          /\ n \in Nat
          /\ \/ n = 2 * i - 1 /\ logs[n] = NameLine(executed[i])
             \/ n = 2 * i /\ logs[n] = IdLine(executed[i])
    BY LineOfInstruction DEF WithId, WithWord
<1>2. executed[i] \in Execution
    OBVIOUS
<1>3. /\ n \in WithId(logs) => n = 2 * i /\ executed[i].writes # "nothing"
      /\ n \in WithWord(logs) => n = 2 * i - 1 /\ Says(executed[i])
    BY <1>1, <1>2, LinesSay DEF WithId, WithWord, Says
<1>4. PICK p \in P : p <= i
    BY <1>3 DEF FirstSpeaks
<1>5. P \in SUBSET Nat /\ i \in Nat
    BY DEF PlacesIn
<1>6. First(P) <= p /\ First(P) \in Nat /\ p \in Nat
    BY <1>4, <1>5, FirstIsLeast
<1> HIDE DEF P, logs
<1>7. First(P) <= i
    BY <1>4, <1>5, <1>6
<1> QED
    BY <1>1, <1>3, <1>5, <1>6, <1>7 DEF P, logs

\* So id and words are those of the first order.
LEMMA FirstInLogs ==
    ASSUME NEW executed \in Seq(Execution), FirstSpeaks(executed)
    PROVE  LET logs == LogsOf(executed, 0)
               first == executed[First(PlacesIn(executed))] IN
           /\ First(PlacesIn(executed)) \in PlacesIn(executed)
           /\ ExtractOrderId(logs) = first.order /\ first.order # Absent
           /\ TypeFromLogs(logs) = EventTypeOfWord(first.kind) /\ first.kind \in Made
<1> DEFINE logs == LogsOf(executed, 0)
           P == PlacesIn(executed)
<1>1. P \in SUBSET Nat /\ P \subseteq DOMAIN executed /\ \A i \in P : 1 <= i /\ Orders(executed[i])
    BY DEF PlacesIn
<1>2. PICK f \in P : f = First(P)
    BY <1>1, FirstIsLeast DEF FirstSpeaks
<1> HIDE DEF P
<1>3. /\ executed[f] \in Execution /\ Orders(executed[f])
      /\ executed[f].writes # "nothing" /\ executed[f].order # Absent
    <2>1. f \in DOMAIN executed /\ executed[f] \in Execution
        BY <1>1
    <2>2. executed[f].order \in Order
        BY <2>1 DEF Execution
    <2>3. executed[f].writes # "nothing"
        BY <1>2 DEF FirstSpeaks, P
    <2> QED
        BY <1>1, <2>1, <2>2, <2>3, ContentAssumption
<1>4. /\ 2 * f \in DOMAIN logs /\ logs[2 * f] = IdLine(executed[f])
      /\ 2 * f - 1 \in DOMAIN logs /\ logs[2 * f - 1] = NameLine(executed[f])
    BY <1>1, <1>2, WholeLogs
<1>5. executed[f].kind \in Made
    BY <1>3 DEF Orders, Says, Made
<1>6. /\ IdOfLine(logs[2 * f]) = executed[f].order
      /\ logs[2 * f - 1].word = executed[f].kind
    BY <1>3, <1>4, <1>5, LinesSay DEF Made
<1>7. 2 * f \in WithId(logs) /\ 2 * f - 1 \in WithWord(logs)
    BY <1>3, <1>4, <1>5, <1>6 DEF WithId, WithWord, Made, Absent
<1>8. /\ \A n \in WithId(logs) : n \in Nat /\ 2 * f <= n
      /\ \A n \in WithWord(logs) : n \in Nat /\ 2 * f - 1 <= n
    BY <1>2, NothingBeforeFirst DEF P
<1> HIDE DEF logs
<1>9. First(WithId(logs)) = 2 * f /\ First(WithWord(logs)) = 2 * f - 1
    BY <1>7, <1>8, FirstUnique
<1>10. ExtractOrderId(logs) = executed[f].order
    BY <1>6, <1>7, <1>9 DEF ExtractOrderId
<1>11. TypeFromLogs(logs) = EventTypeOfWord(executed[f].kind)
    BY <1>6, <1>7, <1>9 DEF TypeFromLogs
<1> QED
    BY <1>2, <1>3, <1>5, <1>10, <1>11 DEF logs, P

\* The first event is the one from the logs, an event of an instruction that neither
\* creates nor fulfils, or the event of the first order.
LEMMA FirstOfReadable ==
    ASSUME ContentInv, pc # "parse", Readable, Places # {}
    PROVE  LET first == tx.executed[First(Places)] IN
           /\ events # <<>> /\ FirstEvent(events).order = first.order
           /\ FirstEvent(events).type = EventTypeOfWord(first.kind)
<1> DEFINE first == tx.executed[First(Places)]
           id == ExtractOrderId(tx.logs)
           found == InstructionEvents(tx.instructions, {Ours}, id, tx.logs)
           fromLogs == EventFromLogs(id, tx.logs)
           Right(e) == e.order = first.order /\ e.type = EventTypeOfWord(first.kind)
<1>1. IsTx(tx) /\ Places = PlacesIn(tx.executed) /\ events = ParseTransaction(tx, {Ours})
    BY DEF ContentInv, Places, PlacesIn
<1>2. tx.logs = LogsOf(tx.executed, 0)
    <2>1. PICK lost \in Lost \cup {0} : tx.logs = LogsOf(tx.executed, lost) /\ (tx.cut <=> lost > 0)
        BY <1>1 DEF IsTx
    <2>2. lost \in Nat /\ ~(lost > 0)
        BY <2>1, ContentAssumption DEF Readable
    <2>3. lost = 0
        BY <2>2
    <2> QED
        BY <2>1, <2>3
<1>3. /\ First(Places) \in Places
      /\ id = first.order /\ id # Absent
      /\ TypeFromLogs(tx.logs) = EventTypeOfWord(first.kind) /\ first.kind \in Made
    <2>1. FirstSpeaks(tx.executed)
        BY <1>1 DEF Readable, Speaking, FirstSpeaks
    <2> QED
        BY <1>1, <1>2, <2>1, FirstInLogs DEF IsTx
<1>4. EventTypeOfWord(first.kind) # Absent
    BY <1>3 DEF EventTypeOfWord, Made, Absent
<1>5. Typed(fromLogs) /\ Right(fromLogs)
    BY <1>3, <1>4 DEF Typed, EventFromLogs
<1>6. events = IF found # <<>> THEN found ELSE <<fromLogs>>
    BY <1>1, <1>3, <1>5 DEF ParseTransaction, Readable
<1>7. ASSUME NEW i \in DOMAIN found, i \notin Places \/ i = First(Places) PROVE Right(found[i])
    <2>1. /\ i \in DOMAIN tx.executed /\ tx.executed[i].program = Ours /\ found[i].order = id
          /\ found[i].type = IF tx.executed[i].kind \in Made
                             THEN EventTypeOfWord(tx.executed[i].kind) ELSE TypeFromLogs(tx.logs)
        BY <1>1, EventsTell
    <2>2. tx.executed[i].kind \in Made => i \in Places
        BY <2>1 DEF Places, Orders, Says, Made
    <2> HIDE DEF found
    <2> QED
        BY <1>3, <1>7, <2>1, <2>2
<1>8. CASE found = <<>>
    <2> HIDE DEF fromLogs, found, Right
    <2>1. events = <<fromLogs>> /\ DOMAIN events = {1} /\ events[1] = fromLogs
        BY <1>6, <1>8
    <2>2. {1} \in SUBSET Nat /\ 1 \in {1} /\ \A n \in {1} : 1 <= n
        OBVIOUS
    <2>3. First({1}) = 1
        BY <2>2, FirstUnique
    <2>4. events # <<>> /\ Right(FirstEvent(events))
        BY <1>5, <2>1, <2>3 DEF FirstEvent
    <2> QED
        BY <2>4 DEF Right
<1>9. CASE found # <<>>
    <2>0. events = found
        BY <1>6, <1>9
    <2>1. ~ParseThrows(tx.instructions, {Ours})
        BY <1>9 DEF InstructionEvents
    <2>2. DOMAIN found # {} /\ DOMAIN found \in SUBSET Nat
        <3>1. DOMAIN found # {}
            BY <1>9, EmptyFunction DEF InstructionEvents
        <3>2. DOMAIN found \subseteq DOMAIN tx.instructions
            BY <2>1 DEF InstructionEvents, OfPrograms
        <3> HIDE DEF found
        <3> QED
            BY <1>1, <3>1, <3>2, TxFacts DEF IsMessage
    <2>3. First(DOMAIN found) \in DOMAIN found /\ \A i \in DOMAIN found : First(DOMAIN found) <= i
        BY <2>2, FirstIsLeast
    <2>4. \A i \in Places : First(Places) <= i /\ i \in Nat
        <3>1. Places \in SUBSET Nat
            BY <1>1 DEF Places, IsTx
        <3> QED
            BY <3>1, FirstIsLeast
    <2>5. First(DOMAIN found) \notin Places \/ First(DOMAIN found) = First(Places)
        <3>1. CASE \A i \in Places : tx.executed[i].top
            <4>1. First(Places) \in DOMAIN found
                <5> DEFINE i == First(Places)
                <5>1. i \in DOMAIN tx.executed /\ tx.executed[i].top /\ tx.executed[i].program = Ours
                    BY <1>3, <3>1 DEF Places, Orders
                <5>2. /\ i \in DOMAIN tx.instructions
                      /\ tx.instructions[i] = [program |-> tx.executed[i].program,
                            byte |-> tx.executed[i].byte, first |-> tx.executed[i].first]
                    BY <1>1, <5>1 DEF IsTx, MessageOf
                <5>3. tx.executed[i].byte < UnknownByte
                    <6>1. tx.executed[i].byte # UnknownByte /\ tx.executed[i].byte # Undecodable
                        BY <2>1, <5>1, <5>2 DEF ParseThrows
                    <6>2. tx.executed[i] \in Execution
                        BY <1>1, <5>1 DEF IsTx
                    <6>3. tx.executed[i].byte \in 0..Undecodable
                        BY <6>2 DEF Execution
                    <6> QED
                        BY <6>1, <6>3 DEF UnknownByte, Undecodable
                <5>4. i \in OfPrograms(tx.instructions, {Ours})
                    BY <5>1, <5>2 DEF OfPrograms
                <5>5. Typed(EventOf(tx.instructions[i], id, tx.logs))
                    <6>1. tx.executed[i] \in Execution /\ Genuine(tx.executed[i])
                        BY <1>1, <5>1 DEF IsTx
                    <6>2. NameOf(tx.instructions[i])
                            \in {"createOrder", "createOrderWithNonce", "fulfillOrder"}
                        BY <1>3, <5>1, <5>2, <5>3, <6>1, NamesTell DEF Made
                    <6> QED
                        BY <6>2 DEF Typed, EventOf, DetectEventType, Absent
                <5> QED
                    BY <2>1, <5>4, <5>5 DEF InstructionEvents
            <4> HIDE DEF found
            <4>2. First(DOMAIN found) \in Places => First(DOMAIN found) = First(Places)
                <5>1. First(DOMAIN found) <= First(Places) /\ First(DOMAIN found) \in Nat /\ First(Places) \in Nat
                    BY <1>3, <2>2, <2>3, <2>4, <4>1
                <5> QED
                    BY <2>4, <5>1
            <4> QED
                BY <4>2
        <3>2. CASE \A i \in Places : ~tx.executed[i].top
            <4>1. First(DOMAIN found) \in DOMAIN tx.instructions
                BY <2>1, <2>3 DEF InstructionEvents, OfPrograms
            <4>2. tx.executed[First(DOMAIN found)].top
                BY <1>1, <4>1 DEF IsTx, MessageOf
            <4> HIDE DEF found
            <4> QED
                BY <3>2, <4>2
        <3> QED
            BY <2>1, <3>1, <3>2 DEF Readable
    <2> HIDE DEF found
    <2>6. Right(found[First(DOMAIN found)])
        BY <1>7, <2>3, <2>5
    <2> QED
        BY <1>9, <2>0, <2>6 DEF FirstEvent
<1> QED
    BY <1>8, <1>9

\* FirstOrderIsStored
LEMMA InvFirstOrder == ContentInv => FirstOrderIsStored
<1> SUFFICES ASSUME ContentInv, pc # "parse", Readable, Places = {} PROVE events = <<>>
    BY FirstOfReadable DEF FirstOrderIsStored, Parsed
<1>1. IsTx(tx) /\ Places = PlacesIn(tx.executed) /\ events = ParseTransaction(tx, {Ours})
    BY DEF ContentInv, Places, PlacesIn
<1>2. PICK lost \in Nat : tx.logs = LogsOf(tx.executed, lost)
    BY <1>1, ContentAssumption DEF IsTx
<1>3. WithId(tx.logs) = {}
    <2>1. ASSUME NEW n \in DOMAIN tx.logs PROVE IdOfLine(tx.logs[n]) = Absent
        <3>1. PICK i \in DOMAIN tx.executed :
                  tx.logs[n] = NameLine(tx.executed[i]) \/ tx.logs[n] = IdLine(tx.executed[i])
            BY <1>1, <1>2, <2>1, LineOfInstruction DEF IsTx
        <3>2. tx.executed[i] \in Execution /\ tx.executed[i].writes = "nothing"
            BY <1>1 DEF IsTx, Readable, Speaking
        <3> QED
            BY <3>1, <3>2, LinesSay
    <2> QED
        BY <2>1 DEF WithId
<1> QED
    BY <1>1, <1>3 DEF ParseTransaction, ExtractOrderId

\* In a transaction of any length that is Readable, type and order of the first event
\* are those of the first instruction that creates or fulfils an order of our program.
THEOREM FirstOrderWins == Spec => []FirstOrderIsStored
BY InvHolds, InvFirstOrder, PTL

-----------------------------------------------------------------------------
(* The two readings of the balances.                                       *)

\* CollectedAgrees
LEMMA InvCollectedAgrees == ContentInv => CollectedAgrees
<1> SUFFICES ASSUME ContentInv, pc = "build", NEW m \in Mint
             PROVE  LET received == {i \in DOMAIN transfers :
                                        transfers[i].mint = m /\ transfers[i].amount > 0}
                        sum == SumFunction([i \in received |-> transfers[i].amount]) IN
                    IF m \in DOMAIN Collected(tx.tokens)
                    THEN sum = Collected(tx.tokens)[m] /\ m \in asked
                    ELSE received = {}
    BY DEF CollectedAgrees
<1> DEFINE tokens == tx.tokens
           received == {i \in DOMAIN transfers : transfers[i].mint = m /\ transfers[i].amount > 0}
<1>1. asked = TokenMints(tx) /\ transfers = TokenTransfers(tokens)
    BY DEF ContentInv, Through
<1>2. \A i \in DOMAIN tokens : Change(tokens[i]) \in Int
    BY ChangeIsInt DEF ContentInv, IsTx
<1>3. /\ DOMAIN transfers = {i \in DOMAIN tokens : Changed(tokens[i])}
      /\ \A i \in DOMAIN transfers :
            transfers[i].mint = tokens[i].mint /\ transfers[i].amount = Change(tokens[i])
    BY <1>1 DEF TokenTransfers, TransferOf
<1>4. received = Gains(tokens, m)
    BY <1>2, <1>3 DEF Gains, Remaining, Changed
<1>5. [i \in received |-> transfers[i].amount] = [i \in Gains(tokens, m) |-> Change(tokens[i])]
    BY <1>3, <1>4
<1>6. /\ m \in DOMAIN Collected(tokens) <=> Gains(tokens, m) # {}
      /\ m \in DOMAIN Collected(tokens) =>
            Collected(tokens)[m] = SumFunction([i \in Gains(tokens, m) |-> Change(tokens[i])])
      /\ DOMAIN Collected(tokens) \subseteq TokenMints(tx)
    BY DEF Collected, TokenMints
<1> QED
    BY <1>1, <1>4, <1>5, <1>6

\* collectTokenTransfers and extractTokenTransfers agree on what the accounts of each
\* token received, for any number of accounts and tokens.
THEOREM ReadingsAgree == Spec => []CollectedAgrees
BY InvHolds, InvCollectedAgrees, PTL

-----------------------------------------------------------------------------
(* The two sides of the rows.                                              *)

Rate(m, priced) == IF m \in priced THEN Price[m] ELSE 0

\* A row is worth the change of its account at the rate of its token, without sign.
LEMMA RowWorth ==
    ASSUME NEW event, NEW x, IsTransfer(x), NEW priced
    PROVE  /\ RowOf(event, x, priced).direction = IF x.amount > 0 THEN "receive" ELSE "send"
           /\ RowOf(event, x, priced).usd
                = IF x.amount > 0 THEN Rate(x.mint, priced) * x.amount
                                  ELSE (-1) * (Rate(x.mint, priced) * x.amount)
           /\ Rate(x.mint, priced) \in Nat
           /\ Rate(x.mint, priced) * x.amount \in Int
<1>1. x.amount \in Int /\ x.amount # 0 /\ x.mint \in Mint
    BY DEF IsTransfer
<1>2. PICK price \in Nat : price = Price[x.mint]
    BY <1>1, ContentAssumption
<1>3. PICK a \in Int : a = x.amount /\ a # 0
    BY <1>1
<1>4. Abs(a) = IF a > 0 THEN a ELSE -a
    BY <1>3 DEF Abs
<1>5. /\ a * price = price * a /\ (-a) * price = (-1) * (price * a) /\ (-1) * (0 * a) = 0 /\ 0 * a = 0
      /\ price * a \in Int
    OBVIOUS
<1> QED
    BY <1>2, <1>3, <1>4, <1>5 DEF RowOf, Rate, IsTransfer

LEMMA EmptyRowSays == ASSUME NEW event PROVE EmptyRow(event).direction = "unknown"
BY DEF EmptyRow

\* What the changes are worth, with their sign.
Rated(tokens, priced) ==
    [i \in DOMAIN tokens |-> Rate(tokens[i].mint, priced) * Change(tokens[i])]

\* The accounts of each token together gained nothing, so at any rates they are worth
\* nothing together.
LEMMA NothingGained ==
    ASSUME ContentInv, Conserving, NEW priced
    PROVE  SumFunctionOnSet(Rated(tx.tokens, priced), DOMAIN tx.tokens) = 0
<1> DEFINE tokens == tx.tokens
           D == DOMAIN tokens
           f == [i \in D |-> Change(tokens[i])]
           g == Rated(tokens, priced)
           h == [i \in D |-> tokens[i].mint]
           w == [m \in Mint |-> Rate(m, priced)]
<1>1. tokens \in Seq(TokenAccount) /\ IsFiniteSet(D)
    <2>1. tokens \in Seq(TokenAccount)
        BY DEF ContentInv, IsTx
    <2>2. Len(tokens) \in Nat /\ D = 1..Len(tokens)
        BY <2>1
    <2> QED
        BY <2>1, <2>2, FS_Interval
<1>2. ASSUME NEW i \in D
      PROVE  f[i] \in Int /\ h[i] \in Mint /\ w[h[i]] \in Int /\ g[i] = w[h[i]] * f[i]
    <2>1. tokens[i] \in TokenAccount
        BY <1>1
    <2>2. Change(tokens[i]) \in Int /\ tokens[i].mint \in Mint
        BY <2>1, ChangeIsInt
    <2>3. Rate(tokens[i].mint, priced) \in Int
        BY <2>2, ContentAssumption DEF Rate
    <2> QED
        BY <2>2, <2>3 DEF Rated
<1>3. ASSUME NEW i \in D PROVE SumFunctionOnSet(f, ClassOf(h, D, i)) = 0
    <2> DEFINE m == tokens[i].mint
               held == {j \in D : tokens[j].mint = m}
    <2>1. m \in Mint
        BY <1>2
    <2>2. SumFunction([j \in held |-> Change(tokens[j])]) = 0
        BY <2>1 DEF Conserving
    <2>3. ClassOf(h, D, i) = held
        BY DEF ClassOf
    <2>4. [j \in held |-> Change(tokens[j])] = [j \in held |-> f[j]]
        OBVIOUS
    <2>5. IsFiniteSet(held)
        BY <1>1, FS_Subset
    <2> HIDE DEF f, held
    <2>6. SumFunction([j \in held |-> f[j]]) = SumFunctionOnSet(f, held)
        BY <2>5, SumRestrict
    <2> QED
        BY <2>2, <2>3, <2>4, <2>6
<1> HIDE DEF D, f, g, h, w
<1>4. SumFunctionOnSet(g, D) = 0
    BY <1>1, <1>2, <1>3, SumWeighted
<1> QED
    BY <1>4 DEF g, D

\* SidesBalance
LEMMA InvSidesBalance == ContentInv => SidesBalance
<1> DEFINE Side(d) == SumFunction([i \in {j \in DOMAIN rows : rows[j].direction = d} |-> rows[i].usd])
<1> SUFFICES ASSUME ContentInv, pc = "done", Conserving
             PROVE  Side("receive") = Side("send")
    BY DEF SidesBalance
<1> DEFINE tokens == tx.tokens
           D == DOMAIN tokens
<1>1. transfers = TokenTransfers(tokens) /\ tokens \in Seq(TokenAccount)
    BY DEF ContentInv, Through, IsTx
<1>2. PICK priced \in SUBSET asked : rows = RowsOf(FirstEvent(events), transfers, priced)
    BY DEF ContentInv
<1>3. CASE transfers = <<>>
    <2>1. PICK r : r = EmptyRow(FirstEvent(events)) /\ r.direction = "unknown"
        BY EmptyRowSays
    <2>2. rows = <<r>>
        BY <1>2, <1>3, <2>1 DEF RowsOf
    <2>3. /\ {j \in DOMAIN rows : rows[j].direction = "receive"} = {}
          /\ {j \in DOMAIN rows : rows[j].direction = "send"} = {}
        BY <2>1, <2>2
    <2> QED
        BY <2>3
<1>4. CASE transfers # <<>>
    <2> DEFINE g == Rated(tokens, priced)
               R == {i \in D : Changed(tokens[i]) /\ Change(tokens[i]) > 0}
               S == {i \in D : Changed(tokens[i]) /\ ~(Change(tokens[i]) > 0)}
               Z == {i \in D : ~Changed(tokens[i])}
               usd == [i \in R \cup S |-> rows[i].usd]
    <2>1. IsFiniteSet(D) /\ \A i \in D : tokens[i] \in TokenAccount
        <3>1. Len(tokens) \in Nat /\ D = 1..Len(tokens)
            BY <1>1
        <3>2. IsFiniteSet(D)
            BY <3>1, FS_Interval
        <3>3. \A i \in D : tokens[i] \in TokenAccount
            BY <1>1
        <3> QED
            BY <3>2, <3>3
    <2>2. DOMAIN rows = R \cup S
        BY <1>1, <1>2, <1>4 DEF RowsOf, TokenTransfers
    <2>3. ASSUME NEW i \in R \cup S
          PROVE  /\ rows[i].direction = IF i \in R THEN "receive" ELSE "send"
                 /\ rows[i].usd = IF i \in R THEN g[i] ELSE (-1) * g[i]
                 /\ g[i] \in Int
        <3>1. i \in DOMAIN transfers /\ rows[i] = RowOf(FirstEvent(events), transfers[i], priced)
            BY <1>1, <1>2, <1>4 DEF RowsOf, TokenTransfers
        <3>2. IsTransfer(transfers[i])
            BY <1>1, <3>1, TransfersAreTransfers
        <3>3. transfers[i].mint = tokens[i].mint /\ transfers[i].amount = Change(tokens[i])
            BY <1>1, <3>1 DEF TokenTransfers, TransferOf
        <3>4. g[i] = Rate(transfers[i].mint, priced) * transfers[i].amount
            BY <3>3 DEF Rated
        <3>5. i \in R <=> transfers[i].amount > 0
            BY <3>3
        <3> HIDE DEF R, S, g
        <3> QED
            BY <3>1, <3>2, <3>4, <3>5, RowWorth
    <2>4. ASSUME NEW i \in Z PROVE g[i] = 0
        <3>1. Change(tokens[i]) = 0
            <4>1. CASE tokens[i].post = None
                BY <4>1 DEF Conserving, Change, Amount, None
            <4>2. CASE tokens[i].post # None
                BY <4>2 DEF Changed
            <4> QED
                BY <4>1, <4>2
        <3>2. Rate(tokens[i].mint, priced) \in Int
            <4>1. tokens[i].mint \in Mint
                BY <2>1, ChangeIsInt
            <4> QED
                BY <4>1, ContentAssumption DEF Rate
        <3>3. Rate(tokens[i].mint, priced) * 0 = 0
            BY <3>2
        <3> QED
            BY <3>1, <3>3 DEF Rated
    <2>5. /\ D = (R \cup S) \cup Z /\ (R \cup S) \cap Z = {} /\ R \cap S = {}
          /\ IsFiniteSet(R) /\ IsFiniteSet(S) /\ IsFiniteSet(Z) /\ IsFiniteSet(R \cup S)
        <3>1. D = (R \cup S) \cup Z /\ (R \cup S) \cap Z = {} /\ R \cap S = {}
            OBVIOUS
        <3>2. R \subseteq D /\ S \subseteq D /\ Z \subseteq D
            OBVIOUS
        <3> HIDE DEF R, S, Z, D
        <3> QED
            BY <2>1, <3>1, <3>2, FS_Subset, FS_Union
    <2>6. SumFunctionOnSet(g, D) = 0
        BY NothingGained
    <2>7. /\ {j \in DOMAIN rows : rows[j].direction = "receive"} = R
          /\ {j \in DOMAIN rows : rows[j].direction = "send"} = S
        <3> HIDE DEF R, S, g
        <3> QED
            BY <2>2, <2>3, <2>5
    <2> HIDE DEF D, g, R, S, Z
    <2>8. SumFunctionOnSet(g, Z) = 0
        BY <2>4, <2>5, SumZero
    <2>9. SumFunctionOnSet(g, R \cup S) = 0
        <3>1. \A i \in (R \cup S) \cup Z : g[i] \in Int
            BY <2>3, <2>4
        <3>2. SumFunctionOnSet(g, D) = SumFunctionOnSet(g, R \cup S) + SumFunctionOnSet(g, Z)
            BY <2>5, <3>1, SumUnion
        <3>3. SumFunctionOnSet(g, R \cup S) \in Int
            BY <2>5, <3>1, SumInt
        <3> QED
            BY <2>6, <2>8, <3>2, <3>3
    <2>10. SumFunctionOnSet(g, R) + SumFunctionOnSet(g, S) = 0
        BY <2>3, <2>5, <2>9, SumUnion
    <2>11. SumFunctionOnSet(usd, R) = SumFunctionOnSet(g, R)
        BY <2>3, <2>5, SumEqual
    <2>12. SumFunctionOnSet(usd, S) = (-1) * SumFunctionOnSet(g, S)
        <3>1. \A i \in S : g[i] \in Int /\ usd[i] = (-1) * g[i]
            BY <2>3, <2>5
        <3> HIDE DEF usd
        <3> QED
            BY <2>5, <3>1, SumScale
    <2>13. SumFunctionOnSet(g, R) \in Int /\ SumFunctionOnSet(g, S) \in Int
        BY <2>3, <2>5, SumInt
    <2>14. Side("receive") = SumFunctionOnSet(usd, R) /\ Side("send") = SumFunctionOnSet(usd, S)
        <3>1. /\ [i \in R |-> rows[i].usd] = [i \in R |-> usd[i]]
              /\ [i \in S |-> rows[i].usd] = [i \in S |-> usd[i]]
            OBVIOUS
        <3> HIDE DEF usd
        <3> QED
            BY <2>5, <2>7, <3>1, SumRestrict
    <2> HIDE DEF usd, Side
    <2> QED
        BY <2>10, <2>11, <2>12, <2>13, <2>14
<1> QED
    BY <1>3, <1>4

\* When tokens only change hands, the receive rows and the send rows have the same sum
\* of USD, for any accounts, tokens, prices and missing prices.
THEOREM VolumeIsTwiceWhatMoved == Spec => []SidesBalance
BY InvHolds, InvSidesBalance, PTL
===============================================================================
