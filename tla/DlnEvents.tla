------------------------------- MODULE DlnEvents -------------------------------
(***************************************************************************)
(* packages/tx-parsing: the DLN events of a transaction, found from what    *)
(* the node returns of it.  Definitions only: the parser keeps no state.    *)
(*                                                                          *)
(* A log line is what the parser can tell of it: the words of a create or a *)
(* fulfil, an order id written as text, the bytes of "Program data:".  An   *)
(* instruction is its program, the first byte of its data and its accounts. *)
(* Logs, instructions and events are functions on their positions, which may*)
(* have gaps where only some of them are left: the parser goes through them *)
(* in order.                                                                *)
(***************************************************************************)
EXTENDS Integers, Sequences, FiniteSetsExt

CONSTANTS
    Order,       \* order ids, those of DLN and any 32 bytes that pass for one
    Program,     \* programs
    Account,     \* accounts
    NoAccount

Absent == "absent"

Word == {"create", "fulfill", Absent}

\* The bytes after "Program data:": fewer than 40, or bytes 8..40 of them.
Bytes == Order \cup {"short", "zeros", "ones", Absent}

LogLine == [word : Word, text : Order \cup {Absent}, data : Bytes]

\* UnknownByte stands for every byte the custom parser has no case for, and
\* Undecodable for an instruction without data that can be decoded: its data are
\* no base58, or the node has parsed it already and returns none.
UnknownByte == 5
Undecodable == 6

Instruction == [program : Program, byte : 0..Undecodable, first : Account \cup {NoAccount}]

-----------------------------------------------------------------------------
\* extractOrderIdFromProgramData
IdInData(bytes) == IF bytes \in Order THEN bytes ELSE Absent

\* The id in one line: the text patterns are tried first.
IdOfLine(line) == IF line.text # Absent THEN line.text ELSE IdInData(line.data)

\* The first of a set of positions, as a loop with a break or a return finds it.
First(positions) == Min(positions)

WithId(logs) == {n \in DOMAIN logs : IdOfLine(logs[n]) # Absent}

\* Mutant: all lines are searched for a text before any is searched for bytes.
ExtractOrderIdTextFirst(logs) ==
    LET texts == {n \in DOMAIN logs : logs[n].text # Absent} IN
    IF texts # {} THEN logs[First(texts)].text
    ELSE IF WithId(logs) = {} THEN Absent ELSE IdOfLine(logs[First(WithId(logs))])

\* extractOrderIdFromLogs: the first line that has an id, whoever wrote it.
ExtractOrderId(logs) ==
    IF WithId(logs) = {} THEN Absent ELSE IdOfLine(logs[First(WithId(logs))])

WithWord(logs) == {n \in DOMAIN logs : logs[n].word # Absent}

EventTypeOfWord(word) ==
    CASE word = "create"  -> "OrderCreated"
      [] word = "fulfill" -> "OrderFulfilled"
      [] OTHER            -> Absent

\* detectEventTypeFromLogs: the first line with the words of a create or a fulfil.
TypeFromLogs(logs) ==
    IF WithWord(logs) = {} THEN Absent ELSE EventTypeOfWord(logs[First(WithWord(logs))].word)

\* customDlnParser: the name of an instruction from its first byte.
NameOf(instruction) ==
    <<"createOrder", "fulfillOrder", "cancelOrder", "claimOrder",
      "createOrderWithNonce">>[instruction.byte + 1]

\* customDlnParser throws on a byte it does not know, and parseTransactionParsedData
\* on an instruction it cannot decode, of whatever program; one such instruction
\* costs the parse of the whole message.
ParseThrows(instructions, programs) ==
    \E i \in DOMAIN instructions :
        \/ instructions[i].byte = Undecodable
        \/ instructions[i].program \in programs /\ instructions[i].byte = UnknownByte

\* Mutant: what is not a fulfil is a create.
DetectEventTypeByName(instruction, logs) ==
    IF NameOf(instruction) = "fulfillOrder" THEN "OrderFulfilled" ELSE "OrderCreated"

\* detectEventType: the name decides; a cancel or a claim has neither name, and is
\* given the type of the first words in the logs.
DetectEventType(instruction, logs) ==
    CASE NameOf(instruction) \in {"createOrder", "createOrderWithNonce"} -> "OrderCreated"
      [] NameOf(instruction) = "fulfillOrder"                            -> "OrderFulfilled"
      [] OTHER                                                           -> TypeFromLogs(logs)

\* parseInstruction.  The parser names the first account maker, fulfiller or claimer,
\* and leaves amounts and chains to placeholders.
EventOf(instruction, id, logs) ==
    [type |-> DetectEventType(instruction, logs), order |-> id, party |-> instruction.first]

\* createEventFromLogs
EventFromLogs(id, logs) == [type |-> TypeFromLogs(logs), order |-> id, party |-> NoAccount]

Typed(event) == event.type # Absent

OfPrograms(instructions, programs) ==
    {i \in DOMAIN instructions : instructions[i].program \in programs}

\* The events of the instructions of our programs, at their positions.
InstructionEvents(instructions, programs, id, logs) ==
    IF ParseThrows(instructions, programs) THEN <<>>
    ELSE [i \in {j \in OfPrograms(instructions, programs) :
                   Typed(EventOf(instructions[j], id, logs))}
             |-> EventOf(instructions[i], id, logs)]

\* Mutant: a transaction without an order id is parsed all the same.
ParseTransactionAnyway(tx, programs) ==
    InstructionEvents(tx.instructions, programs, ExtractOrderId(tx.logs), tx.logs)

\* parseTransaction.  tx.complete: the node returned meta, block time and message.
ParseTransaction(tx, programs) ==
    LET id == ExtractOrderId(tx.logs)
        found == InstructionEvents(tx.instructions, programs, id, tx.logs) IN
    IF ~tx.complete \/ id = Absent THEN <<>>
    ELSE IF found # <<>> THEN found
    ELSE IF Typed(EventFromLogs(id, tx.logs)) THEN <<EventFromLogs(id, tx.logs)>>
    ELSE <<>>
===============================================================================
