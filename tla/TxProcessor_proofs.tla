-------------------------- MODULE TxProcessor_proofs --------------------------
(***************************************************************************)
(* Proofs about TxProcessor, for any transactions, transfers, prices and    *)
(* number of handler calls.                                                 *)
(***************************************************************************)
EXTENDS TxProcessor, Sums

-----------------------------------------------------------------------------
(* Types: a call is free, or a record for a known transaction; the table is *)
(* a finite set of stamped rows.                                           *)

CallRecord ==
    {r \in [pc : {"free", "fetch", "parse", "price", "insert", "count", "settle"},
            tx : Tx \cup {NoTx}, tries : 0..FetchTries - 1, lastError : Outcomes,
            priced : SUBSET (DOMAIN Price), answer : BOOLEAN, attached : BOOLEAN] :
        IF r.pc = "free" THEN r = Free ELSE r.tx \in Tx}

CallType == call \in [Call -> CallRecord]

RowType ==
    /\ inserts \in Nat /\ IsFiniteSet(table)
    /\ \A r \in table : /\ r.at \in 1..inserts
                        /\ r.row.tx \in Tx /\ r.row.nr \in Nat /\ r.row.usd \in Nat

\* The rows built for a transaction.
LEMMA RowsAreRows ==
    ASSUME NEW t \in Tx, NEW priced \in SUBSET DOMAIN Price
    PROVE  \A r \in Rows(t, priced) : r.tx = t /\ r.nr \in Nat /\ r.usd \in Nat
<1>1. \A i \in DOMAIN Transfers[t] :
          i \in Nat /\ Usd(Transfers[t][i], priced) \in Nat
    <2> SUFFICES ASSUME NEW i \in DOMAIN Transfers[t]
                 PROVE  i \in Nat /\ Usd(Transfers[t][i], priced) \in Nat
        OBVIOUS
    <2>1. i \in Nat /\ Transfers[t][i].amount \in Int
        BY ProcessorAssumption DEF ProcessorAssumption
    <2>2. Transfers[t][i].mint \in priced => Price[Transfers[t][i].mint] \in Nat
        BY ProcessorAssumption DEF ProcessorAssumption
    <2>3. Abs(Transfers[t][i].amount) \in Nat
        BY <2>1 DEF Abs
    <2>4. \A m, n \in Nat : m * n \in Nat
        OBVIOUS
    <2> QED
        BY <2>1, <2>2, <2>3, <2>4 DEF Usd
<1> QED
    BY <1>1 DEF Rows

LEMMA RowsAreFinite ==
    ASSUME NEW t \in Tx, NEW priced
    PROVE  IsFiniteSet(Rows(t, priced))
<1>1. CASE Transfers[t] = <<>>
    <2>1. Rows(t, priced) = {[tx |-> t, nr |-> 0, account |-> NoAccount, usd |-> 0]}
        BY <1>1 DEF Rows
    <2> QED
        BY <2>1, FS_Singleton
<1>2. CASE Transfers[t] # <<>>
    <2> DEFINE h == [i \in DOMAIN Transfers[t] |->
                        [tx |-> t, nr |-> i, account |-> Transfers[t][i].account,
                         usd |-> Usd(Transfers[t][i], priced)]]
    <2>1. IsFiniteSet(DOMAIN Transfers[t])
        BY ProcessorAssumption, FS_Interval DEF ProcessorAssumption
    <2>2. Rows(t, priced) = {h[i] : i \in DOMAIN Transfers[t]}
        BY <1>2 DEF Rows
    <2> HIDE DEF h
    <2> QED
        BY <2>1, <2>2, ImageFinite
<1> QED
    BY <1>1, <1>2

\* A price does not change the sorting key of a row.
LEMMA KeysOfRows ==
    ASSUME NEW t \in Tx, NEW priced PROVE {Key(r) : r \in Rows(t, priced)} = Keys(t)
<1>1. CASE Transfers[t] = <<>>
    BY <1>1 DEF Keys, Rows, Key
<1>2. ASSUME Transfers[t] # <<>>, NEW p
      PROVE  {Key(r) : r \in Rows(t, p)}
                 = {<<t, Transfers[t][i].account>> : i \in DOMAIN Transfers[t]}
    <2> DEFINE Row(i) == [tx |-> t, nr |-> i, account |-> Transfers[t][i].account,
                          usd |-> Usd(Transfers[t][i], p)]
    <2>1. Rows(t, p) = {Row(i) : i \in DOMAIN Transfers[t]}
        BY <1>2 DEF Rows
    <2>2. \A i : Key(Row(i)) = <<t, Transfers[t][i].account>>
        BY DEF Key
    <2> HIDE DEF Row
    <2> QED
        BY <2>1, <2>2
<1> QED
    BY <1>1, <1>2 DEF Keys

\* One call moves on.
LEMMA CallMoves ==
    ASSUME CallType, NEW c \in Call, NEW r \in CallRecord, call' = [call EXCEPT ![c] = r]
    PROVE  CallType'
BY DEF CallType

LEMMA GoToMoves ==
    ASSUME CallType, NEW c \in Call, call[c].pc # "free", NEW pc, GoTo(c, pc),
           pc \in {"parse", "price", "insert", "count", "settle"}
    PROVE  CallType'
<1> DEFINE r == [call[c] EXCEPT !.pc = pc]
<1>1. call[c] \in CallRecord /\ call[c].tx \in Tx
    BY DEF CallType, CallRecord
<1>2. r \in CallRecord
    BY <1>1 DEF CallRecord
<1>3. call' = [call EXCEPT ![c] = r]
    BY DEF GoTo
<1> HIDE DEF r
<1> QED
    BY <1>1, <1>2, <1>3, CallMoves

LEMMA AnswerMoves ==
    ASSUME CallType, NEW c \in Call, call[c].pc # "free", NEW answer \in BOOLEAN,
           Answer(c, answer)
    PROVE  CallType'
<1> DEFINE r == [call[c] EXCEPT !.pc = "settle", !.answer = answer]
<1>1. call[c] \in CallRecord /\ call[c].tx \in Tx
    BY DEF CallType, CallRecord
<1>2. r \in CallRecord
    BY <1>1 DEF CallRecord
<1>3. call' = [call EXCEPT ![c] = r]
    BY DEF Answer
<1> HIDE DEF r
<1> QED
    BY <1>1, <1>2, <1>3, CallMoves

\* The record of a call after these steps.
LEMMA GoToRecord ==
    ASSUME CallType, NEW c \in Call, NEW pc, GoTo(c, pc)
    PROVE  /\ call' = [call EXCEPT ![c] = call'[c]]
           /\ call'[c].pc = pc /\ call'[c].tx = call[c].tx
BY DEF CallType, CallRecord, GoTo

LEMMA AnswerRecord ==
    ASSUME CallType, NEW c \in Call, NEW answer \in BOOLEAN, Answer(c, answer)
    PROVE  /\ call' = [call EXCEPT ![c] = call'[c]]
           /\ call'[c].pc = "settle" /\ call'[c].tx = call[c].tx
           /\ call'[c].answer = answer
BY DEF CallType, CallRecord, Answer

LEMMA CatchAnswers ==
    ASSUME NEW c, NEW error, Catch(c, error)
    PROVE  \/ Answer(c, FALSE)
           \/ Answer(c, TRUE) /\ call[c].tx \in skipped'
BY DEF Catch, IsRetryableError

LEMMA RetryMoves ==
    ASSUME CallType, NEW c \in Call, call[c].pc = "fetch", NEW error \in Outcomes,
           call[c].tries + 1 < FetchTries,
           call' = [call EXCEPT ![c].tries = @ + 1, ![c].lastError = error]
    PROVE  CallType'
<1>1. call[c] \in CallRecord /\ call[c].tx \in Tx
    BY DEF CallType, CallRecord
<1>n. PICK n : n = call[c].tries + 1
    OBVIOUS
<1>2. n \in 0..FetchTries - 1
    BY <1>1, <1>n DEF CallRecord, FetchTries
<1>r. PICK r : r = [call[c] EXCEPT !.tries = n, !.lastError = error]
    OBVIOUS
<1>3. r \in CallRecord
    BY <1>1, <1>2, <1>r DEF CallRecord
<1>4. call' = [call EXCEPT ![c] = r]
    BY <1>n, <1>r
<1> QED
    BY <1>1, <1>3, <1>4, CallMoves

LEMMA FreeIsACall == Free \in CallRecord /\ Free.pc = "free"
BY DEF Free, CallRecord, FetchTries, Outcomes, ErrorKinds

LEMMA CallsStartFree == Init => CallType
BY FreeIsACall DEF Init, CallType

LEMMA CallTypeIsKept == ASSUME CallType, [Next]_vars PROVE CallType'
<1>1. CASE UNCHANGED call
    BY <1>1 DEF CallType
<1>2. ASSUME NEW c \in Call, NEW t \in Tx, Deliver(c, t) PROVE CallType'
    <2>1. Started(t) \in CallRecord
        BY DEF Started, CallRecord, FetchTries, Outcomes, ErrorKinds
    <2>2. call' = [call EXCEPT ![c] = Started(t)]
        BY <1>2 DEF Deliver
    <2> QED
        BY <2>1, <2>2, CallMoves
<1>3. ASSUME NEW c \in Call, FetchFinds(c) \/ Parse(c) \/ ParseFails(c) PROVE CallType'
    BY <1>3, GoToMoves, AnswerMoves DEF FetchFinds, Parse, ParseFails
<1>4. ASSUME NEW c \in Call, NEW thrown \in Outcomes, FetchMisses(c, thrown) PROVE CallType'
    <2>1. call[c] \in CallRecord /\ call[c].pc = "fetch"
        BY <1>4 DEF FetchMisses, CallType
    <2>2. ASSUME NEW e \in Outcomes, call[c].tries + 1 < FetchTries,
                 call' = [call EXCEPT ![c].tries = @ + 1, ![c].lastError = e]
          PROVE  CallType'
        BY <2>1, <2>2, RetryMoves
    <2>3. ASSUME NEW e, Catch(c, e) PROVE CallType'
        BY <2>1, <2>3, CatchAnswers, AnswerMoves
    <2>4. call[c].lastError \in Outcomes
        BY <2>1 DEF CallRecord
    <2> QED
        BY <1>4, <2>2, <2>3, <2>4 DEF FetchMisses
<1>5. ASSUME NEW c \in Call, NEW priced \in SUBSET DOMAIN Price, GetPrices(c, priced)
      PROVE  CallType'
    <2> DEFINE r == [call[c] EXCEPT !.pc = "insert", !.priced = priced]
    <2>1. call[c] \in CallRecord /\ call[c].tx \in Tx
        BY <1>5 DEF GetPrices, CallType, CallRecord
    <2>2. r \in CallRecord
        BY <2>1 DEF CallRecord
    <2>3. call' = [call EXCEPT ![c] = r]
        BY <1>5 DEF GetPrices
    <2> HIDE DEF r
    <2> QED
        BY <2>2, <2>3, CallMoves
<1>6. ASSUME NEW c \in Call, NEW applied \in BOOLEAN, NEW thrown \in Outcomes,
             Insert(c, applied, thrown) \/ Count(c, applied, thrown)
      PROVE  CallType'
    <2>1. call[c].pc # "free"
        BY <1>6 DEF Insert, Count
    <2>2. GoTo(c, "count") \/ Answer(c, TRUE) \/ \E e : Catch(c, e)
        BY <1>6 DEF Insert, Count
    <2> QED
        BY <2>1, <2>2, GoToMoves, AnswerMoves, CatchAnswers
<1>7. ASSUME NEW c \in Call, Settle(c) PROVE CallType'
    BY <1>7, FreeIsACall, CallMoves DEF Settle
<1>8. ASSUME NEW c \in Call, NEW dies \in BOOLEAN, LoseDelivery(c, dies) PROVE CallType'
    <2> DEFINE r == [call[c] EXCEPT !.attached = FALSE]
    <2>1. call[c] \in CallRecord /\ call[c].attached
        BY <1>8 DEF CallType, LoseDelivery
    <2>2. call[c].pc # "free"
        <3>1. ~Free.attached
            BY DEF Free
        <3> QED
            BY <2>1, <3>1 DEF CallRecord
    <2>4. r \in CallRecord
        BY <2>1, <2>2 DEF CallRecord
    <2>3. call' = [call EXCEPT ![c] = r] \/ call' = [call EXCEPT ![c] = Free]
        BY <1>8 DEF LoseDelivery
    <2> HIDE DEF r
    <2> QED
        BY <2>4, <2>3, FreeIsACall, CallMoves
<1> QED
    BY <1>1, <1>2, <1>3, <1>4, <1>5, <1>6, <1>7, <1>8
       DEF Next, Handler, BecomesVisible, Merge, EvictCounter, vars

-----------------------------------------------------------------------------
(* The stores.                                                             *)

\* The steps that write to ClickHouse.
LEMMA StoreSteps ==
    ASSUME CallType, [Next]_vars
    PROVE  \/ UNCHANGED storeVars
           \/ \E t \in Tx : \E priced \in SUBSET DOMAIN Price : Store(t, Rows(t, priced))
           \/ \E old \in table : Merge(old)
<1>1. ASSUME NEW c \in Call, NEW applied \in BOOLEAN, NEW thrown \in Outcomes,
             Insert(c, applied, thrown)
      PROVE  \/ UNCHANGED storeVars
             \/ \E t \in Tx : \E priced \in SUBSET DOMAIN Price : Store(t, Rows(t, priced))
    <2>1. call[c].tx \in Tx /\ call[c].priced \in SUBSET DOMAIN Price
        BY <1>1 DEF Insert, CallType, CallRecord
    <2> QED
        BY <1>1, <2>1 DEF Insert
<1>2. \/ UNCHANGED storeVars
      \/ \E c \in Call : \E applied \in BOOLEAN, thrown \in Outcomes :
             Insert(c, applied, thrown)
      \/ \E old \in table : Merge(old)
    BY DEF Next, Handler, Deliver, FetchFinds, FetchMisses, Parse, ParseFails, GetPrices,
           Count, Settle, LoseDelivery, BecomesVisible, EvictCounter, vars
<1> QED
    BY <1>1, <1>2

LEMMA StampedFinite ==
    ASSUME NEW t \in Tx, NEW priced, NEW rows, rows \subseteq Rows(t, priced)
    PROVE  IsFiniteSet(rows) /\ IsFiniteSet(Stamped(rows))
<1> DEFINE h == [r \in rows |-> [row |-> r, at |-> inserts + 1]]
<1>1. IsFiniteSet(rows)
    BY RowsAreFinite, FS_Subset
<1>2. Stamped(rows) = {h[r] : r \in rows}
    BY DEF Stamped
<1> HIDE DEF h
<1> QED
    BY <1>1, <1>2, ImageFinite

LEMMA RowTypeIsKept == ASSUME CallType, RowType, [Next]_vars PROVE RowType'
<1>1. CASE UNCHANGED storeVars
    BY <1>1 DEF RowType, storeVars
<1>2. ASSUME NEW t \in Tx, NEW priced \in SUBSET DOMAIN Price, Store(t, Rows(t, priced))
      PROVE  RowType'
    <2>1. inserts' \in Nat /\ IsFiniteSet(table')
        <3>1. IsFiniteSet(Stamped(Rows(t, priced)))
            BY StampedFinite
        <3>2. IsFiniteSet(table) /\ inserts \in Nat
            BY DEF RowType
        <3>3. IsFiniteSet(table \cup Stamped(Rows(t, priced)))
            BY ONLY <3>1, <3>2, FS_Union
        <3> QED
            BY <1>2, <3>2, <3>3 DEF Store
    <2>2. ASSUME NEW r \in Stamped(Rows(t, priced))
          PROVE  /\ r.at \in 1..inserts'
                 /\ r.row.tx \in Tx /\ r.row.nr \in Nat /\ r.row.usd \in Nat
        <3>1. r.row \in Rows(t, priced) /\ r.at = inserts + 1
            BY <2>2 DEF Stamped
        <3> QED
            BY <1>2, <3>1, RowsAreRows DEF Store, RowType
    <2>3. ASSUME NEW r \in table PROVE r.at \in 1..inserts'
        BY <1>2, <2>3 DEF RowType, Store
    <2> QED
        BY <1>2, <2>1, <2>2, <2>3 DEF RowType, Store
<1>3. ASSUME NEW old \in table, Merge(old) PROVE RowType'
    <2>1. IsFiniteSet(table') /\ table' \subseteq table /\ inserts' = inserts
        BY <1>3, FS_Subset DEF Merge, RowType
    <2> QED
        BY <2>1 DEF RowType
<1> QED
    BY <1>1, <1>2, <1>3, StoreSteps

LEMMA TypesHold == Spec => [](CallType /\ RowType)
<1>1. Init => CallType /\ RowType
    BY CallsStartFree, FS_EmptySet DEF Init, RowType
<1>2. CallType /\ RowType /\ [Next]_vars => (CallType /\ RowType)'
    BY CallTypeIsKept, RowTypeIsKept
<1> QED
    BY <1>1, <1>2, PTL DEF Spec

-----------------------------------------------------------------------------
(* The inductive invariant: the answer "true" is justified when it is given, *)
(* and stays so.                                                            *)

Justified(t) == Keys(t) \subseteq StoredKeys \/ ~HasEvent[t] \/ t \in skipped \cup unparsed

StoredBeforeCount ==
    \A c \in Call : call[c].pc = "count" => Keys(call[c].tx) \subseteq StoredKeys

TrueIsJustified ==
    \A c \in Call : call[c].pc = "settle" /\ call[c].answer => Justified(call[c].tx)

AckedIsJustified == \A t \in acked : Justified(t)

HandlerInv == StoredBeforeCount /\ TrueIsJustified /\ AckedIsJustified

\* A merge drops a row only for another one with the same key.
LEMMA MergeKeepsKeys ==
    ASSUME RowType, NEW old \in table, Merge(old) PROVE StoredKeys \subseteq StoredKeys'
<1>1. PICK new \in table : Replaces(new, old)
    BY DEF Merge
<1>2. new # old /\ Key(new.row) = Key(old.row)
    BY <1>1 DEF Replaces, RowType
<1>3. new \in table'
    BY <1>2 DEF Merge
<1>4. \A r \in table : r = old \/ r \in table'
    BY DEF Merge
<1>5. ASSUME NEW k \in StoredKeys PROVE \E r \in table' : Key(r.row) = k
    <2>1. PICK r \in table : Key(r.row) = k
        BY <1>5 DEF StoredKeys
    <2> QED
        BY <2>1, <1>2, <1>3, <1>4
<1> QED
    BY <1>5 DEF StoredKeys

\* An insert leaves a row for every key of its transaction.
LEMMA StoreAddsKeys ==
    ASSUME NEW t \in Tx, NEW priced, Store(t, Rows(t, priced))
    PROVE  StoredKeys \subseteq StoredKeys' /\ Keys(t) \subseteq StoredKeys'
<1>1. table' = table \cup Stamped(Rows(t, priced))
    BY DEF Store
<1>2. StoredKeys \subseteq StoredKeys'
    BY <1>1 DEF StoredKeys
<1>3. ASSUME NEW row \in Rows(t, priced) PROVE Key(row) \in StoredKeys'
    <2> DEFINE r == [row |-> row, at |-> inserts + 1]
    <2>1. r \in table' /\ r.row = row
        BY <1>1 DEF Stamped
    <2> QED
        BY <2>1 DEF StoredKeys
<1>4. \A k \in Keys(t) : \E row \in Rows(t, priced) : Key(row) = k
    BY KeysOfRows
<1> QED
    BY <1>2, <1>3, <1>4

\* A permanent error skips the transaction of the call which met it, and nothing
\* else skips anything.
LEMMA ActionsSkip ==
    ASSUME NEW c \in Call, NEW thrown \in Outcomes
    PROVE  (\/ FetchMisses(c, thrown)
            \/ \E applied \in BOOLEAN : Insert(c, applied, thrown) \/ Count(c, applied, thrown))
           => skipped' \in {skipped, skipped \cup {call[c].tx}}
<1>1. \A e : Catch(c, e) => skipped' \in {skipped, skipped \cup {call[c].tx}}
    BY DEF Catch
<1>2. FetchMisses(c, thrown) => UNCHANGED skipped \/ \E e : Catch(c, e)
    BY DEF FetchMisses
<1>3. ASSUME NEW applied \in BOOLEAN, Insert(c, applied, thrown) \/ Count(c, applied, thrown)
      PROVE  UNCHANGED skipped \/ \E e : Catch(c, e)
    BY <1>3 DEF Insert, Count
<1> QED
    BY <1>1, <1>2, <1>3

LEMMA ExcusesGrow ==
    ASSUME [Next]_vars
    PROVE  skipped \subseteq skipped' /\ unparsed \subseteq unparsed'
<1>1. ASSUME NEW c \in Call, NEW thrown \in Outcomes,
             \/ FetchMisses(c, thrown)
             \/ \E applied \in BOOLEAN : Insert(c, applied, thrown) \/ Count(c, applied, thrown)
      PROVE  skipped \subseteq skipped' /\ unparsed \subseteq unparsed'
    <2>1. UNCHANGED unparsed
        BY <1>1 DEF FetchMisses, Insert, Count
    <2> QED
        BY <1>1, <2>1, ActionsSkip
<1>2. ASSUME NEW c \in Call, ParseFails(c)
      PROVE  skipped \subseteq skipped' /\ unparsed \subseteq unparsed'
    BY <1>2 DEF ParseFails
<1>3. ASSUME UNCHANGED excuseVars
      PROVE  skipped \subseteq skipped' /\ unparsed \subseteq unparsed'
    BY <1>3 DEF excuseVars
<1> QED
    BY <1>1, <1>2, <1>3
       DEF Next, Handler, Deliver, FetchFinds, Parse, GetPrices, Settle, LoseDelivery,
           BecomesVisible, Merge, EvictCounter, vars

\* Nothing that justifies an answer is ever taken back.
LEMMA NothingIsUnstored ==
    ASSUME CallType, RowType, [Next]_vars
    PROVE  /\ StoredKeys \subseteq StoredKeys'
           /\ skipped \subseteq skipped' /\ unparsed \subseteq unparsed'
<1>1. StoredKeys \subseteq StoredKeys'
    <2>1. CASE UNCHANGED table
        BY <2>1 DEF StoredKeys
    <2>2. ASSUME NEW c \in Call, NEW applied \in BOOLEAN, NEW thrown \in Outcomes,
                 Insert(c, applied, thrown), ~UNCHANGED table
          PROVE  StoredKeys \subseteq StoredKeys'
        <3>1. call[c].tx \in Tx
            BY <2>2 DEF Insert, CallType, CallRecord
        <3>2. Store(call[c].tx, Rows(call[c].tx, call[c].priced))
            BY <2>2 DEF Insert, storeVars
        <3> QED
            BY <3>1, <3>2, StoreAddsKeys
    <2>3. ASSUME NEW old \in table, Merge(old) PROVE StoredKeys \subseteq StoredKeys'
        BY <2>3, MergeKeepsKeys
    <2> QED
        BY <2>1, <2>2, <2>3
           DEF Next, Handler, Deliver, FetchFinds, FetchMisses, Parse, ParseFails, GetPrices,
               Count, Settle, LoseDelivery, BecomesVisible, EvictCounter, vars, storeVars
<1> QED
    BY <1>1, ExcusesGrow

\* So the invariant is kept by a step which moves one call to a record that is
\* justified, and acknowledges nothing that is not.
LEMMA OneCallMoves ==
    ASSUME CallType, RowType, HandlerInv, [Next]_vars, NEW c \in Call, NEW r,
           call' = [call EXCEPT ![c] = r],
           r.pc = "count" => Keys(r.tx) \subseteq StoredKeys',
           r.pc = "settle" /\ r.answer => Justified(r.tx)',
           \A t \in acked' \ acked : Justified(t)
    PROVE  HandlerInv'
<1>1. \A t : Justified(t) => Justified(t)'
    BY NothingIsUnstored DEF Justified
<1>2. \A d \in Call : call'[d] = IF d = c THEN r ELSE call[d]
    BY DEF CallType
<1>3. StoredBeforeCount'
    BY <1>2, NothingIsUnstored DEF HandlerInv, StoredBeforeCount
<1>4. TrueIsJustified'
    BY <1>1, <1>2 DEF HandlerInv, TrueIsJustified
<1>5. AckedIsJustified'
    BY <1>1 DEF HandlerInv, AckedIsJustified
<1> QED
    BY <1>3, <1>4, <1>5 DEF HandlerInv

LEMMA SettleKeepsInvariant ==
    ASSUME CallType, RowType, HandlerInv, [Next]_vars, NEW c \in Call, Settle(c)
    PROVE  HandlerInv'
<1>1. call' = [call EXCEPT ![c] = Free] /\ Free.pc = "free"
    BY DEF Settle, Free
<1>2. \A t \in acked' \ acked : t = call[c].tx /\ call[c].answer /\ call[c].pc = "settle"
    BY DEF Settle, queueVars
<1>3. \A t \in acked' \ acked : Justified(t)
    BY <1>2 DEF HandlerInv, TrueIsJustified
<1> QED
    BY <1>1, <1>3, OneCallMoves

LEMMA AnswerKeepsInvariant ==
    ASSUME CallType, RowType, HandlerInv, [Next]_vars, NEW c \in Call, UNCHANGED acked,
           NEW answer \in BOOLEAN, Answer(c, answer),
           NEW t, t = call[c].tx, answer => Justified(t)'
    PROVE  HandlerInv'
<1>r. PICK r : r = [call[c] EXCEPT !.pc = "settle", !.answer = answer]
    OBVIOUS
<1>1. r.pc = "settle" /\ r.answer = answer /\ r.tx = t
    BY <1>r DEF CallType, CallRecord
<1>2. call' = [call EXCEPT ![c] = r]
    BY <1>r DEF Answer
<1> QED
    BY <1>1, <1>2, OneCallMoves

LEMMA CatchKeepsInvariant ==
    ASSUME CallType, RowType, HandlerInv, [Next]_vars, NEW c \in Call, UNCHANGED acked,
           NEW error, Catch(c, error)
    PROVE  HandlerInv'
<1>1. PICK t : t = call[c].tx
    OBVIOUS
<1>2. t \in skipped' => Justified(t)'
    BY DEF Justified
<1> QED
    BY <1>1, <1>2, CatchAnswers, AnswerKeepsInvariant

LEMMA GoToKeepsInvariant ==
    ASSUME CallType, RowType, HandlerInv, [Next]_vars, NEW c \in Call, UNCHANGED acked,
           NEW pc, GoTo(c, pc), pc # "settle",
           pc = "count" => Keys(call[c].tx) \subseteq StoredKeys'
    PROVE  HandlerInv'
<1> DEFINE r == [call[c] EXCEPT !.pc = pc]
<1>1. r.pc = pc /\ r.tx = call[c].tx
    BY DEF CallType, CallRecord
<1>2. call' = [call EXCEPT ![c] = r]
    BY DEF GoTo
<1> HIDE DEF r
<1> QED
    BY <1>1, <1>2, OneCallMoves

LEMMA InvariantIsInductive ==
    ASSUME CallType, RowType, HandlerInv, [Next]_vars PROVE HandlerInv'
<1>1. CASE UNCHANGED <<call, acked>>
    <2>1. \A t : Justified(t) => Justified(t)'
        BY NothingIsUnstored DEF Justified
    <2> QED
        BY <1>1, <2>1, NothingIsUnstored
           DEF HandlerInv, StoredBeforeCount, TrueIsJustified, AckedIsJustified
<1>2. ASSUME NEW c \in Call, NEW t \in Tx, Deliver(c, t) PROVE HandlerInv'
    <2>1. call' = [call EXCEPT ![c] = Started(t)] /\ acked' = acked
        BY <1>2 DEF Deliver
    <2>2. Started(t).pc = "fetch"
        BY DEF Started
    <2> QED
        BY <2>1, <2>2, OneCallMoves
<1>3. ASSUME NEW c \in Call, FetchFinds(c) PROVE HandlerInv'
    BY <1>3, GoToKeepsInvariant DEF FetchFinds, queueVars
<1>4. ASSUME NEW c \in Call, NEW thrown \in Outcomes, FetchMisses(c, thrown) PROVE HandlerInv'
    <2>1. call[c] \in CallRecord /\ call[c].pc = "fetch" /\ acked' = acked
        BY <1>4 DEF FetchMisses, queueVars, CallType
    <2>2. ASSUME NEW e, call' = [call EXCEPT ![c].tries = @ + 1, ![c].lastError = e]
          PROVE  HandlerInv'
        <3>1. PICK n : n = call[c].tries + 1
            OBVIOUS
        <3>2. PICK r : r = [call[c] EXCEPT !.tries = n, !.lastError = e]
            OBVIOUS
        <3>3. call' = [call EXCEPT ![c] = r] /\ r.pc = "fetch"
            BY <2>1, <2>2, <3>1, <3>2 DEF CallRecord
        <3> QED
            BY <2>1, <3>3, OneCallMoves
    <2>3. ASSUME NEW e, Catch(c, e) PROVE HandlerInv'
        BY <2>1, <2>3, CatchKeepsInvariant
    <2> QED
        BY <1>4, <2>2, <2>3 DEF FetchMisses
<1>5. ASSUME NEW c \in Call, Parse(c) PROVE HandlerInv'
    <2>1. PICK t : t = call[c].tx
        OBVIOUS
    <2>2. acked' = acked /\ (~HasEvent[t] => Justified(t)')
        BY <1>5 DEF Parse, queueVars, Justified
    <2> QED
        BY <1>5, <2>1, <2>2, GoToKeepsInvariant, AnswerKeepsInvariant DEF Parse
<1>6. ASSUME NEW c \in Call, ParseFails(c) PROVE HandlerInv'
    <2>1. PICK t : t = call[c].tx
        OBVIOUS
    <2>2. acked' = acked /\ Justified(t)'
        BY <1>6, <2>1 DEF ParseFails, queueVars, Justified
    <2> QED
        BY <1>6, <2>1, <2>2, AnswerKeepsInvariant DEF ParseFails
<1>7. ASSUME NEW c \in Call, NEW priced \in SUBSET DOMAIN Price, GetPrices(c, priced)
      PROVE  HandlerInv'
    <2> DEFINE r == [call[c] EXCEPT !.pc = "insert", !.priced = priced]
    <2>1. call' = [call EXCEPT ![c] = r] /\ acked' = acked
        BY <1>7 DEF GetPrices, queueVars
    <2>2. r.pc = "insert"
        BY DEF CallType, CallRecord
    <2> HIDE DEF r
    <2> QED
        BY <2>1, <2>2, OneCallMoves
<1>8. ASSUME NEW c \in Call, NEW applied \in BOOLEAN, NEW thrown \in Outcomes,
             Insert(c, applied, thrown)
      PROVE  HandlerInv'
    <2>1. acked' = acked /\ call[c].tx \in Tx
        BY <1>8 DEF Insert, queueVars, CallType, CallRecord
    <2>2. CASE thrown # "none"
        BY <1>8, <2>1, <2>2, CatchKeepsInvariant DEF Insert
    <2>3. CASE thrown = "none"
        <3>1. Store(call[c].tx, Rows(call[c].tx, call[c].priced)) /\ GoTo(c, "count")
            BY <1>8, <2>3 DEF Insert
        <3> QED
            BY <2>1, <3>1, StoreAddsKeys, GoToKeepsInvariant
    <2> QED
        BY <2>2, <2>3
<1>9. ASSUME NEW c \in Call, NEW applied \in BOOLEAN, NEW thrown \in Outcomes,
             Count(c, applied, thrown)
      PROVE  HandlerInv'
    <2>t. PICK t : t = call[c].tx
        OBVIOUS
    <2>1. acked' = acked /\ Justified(t)
        BY <1>9, <2>t DEF Count, queueVars, HandlerInv, StoredBeforeCount, Justified
    <2>2. Justified(t)'
        BY <2>1, NothingIsUnstored DEF Justified
    <2>3. CASE thrown # "none"
        BY <1>9, <2>1, <2>3, CatchKeepsInvariant DEF Count
    <2>4. CASE thrown = "none"
        BY <1>9, <2>t, <2>1, <2>2, <2>4, AnswerKeepsInvariant DEF Count
    <2> QED
        BY <2>3, <2>4
<1>10. ASSUME NEW c \in Call, NEW dies \in BOOLEAN, LoseDelivery(c, dies) PROVE HandlerInv'
    <2>r. PICK r : r = [call[c] EXCEPT !.attached = FALSE]
        OBVIOUS
    <2>1. /\ call' = [call EXCEPT ![c] = r] \/ call' = [call EXCEPT ![c] = Free]
          /\ acked' = acked
        BY <1>10, <2>r DEF LoseDelivery, queueVars
    <2>2. call[c] \in CallRecord /\ Free.pc = "free"
        BY DEF CallType, Free
    <2>3. r.pc = call[c].pc /\ r.tx = call[c].tx /\ r.answer = call[c].answer
        BY <2>r, <2>2 DEF CallRecord
    <2>4. CASE call' = [call EXCEPT ![c] = Free]
        BY <2>1, <2>2, <2>4, OneCallMoves
    <2>5. CASE call' = [call EXCEPT ![c] = r]
        <3>1. r.pc = "count" => Keys(r.tx) \subseteq StoredKeys'
            BY <2>3, NothingIsUnstored DEF HandlerInv, StoredBeforeCount
        <3>2. r.pc = "settle" /\ r.answer => Justified(r.tx)'
            <4>1. \A t : Justified(t) => Justified(t)'
                BY NothingIsUnstored DEF Justified
            <4> QED
                BY <2>3, <4>1 DEF HandlerInv, TrueIsJustified
        <3> QED
            BY <2>1, <2>5, <3>1, <3>2, OneCallMoves
    <2> QED
        BY <2>1, <2>4, <2>5
<1> QED
    BY <1>1, <1>2, <1>3, <1>4, <1>5, <1>6, <1>7, <1>8, <1>9, <1>10, SettleKeepsInvariant
       DEF Next, Handler, BecomesVisible, Merge, EvictCounter, vars, queueVars

\* A message is acknowledged only when the table has a row for every sorting key
\* of its transaction, when the parser had no event for it or failed, or when a
\* call for it met a permanent error, whatever the number of calls that overlap,
\* of redeliveries, of failed services, of retries past the last and of merges.
THEOREM AcknowledgedIsStored == Spec => []AckedIsStored
<1>1. Init => HandlerInv
    BY DEF Init, HandlerInv, StoredBeforeCount, TrueIsJustified, AckedIsJustified, Free
<1>2. CallType /\ RowType /\ HandlerInv /\ [Next]_vars => HandlerInv'
    BY InvariantIsInductive
<1>3. HandlerInv => AckedIsStored
    BY DEF HandlerInv, AckedIsJustified, Justified, StoredKeys, AckedIsStored
<1> QED
    BY <1>1, <1>2, <1>3, TypesHold, PTL DEF Spec

-----------------------------------------------------------------------------
(* The rest of the types.                                                  *)

BooksType ==
    /\ queue \subseteq Tx /\ visible \subseteq Tx
    /\ attempt \in [Tx -> 0..MaxRetries - 1]
    /\ volume \in [AllKeys -> Nat] /\ inserted \in [Tx -> Nat]
    /\ counter \in Nat /\ evicted \in Nat /\ faults \in 0..MaxFaults
    /\ acked \cup skipped \cup unparsed \subseteq Tx

LEMMA TotalIsNat ==
    ASSUME NEW t \in Tx, NEW priced \in SUBSET DOMAIN Price,
           NEW rows, rows \subseteq Rows(t, priced)
    PROVE  TotalUsd(rows) \in Nat
<1> DEFINE f == [row \in rows |-> row.usd]
<1>1. IsFiniteSet(rows)
    BY StampedFinite
<1>2. \A row \in rows : f[row] \in Nat
    BY RowsAreRows
<1>3. TotalUsd(rows) = SumFunctionOnSet(f, rows)
    BY DEF TotalUsd, SumFunction
<1> HIDE DEF f
<1> QED
    BY <1>1, <1>2, <1>3, SumNat

LEMMA RowCountIsNat == ASSUME NEW t \in Tx PROVE RowCount(t) \in Nat
BY RowsAreFinite, FS_CardinalityType DEF RowCount

LEMMA StoreTypes ==
    ASSUME CallType, BooksType, [Next]_vars
    PROVE  volume' \in [AllKeys -> Nat] /\ inserted' \in [Tx -> Nat]
<1>1. CASE UNCHANGED storeVars
    BY <1>1 DEF storeVars, BooksType
<1>2. ASSUME NEW t \in Tx, NEW priced \in SUBSET DOMAIN Price, Store(t, Rows(t, priced))
      PROVE  volume' \in [AllKeys -> Nat] /\ inserted' \in [Tx -> Nat]
    <2>1. inserted' \in [Tx -> Nat]
        BY <1>2 DEF Store, BooksType
    <2>2. ASSUME NEW k \in AllKeys
          PROVE  volume[k] + TotalUsd({r \in Rows(t, priced) : Key(r) = k}) \in Nat
        <3>1. TotalUsd({r \in Rows(t, priced) : Key(r) = k}) \in Nat
            BY TotalIsNat
        <3>2. volume[k] \in Nat
            BY DEF BooksType
        <3> QED
            BY <3>1, <3>2
    <2>3. AddToViews(Rows(t, priced))
        BY <1>2 DEF Store
    <2> QED
        BY <2>1, <2>2, <2>3 DEF AddToViews
<1>3. ASSUME NEW old \in table, Merge(old)
      PROVE  volume' \in [AllKeys -> Nat] /\ inserted' \in [Tx -> Nat]
    BY <1>3 DEF Merge, BooksType
<1> QED
    BY <1>1, <1>2, <1>3, StoreSteps

LEMMA SettleTypes ==
    ASSUME CallType, BooksType, NEW c \in Call, Settle(c)
    PROVE  /\ queue' \subseteq Tx /\ attempt' \in [Tx -> 0..MaxRetries - 1]
           /\ acked' \subseteq Tx
<1> DEFINE t == call[c].tx
<1>1. t \in Tx /\ MaxRetries \in Nat
    BY ProcessorAssumption DEF Settle, CallType, CallRecord, ProcessorAssumption
<1>2. CASE UNCHANGED queueVars
    BY <1>2 DEF queueVars, BooksType
<1>3. CASE acked' = acked \cup {t} /\ UNCHANGED <<queue, attempt>>
    BY <1>1, <1>3 DEF BooksType
<1>4. CASE LastAttempt(t) /\ queue' = queue \cup {t} /\ UNCHANGED <<attempt, acked>>
    BY <1>1, <1>4 DEF BooksType
<1>5. CASE /\ ~LastAttempt(t) /\ attempt' = [attempt EXCEPT ![t] = @ + 1]
           /\ queue' = queue \cup {t} /\ UNCHANGED acked
    <2>1. attempt[t] + 1 \in 0..MaxRetries - 1
        BY <1>1, <1>5 DEF LastAttempt, BooksType
    <2> QED
        BY <1>1, <1>5, <2>1 DEF BooksType
<1> QED
    BY <1>2, <1>3, <1>4, <1>5 DEF Settle

LEMMA FaultKeepsBound == ASSUME faults \in 0..MaxFaults, Fault PROVE faults' \in 0..MaxFaults
BY ProcessorAssumption DEF ProcessorAssumption, Fault

LEMMA BooksTypeIsKept == ASSUME CallType, BooksType, [Next]_vars PROVE BooksType'
<1> DEFINE Queues == /\ queue \subseteq Tx /\ visible \subseteq Tx
                     /\ attempt \in [Tx -> 0..MaxRetries - 1]
                     /\ acked \cup skipped \cup unparsed \subseteq Tx
           Numbers == counter \in Nat /\ evicted \in Nat /\ faults \in 0..MaxFaults
<1>0. Queues /\ Numbers /\ \A c \in Call : call[c].pc # "free" => call[c].tx \in Tx
    BY DEF BooksType, CallType, CallRecord
<1>1. ASSUME UNCHANGED vars PROVE Queues' /\ Numbers'
    BY <1>0, <1>1 DEF vars, queueVars, excuseVars, counterVars
<1>2. ASSUME NEW c \in Call, NEW t \in Tx, Deliver(c, t) PROVE Queues' /\ Numbers'
    BY <1>0, <1>2 DEF Deliver, excuseVars, counterVars
<1>3. ASSUME NEW c \in Call, FetchFinds(c) \/ Parse(c) PROVE Queues' /\ Numbers'
    BY <1>0, <1>3 DEF FetchFinds, Parse, queueVars, excuseVars, counterVars
<1>4. ASSUME NEW c \in Call, ParseFails(c) PROVE Queues' /\ Numbers'
    BY <1>0, <1>4, FaultKeepsBound DEF ParseFails, queueVars, counterVars
<1>5. ASSUME NEW c \in Call, NEW thrown \in Outcomes, FetchMisses(c, thrown)
      PROVE  Queues' /\ Numbers'
    <2>1. skipped' \in {skipped, skipped \cup {call[c].tx}} /\ call[c].tx \in Tx
        BY <1>0, <1>5, ActionsSkip DEF FetchMisses
    <2>2. UNCHANGED <<queueVars, visible, counterVars, unparsed>>
        BY <1>5 DEF FetchMisses
    <2>3. faults' \in 0..MaxFaults
        BY <1>0, <1>5, FaultKeepsBound DEF FetchMisses
    <2> QED
        BY <1>0, <2>1, <2>2, <2>3 DEF queueVars, counterVars
<1>6. ASSUME NEW c \in Call, NEW priced \in SUBSET DOMAIN Price, GetPrices(c, priced)
      PROVE  Queues' /\ Numbers'
    BY <1>0, <1>6, FaultKeepsBound DEF GetPrices, queueVars, excuseVars, counterVars
<1>7. ASSUME NEW c \in Call, NEW applied \in BOOLEAN, NEW thrown \in Outcomes,
             Insert(c, applied, thrown)
      PROVE  Queues' /\ Numbers'
    <2>1. skipped' \in {skipped, skipped \cup {call[c].tx}} /\ call[c].tx \in Tx
        BY <1>0, <1>7, ActionsSkip DEF Insert
    <2>2. UNCHANGED <<queueVars, visible, counterVars, unparsed>>
        BY <1>7 DEF Insert
    <2>3. faults' \in 0..MaxFaults
        BY <1>0, <1>7, FaultKeepsBound DEF Insert
    <2> QED
        BY <1>0, <2>1, <2>2, <2>3 DEF queueVars, counterVars
<1>8. ASSUME NEW c \in Call, NEW applied \in BOOLEAN, NEW thrown \in Outcomes,
             Count(c, applied, thrown)
      PROVE  Queues' /\ Numbers'
    <2>1. RowCount(call[c].tx) \in Nat
        BY <1>0, <1>8, RowCountIsNat DEF Count
    <2>2. skipped' \in {skipped, skipped \cup {call[c].tx}} /\ call[c].tx \in Tx
        BY <1>0, <1>8, ActionsSkip DEF Count
    <2>3. UNCHANGED <<queueVars, visible, evicted, unparsed>>
        BY <1>8 DEF Count
    <2>4. counter' \in {counter, counter + RowCount(call[c].tx)}
        BY <1>8 DEF Count
    <2>5. faults' \in 0..MaxFaults
        BY <1>0, <1>8, FaultKeepsBound DEF Count
    <2> QED
        BY <1>0, <2>1, <2>2, <2>3, <2>4, <2>5 DEF queueVars
<1>9. ASSUME NEW c \in Call, Settle(c) PROVE Queues' /\ Numbers'
    BY <1>0, <1>9, SettleTypes DEF Settle, excuseVars, counterVars
<1>10. ASSUME NEW c \in Call, NEW dies \in BOOLEAN, LoseDelivery(c, dies)
       PROVE  Queues' /\ Numbers'
    <2>1. ~Free.attached /\ call[c] \in CallRecord
        BY DEF Free, CallType
    <2>2. call[c].tx \in Tx
        BY <1>10, <2>1 DEF LoseDelivery, CallRecord
    <2> QED
        BY <1>0, <1>10, <2>2, FaultKeepsBound DEF LoseDelivery, excuseVars, counterVars
<1>11. ASSUME NEW t \in Tx, BecomesVisible(t) PROVE Queues' /\ Numbers'
    BY <1>0, <1>11 DEF BecomesVisible, queueVars, excuseVars, counterVars
<1>12. ASSUME NEW old \in table, Merge(old) PROVE Queues' /\ Numbers'
    BY <1>0, <1>12 DEF Merge, queueVars, excuseVars, counterVars
<1>14. ASSUME EvictCounter PROVE Queues' /\ Numbers'
    BY <1>0, <1>14, FaultKeepsBound DEF EvictCounter, queueVars, excuseVars
<1> HIDE DEF Queues, Numbers
<1>13. Queues' /\ Numbers'
    BY <1>1, <1>2, <1>3, <1>4, <1>5, <1>6, <1>7, <1>8, <1>9, <1>10, <1>11, <1>12, <1>14
       DEF Next, Handler
<1> QED
    BY <1>13, StoreTypes DEF Queues, Numbers, BooksType

LEMMA BooksStartTyped == Init => BooksType
BY ProcessorAssumption DEF ProcessorAssumption, Init, BooksType

\* Every variable keeps its type; among other things a message is never delivered
\* more often than maxRetries allows, and a row has the number of its insert.
THEOREM TypesAreRight == Spec => []TypeOK
<1>1. CallType /\ RowType /\ BooksType => TypeOK
    <2> SUFFICES ASSUME CallType, RowType, BooksType PROVE TypeOK
        OBVIOUS
    <2>1. ASSUME NEW c \in Call
          PROVE  /\ call[c].pc \in {"free", "fetch", "parse", "price", "insert", "count", "settle"}
                 /\ call[c].tries \in 0..FetchTries - 1
                 /\ call[c].pc = "free" <=> call[c].tx = NoTx
        <3>1. call[c] \in CallRecord /\ Free.tx = NoTx /\ NoTx \notin Tx
            BY ProcessorAssumption DEF CallType, Free, ProcessorAssumption
        <3> QED
            BY <3>1 DEF CallRecord
    <2> QED
        BY <2>1 DEF RowType, BooksType, TypeOK
<1>2. CallType /\ BooksType /\ [Next]_vars => BooksType'
    BY BooksTypeIsKept
<1> QED
    BY <1>1, <1>2, BooksStartTyped, TypesHold, PTL DEF Spec

-----------------------------------------------------------------------------
(* The counter.  A call between its insert and its count has inserted rows  *)
(* which are not counted yet, and one that will answer true has counted     *)
(* them already.  Counted is what the counter would stand at had Redis      *)
(* never evicted it.                                                        *)

Counted == counter + evicted

Uncounted(r) == IF r.pc = "count" THEN RowCount(r.tx) ELSE 0

UncountedRows == SumFunction([c \in Call |-> Uncounted(call[c])])

InsertedRows == SumFunction([t \in Tx |-> inserted[t] * RowCount(t)])

CountedAreInserted == Counted + UncountedRows <= InsertedRows

AnsweredTrue == {call[c].tx : c \in {d \in Call : call[d].pc = "settle" /\ call[d].answer}}

\* What must have been counted.
MustCount == {t \in acked \cup AnsweredTrue : HasEvent[t] /\ t \notin skipped \cup unparsed}

StoredAreCounted == SumFunction([t \in MustCount |-> RowCount(t)]) <= Counted

LEMMA SumsOfCounter ==
    ASSUME CallType, BooksType
    PROVE  /\ UncountedRows \in Nat /\ InsertedRows \in Nat
           /\ \A c \in Call : Uncounted(call[c]) \in Nat
           /\ \A t \in Tx : inserted[t] * RowCount(t) \in Nat
<1>1. \A c \in Call : Uncounted(call[c]) \in Nat
    BY RowCountIsNat DEF CallType, CallRecord, Uncounted
<1>2. ASSUME NEW t \in Tx PROVE inserted[t] * RowCount(t) \in Nat
    <2>1. inserted[t] \in Nat /\ RowCount(t) \in Nat
        BY RowCountIsNat DEF BooksType
    <2>2. \A m, n \in Nat : m * n \in Nat
        OBVIOUS
    <2> QED
        BY <2>1, <2>2
<1> DEFINE f == [c \in Call |-> Uncounted(call[c])]
           g == [t \in Tx |-> inserted[t] * RowCount(t)]
<1>3. UncountedRows = SumFunctionOnSet(f, Call) /\ InsertedRows = SumFunctionOnSet(g, Tx)
    BY DEF UncountedRows, InsertedRows, SumFunction
<1>4. (\A c \in Call : f[c] \in Nat) /\ (\A t \in Tx : g[t] \in Nat)
    BY <1>1, <1>2
<1>5. IsFiniteSet(Call) /\ IsFiniteSet(Tx)
    BY ProcessorAssumption DEF ProcessorAssumption
<1> HIDE DEF f, g
<1>6. UncountedRows \in Nat /\ InsertedRows \in Nat
    BY <1>3, <1>4, <1>5, SumNat
<1> QED
    BY <1>1, <1>2, <1>6

\* One call moves: the rows it had inserted and not counted are replaced.
LEMMA UncountedMove ==
    ASSUME CallType, BooksType, NEW c \in Call, NEW r \in CallRecord,
           call' = [call EXCEPT ![c] = r]
    PROVE  UncountedRows' = UncountedRows + Uncounted(r) - Uncounted(call[c])
<1> DEFINE f == [d \in Call |-> Uncounted(call[d])]
           g == [d \in Call |-> Uncounted(call'[d])]
<1>1. \A d \in Call : call'[d] = IF d = c THEN r ELSE call[d]
    BY DEF CallType
<1>2. Uncounted(r) \in Nat
    BY RowCountIsNat DEF CallRecord, Uncounted
<1>3. \A d \in Call : f[d] \in Int /\ g[d] \in Int
    BY <1>1, <1>2, SumsOfCounter
<1>4. \A d \in Call : d # c => g[d] = f[d]
    BY <1>1
<1>5. g[c] = Uncounted(r) /\ f[c] = Uncounted(call[c])
    BY <1>1
<1>6. UncountedRows = SumFunctionOnSet(f, Call)
    BY DEF UncountedRows, SumFunction
<1>7. UncountedRows' = SumFunctionOnSet(g, Call)
    BY DEF UncountedRows, SumFunction, Uncounted
<1>8. IsFiniteSet(Call)
    BY ProcessorAssumption DEF ProcessorAssumption
<1> HIDE DEF f, g
<1> QED
    BY <1>3, <1>4, <1>5, <1>6, <1>7, <1>8, SumChange

\* An insert adds the rows of its transaction.
LEMMA InsertedMove ==
    ASSUME BooksType, CallType, NEW t \in Tx, inserted' = [inserted EXCEPT ![t] = @ + 1]
    PROVE  InsertedRows' = InsertedRows + RowCount(t)
<1> DEFINE f == [u \in Tx |-> inserted[u] * RowCount(u)]
           g == [u \in Tx |-> inserted'[u] * RowCount(u)]
<1>1. \A u \in Tx : inserted[u] \in Nat /\ RowCount(u) \in Nat
    BY RowCountIsNat DEF BooksType
<1>2. \A u \in Tx : inserted'[u] = IF u = t THEN inserted[u] + 1 ELSE inserted[u]
    BY DEF BooksType
<1>3. \A u \in Tx : f[u] \in Int /\ (u # t => g[u] = f[u])
    BY <1>2, SumsOfCounter
<1>4. g[t] = f[t] + RowCount(t)
    <2>1. \A m, n \in Nat : (m + 1) * n = m * n + n
        OBVIOUS
    <2> QED
        BY <1>1, <1>2, <2>1
<1>5. \A u \in Tx : g[u] \in Int
    BY <1>1, <1>3, <1>4
<1>6. InsertedRows = SumFunctionOnSet(f, Tx)
    BY DEF InsertedRows, SumFunction
<1>7. InsertedRows' = SumFunctionOnSet(g, Tx)
    BY DEF InsertedRows, SumFunction
<1>8. IsFiniteSet(Tx)
    BY ProcessorAssumption DEF ProcessorAssumption
<1>9. InsertedRows \in Int
    BY SumsOfCounter
<1> HIDE DEF f, g
<1>10. InsertedRows' = InsertedRows + g[t] - f[t]
    BY <1>3, <1>5, <1>6, <1>7, <1>8, SumChange
<1> QED
    BY <1>1, <1>3, <1>4, <1>9, <1>10

\* What a step does to the rows which are inserted and not counted, to the
\* inserts and to what was counted: one of them is done, or a call gives up.
LEMMA CountSteps ==
    ASSUME CallType, BooksType, [Next]_vars
    PROVE  \/ UNCHANGED <<call, Counted, inserted>>
           \/ \E c \in Call, r \in CallRecord :
                /\ call' = [call EXCEPT ![c] = r]
                /\ \/ Uncounted(r) \in {0, Uncounted(call[c])} /\ UNCHANGED <<Counted, inserted>>
                   \/ /\ call[c].pc = "insert" /\ call[c].tx \in Tx
                      /\ r.pc = "count" => r.tx = call[c].tx
                      /\ inserted' = [inserted EXCEPT ![call[c].tx] = @ + 1]
                      /\ UNCHANGED Counted
                   \/ /\ call[c].pc = "count" /\ call[c].tx \in Tx /\ Uncounted(r) = 0
                      /\ Counted' = Counted + RowCount(call[c].tx)
                      /\ UNCHANGED inserted
<1> DEFINE Moves(c, r) ==
        /\ call' = [call EXCEPT ![c] = r]
        /\ \/ Uncounted(r) \in {0, Uncounted(call[c])} /\ UNCHANGED <<Counted, inserted>>
           \/ /\ call[c].pc = "insert" /\ call[c].tx \in Tx
              /\ r.pc = "count" => r.tx = call[c].tx
              /\ inserted' = [inserted EXCEPT ![call[c].tx] = @ + 1]
              /\ UNCHANGED Counted
           \/ /\ call[c].pc = "count" /\ call[c].tx \in Tx /\ Uncounted(r) = 0
              /\ Counted' = Counted + RowCount(call[c].tx)
              /\ UNCHANGED inserted
<1>0. \A c \in Call : call'[c] \in CallRecord
    BY CallTypeIsKept DEF CallType
<1>q. ASSUME NEW c \in Call, call' = [call EXCEPT ![c] = call'[c]], call'[c].pc # "count",
             UNCHANGED <<Counted, inserted>>
      PROVE  \E r \in CallRecord : Moves(c, r)
    <2>1. Uncounted(call'[c]) = 0
        BY <1>q DEF Uncounted
    <2> QED
        BY <1>0, <1>q, <2>1
<1>1. ASSUME NEW c \in Call, FetchFinds(c) \/ Parse(c) \/ ParseFails(c) \/ Settle(c)
      PROVE  \E r \in CallRecord : Moves(c, r)
    <2>1. UNCHANGED <<Counted, inserted>>
        BY <1>1 DEF FetchFinds, Parse, ParseFails, Settle, storeVars, counterVars,
                    Counted
    <2>2. CASE Settle(c)
        <3>1. call' = [call EXCEPT ![c] = Free] /\ Free.pc = "free"
            BY <2>2, FreeIsACall DEF Settle
        <3>2. call' = [call EXCEPT ![c] = call'[c]] /\ call'[c].pc # "count"
            BY <3>1 DEF CallType
        <3> QED
            BY <1>q, <2>1, <3>2
    <2>3. CASE ~Settle(c)
        <3>1. Answer(c, TRUE) \/ \E pc \in {"parse", "price"} : GoTo(c, pc)
            BY <1>1, <2>3 DEF FetchFinds, Parse, ParseFails
        <3>2. call' = [call EXCEPT ![c] = call'[c]] /\ call'[c].pc # "count"
            <4>1. ASSUME NEW pc \in {"parse", "price"}, GoTo(c, pc)
                  PROVE  call' = [call EXCEPT ![c] = call'[c]] /\ call'[c].pc # "count"
                BY <4>1, GoToRecord
            <4> QED
                BY <3>1, <4>1, AnswerRecord
        <3> QED
            BY <1>q, <2>1, <3>2
    <2> QED
        BY <2>2, <2>3
<1>2. ASSUME NEW c \in Call, NEW t \in Tx, Deliver(c, t)
      PROVE  \E r \in CallRecord : Moves(c, r)
    <2>1. call' = [call EXCEPT ![c] = Started(t)] /\ Started(t).pc = "fetch"
          /\ UNCHANGED <<Counted, inserted>>
        BY <1>2 DEF Deliver, Started, storeVars, counterVars, Counted
    <2>2. call' = [call EXCEPT ![c] = call'[c]] /\ call'[c].pc # "count"
        BY <2>1 DEF CallType
    <2> QED
        BY <1>q, <2>1, <2>2
<1>3. ASSUME NEW c \in Call, NEW thrown \in Outcomes, FetchMisses(c, thrown)
      PROVE  \E r \in CallRecord : Moves(c, r)
    <2>1. UNCHANGED <<Counted, inserted>> /\ call[c].pc = "fetch" /\ call[c] \in CallRecord
        BY <1>3 DEF FetchMisses, storeVars, CallType, counterVars, Counted
    <2>2. \/ \E e : call' = [call EXCEPT ![c].tries = @ + 1, ![c].lastError = e]
          \/ \E e : Catch(c, e)
        BY <1>3 DEF FetchMisses
    <2>3. ASSUME NEW e, call' = [call EXCEPT ![c].tries = @ + 1, ![c].lastError = e]
          PROVE  call' = [call EXCEPT ![c] = call'[c]] /\ call'[c].pc # "count"
        <3>1. PICK n : n = call[c].tries + 1
            OBVIOUS
        <3>2. PICK r : r = [call[c] EXCEPT !.tries = n, !.lastError = e]
            OBVIOUS
        <3>3. call' = [call EXCEPT ![c] = r] /\ r.pc = "fetch"
            BY <2>1, <2>3, <3>1, <3>2 DEF CallRecord
        <3> QED
            BY <3>3 DEF CallType
    <2>4. ASSUME NEW e, Catch(c, e)
          PROVE  call' = [call EXCEPT ![c] = call'[c]] /\ call'[c].pc # "count"
        BY <2>4, CatchAnswers, AnswerRecord
    <2> QED
        BY <1>q, <2>1, <2>2, <2>3, <2>4
<1>4. ASSUME NEW c \in Call, NEW priced \in SUBSET DOMAIN Price, GetPrices(c, priced)
      PROVE  \E r \in CallRecord : Moves(c, r)
    <2>1. UNCHANGED <<Counted, inserted>> /\ call[c] \in CallRecord
          /\ call' = [call EXCEPT ![c].pc = "insert", ![c].priced = priced]
        BY <1>4 DEF GetPrices, storeVars, CallType, counterVars, Counted
    <2>2. call' = [call EXCEPT ![c] = call'[c]] /\ call'[c].pc = "insert"
        BY <2>1 DEF CallType, CallRecord
    <2> QED
        BY <1>q, <2>1, <2>2
<1>5. ASSUME NEW c \in Call, NEW applied \in BOOLEAN, NEW thrown \in Outcomes,
             Insert(c, applied, thrown)
      PROVE  \E r \in CallRecord : Moves(c, r)
    <2>1. call[c].pc = "insert" /\ call[c].tx \in Tx /\ UNCHANGED Counted
        BY <1>5 DEF Insert, CallType, CallRecord, counterVars, Counted
    <2>2. CASE thrown # "none"
        <3>1. Catch(c, thrown)
            BY <1>5, <2>2 DEF Insert
        <3>2. call' = [call EXCEPT ![c] = call'[c]] /\ call'[c].pc = "settle"
            BY <3>1, CatchAnswers, AnswerRecord
        <3>3. UNCHANGED inserted \/ inserted' = [inserted EXCEPT ![call[c].tx] = @ + 1]
            BY <1>5 DEF Insert, Store, storeVars
        <3>4. CASE inserted' = [inserted EXCEPT ![call[c].tx] = @ + 1]
            BY <1>0, <2>1, <3>2, <3>4
        <3> QED
            BY <1>q, <2>1, <3>2, <3>3, <3>4
    <2>3. CASE thrown = "none"
        <3>1. GoTo(c, "count") /\ inserted' = [inserted EXCEPT ![call[c].tx] = @ + 1]
            BY <1>5, <2>3 DEF Insert, Store
        <3>2. call' = [call EXCEPT ![c] = call'[c]] /\ call'[c].tx = call[c].tx
            BY <3>1, GoToRecord
        <3> QED
            BY <1>0, <2>1, <3>1, <3>2
    <2> QED
        BY <2>2, <2>3
<1>6. ASSUME NEW c \in Call, NEW applied \in BOOLEAN, NEW thrown \in Outcomes,
             Count(c, applied, thrown)
      PROVE  \E r \in CallRecord : Moves(c, r)
    <2>1. call[c].pc = "count" /\ call[c].tx \in Tx /\ UNCHANGED inserted
        BY <1>6 DEF Count, CallType, CallRecord, storeVars
    <2>2. Catch(c, thrown) \/ Answer(c, TRUE)
        BY <1>6 DEF Count
    <2>3. call' = [call EXCEPT ![c] = call'[c]] /\ call'[c].pc = "settle"
        BY <2>2, CatchAnswers, AnswerRecord
    <2>4. UNCHANGED Counted \/ Counted' = Counted + RowCount(call[c].tx)
        BY <1>6, <2>1, RowCountIsNat DEF Count, Counted, BooksType
    <2>5. Uncounted(call'[c]) = 0
        BY <2>3 DEF Uncounted
    <2> QED
        BY <1>0, <2>1, <2>3, <2>4, <2>5
<1>7. ASSUME NEW c \in Call, NEW dies \in BOOLEAN, LoseDelivery(c, dies)
      PROVE  \E r \in CallRecord : Moves(c, r)
    <2> DEFINE r == [call[c] EXCEPT !.attached = FALSE]
    <2>1. UNCHANGED <<Counted, inserted>>
        BY <1>7 DEF LoseDelivery, storeVars, counterVars, Counted
    <2>2. CASE call' = [call EXCEPT ![c] = Free]
        <3>1. call' = [call EXCEPT ![c] = call'[c]] /\ call'[c].pc # "count"
            BY <2>2, FreeIsACall DEF CallType
        <3> QED
            BY <1>q, <2>1, <3>1
    <2>3. CASE call' = [call EXCEPT ![c] = r]
        <3>1. r.pc = call[c].pc /\ r.tx = call[c].tx
            BY DEF CallType, CallRecord
        <3>2. call' = [call EXCEPT ![c] = call'[c]] /\ call'[c] = r
            BY <2>3 DEF CallType
        <3>3. Uncounted(call'[c]) = Uncounted(call[c])
            BY <3>1, <3>2 DEF Uncounted
        <3> QED
            BY <1>0, <2>1, <3>2, <3>3
    <2> QED
        BY <1>7, <2>2, <2>3 DEF LoseDelivery
<1> HIDE DEF Moves
<1>8. UNCHANGED <<call, Counted, inserted>> \/ \E c \in Call, r \in CallRecord : Moves(c, r)
    <2>1. CASE EvictCounter
        BY <2>1 DEF EvictCounter, storeVars, Counted, BooksType
    <2>2. CASE UNCHANGED vars \/ (\E t \in Tx : BecomesVisible(t))
               \/ (\E old \in table : Merge(old))
        BY <2>2 DEF BecomesVisible, Merge, vars, storeVars, counterVars, Counted
    <2> QED
        BY <1>1, <1>2, <1>3, <1>4, <1>5, <1>6, <1>7, <2>1, <2>2 DEF Next, Handler
<1> QED
    BY <1>8 DEF Moves

LEMMA CountedAreInsertedIsKept ==
    ASSUME CallType, BooksType, CountedAreInserted, [Next]_vars
    PROVE  CountedAreInserted'
<1>0. Counted \in Nat /\ UncountedRows \in Nat /\ InsertedRows \in Nat
    BY SumsOfCounter DEF BooksType, Counted
<1>1. CASE UNCHANGED <<call, Counted, inserted>>
    BY <1>1 DEF CountedAreInserted, UncountedRows, InsertedRows, Uncounted
<1>2. ASSUME NEW c \in Call, NEW r \in CallRecord, call' = [call EXCEPT ![c] = r]
      PROVE  /\ UncountedRows' = UncountedRows + Uncounted(r) - Uncounted(call[c])
             /\ Uncounted(r) \in Nat /\ Uncounted(call[c]) \in Nat
    <2>1. Uncounted(r) \in Nat
        BY RowCountIsNat DEF CallRecord, Uncounted
    <2> QED
        BY <1>2, <2>1, UncountedMove, SumsOfCounter
<1>3. UNCHANGED inserted => InsertedRows' = InsertedRows
    BY DEF InsertedRows
<1>4. ASSUME NEW c \in Call, NEW r \in CallRecord, call' = [call EXCEPT ![c] = r],
             Uncounted(r) \in {0, Uncounted(call[c])}, UNCHANGED <<Counted, inserted>>
      PROVE  CountedAreInserted'
    <2>1. /\ UncountedRows' = UncountedRows + Uncounted(r) - Uncounted(call[c])
          /\ Uncounted(r) \in Nat /\ Uncounted(call[c]) \in Nat
        BY <1>2, <1>4
    <2>2. Counted' = Counted /\ InsertedRows' = InsertedRows
        BY <1>3, <1>4
    <2>3. CASE Uncounted(r) = 0
        <3>1. UncountedRows' = UncountedRows - Uncounted(call[c])
            BY <1>0, <2>1, <2>3
        <3> QED
            BY <1>0, <2>1, <2>2, <3>1 DEF CountedAreInserted
    <2>4. CASE Uncounted(r) = Uncounted(call[c])
        <3>1. UncountedRows' = UncountedRows
            BY <1>0, <2>1, <2>4
        <3> QED
            BY <2>2, <3>1 DEF CountedAreInserted
    <2> QED
        BY <1>4, <2>3, <2>4
<1>5. ASSUME NEW c \in Call, NEW r \in CallRecord, call' = [call EXCEPT ![c] = r],
             call[c].pc = "insert", call[c].tx \in Tx, r.pc = "count" => r.tx = call[c].tx,
             inserted' = [inserted EXCEPT ![call[c].tx] = @ + 1], UNCHANGED Counted
      PROVE  CountedAreInserted'
    <2>1. InsertedRows' = InsertedRows + RowCount(call[c].tx)
        BY <1>5, InsertedMove
    <2>2. Uncounted(call[c]) = 0 /\ Uncounted(r) \in {0, RowCount(call[c].tx)}
        BY <1>5 DEF Uncounted
    <2>3. RowCount(call[c].tx) \in Nat
        BY <1>5, RowCountIsNat
    <2> QED
        <3>1. UncountedRows' = UncountedRows + Uncounted(r)
            <4>1. UncountedRows' = UncountedRows + Uncounted(r) - Uncounted(call[c])
                BY <1>2, <1>5
            <4> QED
                BY <1>0, <2>2, <2>3, <4>1
        <3>2. Uncounted(r) \in Nat /\ Uncounted(r) <= RowCount(call[c].tx)
            BY <2>2, <2>3
        <3> QED
            BY <1>0, <1>5, <2>1, <2>3, <3>1, <3>2 DEF CountedAreInserted
<1>6. ASSUME NEW c \in Call, NEW r \in CallRecord, call' = [call EXCEPT ![c] = r],
             call[c].pc = "count", call[c].tx \in Tx, Uncounted(r) = 0,
             Counted' = Counted + RowCount(call[c].tx), UNCHANGED inserted
      PROVE  CountedAreInserted'
    <2>1. Uncounted(call[c]) = RowCount(call[c].tx)
        BY <1>6 DEF Uncounted
    <2>2. RowCount(call[c].tx) \in Nat
        BY <1>6, RowCountIsNat
    <2>3. UncountedRows' = UncountedRows - RowCount(call[c].tx)
        <3>1. UncountedRows' = UncountedRows + Uncounted(r) - Uncounted(call[c])
            BY <1>2, <1>6
        <3>2. Uncounted(r) = 0
            BY <1>6
        <3> QED
            BY <1>0, <2>1, <2>2, <3>1, <3>2
    <2>4. Counted' = Counted + RowCount(call[c].tx) /\ InsertedRows' = InsertedRows
        BY <1>3, <1>6
    <2> QED
        BY <1>0, <2>2, <2>3, <2>4 DEF CountedAreInserted
<1> QED
    BY <1>1, <1>4, <1>5, <1>6, CountSteps

\* What must have been counted grows by the transaction of the call that counts
\* it, and by nothing else.
LEMMA MustCountSteps ==
    ASSUME CallType, BooksType, [Next]_vars
    PROVE  \/ MustCount' \subseteq MustCount /\ Counted <= Counted'
           \/ \E t \in Tx : /\ MustCount' \subseteq MustCount \cup {t}
                            /\ Counted' = Counted + RowCount(t)
<1> DEFINE Goal ==
        \/ MustCount' \subseteq MustCount /\ Counted <= Counted'
        \/ \E t \in Tx : /\ MustCount' \subseteq MustCount \cup {t}
                         /\ Counted' = Counted + RowCount(t)
<1> USE DEF Goal
<1>0. Counted \in Nat /\ skipped \subseteq skipped' /\ unparsed \subseteq unparsed'
    BY ExcusesGrow DEF BooksType, Counted
<1>1. ASSUME NEW T, acked' \cup AnsweredTrue' \subseteq acked \cup AnsweredTrue \cup T,
             \A t \in T : ~HasEvent[t] \/ t \in skipped' \cup unparsed'
      PROVE  MustCount' \subseteq MustCount
    BY <1>0, <1>1 DEF MustCount
\* A call moves to a record that does not answer true, or whose answer is excused.
<1>2. ASSUME NEW c \in Call, NEW r, call' = [call EXCEPT ![c] = r],
             UNCHANGED Counted,
             \/ r.pc # "settle" \/ r.answer # TRUE
             \/ ~HasEvent[r.tx] \/ r.tx \in skipped' \cup unparsed'
             \/ r.pc = call[c].pc /\ r.answer = call[c].answer /\ r.tx = call[c].tx,
             \A t \in acked' \ acked : t \in AnsweredTrue
      PROVE  Goal
    <2>1. \A d \in Call : call'[d] = IF d = c THEN r ELSE call[d]
        BY <1>2 DEF CallType
    <2> DEFINE T == IF r.pc = "settle" /\ r.answer /\ (~HasEvent[r.tx] \/ r.tx \in skipped' \cup unparsed')
                    THEN {r.tx} ELSE {}
    <2>2. ASSUME NEW t \in AnsweredTrue' PROVE t \in AnsweredTrue \cup T
        <3>1. PICK d \in Call : call'[d].pc = "settle" /\ call'[d].answer /\ t = call'[d].tx
            BY <2>2 DEF AnsweredTrue
        <3>2. CASE d # c
            BY <2>1, <3>1, <3>2 DEF AnsweredTrue
        <3>3. CASE d = c
            <4>1. r.pc = "settle" /\ r.answer /\ t = r.tx
                BY <2>1, <3>1, <3>3
            <4>2. CASE r.pc = call[c].pc /\ r.answer = call[c].answer /\ r.tx = call[c].tx
                BY <4>1, <4>2 DEF AnsweredTrue
            <4> QED
                BY <1>2, <4>1, <4>2
        <3> QED
            BY <3>2, <3>3
    <2>3. acked' \cup AnsweredTrue' \subseteq acked \cup AnsweredTrue \cup T
        BY <1>2, <2>2
    <2>4. \A t \in T : ~HasEvent[t] \/ t \in skipped' \cup unparsed'
        OBVIOUS
    <2> HIDE DEF T
    <2>5. MustCount' \subseteq MustCount
        BY <1>1, <2>3, <2>4
    <2> QED
        BY <1>0, <1>2, <2>5
\* The same for the steps that end in GoTo, Catch or Answer.
<1>3. ASSUME NEW c \in Call, UNCHANGED <<Counted, acked>>,
             (\E pc : pc # "settle" /\ GoTo(c, pc)) \/ Answer(c, FALSE)
      PROVE  Goal
    <2>1. /\ call' = [call EXCEPT ![c] = call'[c]]
          /\ call'[c].pc # "settle" \/ call'[c].answer # TRUE
        BY <1>3, GoToRecord, AnswerRecord
    <2> QED
        BY <1>2, <1>3, <2>1
<1>4. ASSUME NEW c \in Call, UNCHANGED <<Counted, acked>>, Answer(c, TRUE),
             ~HasEvent[call[c].tx] \/ call[c].tx \in skipped' \cup unparsed'
      PROVE  Goal
    <2>1. call' = [call EXCEPT ![c] = call'[c]] /\ call'[c].tx = call[c].tx
        BY <1>4, AnswerRecord
    <2> QED
        BY <1>2, <1>4, <2>1
<1>5. ASSUME NEW c \in Call, NEW error, Catch(c, error), UNCHANGED <<Counted, acked>>
      PROVE  Goal
    BY <1>3, <1>4, <1>5, CatchAnswers
<1>11. ASSUME UNCHANGED <<call, Counted, acked>> PROVE Goal
    <2>1. AnsweredTrue' = AnsweredTrue
        BY <1>11 DEF AnsweredTrue
    <2>2. MustCount' \subseteq MustCount
        BY <1>0, <1>11, <2>1 DEF MustCount
    <2> QED
        BY <1>0, <1>11, <2>2
<1>12. ASSUME NEW c \in Call, NEW t \in Tx, Deliver(c, t) PROVE Goal
    <2>1. call' = [call EXCEPT ![c] = Started(t)] /\ Started(t).pc = "fetch"
          /\ UNCHANGED <<Counted, acked>>
        BY <1>12 DEF Deliver, Started, counterVars, Counted
    <2> QED
        BY <1>2, <2>1
<1>13. ASSUME NEW c \in Call, FetchFinds(c) PROVE Goal
    BY <1>13, <1>3 DEF FetchFinds, queueVars, counterVars, Counted
<1>14. ASSUME NEW c \in Call, NEW thrown \in Outcomes, FetchMisses(c, thrown) PROVE Goal
    <2>1. UNCHANGED <<Counted, acked>> /\ call[c].pc = "fetch" /\ call[c] \in CallRecord
        BY <1>14 DEF FetchMisses, queueVars, CallType, counterVars, Counted
    <2>2. ASSUME NEW e, call' = [call EXCEPT ![c].tries = @ + 1, ![c].lastError = e]
          PROVE  Goal
        <3>1. PICK n : n = call[c].tries + 1
            OBVIOUS
        <3>2. PICK r : r = [call[c] EXCEPT !.tries = n, !.lastError = e]
            OBVIOUS
        <3>3. call' = [call EXCEPT ![c] = r] /\ r.pc = "fetch"
            BY <2>1, <2>2, <3>1, <3>2 DEF CallRecord
        <3> QED
            BY <1>2, <2>1, <3>3
    <2>3. ASSUME NEW e, Catch(c, e) PROVE Goal
        BY <1>5, <2>1, <2>3
    <2> HIDE DEF Goal
    <2> QED
        BY <1>14, <2>2, <2>3 DEF FetchMisses
<1>15. ASSUME NEW c \in Call, Parse(c) PROVE Goal
    BY <1>15, <1>3, <1>4 DEF Parse, queueVars, counterVars, Counted
<1>16. ASSUME NEW c \in Call, ParseFails(c) PROVE Goal
    BY <1>16, <1>4 DEF ParseFails, queueVars, counterVars, Counted
<1>17. ASSUME NEW c \in Call, NEW priced \in SUBSET DOMAIN Price, GetPrices(c, priced)
       PROVE  Goal
    <2>1. UNCHANGED <<Counted, acked>> /\ call[c] \in CallRecord
          /\ call' = [call EXCEPT ![c].pc = "insert", ![c].priced = priced]
        BY <1>17 DEF GetPrices, queueVars, CallType, counterVars, Counted
    <2>2. call' = [call EXCEPT ![c] = call'[c]] /\ call'[c].pc = "insert"
        BY <2>1 DEF CallType, CallRecord
    <2> QED
        BY <1>2, <2>1, <2>2
<1>18. ASSUME NEW c \in Call, NEW applied \in BOOLEAN, NEW thrown \in Outcomes,
              Insert(c, applied, thrown)
       PROVE  Goal
    <2>1. UNCHANGED <<Counted, acked>> /\ (GoTo(c, "count") \/ Catch(c, thrown))
        BY <1>18 DEF Insert, queueVars, counterVars, Counted
    <2> QED
        BY <1>3, <1>5, <2>1
<1>19. ASSUME NEW c \in Call, NEW applied \in BOOLEAN, NEW thrown \in Outcomes,
              Count(c, applied, thrown)
       PROVE  Goal
    <2>1. call[c].tx \in Tx /\ UNCHANGED acked
        BY <1>19 DEF Count, CallType, CallRecord, queueVars
    <2>2. RowCount(call[c].tx) \in Nat
        BY <2>1, RowCountIsNat
    <2>0. Counted' \in {Counted, Counted + RowCount(call[c].tx)}
        BY <1>19, <2>2 DEF Count, Counted, BooksType
    <2>3. CASE thrown # "none"
        <3>1. Catch(c, thrown)
            BY <1>19, <2>3 DEF Count
        <3>2. /\ call' = [call EXCEPT ![c] = call'[c]] /\ call'[c].tx = call[c].tx
              /\ call'[c].answer # TRUE \/ call[c].tx \in skipped'
            BY <3>1, CatchAnswers, AnswerRecord
        <3>3. \A t \in AnsweredTrue' \ AnsweredTrue : t \in skipped'
            <4>1. \A d \in Call : d # c => call'[d] = call[d]
                BY <3>2 DEF CallType
            <4> QED
                BY <3>2, <4>1 DEF AnsweredTrue
        <3>4. MustCount' \subseteq MustCount
            BY <1>0, <2>1, <3>3 DEF MustCount
        <3>5. Counted <= Counted'
            BY <1>0, <2>0, <2>2
        <3> QED
            BY <3>4, <3>5
    <2>4. CASE thrown = "none"
        <3>1. Answer(c, TRUE) /\ Counted' = Counted + RowCount(call[c].tx)
            <4>1. Answer(c, TRUE) /\ applied /\ evicted' = evicted
                BY <1>19, <2>4 DEF Count
            <4>2. counter' = counter + RowCount(call[c].tx)
                BY <1>19, <4>1 DEF Count
            <4>3. counter \in Nat /\ evicted \in Nat /\ evicted' = evicted
                BY <4>1 DEF BooksType
            <4>4. Counted' = Counted + RowCount(call[c].tx)
                BY <2>2, <4>2, <4>3 DEF Counted
            <4> QED
                BY <4>1, <4>4
        <3>2. call' = [call EXCEPT ![c] = call'[c]] /\ call'[c].tx = call[c].tx
            BY <3>1, AnswerRecord
        <3>3. AnsweredTrue' \subseteq AnsweredTrue \cup {call[c].tx}
            BY <3>2 DEF AnsweredTrue, CallType
        <3>4. MustCount' \subseteq MustCount \cup {call[c].tx}
            BY <1>0, <2>1, <3>3 DEF MustCount
        <3> QED
            BY <2>1, <3>1, <3>4
    <2> QED
        BY <2>3, <2>4
<1>20. ASSUME NEW c \in Call, Settle(c) PROVE Goal
    <2>1. call' = [call EXCEPT ![c] = Free] /\ Free.pc = "free" /\ UNCHANGED Counted
        BY <1>20, FreeIsACall DEF Settle, counterVars, Counted
    <2>2. \A t \in acked' \ acked : t = call[c].tx /\ call[c].answer /\ call[c].pc = "settle"
        BY <1>20 DEF Settle, queueVars
    <2>3. \A t \in acked' \ acked : t \in AnsweredTrue
        BY <2>2 DEF AnsweredTrue
    <2> QED
        BY <1>2, <2>1, <2>3
<1>21. ASSUME NEW c \in Call, NEW dies \in BOOLEAN, LoseDelivery(c, dies) PROVE Goal
    <2>1. PICK r : r = [call[c] EXCEPT !.attached = FALSE]
        OBVIOUS
    <2>2. /\ call' = [call EXCEPT ![c] = r] \/ call' = [call EXCEPT ![c] = Free]
          /\ UNCHANGED <<Counted, acked>>
        BY <1>21, <2>1 DEF LoseDelivery, counterVars, Counted
    <2>3. r.pc = call[c].pc /\ r.tx = call[c].tx /\ r.answer = call[c].answer
        BY <2>1 DEF CallType, CallRecord
    <2>4. CASE call' = [call EXCEPT ![c] = Free]
        BY <1>2, <2>2, <2>4, FreeIsACall
    <2>5. CASE call' = [call EXCEPT ![c] = r]
        BY <1>2, <2>2, <2>3, <2>5
    <2> QED
        BY <2>2, <2>4, <2>5
<1> HIDE DEF Goal
<1>22. ASSUME EvictCounter \/ (\E t \in Tx : BecomesVisible(t))
              \/ (\E old \in table : Merge(old)) \/ UNCHANGED vars
       PROVE  Goal
    <2>1. UNCHANGED <<call, Counted, acked>>
        BY <1>22 DEF EvictCounter, BecomesVisible, Merge, vars, queueVars, counterVars,
                     Counted, BooksType
    <2> QED
        BY <1>11, <2>1
<1>23. Goal
    BY <1>12, <1>13, <1>14, <1>15, <1>16, <1>17, <1>18, <1>19, <1>20, <1>21, <1>22
       DEF Next, Handler
<1> QED
    BY <1>23 DEF Goal

\* The rows of a set of transactions.
LEMMA RowSums ==
    ASSUME NEW S \in SUBSET Tx
    PROVE  /\ SumFunction([t \in S |-> RowCount(t)]) \in Nat
           /\ \A T \in SUBSET S : SumFunction([t \in T |-> RowCount(t)])
                                     <= SumFunction([t \in S |-> RowCount(t)])
           /\ \A t \in Tx : SumFunction([u \in S \cup {t} |-> RowCount(u)])
                               <= SumFunction([u \in S |-> RowCount(u)]) + RowCount(t)
<1> DEFINE f == [t \in Tx |-> RowCount(t)]
           Sum(U) == SumFunctionOnSet(f, U)
<1>1. \A t \in Tx : f[t] \in Nat /\ f[t] = RowCount(t)
    BY RowCountIsNat
<1>2. ASSUME NEW U \in SUBSET Tx PROVE IsFiniteSet(U)
    BY ProcessorAssumption, FS_Subset DEF ProcessorAssumption
<1>3. ASSUME NEW U \in SUBSET Tx
      PROVE  SumFunction([t \in U |-> RowCount(t)]) = Sum(U)
    <2> DEFINE g == [t \in U |-> RowCount(t)]
    <2>1. SumFunction(g) = SumFunctionOnSet(g, U)
        BY DEF SumFunction
    <2>2. \A t \in U : g[t] = f[t]
        OBVIOUS
    <2> HIDE DEF f, g
    <2>3. SumFunctionOnSet(g, U) = Sum(U)
        BY <1>2, <2>2, SumEqual
    <2> QED
        BY <2>1, <2>3 DEF g
<1> HIDE DEF f
<1>4. Sum(S) \in Nat
    BY <1>1, <1>2, SumNat
<1>5. ASSUME NEW T \in SUBSET S PROVE Sum(T) <= Sum(S)
    BY <1>1, <1>2, SumSubset
<1>6. ASSUME NEW t \in Tx PROVE Sum(S \cup {t}) <= Sum(S) + f[t]
    <2>1. CASE t \in S
        <3>1. S \cup {t} = S
            BY <2>1
        <3>2. Sum(S \cup {t}) = Sum(S)
            BY <3>1
        <3> HIDE DEF Sum
        <3> QED
            BY <1>1, <1>4, <3>2
    <2>2. CASE t \notin S
        <3>1. \A x \in S \cup {t} : f[x] \in Int
            BY <1>1
        <3>2. Sum(S \cup {t}) = f[t] + Sum(S)
            BY <1>2, <2>2, <3>1, SumInsert
        <3> HIDE DEF Sum
        <3> QED
            BY <1>1, <1>4, <3>2
    <2> QED
        BY <2>1, <2>2
<1> HIDE DEF Sum
<1> QED
    BY <1>1, <1>3, <1>4, <1>5, <1>6

LEMMA StoredAreCountedIsKept ==
    ASSUME CallType, BooksType, StoredAreCounted, [Next]_vars
    PROVE  StoredAreCounted'
<1> DEFINE Sum(S) == SumFunction([t \in S |-> RowCount(t)])
<1>1. MustCount \in SUBSET Tx /\ MustCount' \in SUBSET Tx
    <2>1. CallType' /\ BooksType'
        BY CallTypeIsKept, BooksTypeIsKept
    <2> QED
        BY <2>1 DEF MustCount, AnsweredTrue, CallType, CallRecord, BooksType
<1>2. Sum(MustCount) <= Counted /\ Counted \in Nat /\ Counted' \in Nat
    BY BooksTypeIsKept DEF StoredAreCounted, BooksType, Counted
<1>3. Sum(MustCount') <= Counted' => StoredAreCounted'
    BY DEF StoredAreCounted
<1>4. Sum(MustCount) \in Nat /\ Sum(MustCount') \in Nat
    BY <1>1, RowSums
<1>5. CASE MustCount' \subseteq MustCount /\ Counted <= Counted'
    <2>1. Sum(MustCount') <= Sum(MustCount)
        BY <1>1, <1>5, RowSums
    <2> HIDE DEF Sum
    <2> QED
        BY <1>2, <1>3, <1>4, <1>5, <2>1
<1>6. ASSUME NEW t \in Tx, MustCount' \subseteq MustCount \cup {t},
             Counted' = Counted + RowCount(t)
      PROVE  StoredAreCounted'
    <2>1. MustCount \cup {t} \in SUBSET Tx
        BY <1>1
    <2>2. Sum(MustCount') <= Sum(MustCount \cup {t}) /\ Sum(MustCount \cup {t}) \in Nat
        BY <1>6, <2>1, RowSums
    <2>3. Sum(MustCount \cup {t}) <= Sum(MustCount) + RowCount(t)
        BY <1>1, RowSums
    <2>4. RowCount(t) \in Nat
        BY RowCountIsNat
    <2> HIDE DEF Sum
    <2> QED
        BY <1>2, <1>3, <1>4, <1>6, <2>2, <2>3, <2>4
<1> QED
    BY <1>5, <1>6, MustCountSteps

\* What was counted, evicted or not, lies between the rows of the acknowledged
\* transactions no call of which was skipped and the rows that were ever inserted,
\* whatever failed, was evicted or was delivered again, for any transactions and
\* any number of overlapping calls.
THEOREM CounterIsInBracket == Spec => []CounterIsBracketed
<1>1. Init => CountedAreInserted /\ StoredAreCounted
    <2> SUFFICES ASSUME Init PROVE CountedAreInserted /\ StoredAreCounted
        OBVIOUS
    <2>0. CallType /\ BooksType
        BY CallsStartFree, BooksStartTyped
    <2>1. \A c \in Call : Uncounted(call[c]) = 0
        BY DEF Init, Free, Uncounted
    <2>2. UncountedRows = 0
        <3> DEFINE f == [c \in Call |-> Uncounted(call[c])]
                   z == [c \in Call |-> 0]
        <3>1. IsFiniteSet(Call) /\ \A c \in Call : f[c] = 0
            BY <2>1, ProcessorAssumption DEF ProcessorAssumption
        <3>2. UncountedRows = SumFunctionOnSet(f, Call)
            BY DEF UncountedRows, SumFunction
        <3> HIDE DEF f
        <3> QED
            BY <3>1, <3>2, SumZero
    <2>3. CountedAreInserted
        BY <2>0, <2>2, SumsOfCounter DEF Init, CountedAreInserted, Counted
    <2>4. MustCount = {}
        BY DEF Init, Free, MustCount, AnsweredTrue
    <2>5. StoredAreCounted
        <3>1. SumFunction([t \in {} |-> RowCount(t)]) = 0
            BY SumEmpty DEF SumFunction
        <3> QED
            BY <2>4, <3>1 DEF Init, StoredAreCounted, Counted
    <2> QED
        BY <2>3, <2>5
<1>2. /\ CallType /\ BooksType /\ CountedAreInserted /\ [Next]_vars => CountedAreInserted'
      /\ CallType /\ BooksType /\ StoredAreCounted /\ [Next]_vars => StoredAreCounted'
    BY CountedAreInsertedIsKept, StoredAreCountedIsKept
<1>3. CallType /\ BooksType /\ CountedAreInserted /\ StoredAreCounted => CounterIsBracketed
    <2> SUFFICES ASSUME CallType, BooksType, CountedAreInserted, StoredAreCounted
                 PROVE  CounterIsBracketed
        OBVIOUS
    <2> DEFINE counted == {t \in acked : HasEvent[t] /\ t \notin skipped \cup unparsed}
    <2>1. counted \subseteq MustCount /\ MustCount \subseteq Tx
        BY DEF MustCount, AnsweredTrue, CallType, CallRecord, BooksType
    <2>2. SumFunction([t \in counted |-> RowCount(t)])
             <= SumFunction([t \in MustCount |-> RowCount(t)])
        BY <2>1, RowSums
    <2>3. /\ SumFunction([t \in counted |-> RowCount(t)]) \in Nat
          /\ SumFunction([t \in MustCount |-> RowCount(t)]) \in Nat
        BY <2>1, RowSums
    <2>4. SumFunction([t \in counted |-> RowCount(t)]) <= Counted
        BY <2>2, <2>3 DEF StoredAreCounted, BooksType, Counted
    <2>5. Counted <= InsertedRows
        BY SumsOfCounter DEF CountedAreInserted, BooksType, Counted
    <2> QED
        BY <2>4, <2>5 DEF CounterIsBracketed, InsertedRows, Counted
<1>4. CallType /\ BooksType /\ [Next]_vars => BooksType'
    BY BooksTypeIsKept
<1> QED
    BY <1>1, <1>2, <1>3, <1>4, BooksStartTyped, TypesHold, PTL DEF Spec

-----------------------------------------------------------------------------
(* The views.                                                              *)

RowsOf(k) == {r \in table : Key(r.row) = k}

\* One transfer only, or none, has this sorting key.
Lone(t, k) == Cardinality({r \in Rows(t, {}) : Key(r) = k}) = 1

StoredUsd(S) == SumFunction([r \in S |-> r.row.usd])

ViewsCoverTable ==
    \A t \in Tx : \A k \in Keys(t) : StoredUsd(RowsOf(k)) <= volume[k]

FirstInsertIsExact ==
    \A t \in Tx : \A k \in Keys(t) :
        /\ inserted[t] = 0 => RowsOf(k) = {} /\ volume[k] = 0
        /\ inserted[t] = 1 /\ Lone(t, k) =>
              \E r \in table : RowsOf(k) = {r} /\ volume[k] = r.row.usd

LEMMA KeyOfOneTx ==
    ASSUME NEW t \in Tx, NEW u \in Tx, NEW k \in Keys(t),
           NEW priced, NEW row \in Rows(u, priced), Key(row) = k
    PROVE  t = u
<1>1. PICK r \in Rows(t, {}) : Key(r) = k
    BY DEF Keys
<1>2. r.tx = t
    BY RowsAreRows
<1>3. row.tx = u
    BY DEF Rows
<1> QED
    BY <1>1, <1>2, <1>3 DEF Key

\* Which transfers have the key does not depend on the prices.
LEMMA LoneForAnyPrices ==
    ASSUME NEW t \in Tx, NEW k, Lone(t, k), NEW priced
    PROVE  \E r \in Rows(t, priced) : {x \in Rows(t, priced) : Key(x) = k} = {r}
<1> DEFINE K(p) == {x \in Rows(t, p) : Key(x) = k}
<1>1. PICK r0 : K({}) = {r0}
    <2>1. IsFiniteSet(K({}))
        BY RowsAreFinite, FS_Subset
    <2> QED
        BY <2>1, FS_Singleton DEF Lone
<1>2. CASE Transfers[t] = <<>>
    <2>1. Rows(t, priced) = Rows(t, {})
        BY <1>2 DEF Rows
    <2> QED
        BY <1>1, <2>1
<1>3. CASE Transfers[t] # <<>>
    <2> DEFINE Row(i, p) == [tx |-> t, nr |-> i, account |-> Transfers[t][i].account,
                             usd |-> Usd(Transfers[t][i], p)]
    <2>1. \A p : Rows(t, p) = {Row(i, p) : i \in DOMAIN Transfers[t]}
        BY <1>3 DEF Rows
    <2>2. \A i, p, q : Key(Row(i, p)) = Key(Row(i, q)) /\ Row(i, p).nr = i
        BY DEF Key
    <2> HIDE DEF Row
    <2>3. r0 \in Rows(t, {}) /\ Key(r0) = k
        BY <1>1
    <2>4. PICK i \in DOMAIN Transfers[t] : r0 = Row(i, {})
        BY <2>1, <2>3
    <2>5. Row(i, priced) \in K(priced)
        BY <2>1, <2>2, <2>3, <2>4
    <2>6. ASSUME NEW x \in K(priced) PROVE x = Row(i, priced)
        <3>1. PICK j \in DOMAIN Transfers[t] : x = Row(j, priced)
            BY <2>1
        <3>2. Row(j, {}) \in K({})
            BY <2>1, <2>2, <3>1
        <3>3. Row(j, {}) = Row(i, {})
            BY <1>1, <2>4, <3>2
        <3> QED
            BY <2>2, <3>1, <3>3
    <2> QED
        BY <2>5, <2>6
<1> QED
    BY <1>2, <1>3

\* What an insert adds to the rows of a key.
LEMMA StoreAddsRows ==
    ASSUME RowType, NEW t \in Tx, NEW priced, Store(t, Rows(t, priced)), NEW k
    PROVE  LET new == Stamped({r \in Rows(t, priced) : Key(r) = k})
           IN  RowsOf(k)' = RowsOf(k) \cup new /\ RowsOf(k) \cap new = {}
<1> DEFINE new == Stamped({r \in Rows(t, priced) : Key(r) = k})
<1>1. RowsOf(k)' = RowsOf(k) \cup new
    BY DEF Store, RowsOf, Stamped
<1>2. RowsOf(k) \cap new = {}
    BY DEF RowType, RowsOf, Stamped
<1> QED
    BY <1>1, <1>2

\* Stamping the rows does not change what they add up to.
LEMMA StampedSum ==
    ASSUME NEW t \in Tx, NEW priced \in SUBSET DOMAIN Price,
           NEW rows, rows \subseteq Rows(t, priced)
    PROVE  StoredUsd(Stamped(rows)) = TotalUsd(rows)
<1> DEFINE h == [r \in rows |-> [row |-> r, at |-> inserts + 1]]
           f == [r \in rows |-> r.usd]
           g == [r \in Stamped(rows) |-> r.row.usd]
<1>1. IsFiniteSet(rows)
    BY StampedFinite
<1>2. Stamped(rows) = {h[r] : r \in rows}
    BY DEF Stamped
<1>3. \A r \in rows : f[r] \in Int /\ g[h[r]] = f[r]
    BY <1>2, RowsAreRows
<1>4. \A r, q \in rows : h[r] = h[q] => r = q
    <2>1. \A r \in rows : h[r].row = r
        OBVIOUS
    <2> QED
        BY <2>1
<1>5. /\ TotalUsd(rows) = SumFunctionOnSet(f, rows)
      /\ StoredUsd(Stamped(rows)) = SumFunctionOnSet(g, Stamped(rows))
    BY DEF TotalUsd, StoredUsd, SumFunction
<1> HIDE DEF f, g, h
<1> QED
    BY <1>1, <1>2, <1>3, <1>4, <1>5, SumReindex

\* Sums of rows in the table, or of rows that come into it.
LEMMA StoredSums ==
    ASSUME NEW A, NEW B, IsFiniteSet(A), IsFiniteSet(B),
           \A r \in A \cup B : r.row.usd \in Nat
    PROVE  /\ StoredUsd(A) \in Nat
           /\ A \cap B = {} => StoredUsd(A \cup B) = StoredUsd(A) + StoredUsd(B)
           /\ B \subseteq A => StoredUsd(B) <= StoredUsd(A)
<1> DEFINE f == [r \in A \cup B |-> r.row.usd]
<1>1. \A r \in A \cup B : f[r] \in Nat /\ f[r] \in Int
    OBVIOUS
<1>2. ASSUME NEW S \in SUBSET (A \cup B) PROVE StoredUsd(S) = SumFunctionOnSet(f, S)
    <2>1. IsFiniteSet(S)
        BY FS_Union, FS_Subset
    <2>2. SumFunction([r \in S |-> f[r]]) = SumFunctionOnSet(f, S)
        BY ONLY <2>1, SumRestrict
    <2>3. [r \in S |-> f[r]] = [r \in S |-> r.row.usd]
        OBVIOUS
    <2> QED
        BY ONLY <2>2, <2>3 DEF StoredUsd
<1> HIDE DEF f
<1>3. SumFunctionOnSet(f, A) \in Nat
    BY <1>1, SumNat
<1>4. A \cap B = {} => SumFunctionOnSet(f, A \cup B)
                          = SumFunctionOnSet(f, A) + SumFunctionOnSet(f, B)
    BY <1>1, SumUnion
<1>5. B \subseteq A => SumFunctionOnSet(f, B) <= SumFunctionOnSet(f, A)
    BY <1>1, SumSubset
<1> QED
    BY <1>2, <1>3, <1>4, <1>5

LEMMA RowsOfFinite ==
    ASSUME RowType, NEW k
    PROVE  IsFiniteSet(RowsOf(k)) /\ \A r \in RowsOf(k) : r.row.usd \in Nat
BY FS_Subset DEF RowType, RowsOf

\* No row replaces itself.
LEMMA OnlyRowStays ==
    ASSUME RowType, NEW k, NEW r, RowsOf(k) = {r}, NEW new \in table
    PROVE  ~Replaces(new, r)
<1> SUFFICES ASSUME Replaces(new, r) PROVE FALSE
    OBVIOUS
<1>1. r \in table /\ Key(new.row) = Key(r.row) /\ Key(r.row) = k
    BY DEF Replaces, RowsOf
<1>2. new = r
    BY <1>1 DEF RowsOf
<1> QED
    BY <1>1, <1>2 DEF Replaces, RowType

LEMMA ViewsCoverTableIsKept ==
    ASSUME CallType, RowType, BooksType, ViewsCoverTable, [Next]_vars
    PROVE  ViewsCoverTable'
<1> SUFFICES ASSUME NEW u \in Tx, NEW k \in Keys(u)
             PROVE  StoredUsd(RowsOf(k)') <= volume'[k]
    BY DEF ViewsCoverTable, StoredUsd
<1>0. k \in AllKeys /\ volume[k] \in Nat
    BY DEF AllKeys, BooksType
<1>1. StoredUsd(RowsOf(k)) <= volume[k] /\ IsFiniteSet(RowsOf(k))
      /\ \A r \in RowsOf(k) : r.row.usd \in Nat
    BY RowsOfFinite DEF ViewsCoverTable
<1>2. CASE UNCHANGED storeVars
    <2>1. RowsOf(k)' = RowsOf(k) /\ volume'[k] = volume[k]
        BY <1>2 DEF RowsOf, storeVars
    <2> QED
        BY <1>1, <2>1
<1>3. ASSUME NEW t \in Tx, NEW priced \in SUBSET DOMAIN Price, Store(t, Rows(t, priced))
      PROVE  StoredUsd(RowsOf(k)') <= volume'[k]
    <2> DEFINE rows == {r \in Rows(t, priced) : Key(r) = k}
    <2>1. volume'[k] = volume[k] + TotalUsd(rows)
        BY <1>0, <1>3 DEF Store, AddToViews
    <2>2. RowsOf(k)' = RowsOf(k) \cup Stamped(rows) /\ RowsOf(k) \cap Stamped(rows) = {}
        BY <1>3, StoreAddsRows
    <2>3. rows \subseteq Rows(t, priced)
        OBVIOUS
    <2> HIDE DEF rows
    <2>4. IsFiniteSet(Stamped(rows)) /\ StoredUsd(Stamped(rows)) = TotalUsd(rows)
          /\ TotalUsd(rows) \in Nat
        BY <2>3, StampedFinite, StampedSum, TotalIsNat
    <2>5. \A r \in Stamped(rows) : r.row.usd \in Nat
        BY <2>3, RowsAreRows DEF Stamped
    <2>6. /\ StoredUsd(RowsOf(k) \cup Stamped(rows))
                = StoredUsd(RowsOf(k)) + StoredUsd(Stamped(rows))
          /\ StoredUsd(RowsOf(k)) \in Nat
        BY <1>1, <2>2, <2>4, <2>5, StoredSums
    <2> QED
        BY <1>0, <1>1, <2>1, <2>2, <2>4, <2>6
<1>4. ASSUME NEW old \in table, Merge(old) PROVE StoredUsd(RowsOf(k)') <= volume'[k]
    <2>1. RowsOf(k)' \subseteq RowsOf(k) /\ volume'[k] = volume[k]
        BY <1>4 DEF Merge, RowsOf
    <2>2. PICK S : S = RowsOf(k)'
        OBVIOUS
    <2>3. S \subseteq RowsOf(k) /\ IsFiniteSet(S)
        BY <1>1, <2>1, <2>2, FS_Subset
    <2>4. \A r \in RowsOf(k) \cup S : r.row.usd \in Nat
        BY <1>1, <2>3
    <2>5. StoredUsd(S) <= StoredUsd(RowsOf(k)) /\ StoredUsd(RowsOf(k)) \in Nat
        BY <1>1, <2>3, <2>4, StoredSums
    <2>6. StoredUsd(S) \in Nat
        BY <1>1, <2>3, <2>4, StoredSums
    <2>7. StoredUsd(S) <= volume[k]
        BY <1>0, <1>1, <2>5, <2>6
    <2> QED
        BY <2>1, <2>2, <2>7
<1> QED
    BY <1>2, <1>3, <1>4, StoreSteps

LEMMA FirstInsertIsExactIsKept ==
    ASSUME CallType, RowType, BooksType, FirstInsertIsExact, [Next]_vars
    PROVE  FirstInsertIsExact'
<1> DEFINE Exact(t, k) ==
        /\ inserted[t] = 0 => RowsOf(k) = {} /\ volume[k] = 0
        /\ inserted[t] = 1 /\ Lone(t, k) =>
              \E r \in table : RowsOf(k) = {r} /\ volume[k] = r.row.usd
<1> SUFFICES ASSUME NEW t \in Tx, NEW k \in Keys(t) PROVE Exact(t, k)'
    BY DEF FirstInsertIsExact, Lone
<1>0. /\ k \in AllKeys /\ volume[k] \in Nat /\ inserted[t] \in Nat
      /\ Exact(t, k)
    BY DEF AllKeys, BooksType, FirstInsertIsExact
<1>1. RowsOf(k) \subseteq table
    BY DEF RowsOf
<1>2. ASSUME RowsOf(k)' = RowsOf(k), volume'[k] = volume[k], inserted'[t] = inserted[t]
      PROVE  Exact(t, k)'
    <2>1. ASSUME NEW r, RowsOf(k) = {r} PROVE r \in table'
        BY <1>2, <2>1 DEF RowsOf
    <2> QED
        BY <1>0, <1>2, <2>1 DEF Lone
<1>3. CASE UNCHANGED storeVars
    <2>1. RowsOf(k)' = RowsOf(k) /\ volume'[k] = volume[k] /\ inserted'[t] = inserted[t]
        BY <1>3 DEF RowsOf, storeVars
    <2> HIDE DEF Exact
    <2> QED
        BY <1>2, <2>1
<1>4. ASSUME NEW u \in Tx, NEW priced \in SUBSET DOMAIN Price, Store(u, Rows(u, priced))
      PROVE  Exact(t, k)'
    <2> DEFINE rows == {r \in Rows(u, priced) : Key(r) = k}
    <2>1. volume'[k] = volume[k] + TotalUsd(rows)
        BY <1>0, <1>4 DEF Store, AddToViews
    <2>2. RowsOf(k)' = RowsOf(k) \cup Stamped(rows)
        BY <1>4, StoreAddsRows
    <2>3. \A v \in Tx : inserted'[v] = IF v = u THEN inserted[v] + 1 ELSE inserted[v]
        BY <1>4 DEF Store, BooksType
    <2>4. CASE t # u
        <3>1. rows = {}
            BY <2>4, KeyOfOneTx
        <3>2. TotalUsd({}) = 0
            BY SumEmpty DEF TotalUsd, SumFunction
        <3>3. Stamped({}) = {}
            BY DEF Stamped
        <3>4. RowsOf(k)' = RowsOf(k)
            BY <2>2, <3>1, <3>3
        <3>5. volume'[k] = volume[k]
            <4>1. TotalUsd(rows) = 0
                BY <3>1, <3>2
            <4> HIDE DEF rows, Exact
            <4> QED
                BY <1>0, <2>1, <4>1
        <3>6. inserted'[t] = inserted[t]
            BY <2>3, <2>4
        <3> HIDE DEF Exact, rows
        <3> QED
            BY <1>2, <3>4, <3>5, <3>6
    <2>5. CASE t = u
        <3>1. inserted'[t] = inserted[t] + 1
            BY <2>3, <2>5
        <3>2. inserted'[t] # 0
            BY <1>0, <3>1
        <3>3. ASSUME inserted'[t] = 1, Lone(t, k)
              PROVE  \E r \in table' : RowsOf(k)' = {r} /\ volume'[k] = r.row.usd
            <4>1. RowsOf(k) = {} /\ volume[k] = 0
                <5>1. inserted[t] = 0
                    BY <1>0, <3>1, <3>3
                <5> QED
                    BY <1>0, <5>1
            <4>2. PICK row \in Rows(t, priced) : rows = {row}
                BY <2>5, <3>3, LoneForAnyPrices
            <4>3. row.usd \in Nat
                BY RowsAreRows
            <4>4. TotalUsd({row}) = row.usd
                <5> DEFINE f == [r \in {row} |-> r.usd]
                <5>1. f[row] = row.usd /\ f[row] \in Int
                    BY <4>3
                <5>2. TotalUsd({row}) = SumFunctionOnSet(f, {row})
                    BY DEF TotalUsd, SumFunction
                <5> HIDE DEF f
                <5> QED
                    BY ONLY <5>1, <5>2, SumSingleton
            <4> DEFINE r == [row |-> row, at |-> inserts + 1]
            <4>5. Stamped({row}) = {r} /\ r.row = row
                BY DEF Stamped
            <4>6. RowsOf(k)' = {r}
                BY <2>2, <4>1, <4>2, <4>5
            <4>7. volume'[k] = row.usd
                BY <2>1, <4>1, <4>2, <4>3, <4>4
            <4>8. r \in table'
                BY <4>6 DEF RowsOf
            <4> QED
                BY <4>5, <4>6, <4>7, <4>8
        <3> QED
            BY <3>2, <3>3 DEF Lone
    <2> QED
        BY <2>4, <2>5
<1>5. ASSUME NEW old \in table, Merge(old) PROVE Exact(t, k)'
    <2>1. RowsOf(k)' = RowsOf(k) \ {old} /\ volume'[k] = volume[k]
          /\ inserted'[t] = inserted[t]
        BY <1>5 DEF Merge, RowsOf
    <2>2. \E new \in table : Replaces(new, old)
        BY <1>5 DEF Merge
    <2>3. ASSUME NEW r, RowsOf(k) = {r} PROVE RowsOf(k)' = RowsOf(k)
        <3>1. old # r
            BY <2>2, <2>3, OnlyRowStays
        <3> QED
            BY <2>1, <2>3, <3>1
    <2>4. CASE RowsOf(k) = {} \/ \E r : RowsOf(k) = {r}
        <3>1. RowsOf(k)' = RowsOf(k)
            BY <2>1, <2>3, <2>4
        <3> HIDE DEF Exact
        <3> QED
            BY <1>2, <2>1, <3>1
    <2>5. CASE ~(RowsOf(k) = {} \/ \E r : RowsOf(k) = {r})
        BY <1>0, <2>1, <2>5 DEF Lone
    <2> QED
        BY <2>4, <2>5
<1> HIDE DEF Exact
<1> QED
    BY <1>3, <1>4, <1>5, StoreSteps

\* The views never report less than the merged table, and exactly what it says
\* where a transaction was inserted at most once and one row has the key, in
\* whatever order inserts and merges come.
THEOREM ViewsCoverMergedTable == Spec => []ViewsAgainstTable
<1>1. Init => ViewsCoverTable /\ FirstInsertIsExact
    <2> SUFFICES ASSUME Init PROVE ViewsCoverTable /\ FirstInsertIsExact
        OBVIOUS
    <2>1. \A k : RowsOf(k) = {}
        BY DEF Init, RowsOf
    <2>2. StoredUsd({}) = 0
        BY SumEmpty DEF StoredUsd, SumFunction
    <2>3. \A t \in Tx : inserted[t] = 0 /\ \A k \in Keys(t) : volume[k] = 0
        BY DEF Init, AllKeys
    <2> QED
        BY <2>1, <2>2, <2>3 DEF ViewsCoverTable, FirstInsertIsExact
<1>2. /\ CallType /\ RowType /\ BooksType /\ ViewsCoverTable /\ [Next]_vars => ViewsCoverTable'
      /\ CallType /\ RowType /\ BooksType /\ FirstInsertIsExact /\ [Next]_vars
            => FirstInsertIsExact'
    BY ViewsCoverTableIsKept, FirstInsertIsExactIsKept
<1>3. /\ CallType /\ RowType /\ BooksType /\ ViewsCoverTable /\ FirstInsertIsExact
      => ViewsAgainstTable
    <2> SUFFICES ASSUME CallType, RowType, BooksType, ViewsCoverTable, FirstInsertIsExact,
                        NEW t \in Tx, NEW k \in Keys(t)
                 PROVE  /\ volume[k] >= StoredUsd(Final(k))
                        /\ inserted[t] <= 1 /\ Lone(t, k) => volume[k] = StoredUsd(Final(k))
        BY DEF ViewsAgainstTable, StoredUsd, Lone
    <2>0. volume[k] \in Nat /\ inserted[t] \in Nat
        BY DEF BooksType, AllKeys
    <2>1. Final(k) \subseteq RowsOf(k)
        BY DEF Final, RowsOf
    <2>2. IsFiniteSet(RowsOf(k)) /\ IsFiniteSet(Final(k))
          /\ \A r \in RowsOf(k) \cup Final(k) : r.row.usd \in Nat
        BY <2>1, RowsOfFinite, FS_Subset
    <2>3. StoredUsd(Final(k)) <= StoredUsd(RowsOf(k)) /\ StoredUsd(RowsOf(k)) \in Nat
          /\ StoredUsd(Final(k)) \in Nat
        BY <2>1, <2>2, StoredSums
    <2>4. StoredUsd(RowsOf(k)) <= volume[k]
        BY DEF ViewsCoverTable
    <2>5. volume[k] >= StoredUsd(Final(k))
        BY <2>0, <2>3, <2>4
    <2>6. ASSUME inserted[t] = 0 PROVE volume[k] = StoredUsd(Final(k))
        <3>1. RowsOf(k) = {} /\ volume[k] = 0
            BY <2>6 DEF FirstInsertIsExact
        <3>2. StoredUsd({}) = 0
            BY SumEmpty DEF StoredUsd, SumFunction
        <3> QED
            BY <2>1, <3>1, <3>2
    <2>7. ASSUME inserted[t] = 1, Lone(t, k) PROVE volume[k] = StoredUsd(Final(k))
        <3>1. PICK r \in table : RowsOf(k) = {r} /\ volume[k] = r.row.usd
            BY <2>7 DEF FirstInsertIsExact
        <3>2. Final(k) = {r}
            <4>1. Key(r.row) = k /\ \A new \in table : ~Replaces(new, r)
                BY <3>1, OnlyRowStays DEF RowsOf
            <4> QED
                BY <2>1, <3>1, <4>1 DEF Final
        <3> DEFINE f == [q \in {r} |-> q.row.usd]
        <3>3. f[r] = r.row.usd /\ r.row.usd \in Int
            BY DEF RowType
        <3>4. StoredUsd({r}) = SumFunctionOnSet(f, {r})
            BY DEF StoredUsd, SumFunction
        <3> HIDE DEF f
        <3>5. StoredUsd({r}) = r.row.usd
            BY <3>3, <3>4, SumSingleton
        <3> QED
            BY <3>1, <3>2, <3>5
    <2> QED
        BY <2>0, <2>5, <2>6, <2>7
<1>4. CallType /\ BooksType /\ [Next]_vars => BooksType'
    BY BooksTypeIsKept
<1> QED
    BY <1>1, <1>2, <1>3, <1>4, BooksStartTyped, TypesHold, PTL DEF Spec
=============================================================================
