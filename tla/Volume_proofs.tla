---------------------------- MODULE Volume_proofs ----------------------------
(***************************************************************************)
(* Proofs about the two modules that serve and show what Volume computes:   *)
(* Analytics, for any questions, inserts, requests, times to live, delays   *)
(* and failures, and Dashboard, for any periods, clicks and failures.       *)
(*                                                                          *)
(* First the rows: what the merges of ClickHouse leave has the totals that  *)
(* the inserts had, key by key, and a query has the same results on both.   *)
(* Then the requests: what is cached, or about to be, was the result of its *)
(* question at a time that its age bounds.  Last the page.                  *)
(***************************************************************************)
EXTENDS Analytics, Dashboard, Sums

-----------------------------------------------------------------------------
(* Rows, and the sums over them.                                           *)

RowKey(r) == <<r.date, r.program, r.event>>

\* The sorting keys of the inserts.
RowKeys == {RowKey(RowOf(i)) : i \in 1..Len(Block)}

KeysOf(rows) == {RowKey(r) : r \in rows}

OfKeys(rows, K) == {r \in rows : RowKey(r) \in K}

Dates == {Block[i].date : i \in 1..Len(Block)}
Programs == {Block[i].program : i \in 1..Len(Block)}
Events == {Block[i].event : i \in 1..Len(Block)}

Row == [nr : 1..Len(Block), date : Dates, program : Programs, event : Events,
        volume : Nat, orders : Nat]

AreRows(rows) == IsFiniteSet(rows) /\ rows \subseteq Row /\ KeysOf(rows) \subseteq RowKeys

\* The same keys, and for any set of them the same totals.
SameTotals(R, S) ==
    /\ KeysOf(R) = KeysOf(S)
    /\ \A K \in SUBSET RowKeys :
        /\ VolumeOf(OfKeys(R, K)) = VolumeOf(OfKeys(S, K))
        /\ OrdersOf(OfKeys(R, K)) = OrdersOf(OfKeys(S, K))

LEMMA TotalsAreSums ==
    ASSUME NEW all, NEW rows \in SUBSET all, IsFiniteSet(rows)
    PROVE  /\ VolumeOf(rows) = SumFunctionOnSet([r \in all |-> r.volume], rows)
           /\ OrdersOf(rows) = SumFunctionOnSet([r \in all |-> r.orders], rows)
<1> DEFINE v == [r \in all |-> r.volume]
           o == [r \in all |-> r.orders]
<1>1. /\ SumFunction([r \in rows |-> v[r]]) = SumFunctionOnSet(v, rows)
      /\ SumFunction([r \in rows |-> o[r]]) = SumFunctionOnSet(o, rows)
    BY SumRestrict
<1>2. /\ [r \in rows |-> v[r]] = [r \in rows |-> r.volume]
      /\ [r \in rows |-> o[r]] = [r \in rows |-> r.orders]
    OBVIOUS
<1> QED
    BY <1>1, <1>2 DEF VolumeOf, OrdersOf

\* Two rows replaced by one that has their sum.
LEMMA MergedSum ==
    ASSUME NEW f, NEW R, IsFiniteSet(R), NEW a \in R, NEW b \in R, a # b,
           NEW m, m \notin R \ {a, b}, RowKey(a) = RowKey(m), RowKey(b) = RowKey(m),
           \A r \in R \cup {m} : f[r] \in Int, f[m] = f[a] + f[b], NEW K
    PROVE  SumFunctionOnSet(f, OfKeys((R \ {a, b}) \cup {m}, K))
              = SumFunctionOnSet(f, OfKeys(R, K))
<1> DEFINE old == OfKeys(R, K)
           new == OfKeys((R \ {a, b}) \cup {m}, K)
           rest == old \ {a, b}
<1>1. CASE RowKey(m) \notin K
    <2>1. new = old
        BY <1>1 DEF OfKeys
    <2> QED
        BY <2>1
<1>2. CASE RowKey(m) \in K
    <2>1. /\ new = rest \cup {m} /\ m \notin rest
          /\ a \in old /\ b \in old \ {a} /\ rest = (old \ {a}) \ {b}
        BY <1>2 DEF OfKeys
    <2>2. IsFiniteSet(old) /\ IsFiniteSet(old \ {a}) /\ IsFiniteSet(rest)
        BY FS_Subset DEF OfKeys
    <2>3. \A r \in old \cup {m} : f[r] \in Int
        BY DEF OfKeys
    <2> HIDE DEF old, new, rest
    <2>4. SumFunctionOnSet(f, old) = f[a] + SumFunctionOnSet(f, old \ {a})
        BY <2>1, <2>2, <2>3, SumRemove
    <2>5. SumFunctionOnSet(f, old \ {a}) = f[b] + SumFunctionOnSet(f, rest)
        BY <2>1, <2>2, <2>3, SumRemove
    <2>6. rest \subseteq old
        BY DEF rest
    <2>7. SumFunctionOnSet(f, new) = f[m] + SumFunctionOnSet(f, rest)
        BY <2>1, <2>2, <2>3, <2>6, SumInsert
    <2>8. SumFunctionOnSet(f, rest) \in Int
        BY <2>2, <2>3, <2>6, SumInt
    <2> QED
        BY <2>4, <2>5, <2>7, <2>8 DEF old, new
<1> QED
    BY <1>1, <1>2

\* A merge loses no row's amounts and no key.
LEMMA MergeKeepsTotals ==
    ASSUME NEW R, AreRows(R), \A x, y \in R : x.nr = y.nr => x = y,
           NEW a \in R, NEW b \in R, a.nr < b.nr, SameKey(a, b)
    PROVE  LET merged == (R \ {a, b}) \cup {MergedRow(a, b)} IN
           /\ AreRows(merged) /\ SameTotals(merged, R)
           /\ MergedRow(a, b).nr = a.nr
<1> DEFINE m == MergedRow(a, b)
           merged == (R \ {a, b}) \cup {m}
           all == R \cup {m}
           v == [r \in all |-> r.volume]
           o == [r \in all |-> r.orders]
<1>1. /\ a \in Row /\ b \in Row /\ IsFiniteSet(R) /\ R \subseteq Row
      /\ KeysOf(R) \subseteq RowKeys /\ a # b
    BY DEF AreRows, Row
<1>2. /\ m \in Row /\ m.nr = a.nr /\ RowKey(m) = RowKey(a) /\ RowKey(b) = RowKey(a)
      /\ m.volume = a.volume + b.volume /\ m.orders = a.orders + b.orders
    <2>1. m = [nr |-> a.nr, date |-> a.date, program |-> a.program, event |-> a.event,
               volume |-> a.volume + b.volume, orders |-> a.orders + b.orders]
        <3>1. m = [a EXCEPT !.volume = a.volume + b.volume, !.orders = a.orders + b.orders]
            BY DEF MergedRow
        <3>2. a = [nr |-> a.nr, date |-> a.date, program |-> a.program, event |-> a.event,
                   volume |-> a.volume, orders |-> a.orders]
            BY <1>1 DEF Row
        <3> HIDE DEF m
        <3> QED
            BY <3>1, <3>2
    <2> HIDE DEF m
    <2>2. m \in Row
        BY <1>1, <2>1 DEF Row
    <2>3. a.date = b.date /\ a.program = b.program /\ a.event = b.event
        BY DEF SameKey
    <2> QED
        BY <2>1, <2>2, <2>3 DEF RowKey
<1> HIDE DEF m
<1>3. m \notin R \ {a, b}
    BY <1>2
<1>4. IsFiniteSet(R \ {a, b}) /\ IsFiniteSet(merged)
    BY <1>1, FS_Subset, FS_AddElement
<1>5. KeysOf(merged) = KeysOf(R)
    <2>1. \A r \in merged : RowKey(r) \in KeysOf(R)
        BY <1>2 DEF KeysOf
    <2>2. ASSUME NEW r \in R PROVE RowKey(r) \in KeysOf(merged)
        <3>1. m \in merged /\ (r \in merged \/ RowKey(r) = RowKey(m))
            BY <1>2
        <3> QED
            BY <3>1 DEF KeysOf
    <2> QED
        BY <2>1, <2>2 DEF KeysOf
<1>6. \A r \in all : v[r] \in Int /\ o[r] \in Int
    BY <1>1, <1>2 DEF Row
<1>7. v[m] = v[a] + v[b] /\ o[m] = o[a] + o[b]
    BY <1>2
<1>8. ASSUME NEW K
      PROVE  /\ VolumeOf(OfKeys(merged, K)) = VolumeOf(OfKeys(R, K))
             /\ OrdersOf(OfKeys(merged, K)) = OrdersOf(OfKeys(R, K))
    <2>1. /\ OfKeys(merged, K) \in SUBSET all /\ IsFiniteSet(OfKeys(merged, K))
          /\ OfKeys(R, K) \in SUBSET all /\ IsFiniteSet(OfKeys(R, K))
        BY <1>1, <1>4, FS_Subset DEF OfKeys
    <2>2. /\ SumFunctionOnSet(v, OfKeys(merged, K)) = SumFunctionOnSet(v, OfKeys(R, K))
          /\ SumFunctionOnSet(o, OfKeys(merged, K)) = SumFunctionOnSet(o, OfKeys(R, K))
        <3> HIDE DEF v, o
        <3> QED
            BY <1>1, <1>2, <1>3, <1>6, <1>7, MergedSum
    <2>3. /\ VolumeOf(OfKeys(merged, K)) = SumFunctionOnSet(v, OfKeys(merged, K))
          /\ OrdersOf(OfKeys(merged, K)) = SumFunctionOnSet(o, OfKeys(merged, K))
          /\ VolumeOf(OfKeys(R, K)) = SumFunctionOnSet(v, OfKeys(R, K))
          /\ OrdersOf(OfKeys(R, K)) = SumFunctionOnSet(o, OfKeys(R, K))
        <3> HIDE DEF merged, all
        <3> QED
            BY <2>1, TotalsAreSums
    <2> QED
        BY <2>2, <2>3
<1>9. AreRows(merged)
    BY <1>1, <1>2, <1>4, <1>5 DEF AreRows
<1>10. SameTotals(merged, R)
    BY <1>5, <1>8 DEF SameTotals
<1> QED
    BY <1>2, <1>9, <1>10 DEF m

\* The same row added to two sets of the same totals.
LEMMA InsertKeepsTotals ==
    ASSUME NEW R, AreRows(R), NEW S, AreRows(S), SameTotals(R, S),
           NEW n, n \in Row, RowKey(n) \in RowKeys, n \notin R, n \notin S
    PROVE  /\ AreRows(R \cup {n}) /\ AreRows(S \cup {n})
           /\ SameTotals(R \cup {n}, S \cup {n})
<1> DEFINE all == R \cup S \cup {n}
           v == [r \in all |-> r.volume]
           o == [r \in all |-> r.orders]
<1>1. \A T : AreRows(T) => AreRows(T \cup {n})
    BY FS_AddElement DEF AreRows, KeysOf
<1>2. \A T : KeysOf(T \cup {n}) = KeysOf(T) \cup {RowKey(n)}
    BY DEF KeysOf
<1>3. \A r \in all : v[r] \in Int /\ o[r] \in Int
    BY DEF AreRows, Row
<1>4. ASSUME NEW T, AreRows(T), T \subseteq all, n \notin T, NEW K
      PROVE  /\ VolumeOf(OfKeys(T \cup {n}, K))
                  = VolumeOf(OfKeys(T, K)) + IF RowKey(n) \in K THEN n.volume ELSE 0
             /\ OrdersOf(OfKeys(T \cup {n}, K))
                  = OrdersOf(OfKeys(T, K)) + IF RowKey(n) \in K THEN n.orders ELSE 0
    <2> DEFINE old == OfKeys(T, K)
               new == OfKeys(T \cup {n}, K)
    <2>1. /\ IsFiniteSet(old) /\ IsFiniteSet(new) /\ n \notin old
          /\ old \in SUBSET all /\ new \in SUBSET all
        BY <1>1, <1>4, FS_Subset DEF OfKeys, AreRows
    <2>2. new = IF RowKey(n) \in K THEN old \cup {n} ELSE old
        BY DEF OfKeys
    <2>3. v[n] = n.volume /\ o[n] = n.orders
        OBVIOUS
    <2> HIDE DEF old, new, v, o
    <2>4. /\ VolumeOf(old) = SumFunctionOnSet(v, old) /\ OrdersOf(old) = SumFunctionOnSet(o, old)
          /\ VolumeOf(new) = SumFunctionOnSet(v, new) /\ OrdersOf(new) = SumFunctionOnSet(o, new)
        <3> HIDE DEF all
        <3> QED
            BY <2>1, TotalsAreSums DEF v, o
    <2>5. \A r \in old \cup {n} : v[r] \in Int /\ o[r] \in Int
        BY <1>3, <2>1
    <2>6. /\ SumFunctionOnSet(v, old) \in Int /\ SumFunctionOnSet(o, old) \in Int
        BY <2>1, <2>5, SumInt
    <2>7. /\ SumFunctionOnSet(v, old \cup {n}) = v[n] + SumFunctionOnSet(v, old)
          /\ SumFunctionOnSet(o, old \cup {n}) = o[n] + SumFunctionOnSet(o, old)
        BY <2>1, <2>5, SumInsert
    <2>8. n.volume \in Int /\ n.orders \in Int
        BY DEF Row
    <2> QED
        BY <2>2, <2>3, <2>4, <2>6, <2>7, <2>8 DEF old, new
<1>5. /\ SameTotals(R \cup {n}, S \cup {n})
    BY <1>2, <1>4 DEF SameTotals
<1> QED
    BY <1>1, <1>5

\* The row of an insert.
LEMMA RowsOfInserts ==
    ASSUME NEW i \in 1..Len(Block)
    PROVE  /\ RowOf(i) \in Row /\ RowOf(i).nr = i /\ RowKey(RowOf(i)) \in RowKeys
           /\ RowKey(RowOf(i)) = <<Block[i].date, Block[i].program, Block[i].event>>
<1>1. Block[i].volume \in Nat
    BY VolumeAssumption
<1>2. Block[i].date \in Dates /\ Block[i].program \in Programs /\ Block[i].event \in Events
    BY DEF Dates, Programs, Events
<1>3. RowOf(i) \in Row /\ RowOf(i).nr = i
    BY <1>1, <1>2 DEF RowOf, Row
<1>4. RowKey(RowOf(i)) \in RowKeys
    BY DEF RowKeys
<1> QED
    BY <1>3, <1>4 DEF RowKey, RowOf

\* The rows of some of the inserts.
LEMMA SomeRows ==
    ASSUME NEW v \in 0..Len(Block), NEW T \in SUBSET (1..v)
    PROVE  AreRows(RowsOf(T)) /\ \A r \in RowsOf(T) : r.nr \in 1..v
<1> DEFINE row == [i \in 1..v |-> RowOf(i)]
           priced == {j \in T : Block[j].volume > 0}
<1>1. v \in Nat /\ 1..v \subseteq 1..Len(Block) /\ priced \subseteq 1..v
    <2>1. v \in Nat /\ 1..v \subseteq 1..Len(Block)
        BY VolumeAssumption
    <2> QED
        BY <2>1
<1>2. IsFiniteSet(priced)
    <2>1. IsFiniteSet(1..v)
        BY <1>1, FS_Interval
    <2> HIDE DEF priced
    <2> QED
        BY ONLY <1>1, <2>1, FS_Subset
<1>3. RowsOf(T) = {row[i] : i \in priced}
    BY <1>1 DEF RowsOf
<1>4. IsFiniteSet(RowsOf(T))
    <2>1. IsFiniteSet({row[i] : i \in priced})
        <3> HIDE DEF row, priced
        <3> QED
            BY ONLY <1>2, ImageFinite
    <2> QED
        BY <1>3, <2>1
<1>5. \A r \in RowsOf(T) : r \in Row /\ RowKey(r) \in RowKeys /\ r.nr \in 1..v
    BY <1>1, RowsOfInserts DEF RowsOf
<1> QED
    BY <1>4, <1>5 DEF AreRows, KeysOf

LEMMA UnmergedRows ==
    ASSUME NEW v \in 0..Len(Block)
    PROVE  AreRows(Unmerged(v)) /\ \A r \in Unmerged(v) : r.nr \in 1..v
BY SomeRows DEF Unmerged

-----------------------------------------------------------------------------
(* The table, and its merges.                                              *)

\* Before any merge.
LEMMA WholeTable == ASSUME NEW v PROVE 1..v \in Tables(v)
BY DEF Tables

LEMMA TablesGrow ==
    ASSUME NEW v \in Nat, NEW T \in Tables(v)
    PROVE  T \cup {v + 1} \in Tables(v + 1)
<1>1. 1..v + 1 = (1..v) \cup {v + 1}
    OBVIOUS
<1> QED
    BY <1>1 DEF Tables

\* What was replaced by a row that is replaced itself is replaced by the newer one.
LEMMA TablesShrink ==
    ASSUME NEW v \in Nat, NEW T \in Tables(v), NEW new \in T, NEW old \in T, Replaces(new, old)
    PROVE  T \ {old} \in Tables(v)
<1>1. T \in SUBSET (1..v) /\ \A i \in (1..v) \ T : \E j \in T : Replaces(j, i)
    BY DEF Tables
<1>2. new \in T \ {old}
    BY <1>1 DEF Replaces
<1>3. ASSUME NEW i \in (1..v) \ (T \ {old}) PROVE \E j \in T \ {old} : Replaces(j, i)
    <2>1. CASE i = old
        BY <1>2, <2>1
    <2>2. CASE i # old
        <3>1. PICK j \in T : Replaces(j, i)
            BY <1>1, <2>2
        <3>2. CASE j = old
            <4>1. new \in Int /\ old \in Int /\ i \in Int
                BY <1>1
            <4>2. Replaces(new, i)
                BY <3>1, <3>2, <4>1 DEF Replaces
            <4> QED
                BY <1>2, <4>2
        <3>3. CASE j # old
            BY <3>1, <3>3
        <3> QED
            BY <3>2, <3>3
    <2> QED
        BY <2>1, <2>2
<1> QED
    BY <1>1, <1>3 DEF Tables

\* Of a part of the rows the totals are no larger.
LEMMA FewerRowsLess ==
    ASSUME NEW S, AreRows(S), NEW R, R \subseteq S
    PROVE  VolumeOf(R) <= VolumeOf(S) /\ OrdersOf(R) <= OrdersOf(S)
<1> DEFINE v == [r \in S |-> r.volume]
           o == [r \in S |-> r.orders]
<1>1. IsFiniteSet(S) /\ IsFiniteSet(R)
    BY FS_Subset DEF AreRows
<1>2. /\ VolumeOf(R) = SumFunctionOnSet(v, R) /\ OrdersOf(R) = SumFunctionOnSet(o, R)
      /\ VolumeOf(S) = SumFunctionOnSet(v, S) /\ OrdersOf(S) = SumFunctionOnSet(o, S)
    BY <1>1, TotalsAreSums
<1>3. \A r \in S : v[r] \in Nat /\ o[r] \in Nat
    BY DEF AreRows, Row
<1> HIDE DEF v, o
<1>4. /\ SumFunctionOnSet(v, R) <= SumFunctionOnSet(v, S)
      /\ SumFunctionOnSet(o, R) <= SumFunctionOnSet(o, S)
    BY <1>1, <1>3, SumSubset
<1> QED
    BY <1>2, <1>4

-----------------------------------------------------------------------------
(* Queries: the same totals give the same results.                         *)

LEMMA SameKeySameRow ==
    ASSUME NEW r, NEW s
    PROVE  SameKey(r, s) <=> RowKey(r) = RowKey(s)
BY DEF SameKey, RowKey

LEMMA DailyIncluded ==
    ASSUME NEW R, NEW S, AreRows(R), AreRows(S), SameTotals(R, S), NEW q
    PROVE  DailyRows(q, R) \subseteq DailyRows(q, S)
<1> DEFINE Hit(T) == {r \in T : Matches(q, r)}
           Of(T, r) == {x \in Hit(T) : SameKey(x, r)}
           RowFor(T, r) == [date |-> r.date, program |-> r.program, event |-> r.event,
                            volume |-> VolumeOf(Of(T, r)), orders |-> OrdersOf(Of(T, r))]
<1>1. \A T : DailyRows(q, T) = {RowFor(T, r) : r \in Hit(T)}
    BY DEF DailyRows
<1>2. ASSUME NEW r, NEW s, SameKey(r, s), Matches(q, s) PROVE Matches(q, r)
    BY <1>2 DEF Matches, SameKey
<1>3. ASSUME NEW T, NEW r \in Hit(T)
      PROVE  Of(T, r) = OfKeys(T, {RowKey(r)})
    <2>1. \A x \in T : SameKey(x, r) => Matches(q, x)
        BY <1>2
    <2> QED
        BY <2>1, SameKeySameRow DEF OfKeys
<1>4. ASSUME NEW r \in Hit(R) PROVE \E s \in Hit(S) : RowFor(R, r) = RowFor(S, s)
    <2>1. RowKey(r) \in KeysOf(R) /\ RowKey(r) \in KeysOf(S) /\ RowKey(r) \in RowKeys
        BY DEF KeysOf, SameTotals, AreRows
    <2>2. PICK s \in S : RowKey(s) = RowKey(r)
        BY <2>1 DEF KeysOf
    <2>3. SameKey(s, r) /\ s \in Hit(S)
        BY <1>2, <2>2, SameKeySameRow
    <2>4. Of(R, r) = OfKeys(R, {RowKey(r)}) /\ Of(S, s) = OfKeys(S, {RowKey(r)})
        BY <1>3, <2>2, <2>3
    <2>5. {RowKey(r)} \in SUBSET RowKeys
        BY <2>1
    <2>6. VolumeOf(Of(R, r)) = VolumeOf(Of(S, s)) /\ OrdersOf(Of(R, r)) = OrdersOf(Of(S, s))
        <3> HIDE DEF Of
        <3> QED
            BY <2>4, <2>5 DEF SameTotals
    <2>7. s.date = r.date /\ s.program = r.program /\ s.event = r.event
        BY <2>3 DEF SameKey
    <2> HIDE DEF Of, Hit
    <2> QED
        BY <2>3, <2>6, <2>7
<1> HIDE DEF RowFor, Hit
<1> QED
    BY <1>1, <1>4

LEMMA SummaryIncluded ==
    ASSUME NEW R, NEW S, AreRows(R), AreRows(S), SameTotals(R, S), NEW q, q.query = "summary"
    PROVE  SummaryRows(q, R) \subseteq SummaryRows(q, S)
<1> DEFINE Hit(T) == {r \in T : Matches(q, r)}
           Of(T, r, event) ==
             {x \in Hit(T) : x.date = r.date /\ x.program = r.program /\ x.event = event}
           Key(r, event) == {<<r.date, r.program, event>>} \cap RowKeys
           created(T, r) == VolumeOf(Of(T, r, "OrderCreated"))
           fulfilled(T, r) == VolumeOf(Of(T, r, "OrderFulfilled"))
           RowFor(T, r) ==
             [date |-> r.date, program |-> r.program,
              createdVolume |-> created(T, r),
              createdCount |-> OrdersOf(Of(T, r, "OrderCreated")),
              fulfilledVolume |-> fulfilled(T, r),
              fulfilledCount |-> OrdersOf(Of(T, r, "OrderFulfilled")),
              rate |-> FulfillmentRate(created(T, r), fulfilled(T, r))]
<1>1. \A T : SummaryRows(q, T) = {RowFor(T, r) : r \in Hit(T)}
    BY DEF SummaryRows
<1>2. ASSUME NEW r, NEW s, r.date = s.date, Matches(q, s) PROVE Matches(q, r)
    BY <1>2 DEF Matches
<1>3. ASSUME NEW T, AreRows(T), NEW r, Matches(q, r), NEW event
      PROVE  Of(T, r, event) = OfKeys(T, Key(r, event))
    <2>1. \A x \in T : x.date = r.date => Matches(q, x)
        BY <1>2, <1>3
    <2>2. \A x \in T : RowKey(x) \in RowKeys
        BY <1>3 DEF AreRows, KeysOf
    <2>3. \A x : RowKey(x) = <<r.date, r.program, event>>
                  <=> x.date = r.date /\ x.program = r.program /\ x.event = event
        BY DEF RowKey
    <2> QED
        BY <2>1, <2>2, <2>3 DEF OfKeys
<1>4. ASSUME NEW r \in Hit(R) PROVE \E s \in Hit(S) : RowFor(R, r) = RowFor(S, s)
    <2>1. RowKey(r) \in KeysOf(S)
        BY DEF KeysOf, SameTotals
    <2>2. PICK s \in S : RowKey(s) = RowKey(r)
        BY <2>1 DEF KeysOf
    <2>3. s.date = r.date /\ s.program = r.program
        BY <2>2 DEF RowKey
    <2>4. s \in Hit(S) /\ Matches(q, r) /\ Matches(q, s)
        BY <1>2, <2>3
    <2>5. ASSUME NEW event
          PROVE  /\ VolumeOf(Of(R, r, event)) = VolumeOf(Of(S, s, event))
                 /\ OrdersOf(Of(R, r, event)) = OrdersOf(Of(S, s, event))
        <3>1. Key(s, event) = Key(r, event) /\ Key(r, event) \in SUBSET RowKeys
            BY <2>3
        <3> HIDE DEF Of, Key, Hit
        <3>2. Of(R, r, event) = OfKeys(R, Key(r, event))
            BY <1>3, <2>4
        <3>3. Of(S, s, event) = OfKeys(S, Key(s, event))
            BY <1>3, <2>4
        <3> QED
            BY <3>1, <3>2, <3>3 DEF SameTotals
    <2> HIDE DEF Of, Hit
    <2> QED
        BY <2>3, <2>4, <2>5
<1> HIDE DEF RowFor, Hit
<1> QED
    BY <1>1, <1>4

LEMMA SameTotalStats ==
    ASSUME NEW R, NEW S, AreRows(R), AreRows(S), SameTotals(R, S)
    PROVE  TotalStats(R) = TotalStats(S)
<1> DEFINE Of(T, event) == {r \in T : r.event = event}
           Key(event) == {k \in RowKeys : k[3] = event}
<1>1. ASSUME NEW T, AreRows(T), NEW event PROVE Of(T, event) = OfKeys(T, Key(event))
    <2>1. \A x \in T : RowKey(x) \in RowKeys
        BY <1>1 DEF AreRows, KeysOf
    <2>2. \A x : RowKey(x)[3] = x.event
        BY DEF RowKey
    <2> QED
        BY <2>1, <2>2 DEF OfKeys
<1>2. ASSUME NEW event
      PROVE  /\ VolumeOf(Of(R, event)) = VolumeOf(Of(S, event))
             /\ OrdersOf(Of(R, event)) = OrdersOf(Of(S, event))
    <2>1. Key(event) \in SUBSET RowKeys
        OBVIOUS
    <2> HIDE DEF Of, Key
    <2>2. Of(R, event) = OfKeys(R, Key(event)) /\ Of(S, event) = OfKeys(S, Key(event))
        BY <1>1
    <2> QED
        BY <2>1, <2>2 DEF SameTotals
<1> QED
    BY <1>2 DEF TotalStats

LEMMA SameResults ==
    ASSUME NEW R, NEW S, AreRows(R), AreRows(S), SameTotals(R, S), NEW q \in Question
    PROVE  Results(q, R) = Results(q, S)
<1>1. SameTotals(S, R)
    BY DEF SameTotals
<1>2. DailyRows(q, R) = DailyRows(q, S) /\ TotalStats(R) = TotalStats(S)
    BY <1>1, DailyIncluded, SameTotalStats
<1>3. q.query = "summary" => SummaryRows(q, R) = SummaryRows(q, S)
    BY <1>1, SummaryIncluded
<1>4. q.query \in {"daily", "summary", "total-stats"}
    BY VolumeAssumption
<1> QED
    BY <1>2, <1>3, <1>4 DEF Results

-----------------------------------------------------------------------------
(* Cache keys: two questions with one key have the same results.           *)

LEMMA KeyTellsQuestion ==
    ASSUME NEW p \in Question, NEW q \in Question, BuildCacheKey(p) = BuildCacheKey(q)
    PROVE  /\ p.query = q.query
           /\ p.query # "total-stats" =>
                /\ p.limit = q.limit /\ p.eventType = q.eventType
                /\ p.fromDate = q.fromDate /\ p.toDate = q.toDate
<1>1. \A r : <<"query", r.query>> \in BuildCacheKey(r)
    BY DEF BuildCacheKey
<1>2. \A r, x : <<"query", x>> \in BuildCacheKey(r) => x = r.query
    BY DEF BuildCacheKey
<1>3. p.query = q.query
    BY <1>1, <1>2
<1>4. ASSUME p.query # "total-stats"
      PROVE  /\ p.limit = q.limit /\ p.eventType = q.eventType
             /\ p.fromDate = q.fromDate /\ p.toDate = q.toDate
    <2> DEFINE Parts(r) ==
                 {<<"query", r.query>>, <<"limit", r.limit>>}
                    \cup {<<"from", d>> : d \in {r.fromDate} \ {None}}
                    \cup {<<"to", d>> : d \in {r.toDate} \ {None}}
                    \cup {<<"type", e>> : e \in {r.eventType} \ {Any}}
    <2>1. Parts(p) = Parts(q)
        BY <1>3, <1>4 DEF BuildCacheKey
    <2>2. \A r, x :
            /\ <<"limit", x>> \in Parts(r) <=> x = r.limit
            /\ <<"from", x>> \in Parts(r) <=> x = r.fromDate /\ x # None
            /\ <<"to", x>> \in Parts(r) <=> x = r.toDate /\ x # None
            /\ <<"type", x>> \in Parts(r) <=> x = r.eventType /\ x # Any
        OBVIOUS
    <2> HIDE DEF Parts
    <2>3. p.limit = q.limit
        BY <2>1, <2>2
    <2>4. p.fromDate = q.fromDate
        BY <2>1, <2>2
    <2>5. p.toDate = q.toDate
        BY <2>1, <2>2
    <2>6. p.eventType = q.eventType
        BY <2>1, <2>2
    <2> QED
        BY <2>3, <2>4, <2>5, <2>6
<1> QED
    BY <1>3, <1>4

LEMMA KeyTellsResults ==
    ASSUME NEW p \in Question, NEW q \in Question, BuildCacheKey(p) = BuildCacheKey(q),
           NEW rows
    PROVE  Results(p, rows) = Results(q, rows)
<1>1. CASE q.query = "total-stats"
    BY <1>1, KeyTellsQuestion DEF Results
<1>2. CASE q.query # "total-stats"
    <2>1. /\ p.query = q.query /\ p.limit = q.limit /\ p.eventType = q.eventType
          /\ p.fromDate = q.fromDate /\ p.toDate = q.toDate
        BY <1>2, KeyTellsQuestion
    <2>2. \A r : Matches(p, r) <=> Matches(q, r)
        BY <2>1 DEF Matches
    <2>3. {r \in rows : Matches(p, r)} = {r \in rows : Matches(q, r)}
        BY <2>2
    <2>4. DailyRows(p, rows) = DailyRows(q, rows)
        BY <2>3 DEF DailyRows
    <2>5. SummaryRows(p, rows) = SummaryRows(q, rows)
        BY <2>3 DEF SummaryRows
    <2> QED
        BY <1>2, <2>1, <2>4, <2>5 DEF Results
<1> QED
    BY <1>1, <1>2

-----------------------------------------------------------------------------
(* The inductive invariant.                                                *)

CountersType == version \in 0..Len(Block) /\ faults \in 0..MaxFaults

\* The table has every insert or one that replaces it.  The view has rows with
\* numbers of their own, and the totals of the inserts.
DatabaseInv ==
    /\ table \in Tables(version)
    /\ AreRows(parts)
    /\ \A r \in parts : r.nr \in 1..version
    /\ \A a, b \in parts : a.nr = b.nr => a = b
    /\ SameTotals(parts, Unmerged(version))

IsCached(e) ==
    /\ e = [result |-> e.result, ttl |-> e.ttl] /\ e.ttl \in 0..Ttl
    /\ e.ttl = 0 => e = Empty

CacheType == DOMAIN redis = Keys /\ \A k \in Keys : IsCached(redis[k])

Phases == {"free", "reading", "querying", "scanning", "filling", "answered"}

IsRequest(r) ==
    /\ r = [pc |-> r.pc, q |-> r.q, result |-> r.result, held |-> r.held]
    /\ r.pc \in Phases /\ r.held \in 0..Delay
    /\ IF r.pc = "free" THEN r = Free ELSE r.q \in Question
    /\ r.pc = "scanning" => r.q.query = "total-stats"
    /\ r.pc # "filling" => r.held = 0

RequestType ==
    /\ DOMAIN request = Slot
    /\ \A s \in Slot : IsRequest(request[s])

\* A version that has not been replaced has no age.
AgesType ==
    /\ since \in [0..Len(Block) -> 0..Slack + 1]
    /\ \A v \in 0..Len(Block) : v >= version => since[v] = 0

\* A result of q on a version replaced at most `age' ticks ago.
AsOf(q, result, age) ==
    \E v \in 0..version : since[v] <= age /\ result \in ResultsAt[q][v]

\* What is being written to the cache is as old as the request has held it.
FillingIsRecent ==
    \A s \in Slot :
       request[s].pc = "filling" => AsOf(request[s].q, request[s].result, request[s].held)

\* An entry of the cache waited at most Delay before the time it has been there,
\* and it answers each question that has its key.
CachedIsRecent ==
    \A q \in Question :
       LET cached == redis[BuildCacheKey(q)] IN
       cached.ttl > 0 => AsOf(q, cached.result, Delay + (Ttl - cached.ttl))

FailuresAreRefusals ==
    /\ refused \in [Slot -> SUBSET {"view", "scan"}]
    /\ OnlyClickHouseFails

AnalyticsInv ==
    /\ CountersType /\ DatabaseInv /\ CacheType /\ RequestType /\ AgesType
    /\ FillingIsRecent /\ CachedIsRecent /\ FailuresAreRefusals

-----------------------------------------------------------------------------
(* The steps of a request, as the record it becomes.                       *)

Becomes(s, r) ==
    DOMAIN request' = Slot /\ \A t \in Slot : request'[t] = IF t = s THEN r ELSE request[t]

With(s, pc, result, held) ==
    [pc |-> pc, q |-> request[s].q, result |-> result, held |-> held]

LEMMA AnswerMakes ==
    ASSUME RequestType, NEW s \in Slot, NEW x, Answer(s, x)
    PROVE  Becomes(s, With(s, "answered", x, 0))
<1>1. request[s] = [pc |-> request[s].pc, q |-> request[s].q, result |-> request[s].result,
                    held |-> request[s].held]
    BY DEF RequestType, IsRequest
<1>2. PICK e : e = [request[s] EXCEPT !.pc = "answered", !.result = x, !.held = 0]
    OBVIOUS
<1>3. request' = [request EXCEPT ![s] = e]
    BY <1>2 DEF Answer
<1>4. e = With(s, "answered", x, 0)
    BY <1>1, <1>2 DEF With
<1> QED
    BY <1>3, <1>4 DEF Becomes, RequestType

LEMMA GoToMakes ==
    ASSUME RequestType, NEW s \in Slot, NEW pc, GoTo(s, pc)
    PROVE  Becomes(s, With(s, pc, request[s].result, request[s].held))
<1>1. request[s] = [pc |-> request[s].pc, q |-> request[s].q, result |-> request[s].result,
                    held |-> request[s].held]
    BY DEF RequestType, IsRequest
<1>2. request' = [request EXCEPT ![s] = [request[s] EXCEPT !.pc = pc]]
    BY DEF GoTo
<1>3. [request[s] EXCEPT !.pc = pc] = With(s, pc, request[s].result, request[s].held)
    BY <1>1 DEF With
<1> QED
    BY <1>2, <1>3 DEF Becomes, RequestType

LEMMA FillMakes ==
    ASSUME RequestType, NEW s \in Slot, NEW x, Fill(s, x)
    PROVE  Becomes(s, With(s, "filling", x, request[s].held))
<1>1. request[s] = [pc |-> request[s].pc, q |-> request[s].q, result |-> request[s].result,
                    held |-> request[s].held]
    BY DEF RequestType, IsRequest
<1>2. PICK e : e = [request[s] EXCEPT !.pc = "filling", !.result = x]
    OBVIOUS
<1>3. request' = [request EXCEPT ![s] = e]
    BY <1>2 DEF Fill
<1>4. e = With(s, "filling", x, request[s].held)
    BY <1>1, <1>2 DEF With
<1> QED
    BY <1>3, <1>4 DEF Becomes, RequestType

LEMMA PresentResults ==
    ASSUME CountersType, NEW q \in Question, NEW T \in Found(q, version),
           NEW x \in Results(q, RowsOf(T))
    PROVE  x \in ResultsAt[q][version]
BY DEF CountersType, ResultsAt

\* A query of the view finds what it would find on one row for each insert.
LEMMA ViewIsUnmerged ==
    ASSUME CountersType, DatabaseInv, NEW q \in Question
    PROVE  Results(q, parts) = Results(q, Unmerged(version))
BY UnmergedRows, SameResults DEF CountersType, DatabaseInv

\* What a query of the view or a scan finds is a result of the present version.
LEMMA ViewAnswers ==
    ASSUME CountersType, DatabaseInv, NEW q \in Question, NEW x \in Results(q, parts)
    PROVE  x \in ResultsAt[q][version]
<1>1. x \in Results(q, RowsOf(1..version))
    BY ViewIsUnmerged DEF Unmerged
<1>2. 1..version \in Found(q, version)
    BY WholeTable DEF Found
<1> QED
    BY <1>1, <1>2, PresentResults

LEMMA ScanAnswers ==
    ASSUME CountersType, DatabaseInv, NEW q \in Question, q.query = "total-stats"
    PROVE  TotalStats(RowsOf(table)) \in ResultsAt[q][version]
<1>1. table \in Found(q, version)
    BY DEF Found, DatabaseInv
<1>2. TotalStats(RowsOf(table)) \in Results(q, RowsOf(table))
    BY DEF Results
<1> QED
    BY <1>1, <1>2, PresentResults

\* What each step makes of its request; a result it gets is of the present version.
LEMMA GetFromCacheMakes ==
    ASSUME RequestType, CacheType, NEW s \in Slot, GetFromCache(s)
    PROVE  LET cached == redis[BuildCacheKey(request[s].q)] IN
           /\ request[s].pc = "reading"
           /\ \/ cached.ttl > 0 /\ Becomes(s, With(s, "answered", cached.result, 0))
              \/ Becomes(s, With(s, "querying", request[s].result, request[s].held))
<1>1. request[s].pc = "reading"
    BY DEF GetFromCache
<1>2. CASE /\ redis[BuildCacheKey(request[s].q)].ttl > 0
           /\ Answer(s, redis[BuildCacheKey(request[s].q)].result)
    BY <1>1, <1>2, AnswerMakes
<1>3. CASE GoTo(s, "querying")
    BY <1>1, <1>3, GoToMakes
<1> QED
    BY <1>2, <1>3 DEF GetFromCache

LEMMA QueryViewMakes ==
    ASSUME CountersType, DatabaseInv, RequestType, NEW s \in Slot, QueryView(s)
    PROVE  /\ request[s].pc = "querying" /\ request[s].q \in Question
           /\ \/ /\ \E x \in ResultsAt[request[s].q][version] :
                       Becomes(s, With(s, "filling", x, request[s].held))
                 /\ UNCHANGED refused
              \/ /\ IsTotal(s)
                 /\ Becomes(s, With(s, "scanning", request[s].result, request[s].held))
                 /\ refused' \in {refused, [refused EXCEPT ![s] = @ \cup {"view"}]}
              \/ /\ ~IsTotal(s) /\ Becomes(s, With(s, "answered", Failed, 0))
                 /\ refused' = [refused EXCEPT ![s] = @ \cup {"view"}]
<1>1. request[s].pc = "querying"
    BY DEF QueryView
<1>2. request[s].q \in Question
    BY <1>1 DEF RequestType, IsRequest
<1>3. CASE (\E x \in Results(request[s].q, parts) : Fill(s, x)) /\ UNCHANGED refused
    BY <1>1, <1>2, <1>3, ViewAnswers, FillMakes
<1>4. CASE /\ IsTotal(s) /\ GoTo(s, "scanning")
           /\ refused' \in {refused, [refused EXCEPT ![s] = @ \cup {"view"}]}
    BY <1>1, <1>2, <1>4, GoToMakes
<1>5. CASE /\ ~IsTotal(s) /\ Answer(s, Failed)
           /\ refused' = [refused EXCEPT ![s] = @ \cup {"view"}]
    BY <1>1, <1>2, <1>5, AnswerMakes
<1> QED
    BY <1>3, <1>4, <1>5 DEF QueryView

LEMMA ScanMakes ==
    ASSUME CountersType, DatabaseInv, RequestType, NEW s \in Slot, ScanTransactions(s)
    PROVE  /\ request[s].pc = "scanning" /\ request[s].q \in Question /\ IsTotal(s)
           /\ \/ /\ \E x \in ResultsAt[request[s].q][version] :
                       Becomes(s, With(s, "filling", x, request[s].held))
                 /\ UNCHANGED refused
              \/ /\ Becomes(s, With(s, "answered", Failed, 0))
                 /\ refused' = [refused EXCEPT ![s] = @ \cup {"scan"}]
<1>1. request[s].pc = "scanning"
    BY DEF ScanTransactions
<1>2. request[s].q \in Question /\ IsTotal(s)
    BY <1>1 DEF RequestType, IsRequest, IsTotal
<1>3. CASE Fill(s, TotalStats(RowsOf(table))) /\ UNCHANGED refused
    BY <1>1, <1>2, <1>3, ScanAnswers, FillMakes DEF IsTotal
<1>4. CASE Answer(s, Failed) /\ refused' = [refused EXCEPT ![s] = @ \cup {"scan"}]
    BY <1>1, <1>2, <1>4, AnswerMakes
<1> QED
    BY <1>3, <1>4 DEF ScanTransactions

LEMMA SetCacheMakes ==
    ASSUME RequestType, NEW s \in Slot, SetCache(s)
    PROVE  /\ request[s].pc = "filling" /\ request[s].q \in Question
           /\ Becomes(s, With(s, "answered", request[s].result, 0))
           /\ \/ redis' = redis
              \/ redis' = [redis EXCEPT ![BuildCacheKey(request[s].q)] =
                                          Cached(request[s].result)]
<1>1. request[s].pc = "filling" /\ Answer(s, request[s].result)
    BY DEF SetCache
<1>2. request[s].q \in Question
    BY <1>1 DEF RequestType, IsRequest
<1>3. Becomes(s, With(s, "answered", request[s].result, 0))
    BY <1>1, AnswerMakes
<1> QED
    BY <1>1, <1>2, <1>3 DEF SetCache

LEMMA AskMakes ==
    ASSUME RequestType, NEW s \in Slot, NEW q \in Question, Ask(s, q)
    PROVE  /\ request[s].pc = "free"
           /\ Becomes(s, [pc |-> "reading", q |-> q, result |-> NoReply, held |-> 0])
<1>1. PICK e : e = [Free EXCEPT !.pc = "reading", !.q = q]
    OBVIOUS
<1>2. e = [pc |-> "reading", q |-> q, result |-> NoReply, held |-> 0]
    BY <1>1 DEF Free
<1>3. request[s].pc = "free" /\ request' = [request EXCEPT ![s] = e]
    BY <1>1 DEF Ask
<1> QED
    BY <1>2, <1>3 DEF Becomes, RequestType

LEMMA DeliverMakes ==
    ASSUME RequestType, NEW s \in Slot, Deliver(s)
    PROVE  request[s].pc = "answered" /\ Becomes(s, Free)
BY DEF Deliver, Becomes, RequestType

-----------------------------------------------------------------------------
(* One lemma for each part of the invariant.                               *)

LEMMA CountersStep == CountersType /\ [Next]_vars => CountersType'
<1> SUFFICES ASSUME CountersType, [Next]_vars PROVE CountersType'
    OBVIOUS
<1> USE VolumeAssumption, AnalyticsAssumption DEF CountersType
<1>1. CASE InsertBlock
    BY <1>1 DEF InsertBlock
<1>2. CASE UNCHANGED version /\ (UNCHANGED faults \/ Fault)
    BY <1>2 DEF Fault
<1> QED
    BY <1>1, <1>2
       DEF Next, vars, databaseVars, Tick, ReplaceRow, MergeParts, Handle, GetFromCache, QueryView,
           ScanTransactions, SetCache, Deliver, Ask

LEMMA ViewStep == CountersType /\ DatabaseInv /\ [Next]_vars => DatabaseInv'
<1> SUFFICES ASSUME CountersType, DatabaseInv, [Next]_vars PROVE DatabaseInv'
    OBVIOUS
<1>0. AreRows(Unmerged(version))
    BY UnmergedRows DEF CountersType
<1>1. CASE InsertBlock
    <2> DEFINE n == RowOf(version + 1)
    <2>1. /\ version \in Nat /\ version + 1 \in 1..Len(Block) /\ version' = version + 1
          /\ parts' = parts \cup RowsOf({version + 1}) /\ table' = table \cup {version + 1}
        BY <1>1, VolumeAssumption DEF InsertBlock, CountersType
    <2>2. n \in Row /\ n.nr = version + 1 /\ RowKey(n) \in RowKeys
        BY <2>1, RowsOfInserts
    <2>3. Unmerged(version + 1) = Unmerged(version) \cup RowsOf({version + 1})
        <3>1. 1..version + 1 = (1..version) \cup {version + 1}
            BY <2>1
        <3> QED
            BY <3>1 DEF Unmerged, RowsOf
    <2>4. table' \in Tables(version')
        BY <2>1, TablesGrow DEF DatabaseInv
    <2>5. CASE RowsOf({version + 1}) = {}
        <3>1. parts' = parts /\ Unmerged(version') = Unmerged(version)
            BY <2>1, <2>3, <2>5
        <3>2. \A r \in parts' : r.nr \in 1..version'
            BY <2>1, <3>1 DEF DatabaseInv
        <3> QED
            BY <2>4, <3>1, <3>2 DEF DatabaseInv
    <2>6. CASE RowsOf({version + 1}) = {n}
        <3> HIDE DEF n
        <3>1. n \notin parts
            BY <2>1, <2>2 DEF DatabaseInv
        <3>2. n \notin Unmerged(version)
            BY <2>1, <2>2, UnmergedRows DEF CountersType
        <3>3. AreRows(parts \cup {n}) /\ SameTotals(parts \cup {n}, Unmerged(version) \cup {n})
            BY <1>0, <2>2, <3>1, <3>2, InsertKeepsTotals DEF DatabaseInv
        <3>4. AreRows(parts') /\ SameTotals(parts', Unmerged(version'))
            BY <2>1, <2>3, <2>6, <3>3
        <3>5. parts' = parts \cup {n} /\ \A r \in parts : r.nr \in 1..version /\ r.nr # n.nr
            <4>1. parts' = parts \cup {n}
                BY <2>1, <2>6
            <4>2. \A r \in parts : r.nr \in 1..version
                BY DEF DatabaseInv
            <4>3. \A i \in 1..version : i # version + 1
                BY <2>1
            <4> QED
                BY <2>2, <4>1, <4>2, <4>3
        <3>6. \A r \in parts' : r.nr \in 1..version'
            BY <2>1, <2>2, <3>5
        <3>7. \A a, b \in parts' : a.nr = b.nr => a = b
            BY <3>5 DEF DatabaseInv
        <3> QED
            BY <2>4, <3>4, <3>6, <3>7 DEF DatabaseInv
    <2>7. RowsOf({version + 1}) = {} \/ RowsOf({version + 1}) = {n}
        BY DEF RowsOf
    <2> QED
        BY <2>5, <2>6, <2>7
<1>2. ASSUME NEW a \in parts, NEW b \in parts, MergeParts(a, b) PROVE DatabaseInv'
    <2> DEFINE m == MergedRow(a, b)
               merged == (parts \ {a, b}) \cup {m}
    <2>1. /\ a.nr < b.nr /\ SameKey(a, b) /\ parts' = merged /\ version' = version
          /\ table' = table
        BY <1>2 DEF MergeParts
    <2>2. AreRows(merged) /\ SameTotals(merged, parts) /\ m.nr = a.nr
        BY <2>1, MergeKeepsTotals DEF DatabaseInv
    <2>3. SameTotals(merged, Unmerged(version))
        BY <2>2 DEF SameTotals, DatabaseInv
    <2> HIDE DEF m
    <2>4. \A r \in merged : r.nr \in 1..version
        BY <2>2 DEF DatabaseInv
    <2>5. \A x, y \in merged : x.nr = y.nr => x = y
        BY <2>2 DEF DatabaseInv
    <2> HIDE DEF merged
    <2>6. AreRows(parts') /\ SameTotals(parts', Unmerged(version'))
        BY <2>1, <2>2, <2>3
    <2> QED
        BY <2>1, <2>4, <2>5, <2>6 DEF DatabaseInv
<1>3. ASSUME NEW new \in table, NEW old \in table, ReplaceRow(new, old) PROVE DatabaseInv'
    <2>1. version \in Nat
        BY VolumeAssumption DEF CountersType
    <2>2. table' \in Tables(version)
        BY <1>3, <2>1, TablesShrink DEF ReplaceRow, DatabaseInv
    <2> QED
        BY <1>3, <2>2 DEF ReplaceRow, DatabaseInv
<1>4. CASE UNCHANGED databaseVars
    BY <1>4 DEF databaseVars, DatabaseInv
<1> QED
    BY <1>1, <1>2, <1>3, <1>4
       DEF Next, vars, Tick, Handle, GetFromCache, QueryView, ScanTransactions, SetCache,
           Deliver, Ask

LEMMA CachedEntry ==
    ASSUME NEW x PROVE IsCached(Cached(x)) /\ Cached(x).ttl = Ttl /\ Cached(x).result = x
BY AnalyticsAssumption DEF IsCached, Cached

LEMMA EmptyEntry == IsCached(Empty) /\ Empty.ttl = 0
BY AnalyticsAssumption DEF IsCached, Empty

\* A tick takes one from the time left, and the entry with none left is gone.
LEMMA TickOnCache ==
    ASSUME CacheType, Tick
    PROVE  /\ DOMAIN redis' = Keys
           /\ \A k \in Keys :
                \/ /\ redis[k].ttl > 1 /\ redis'[k].ttl = redis[k].ttl - 1
                   /\ redis'[k].result = redis[k].result /\ IsCached(redis'[k])
                \/ redis'[k] = Empty
<1>1. DOMAIN redis = Keys
    BY DEF CacheType
<1>2. ASSUME NEW k \in Keys, redis[k].ttl > 1
      PROVE  /\ redis'[k].ttl = redis[k].ttl - 1 /\ redis'[k].result = redis[k].result
             /\ IsCached(redis'[k])
    <2>1. PICK e : e = redis[k]
        OBVIOUS
    <2>2. IsCached(e) /\ e.ttl > 1
        BY <1>2, <2>1 DEF CacheType
    <2>3. PICK f : f = [e EXCEPT !.ttl = e.ttl - 1]
        OBVIOUS
    <2>4. redis'[k] = f
        BY <1>1, <1>2, <2>1, <2>3 DEF Tick
    <2>5. f = [result |-> f.result, ttl |-> f.ttl] /\ f.ttl = e.ttl - 1 /\ f.result = e.result
        BY <2>2, <2>3 DEF IsCached
    <2>6. f.ttl \in 0..Ttl /\ f.ttl # 0
        BY <2>2, <2>5, AnalyticsAssumption DEF IsCached
    <2>7. IsCached(f)
        BY <2>5, <2>6 DEF IsCached
    <2> QED
        BY <2>1, <2>4, <2>5, <2>7
<1>3. ASSUME NEW k \in Keys, ~(redis[k].ttl > 1) PROVE redis'[k] = Empty
    BY <1>1, <1>3 DEF Tick
<1>4. DOMAIN redis' = Keys
    BY <1>1 DEF Tick
<1> QED
    BY <1>2, <1>3, <1>4

LEMMA CacheStep == CacheType /\ RequestType /\ [Next]_vars => CacheType'
<1> SUFFICES ASSUME CacheType, RequestType, [Next]_vars PROVE CacheType'
    OBVIOUS
<1>1. CASE Tick
    BY <1>1, TickOnCache, EmptyEntry DEF CacheType
<1>2. ASSUME NEW s \in Slot, SetCache(s) PROVE CacheType'
    <2>1. PICK e : e = Cached(request[s].result)
        OBVIOUS
    <2>2. /\ IsCached(e)
          /\ redis' = redis \/ redis' = [redis EXCEPT ![BuildCacheKey(request[s].q)] = e]
        BY <1>2, <2>1, CachedEntry, SetCacheMakes
    <2> QED
        BY <2>2 DEF CacheType
<1>3. CASE UNCHANGED redis
    BY <1>3 DEF CacheType
<1> QED
    BY <1>1, <1>2, <1>3
       DEF Next, vars, InsertBlock, ReplaceRow, MergeParts, Handle, GetFromCache, QueryView,
           ScanTransactions, Deliver, Ask

LEMMA OneRequest ==
    ASSUME RequestType, NEW s \in Slot, NEW r, Becomes(s, r), IsRequest(r)
    PROVE  RequestType'
BY DEF RequestType, Becomes

\* A tick counts for what is being written to the cache.
LEMMA TickOnRequests ==
    ASSUME RequestType, Tick
    PROVE  /\ DOMAIN request' = Slot
           /\ \A s \in Slot :
                \/ /\ request[s].pc = "filling"
                   /\ request'[s] = With(s, "filling", request[s].result, request[s].held + 1)
                   /\ request[s].held + 1 \in 0..Delay
                \/ request[s].pc # "filling" /\ request'[s] = request[s]
<1>1. ASSUME NEW s \in Slot, request[s].pc = "filling"
      PROVE  /\ request'[s] = With(s, "filling", request[s].result, request[s].held + 1)
             /\ request[s].held + 1 \in 0..Delay
    <2>1. PICK r : r = request[s]
        OBVIOUS
    <2>2. /\ r = [pc |-> "filling", q |-> r.q, result |-> r.result, held |-> r.held]
          /\ r.held \in 0..Delay
        BY <1>1, <2>1 DEF RequestType, IsRequest
    <2>3. r.held < Delay
        BY <1>1, <2>1 DEF Tick
    <2>4. PICK e : e = [r EXCEPT !.held = r.held + 1]
        OBVIOUS
    <2>5. request'[s] = e
        BY <1>1, <2>1, <2>4 DEF Tick
    <2>6. e = [pc |-> "filling", q |-> r.q, result |-> r.result, held |-> r.held + 1]
        BY <2>2, <2>4
    <2> QED
        BY <2>1, <2>2, <2>3, <2>5, <2>6, AnalyticsAssumption DEF With
<1>2. ASSUME NEW s \in Slot, request[s].pc # "filling" PROVE request'[s] = request[s]
    BY <1>2 DEF Tick
<1> QED
    BY <1>1, <1>2 DEF Tick

LEMMA RequestStep ==
    CountersType /\ DatabaseInv /\ CacheType /\ RequestType /\ [Next]_vars => RequestType'
<1> SUFFICES ASSUME CountersType, DatabaseInv, CacheType, RequestType, [Next]_vars
             PROVE  RequestType'
    OBVIOUS
<1>1. ASSUME NEW s \in Slot, NEW pc, NEW x, NEW h, Becomes(s, With(s, pc, x, h)),
             request[s].q \in Question, pc \in Phases \ {"free"}, h \in 0..Delay,
             pc = "scanning" => IsTotal(s), pc # "filling" => h = 0
      PROVE  RequestType'
    <2>1. PICK r : r = With(s, pc, x, h)
        OBVIOUS
    <2>2. /\ r = [pc |-> r.pc, q |-> r.q, result |-> r.result, held |-> r.held]
          /\ r.pc = pc /\ r.q = request[s].q /\ r.held = h
        BY <2>1 DEF With
    <2>3. IsRequest(r)
        BY <1>1, <2>2 DEF IsRequest, IsTotal, Phases
    <2> QED
        BY <1>1, <2>1, <2>3, OneRequest
<1>2. \A s \in Slot : request[s].pc # "free" => request[s].q \in Question
    BY DEF RequestType, IsRequest
<1>3. \A s \in Slot : request[s].pc # "filling" => request[s].held = 0
    BY DEF RequestType, IsRequest
<1>4. 0 \in 0..Delay
    BY AnalyticsAssumption
<1>5. CASE Tick
    <2>1. ASSUME NEW s \in Slot PROVE IsRequest(request'[s])
        <3>1. CASE request[s].pc # "filling"
            BY <1>5, <3>1, TickOnRequests DEF RequestType
        <3>2. CASE request[s].pc = "filling"
            <4>1. /\ request'[s] = With(s, "filling", request[s].result, request[s].held + 1)
                  /\ request[s].held + 1 \in 0..Delay
                BY <1>5, <3>2, TickOnRequests
            <4>2. PICK r : r = request'[s]
                OBVIOUS
            <4>3. /\ r = [pc |-> r.pc, q |-> r.q, result |-> r.result, held |-> r.held]
                  /\ r.pc = "filling" /\ r.q = request[s].q /\ r.held \in 0..Delay
                BY <4>1, <4>2 DEF With
            <4>4. IsRequest(r)
                BY <1>2, <3>2, <4>3 DEF IsRequest, Phases
            <4> QED
                BY <4>2, <4>4
        <3> QED
            BY <3>1, <3>2
    <2> QED
        BY <1>5, <2>1, TickOnRequests DEF RequestType
<1>6. ASSUME NEW s \in Slot, GetFromCache(s) PROVE RequestType'
    BY <1>1, <1>2, <1>3, <1>4, <1>6, GetFromCacheMakes DEF Phases
<1>7. ASSUME NEW s \in Slot, QueryView(s) PROVE RequestType'
    <2>1. request[s].q \in Question /\ request[s].held = 0
        BY <1>3, <1>7, QueryViewMakes
    <2>2. CASE \E x : Becomes(s, With(s, "filling", x, request[s].held))
        BY <1>1, <1>4, <2>1, <2>2 DEF Phases
    <2>3. CASE /\ IsTotal(s)
               /\ Becomes(s, With(s, "scanning", request[s].result, request[s].held))
        BY <1>1, <1>4, <2>1, <2>3 DEF Phases
    <2>4. CASE Becomes(s, With(s, "answered", Failed, 0))
        BY <1>1, <1>4, <2>1, <2>4 DEF Phases
    <2> QED
        BY <1>7, <2>2, <2>3, <2>4, QueryViewMakes
<1>8. ASSUME NEW s \in Slot, ScanTransactions(s) PROVE RequestType'
    BY <1>1, <1>2, <1>3, <1>4, <1>8, ScanMakes DEF Phases
<1>9. ASSUME NEW s \in Slot, SetCache(s) PROVE RequestType'
    BY <1>1, <1>2, <1>4, <1>9, SetCacheMakes DEF Phases
<1>10. ASSUME NEW s \in Slot, NEW q \in Question, Ask(s, q) PROVE RequestType'
    <2>1. PICK r : r = [pc |-> "reading", q |-> q, result |-> NoReply, held |-> 0]
        OBVIOUS
    <2>2. IsRequest(r)
        BY <1>4, <2>1 DEF IsRequest, Phases
    <2> QED
        BY <1>10, <2>1, <2>2, AskMakes, OneRequest
<1>11. ASSUME NEW s \in Slot, Deliver(s) PROVE RequestType'
    <2>1. IsRequest(Free)
        BY <1>4 DEF IsRequest, Phases, Free
    <2> QED
        BY <1>11, <2>1, DeliverMakes, OneRequest
<1>12. CASE UNCHANGED request
    BY <1>12 DEF RequestType
<1> QED
    BY <1>5, <1>6, <1>7, <1>8, <1>9, <1>10, <1>11, <1>12
       DEF Next, vars, InsertBlock, ReplaceRow, MergeParts, Handle

\* The version and the ages change together.
LEMMA AgeSteps ==
    [Next]_vars =>
       \/ InsertBlock
       \/ Tick
       \/ UNCHANGED <<version, since>>
BY DEF Next, vars, databaseVars, ReplaceRow, MergeParts, Handle, GetFromCache, QueryView,
       ScanTransactions, SetCache, Deliver, Ask

LEMMA SlackIsLong == Slack \in Nat /\ Slack >= Delay
BY AnalyticsAssumption DEF Slack

LEMMA TickOnAges ==
    ASSUME AgesType, CountersType, Tick, NEW v \in 0..Len(Block)
    PROVE  /\ since'[v] = IF v < version /\ since[v] <= Slack THEN since[v] + 1 ELSE since[v]
           /\ since'[v] \in 0..Slack + 1 /\ since'[v] <= since[v] + 1 /\ version' = version
<1>1. since'[v] = IF v < version /\ since[v] <= Slack THEN since[v] + 1 ELSE since[v]
    BY DEF Tick, AgesType
<1>2. since[v] \in 0..Slack + 1
    BY DEF AgesType
<1>3. since'[v] \in 0..Slack + 1 /\ since'[v] <= since[v] + 1
    BY <1>1, <1>2, SlackIsLong
<1> QED
    BY <1>1, <1>3 DEF Tick, databaseVars

LEMMA AgesStep == CountersType /\ AgesType /\ [Next]_vars => AgesType'
<1> SUFFICES ASSUME CountersType, AgesType, [Next]_vars PROVE AgesType'
    OBVIOUS
<1>1. CASE InsertBlock
    BY <1>1, VolumeAssumption DEF InsertBlock, AgesType, CountersType
<1>2. CASE Tick
    <2>1. DOMAIN since' = 0..Len(Block) /\ since' = [v \in DOMAIN since' |-> since'[v]]
        BY <1>2 DEF Tick, AgesType
    <2>2. since' \in [0..Len(Block) -> 0..Slack + 1]
        BY <1>2, <2>1, TickOnAges
    <2>3. ASSUME NEW v \in 0..Len(Block), v >= version' PROVE since'[v] = 0
        BY <1>2, <2>3, TickOnAges, VolumeAssumption DEF AgesType, CountersType
    <2> QED
        BY <2>2, <2>3 DEF AgesType
<1>3. CASE UNCHANGED <<version, since>>
    BY <1>3 DEF AgesType
<1> QED
    BY <1>1, <1>2, <1>3, AgeSteps

\* A result of the present version is of no age.
LEMMA PresentIsNew ==
    ASSUME CountersType, AgesType, NEW q, NEW x \in ResultsAt[q][version], NEW n \in Nat
    PROVE  AsOf(q, x, n)
<1>1. version \in 0..version /\ version \in 0..Len(Block) /\ version >= version
    BY VolumeAssumption DEF CountersType
<1>2. since[version] = 0
    BY <1>1 DEF AgesType
<1>3. since[version] <= n
    BY <1>2
<1> QED
    BY <1>1, <1>3 DEF AsOf

\* Only a tick makes a result older, and by one.
LEMMA AgeIsKept ==
    ASSUME CountersType, AgesType, [Next]_vars, ~Tick,
           NEW q, NEW x, NEW n, AsOf(q, x, n)
    PROVE  AsOf(q, x, n)'
<1>1. PICK v \in 0..version : since[v] <= n /\ x \in ResultsAt[q][v]
    BY DEF AsOf
<1>2. UNCHANGED since /\ v \in 0..version'
    BY AgeSteps, VolumeAssumption DEF InsertBlock, CountersType
<1> QED
    BY <1>1, <1>2 DEF AsOf

LEMMA AgeOneMore ==
    ASSUME CountersType, AgesType, Tick, NEW q, NEW x, NEW n \in Nat, AsOf(q, x, n)
    PROVE  AsOf(q, x, n + 1)'
<1>1. PICK v \in 0..version : since[v] <= n /\ x \in ResultsAt[q][v]
    BY DEF AsOf
<1>2. v \in 0..Len(Block) /\ since[v] \in 0..Slack + 1
    BY VolumeAssumption DEF CountersType, AgesType
<1>3. since'[v] \in 0..Slack + 1 /\ since'[v] <= since[v] + 1 /\ version' = version
    BY <1>2, TickOnAges
<1>4. PICK i, j : i = since'[v] /\ j = since[v]
    OBVIOUS
<1>5. i <= n + 1
    <2>1. i \in Int /\ j \in Int /\ i <= j + 1 /\ j <= n
        BY <1>1, <1>2, <1>3, <1>4, SlackIsLong
    <2> QED
        BY <2>1
<1> QED
    BY <1>1, <1>3, <1>4, <1>5 DEF AsOf

LEMMA FillingStep ==
    /\ CountersType /\ DatabaseInv /\ CacheType /\ RequestType /\ AgesType
    /\ FillingIsRecent /\ [Next]_vars
    => FillingIsRecent'
<1> SUFFICES ASSUME CountersType, DatabaseInv, CacheType, RequestType, AgesType,
                    FillingIsRecent, [Next]_vars,
                    NEW s \in Slot, request'[s].pc = "filling"
             PROVE  AsOf(request[s].q, request[s].result, request[s].held)'
    BY DEF FillingIsRecent
<1> DEFINE Goal == AsOf(request[s].q, request[s].result, request[s].held)'
<1>1. ASSUME NEW q, NEW x, NEW n, request'[s].q = q, request'[s].result = x,
             request'[s].held = n, AsOf(q, x, n)'
      PROVE  Goal
    BY <1>1 DEF AsOf
<1>2. ASSUME request[s].pc = "filling", request'[s] = request[s], ~Tick PROVE Goal
    <2>1. AsOf(request[s].q, request[s].result, request[s].held)
        BY <1>2 DEF FillingIsRecent
    <2>2. PICK q, x, n : q = request[s].q /\ x = request[s].result /\ n = request[s].held
        OBVIOUS
    <2>3. AsOf(q, x, n)
        BY <2>1, <2>2
    <2>4. AsOf(q, x, n)'
        BY <1>2, <2>3, AgeIsKept
    <2> QED
        BY <1>1, <1>2, <2>2, <2>4
<1>3. CASE Tick
    <2>1. request[s].pc = "filling"
        BY <1>3, TickOnRequests
    <2>2. PICK q, x, n : q = request[s].q /\ x = request[s].result /\ n = request[s].held
        OBVIOUS
    <2>3. n \in Nat
        BY <2>2, AnalyticsAssumption DEF RequestType, IsRequest
    <2>4. AsOf(q, x, n)
        BY <2>1, <2>2 DEF FillingIsRecent
    <2>5. AsOf(q, x, n + 1)'
        BY <1>3, <2>3, <2>4, AgeOneMore
    <2>6. request'[s].q = q /\ request'[s].result = x /\ request'[s].held = n + 1
        BY <1>3, <2>1, <2>2, TickOnRequests DEF With
    <2> QED
        BY <1>1, <2>5, <2>6
<1>4. ASSUME ~Tick, UNCHANGED <<version, since>>, request[s].held = 0,
             request[s].q \in Question,
             \E x \in ResultsAt[request[s].q][version] :
                Becomes(s, With(s, "filling", x, request[s].held))
      PROVE  Goal
    <2>1. PICK x \in ResultsAt[request[s].q][version] :
             Becomes(s, With(s, "filling", x, request[s].held))
        BY <1>4
    <2>2. PICK q : q = request[s].q
        OBVIOUS
    <2>3. request'[s].q = q /\ request'[s].result = x /\ request'[s].held = 0
        <3>1. request'[s] = With(s, "filling", x, request[s].held)
            BY <2>1 DEF Becomes
        <3> QED
            BY <1>4, <2>2, <3>1 DEF With
    <2>4. AsOf(q, x, 0)
        BY <2>1, <2>2, PresentIsNew
    <2>5. AsOf(q, x, 0)'
        BY <1>4, <2>4, AgeIsKept
    <2> QED
        BY <1>1, <2>3, <2>5
<1> HIDE DEF Goal
<1>5. \A t \in Slot : request[t].pc # "filling" => request[t].held = 0
    BY DEF RequestType, IsRequest
<1>6. ASSUME NEW t \in Slot, QueryView(t), ~Tick PROVE Goal
    <2>1. CASE t = s
        <3>1. \/ \E x \in ResultsAt[request[s].q][version] :
                     Becomes(s, With(s, "filling", x, request[s].held))
              \/ Becomes(s, With(s, "scanning", request[s].result, request[s].held))
              \/ Becomes(s, With(s, "answered", Failed, 0))
            BY <1>6, <2>1, QueryViewMakes
        <3>2. request[s].held = 0 /\ request[s].q \in Question
            BY <1>5, <1>6, <2>1, QueryViewMakes
        <3>3. UNCHANGED <<version, since>>
            BY <1>6 DEF QueryView, databaseVars
        <3>4. ~Becomes(s, With(s, "scanning", request[s].result, request[s].held))
            BY DEF Becomes, With
        <3>5. ~Becomes(s, With(s, "answered", Failed, 0))
            BY DEF Becomes, With
        <3> QED
            BY <1>4, <1>6, <3>1, <3>2, <3>3, <3>4, <3>5
    <2>2. CASE t # s
        <3>1. request'[s] = request[s]
            BY <1>6, <2>2, QueryViewMakes DEF Becomes
        <3> QED
            BY <1>2, <1>6, <3>1
    <2> QED
        BY <2>1, <2>2
<1>7. ASSUME NEW t \in Slot, ScanTransactions(t), ~Tick PROVE Goal
    <2>1. CASE t = s
        <3>1. \/ \E x \in ResultsAt[request[s].q][version] :
                     Becomes(s, With(s, "filling", x, request[s].held))
              \/ Becomes(s, With(s, "answered", Failed, 0))
            BY <1>7, <2>1, ScanMakes
        <3>2. request[s].held = 0 /\ request[s].q \in Question
            BY <1>5, <1>7, <2>1, ScanMakes
        <3>3. UNCHANGED <<version, since>>
            BY <1>7 DEF ScanTransactions, databaseVars
        <3>4. ~Becomes(s, With(s, "answered", Failed, 0))
            BY DEF Becomes, With
        <3> QED
            BY <1>4, <1>7, <3>1, <3>2, <3>3, <3>4
    <2>2. CASE t # s
        <3>1. request'[s] = request[s]
            BY <1>7, <2>2, ScanMakes DEF Becomes
        <3> QED
            BY <1>2, <1>7, <3>1
    <2> QED
        BY <2>1, <2>2
<1>8. ASSUME NEW t \in Slot, NEW pc, NEW x, NEW h, pc # "filling",
             Becomes(t, With(t, pc, x, h)), ~Tick
      PROVE  Goal
    <2>1. t # s /\ request'[s] = request[s]
        BY <1>8 DEF Becomes, With
    <2> QED
        BY <1>2, <1>8, <2>1
<1>9. ASSUME NEW t \in Slot, GetFromCache(t), ~Tick PROVE Goal
    BY <1>8, <1>9, GetFromCacheMakes
<1>10. ASSUME NEW t \in Slot, SetCache(t), ~Tick PROVE Goal
    BY <1>8, <1>10, SetCacheMakes
<1>11. ASSUME NEW t \in Slot, NEW r, r.pc # "filling", Becomes(t, r), ~Tick PROVE Goal
    <2>1. t # s /\ request'[s] = request[s]
        BY <1>11 DEF Becomes
    <2> QED
        BY <1>2, <1>11, <2>1
<1>12. ASSUME NEW t \in Slot, NEW q \in Question, Ask(t, q), ~Tick PROVE Goal
    BY <1>11, <1>12, AskMakes
<1>13. ASSUME NEW t \in Slot, Deliver(t), ~Tick PROVE Goal
    <2>1. Free.pc # "filling"
        BY DEF Free
    <2> QED
        BY <1>11, <1>13, <2>1, DeliverMakes
<1>14. ASSUME UNCHANGED request, ~Tick PROVE Goal
    BY <1>2, <1>14
<1> QED
    BY <1>3, <1>6, <1>7, <1>9, <1>10, <1>12, <1>13, <1>14
       DEF Next, vars, InsertBlock, ReplaceRow, MergeParts, Handle, Goal

\* Questions that share a cache key share the results of each version.
LEMMA KeySharesAges ==
    ASSUME CountersType, NEW p \in Question, NEW q \in Question,
           BuildCacheKey(p) = BuildCacheKey(q), NEW x, NEW m, NEW n,
           AsOf(p, x, m), m \in Nat, n \in Nat, m <= n, AgesType
    PROVE  AsOf(q, x, n)
<1>1. PICK v \in 0..version : since[v] <= m /\ x \in ResultsAt[p][v]
    BY DEF AsOf
<1>2. v \in 0..Len(Block) /\ since[v] \in Int
    BY VolumeAssumption, SlackIsLong DEF CountersType, AgesType
<1>3. ResultsAt[p][v] = ResultsAt[q][v]
    <2>1. \A T : Results(p, RowsOf(T)) = Results(q, RowsOf(T))
        BY KeyTellsResults
    <2>2. Found(p, v) = Found(q, v)
        BY KeyTellsQuestion DEF Found
    <2> QED
        BY <1>2, <2>1, <2>2 DEF ResultsAt
<1>4. since[v] <= n
    <2>1. PICK i : i = since[v]
        OBVIOUS
    <2> QED
        BY <1>1, <1>2, <2>1
<1> QED
    BY <1>1, <1>3, <1>4 DEF AsOf

LEMMA CachedStep ==
    /\ CountersType /\ CacheType /\ RequestType /\ AgesType
    /\ FillingIsRecent /\ CachedIsRecent /\ [Next]_vars
    => CachedIsRecent'
<1> SUFFICES ASSUME CountersType, CacheType, RequestType, AgesType,
                    FillingIsRecent, CachedIsRecent, [Next]_vars,
                    NEW q \in Question, redis'[BuildCacheKey(q)].ttl > 0
             PROVE  AsOf(q, redis[BuildCacheKey(q)].result,
                         Delay + (Ttl - redis[BuildCacheKey(q)].ttl))'
    BY DEF CachedIsRecent
<1> DEFINE key == BuildCacheKey(q)
           Goal == AsOf(q, redis[key].result, Delay + (Ttl - redis[key].ttl))'
<1>0. key \in Keys /\ IsCached(redis[key])
    BY DEF Keys, CacheType
<1>1. ASSUME NEW x, NEW n, redis'[key].result = x, Delay + (Ttl - redis'[key].ttl) = n,
             AsOf(q, x, n)'
      PROVE  Goal
    BY <1>1 DEF AsOf
<1>2. ASSUME ~Tick, redis'[key] = redis[key] PROVE Goal
    <2>1. PICK x, n : x = redis[key].result /\ n = Delay + (Ttl - redis[key].ttl)
        OBVIOUS
    <2>2. redis[key].ttl > 0
        BY <1>2
    <2>3. AsOf(q, x, n)
        BY <2>1, <2>2 DEF CachedIsRecent
    <2>4. AsOf(q, x, n)'
        BY <1>2, <2>3, AgeIsKept
    <2> QED
        BY <1>1, <1>2, <2>1, <2>4
<1> HIDE DEF key, Goal
<1>3. ASSUME Tick PROVE Goal
    <2>1. redis'[key] # Empty
        BY EmptyEntry DEF key
    <2>2. /\ redis[key].ttl > 1 /\ redis'[key].ttl = redis[key].ttl - 1
          /\ redis'[key].result = redis[key].result
        BY <1>0, <1>3, <2>1, TickOnCache
    <2>3. PICK x, t : x = redis[key].result /\ t = redis[key].ttl
        OBVIOUS
    <2>4. t \in 0..Ttl /\ t > 1
        BY <1>0, <2>2, <2>3 DEF IsCached
    <2>5. AsOf(q, x, Delay + (Ttl - t))
        <3>1. redis[key].ttl > 0
            BY <2>3, <2>4, AnalyticsAssumption
        <3> QED
            BY <2>3, <3>1 DEF CachedIsRecent, key
    <2>6. PICK n : n = Delay + (Ttl - t)
        OBVIOUS
    <2>7. n \in Nat
        BY <2>4, <2>6, AnalyticsAssumption
    <2>8. AsOf(q, x, n + 1)'
        BY <1>3, <2>5, <2>6, <2>7, AgeOneMore
    <2>9. Delay + (Ttl - redis'[key].ttl) = n + 1
        BY <2>2, <2>3, <2>4, <2>6, AnalyticsAssumption
    <2> QED
        BY <1>1, <2>2, <2>3, <2>8, <2>9
<1>4. ASSUME NEW s \in Slot, SetCache(s), ~Tick PROVE Goal
    <2>1. CASE redis'[key] = redis[key]
        BY <1>2, <1>4, <2>1
    <2>2. CASE redis'[key] # redis[key]
        <3>1. /\ request[s].pc = "filling" /\ request[s].q \in Question
              /\ redis' = [redis EXCEPT ![BuildCacheKey(request[s].q)] =
                                          Cached(request[s].result)]
            BY <1>4, <2>2, SetCacheMakes
        <3>2. PICK p, x, m : p = request[s].q /\ x = request[s].result /\ m = request[s].held
            OBVIOUS
        <3>3. BuildCacheKey(p) = key /\ redis'[key] = Cached(x)
            BY <1>0, <2>2, <3>1, <3>2 DEF CacheType
        <3>4. AsOf(p, x, m)
            BY <3>1, <3>2 DEF FillingIsRecent
        <3>5. m \in Nat /\ m <= Delay /\ Delay \in Nat
            BY <3>2, AnalyticsAssumption DEF RequestType, IsRequest
        <3>6. AsOf(q, x, Delay)
            BY <3>1, <3>2, <3>3, <3>4, <3>5, KeySharesAges DEF key
        <3>7. AsOf(q, x, Delay)'
            BY <1>4, <3>6, AgeIsKept
        <3>8. redis'[key].result = x /\ Delay + (Ttl - redis'[key].ttl) = Delay
            BY <3>3, CachedEntry, AnalyticsAssumption
        <3> QED
            BY <1>1, <3>7, <3>8
    <2> QED
        BY <2>1, <2>2
<1>5. ASSUME UNCHANGED redis, ~Tick PROVE Goal
    BY <1>2, <1>5
<1> QED
    BY <1>3, <1>4, <1>5
       DEF Next, vars, InsertBlock, ReplaceRow, MergeParts, Handle, GetFromCache, QueryView,
           ScanTransactions, Deliver, Ask, Goal, key

LEMMA ResultsAreNoFailures ==
    ASSUME CountersType, NEW q \in Question, NEW x, NEW n, AsOf(q, x, n)
    PROVE  x # Failed
<1>1. PICK v \in 0..version : x \in ResultsAt[q][v]
    BY DEF AsOf
<1>2. v \in 0..Len(Block)
    BY VolumeAssumption DEF CountersType
<1> QED
    BY <1>1, <1>2, ReplyAssumption

LEMMA FailuresStep ==
    /\ CountersType /\ DatabaseInv /\ CacheType /\ RequestType
    /\ FillingIsRecent /\ CachedIsRecent /\ FailuresAreRefusals /\ [Next]_vars
    => FailuresAreRefusals'
<1> SUFFICES ASSUME CountersType, DatabaseInv, CacheType, RequestType,
                    FillingIsRecent, CachedIsRecent, FailuresAreRefusals, [Next]_vars
             PROVE  FailuresAreRefusals'
    OBVIOUS
<1> DEFINE Mine(t) == IF IsTotal(t) THEN "scan" ELSE "view"
           Refusals == [Slot -> SUBSET {"view", "scan"}]
<1>0. /\ refused \in Refusals
      /\ \A t \in Slot : request[t].pc = "answered" /\ request[t].result = Failed
                           => Mine(t) \in refused[t]
    BY DEF FailuresAreRefusals, OnlyClickHouseFails
<1>1. ASSUME refused' \in Refusals,
             \A t \in Slot : request'[t].pc = "answered" /\ request'[t].result = Failed
                             => Mine(t)' \in refused'[t]
      PROVE  FailuresAreRefusals'
    BY <1>1 DEF FailuresAreRefusals, OnlyClickHouseFails
\* The request s moves on without having failed, or having failed as it should.
<1>2. ASSUME NEW s \in Slot, NEW r, Becomes(s, r), refused' \in Refusals,
             \A t \in Slot : t # s => refused'[t] = refused[t],
             r.pc = "answered" /\ r.result = Failed
               => (IF r.q.query = "total-stats" THEN "scan" ELSE "view") \in refused'[s]
      PROVE  FailuresAreRefusals'
    <2>1. ASSUME NEW t \in Slot, request'[t].pc = "answered", request'[t].result = Failed
          PROVE  Mine(t)' \in refused'[t]
        <3>1. CASE t = s
            BY <1>2, <2>1, <3>1 DEF Becomes, IsTotal
        <3>2. CASE t # s
            <4>1. request'[t] = request[t] /\ refused'[t] = refused[t]
                BY <1>2, <3>2 DEF Becomes
            <4> QED
                BY <1>0, <2>1, <4>1 DEF IsTotal
        <3> QED
            BY <3>1, <3>2
    <2> HIDE DEF Mine
    <2> QED
        BY <1>1, <1>2, <2>1
<1>3. ASSUME UNCHANGED <<request, refused>> PROVE FailuresAreRefusals'
    BY <1>0, <1>3 DEF FailuresAreRefusals, OnlyClickHouseFails, IsTotal
<1>4. ASSUME Tick PROVE FailuresAreRefusals'
    <2>1. ASSUME NEW t \in Slot, request'[t].pc = "answered", request'[t].result = Failed
          PROVE  Mine(t)' \in refused'[t]
        <3>1. request'[t] = request[t] /\ UNCHANGED refused
            BY <1>4, <2>1, TickOnRequests DEF With, Tick
        <3> QED
            BY <1>0, <2>1, <3>1 DEF IsTotal
    <2>2. refused' \in Refusals
        BY <1>0, <1>4 DEF Tick
    <2> HIDE DEF Mine
    <2> QED
        BY <1>1, <2>1, <2>2
<1>5. ASSUME NEW s \in Slot, GetFromCache(s) PROVE FailuresAreRefusals'
    <2>1. request[s].q \in Question /\ UNCHANGED refused
        BY <1>5 DEF GetFromCache, RequestType, IsRequest
    <2>2. PICK x, t : x = redis[BuildCacheKey(request[s].q)].result
                      /\ t = redis[BuildCacheKey(request[s].q)].ttl
        OBVIOUS
    <2>3. CASE t > 0 /\ Becomes(s, With(s, "answered", x, 0))
        <3>1. x # Failed
            BY <2>1, <2>2, <2>3, ResultsAreNoFailures DEF CachedIsRecent
        <3>2. With(s, "answered", x, 0).result = x
            BY DEF With
        <3> QED
            BY <1>0, <1>2, <2>1, <2>3, <3>1, <3>2
    <2>4. CASE Becomes(s, With(s, "querying", request[s].result, request[s].held))
        <3>1. With(s, "querying", request[s].result, request[s].held).pc = "querying"
            BY DEF With
        <3> QED
            BY <1>0, <1>2, <2>1, <2>4, <3>1
    <2> QED
        BY <1>5, <2>2, <2>3, <2>4, GetFromCacheMakes
<1>6. ASSUME NEW s \in Slot, NEW what \in {"view", "scan"},
             refused' = [refused EXCEPT ![s] = @ \cup {what}]
      PROVE  /\ refused' \in Refusals /\ what \in refused'[s]
             /\ \A t \in Slot : t # s => refused'[t] = refused[t]
    BY <1>0, <1>6
<1>7. ASSUME NEW s \in Slot, NEW pc, NEW x, NEW h, pc # "answered",
             Becomes(s, With(s, pc, x, h)), refused' \in Refusals,
             \A t \in Slot : t # s => refused'[t] = refused[t]
      PROVE  FailuresAreRefusals'
    <2>1. With(s, pc, x, h).pc = pc
        BY DEF With
    <2> QED
        BY <1>2, <1>7, <2>1
<1>8. ASSUME NEW s \in Slot, NEW what \in {"view", "scan"},
             what = IF IsTotal(s) THEN "scan" ELSE "view",
             Becomes(s, With(s, "answered", Failed, 0)),
             refused' = [refused EXCEPT ![s] = @ \cup {what}]
      PROVE  FailuresAreRefusals'
    <2>1. With(s, "answered", Failed, 0).q = request[s].q
        BY DEF With
    <2>2. /\ refused' \in Refusals /\ what \in refused'[s]
          /\ \A t \in Slot : t # s => refused'[t] = refused[t]
        BY <1>6, <1>8
    <2>3. PICK r : r = With(s, "answered", Failed, 0)
        OBVIOUS
    <2>4. (IF r.q.query = "total-stats" THEN "scan" ELSE "view") \in refused'[s]
        BY <1>8, <2>1, <2>2, <2>3 DEF IsTotal
    <2> QED
        BY <1>2, <1>8, <2>2, <2>3, <2>4
<1> HIDE DEF Refusals
<1>9. ASSUME NEW s \in Slot, QueryView(s) PROVE FailuresAreRefusals'
    <2>1. CASE /\ \E x : Becomes(s, With(s, "filling", x, request[s].held))
               /\ UNCHANGED refused
        BY <1>0, <1>7, <2>1
    <2>2. CASE /\ Becomes(s, With(s, "scanning", request[s].result, request[s].held))
               /\ refused' \in {refused, [refused EXCEPT ![s] = @ \cup {"view"}]}
        <3>1. refused' \in Refusals /\ \A t \in Slot : t # s => refused'[t] = refused[t]
            BY <1>0, <1>6, <2>2
        <3> QED
            BY <1>7, <2>2, <3>1
    <2>3. CASE /\ ~IsTotal(s) /\ Becomes(s, With(s, "answered", Failed, 0))
               /\ refused' = [refused EXCEPT ![s] = @ \cup {"view"}]
        BY <1>8, <2>3
    <2> QED
        BY <1>9, <2>1, <2>2, <2>3, QueryViewMakes
<1>10. ASSUME NEW s \in Slot, ScanTransactions(s) PROVE FailuresAreRefusals'
    <2>1. CASE /\ \E x : Becomes(s, With(s, "filling", x, request[s].held))
               /\ UNCHANGED refused
        BY <1>0, <1>7, <2>1
    <2>2. CASE /\ IsTotal(s) /\ Becomes(s, With(s, "answered", Failed, 0))
               /\ refused' = [refused EXCEPT ![s] = @ \cup {"scan"}]
        BY <1>8, <2>2
    <2> QED
        BY <1>10, <2>1, <2>2, ScanMakes
<1>11. ASSUME NEW s \in Slot, SetCache(s) PROVE FailuresAreRefusals'
    <2>1. /\ request[s].pc = "filling" /\ request[s].q \in Question
          /\ Becomes(s, With(s, "answered", request[s].result, 0)) /\ UNCHANGED refused
        BY <1>11, SetCacheMakes DEF SetCache
    <2>2. request[s].result # Failed
        BY <2>1, ResultsAreNoFailures DEF FillingIsRecent
    <2>3. With(s, "answered", request[s].result, 0).result = request[s].result
        BY DEF With
    <2> QED
        BY <1>0, <1>2, <2>1, <2>2, <2>3
<1>12. ASSUME NEW s \in Slot, NEW q \in Question, Ask(s, q) PROVE FailuresAreRefusals'
    <2>1. Becomes(s, [pc |-> "reading", q |-> q, result |-> NoReply, held |-> 0])
        BY <1>12, AskMakes
    <2>2. UNCHANGED refused
        BY <1>12 DEF Ask
    <2>3. PICK r : r = [pc |-> "reading", q |-> q, result |-> NoReply, held |-> 0]
        OBVIOUS
    <2>4. r.pc = "reading"
        BY <2>3
    <2> QED
        BY <1>0, <1>2, <2>1, <2>2, <2>3, <2>4
<1>13. ASSUME NEW s \in Slot, Deliver(s) PROVE FailuresAreRefusals'
    <2>1. Becomes(s, Free) /\ Free.pc = "free"
        BY <1>13, DeliverMakes DEF Free
    <2>2. refused' \in Refusals /\ \A t \in Slot : t # s => refused'[t] = refused[t]
        BY <1>0, <1>13 DEF Deliver, Refusals
    <2> QED
        BY <1>2, <2>1, <2>2
<1> QED
    BY <1>3, <1>4, <1>5, <1>9, <1>10, <1>11, <1>12, <1>13
       DEF Next, vars, InsertBlock, ReplaceRow, MergeParts, Handle

-----------------------------------------------------------------------------
(* The theorems.                                                           *)

LEMMA AnalyticsInit == Init => AnalyticsInv
<1> SUFFICES ASSUME Init PROVE AnalyticsInv
    OBVIOUS
<1>1. CountersType
    BY VolumeAssumption, AnalyticsAssumption DEF Init, CountersType
<1>2. DatabaseInv
    <2>1. version = 0 /\ 1..0 = {}
        BY DEF Init
    <2>2. parts = {} /\ Unmerged(version) = {}
        BY <2>1 DEF Init, Unmerged, RowsOf
    <2>3. table \in Tables(version)
        BY <2>1, WholeTable DEF Init
    <2> QED
        BY <2>2, <2>3, FS_EmptySet DEF DatabaseInv, AreRows, KeysOf, SameTotals
<1>3. CacheType /\ CachedIsRecent
    <2>1. DOMAIN redis = Keys /\ \A k \in Keys : redis[k] = Empty
        BY DEF Init
    <2>2. \A q \in Question : BuildCacheKey(q) \in Keys
        BY DEF Keys
    <2> QED
        BY <2>1, <2>2, EmptyEntry DEF CacheType, CachedIsRecent
<1>4. RequestType /\ FillingIsRecent
    <2>1. DOMAIN request = Slot /\ \A s \in Slot : request[s] = Free
        BY DEF Init
    <2>2. IsRequest(Free) /\ Free.pc = "free"
        BY AnalyticsAssumption DEF IsRequest, Phases, Free
    <2> QED
        BY <2>1, <2>2 DEF RequestType, FillingIsRecent
<1>5. AgesType
    BY SlackIsLong DEF Init, AgesType
<1>6. FailuresAreRefusals
    BY DEF Init, FailuresAreRefusals, OnlyClickHouseFails, Free
<1> QED
    BY <1>1, <1>2, <1>3, <1>4, <1>5, <1>6 DEF AnalyticsInv

\* The invariant holds: in particular a merge keeps, for any set of sorting keys,
\* the totals of the view equal to those of the inserts.
THEOREM AnalyticsInvariant == Spec => []AnalyticsInv
<1>1. AnalyticsInv /\ [Next]_vars => AnalyticsInv'
    BY CountersStep, ViewStep, CacheStep, RequestStep, AgesStep, FillingStep, CachedStep,
       FailuresStep DEF AnalyticsInv
<1> QED
    BY <1>1, AnalyticsInit, PTL DEF Spec

\* Whatever ClickHouse has merged, and in whatever order, a query has the results it
\* would have on one row for each insert.
THEOREM MergesChangeNoResult ==
    Spec => [](\A q \in Question : Results(q, parts) = Results(q, Unmerged(version)))
<1>1. AnalyticsInv => \A q \in Question : Results(q, parts) = Results(q, Unmerged(version))
    BY ViewIsUnmerged DEF AnalyticsInv
<1> QED
    BY <1>1, AnalyticsInvariant, PTL

\* The totals of the fallback are at most those of the view, and the same as long as
\* no transaction is inserted twice, whatever ClickHouse has merged in either.
THEOREM ScanSaysNoMore == Spec => []ScanAgainstView
<1>1. ASSUME AnalyticsInv PROVE ScanAgainstView
    <2> DEFINE R == RowsOf(table)
               S == Unmerged(version)
               Of(rows, event) == {r \in rows : r.event = event}
               scan == TotalStats(R)
               view == TotalStats(S)
    <2>1. version \in 0..Len(Block) /\ table \in Tables(version) /\ table \subseteq 1..version
        BY <1>1 DEF AnalyticsInv, CountersType, DatabaseInv, Tables
    <2>2. AreRows(S)
        BY <2>1, UnmergedRows
    <2>3. TotalStats(parts) = view
        BY <1>1, <2>2, SameTotalStats DEF AnalyticsInv, DatabaseInv
    <2>4. R \subseteq S
        BY <2>1 DEF RowsOf, Unmerged
    <2>5. ASSUME NEW event
          PROVE  /\ VolumeOf(Of(R, event)) <= VolumeOf(Of(S, event))
                 /\ OrdersOf(Of(R, event)) <= OrdersOf(Of(S, event))
        <3>1. AreRows(Of(S, event)) /\ Of(R, event) \subseteq Of(S, event)
            BY <2>2, <2>4, FS_Subset DEF AreRows, KeysOf
        <3> HIDE DEF Of
        <3> QED
            BY <3>1, FewerRowsLess
    <2>6. /\ scan.created.volume <= view.created.volume
          /\ scan.created.orders <= view.created.orders
          /\ scan.fulfilled.volume <= view.fulfilled.volume
          /\ scan.fulfilled.orders <= view.fulfilled.orders
        <3> HIDE DEF R, S
        <3>1. \A rows : /\ TotalStats(rows).created.volume = VolumeOf(Of(rows, "OrderCreated"))
                        /\ TotalStats(rows).created.orders = OrdersOf(Of(rows, "OrderCreated"))
                        /\ TotalStats(rows).fulfilled.volume = VolumeOf(Of(rows, "OrderFulfilled"))
                        /\ TotalStats(rows).fulfilled.orders = OrdersOf(Of(rows, "OrderFulfilled"))
            BY DEF TotalStats
        <3> HIDE DEF Of
        <3> QED
            BY <2>5, <3>1
    <2>7. ASSUME \A i, j \in 1..version : i # j => Block[i].tx # Block[j].tx PROVE scan = view
        <3>1. table = 1..version
            BY <2>1, <2>7, VolumeAssumption DEF Tables, Replaces
        <3> QED
            BY <3>1 DEF Unmerged
    <2> HIDE DEF scan, view
    <2> QED
        BY <2>3, <2>6, <2>7 DEF ScanAgainstView, scan
<1> QED
    BY <1>1, AnalyticsInvariant, PTL

\* The rows of the view have numbers of their own, an entry of the cache is gone
\* when its time is up and never has more than Ttl, and no request waits longer
\* than Delay, however many requests, merges, ticks and failures overlap.
THEOREM TypesAreRight == Spec => []TypeOK
<1>1. AnalyticsInv => TypeOK
    <2> SUFFICES ASSUME AnalyticsInv PROVE TypeOK
        OBVIOUS
    <2> USE DEF AnalyticsInv
    <2>1. version \in 0..Len(Block) /\ faults \in 0..MaxFaults
        BY DEF CountersType
    <2>2. table \in Tables(version) /\ \A a, b \in parts : a.nr = b.nr => a = b
        BY DEF DatabaseInv
    <2>3. \A k \in Keys : redis[k].ttl \in 0..Ttl /\ (redis[k].ttl = 0 <=> redis[k] = Empty)
        BY EmptyEntry DEF CacheType, IsCached
    <2>4. ASSUME NEW s \in Slot
          PROVE  /\ request[s].pc \in Phases /\ request[s].held \in 0..Delay
                 /\ request[s].pc = "free" <=> request[s] = Free
                 /\ request[s].pc = "scanning" => IsTotal(s)
                 /\ refused[s] \subseteq {"view", "scan"}
        <3>1. Free.pc = "free"
            BY DEF Free
        <3> QED
            BY <3>1 DEF RequestType, IsRequest, IsTotal, FailuresAreRefusals
    <2> QED
        BY <2>1, <2>2, <2>3, <2>4 DEF TypeOK, Phases
<1> QED
    BY <1>1, AnalyticsInvariant, PTL

\* A request that fails has been failed by ClickHouse: by the view, or for the
\* totals by the scan, whatever became of Redis.
THEOREM RedisFailsNobody == Spec => []OnlyClickHouseFails
<1>1. AnalyticsInv => OnlyClickHouseFails
    BY DEF AnalyticsInv, FailuresAreRefusals
<1> QED
    BY <1>1, AnalyticsInvariant, PTL

-----------------------------------------------------------------------------
(* The refinement.                                                         *)

Reply(r) == IF r.pc = "answered" THEN [q |-> r.q, result |-> r.result] ELSE NoReply

LEMMA RepliesOfRequests == Replies = [s \in Slot |-> Reply(request[s])]
BY DEF Replies, Reply

LEMMA RepliesAfter ==
    Replies' = [s \in Slot |-> Reply(request'[s])]
BY DEF Replies, Reply

\* What is old enough to answer with is within the promise.
LEMMA RecentIsPromised ==
    ASSUME CountersType, AgesType, NEW q \in Question, NEW x, NEW n \in Nat, n <= Slack,
           AsOf(q, x, n)
    PROVE  [q |-> q, result |-> x] \in Promise!Promised(q)
<1>1. PICK v \in 0..version : since[v] <= n /\ x \in ResultsAt[q][v]
    BY DEF AsOf
<1>2. since[v] \in Int
    BY VolumeAssumption, SlackIsLong DEF CountersType, AgesType
<1>3. since[v] <= Slack
    <2>1. PICK i : i = since[v]
        OBVIOUS
    <2> QED
        BY <1>1, <1>2, <2>1, SlackIsLong
<1>4. v \in Promise!Recent
    BY <1>3 DEF Promise!Recent
<1> QED
    BY <1>1, <1>4 DEF Promise!Promised

LEMMA AnswersAreReplies ==
    ASSUME NEW q \in Question, NEW x, NEW v \in 0..Len(Block), x \in ResultsAt[q][v] \/ x = Failed
    PROVE  [q |-> q, result |-> x] # NoReply
BY ReplyAssumption

\* One request is answered.
LEMMA AnswerGives ==
    ASSUME NEW s \in Slot, request[s].pc # "answered", request[s].q \in Question, NEW x,
           Becomes(s, With(s, "answered", x, 0)), UNCHANGED <<version, since>>,
           [q |-> request[s].q, result |-> x] \in Promise!Promised(request[s].q),
           [q |-> request[s].q, result |-> x] # NoReply
    PROVE  Promise!Give(s)
<1>1. PICK answer : answer = [q |-> request[s].q, result |-> x]
    OBVIOUS
<1>2. \A t \in Slot : Reply(request'[t]) = IF t = s THEN answer ELSE Reply(request[t])
    BY <1>1 DEF Becomes, With, Reply
<1>3. Replies' = [Replies EXCEPT ![s] = answer]
    BY <1>2, RepliesOfRequests, RepliesAfter
<1>4. Replies[s] = NoReply /\ Replies'[s] = answer /\ answer # NoReply
    BY <1>1, <1>2, RepliesOfRequests, RepliesAfter DEF Reply
<1> QED
    BY <1>1, <1>3, <1>4 DEF Promise!Give

\* No request is answered or read.
LEMMA NothingGiven ==
    ASSUME \A s \in Slot : \/ request'[s] = request[s]
                           \/ request[s].pc # "answered" /\ request'[s].pc # "answered",
           UNCHANGED <<version, since>>
    PROVE  UNCHANGED Promise!vars
<1>1. \A s \in Slot : Reply(request'[s]) = Reply(request[s])
    BY DEF Reply
<1>2. Replies' = Replies
    BY <1>1, RepliesOfRequests, RepliesAfter
<1> QED
    BY <1>2 DEF Promise!vars

\* A request that takes a step gives an answer within the promise, or none.
LEMMA HandleGives ==
    ASSUME AnalyticsInv, NEW s \in Slot, Handle(s)
    PROVE  \/ Promise!Give(s)
           \/ UNCHANGED Promise!vars /\ request'[s].pc # "answered"
<1> DEFINE Goal == \/ Promise!Give(s)
                   \/ UNCHANGED Promise!vars /\ request'[s].pc # "answered"
<1> USE DEF AnalyticsInv
<1>1. request[s].pc # "free" => request[s].q \in Question
    BY DEF RequestType, IsRequest
<1>2. ASSUME NEW pc, NEW x, NEW h, Becomes(s, With(s, pc, x, h)),
             request[s].pc # "answered", pc # "answered", UNCHANGED <<version, since>>
      PROVE  UNCHANGED Promise!vars /\ request'[s].pc # "answered"
    <2>1. \A t \in Slot : \/ request'[t] = request[t]
                          \/ request[t].pc # "answered" /\ request'[t].pc # "answered"
        BY <1>2 DEF Becomes, With
    <2> QED
        BY <1>2, <2>1, NothingGiven DEF Becomes, With
<1>3. ASSUME request[s].pc # "answered", request[s].pc # "free", NEW x,
             NEW n \in Nat, n <= Slack, AsOf(request[s].q, x, n),
             Becomes(s, With(s, "answered", x, 0)), UNCHANGED <<version, since>>
      PROVE  Promise!Give(s)
    <2>1. PICK q : q = request[s].q /\ q \in Question
        BY <1>1, <1>3
    <2>2. [q |-> q, result |-> x] \in Promise!Promised(q)
        BY <1>3, <2>1, RecentIsPromised
    <2>3. [q |-> q, result |-> x] # NoReply
        <3>1. PICK v \in 0..version : x \in ResultsAt[q][v]
            BY <1>3, <2>1 DEF AsOf
        <3>2. v \in 0..Len(Block)
            BY VolumeAssumption DEF CountersType
        <3> QED
            BY <2>1, <3>1, <3>2, AnswersAreReplies
    <2> QED
        BY <1>3, <2>1, <2>2, <2>3, AnswerGives
<1>4. ASSUME request[s].pc # "answered", request[s].pc # "free",
             Becomes(s, With(s, "answered", Failed, 0)), UNCHANGED <<version, since>>
      PROVE  Promise!Give(s)
    <2>1. PICK q : q = request[s].q /\ q \in Question
        BY <1>1, <1>4
    <2>2. [q |-> q, result |-> Failed] \in Promise!Promised(q)
        BY DEF Promise!Promised
    <2>3. [q |-> q, result |-> Failed] # NoReply
        BY <2>1, AnswersAreReplies DEF CountersType
    <2> QED
        BY <1>4, <2>1, <2>2, <2>3, AnswerGives
<1>5. ASSUME GetFromCache(s) PROVE Goal
    <2>0. request[s].pc = "reading" /\ UNCHANGED <<version, since>>
        BY <1>5 DEF GetFromCache, databaseVars
    <2>1. PICK x, t, q : /\ q = request[s].q /\ x = redis[BuildCacheKey(q)].result
                         /\ t = redis[BuildCacheKey(q)].ttl
        OBVIOUS
    <2>2. CASE t > 0 /\ Becomes(s, With(s, "answered", x, 0))
        <3>1. q \in Question /\ BuildCacheKey(q) \in Keys
            BY <1>1, <2>0, <2>1 DEF Keys
        <3>2. AsOf(q, x, Delay + (Ttl - t))
            BY <2>1, <2>2, <3>1 DEF CachedIsRecent
        <3>3. t \in 0..Ttl
            BY <2>1, <3>1 DEF CacheType, IsCached
        <3>4. PICK n : n = Delay + (Ttl - t)
            OBVIOUS
        <3>5. n \in Nat /\ n <= Slack
            BY <2>2, <3>3, <3>4, AnalyticsAssumption DEF Slack
        <3> QED
            BY <1>3, <2>0, <2>1, <2>2, <3>2, <3>4, <3>5
    <2>3. CASE Becomes(s, With(s, "querying", request[s].result, request[s].held))
        BY <1>2, <2>0, <2>3
    <2> QED
        BY <1>5, <2>1, <2>2, <2>3, GetFromCacheMakes
<1>6. ASSUME QueryView(s) PROVE Goal
    <2>0. request[s].pc = "querying" /\ UNCHANGED <<version, since>>
        BY <1>6 DEF QueryView, databaseVars
    <2>1. CASE \E x : Becomes(s, With(s, "filling", x, request[s].held))
        BY <1>2, <2>0, <2>1
    <2>2. CASE Becomes(s, With(s, "scanning", request[s].result, request[s].held))
        BY <1>2, <2>0, <2>2
    <2>3. CASE Becomes(s, With(s, "answered", Failed, 0))
        BY <1>4, <2>0, <2>3
    <2> QED
        BY <1>6, <2>1, <2>2, <2>3, QueryViewMakes
<1>7. ASSUME ScanTransactions(s) PROVE Goal
    <2>0. request[s].pc = "scanning" /\ UNCHANGED <<version, since>>
        BY <1>7 DEF ScanTransactions, databaseVars
    <2>1. CASE \E x : Becomes(s, With(s, "filling", x, request[s].held))
        BY <1>2, <2>0, <2>1
    <2>2. CASE Becomes(s, With(s, "answered", Failed, 0))
        BY <1>4, <2>0, <2>2
    <2> QED
        BY <1>7, <2>1, <2>2, ScanMakes
<1>8. ASSUME SetCache(s) PROVE Goal
    <2>1. /\ request[s].pc = "filling" /\ UNCHANGED <<version, since>>
          /\ Becomes(s, With(s, "answered", request[s].result, 0))
        BY <1>8, SetCacheMakes DEF SetCache, databaseVars
    <2>2. AsOf(request[s].q, request[s].result, request[s].held)
        BY <2>1 DEF FillingIsRecent
    <2>3. PICK x, n : x = request[s].result /\ n = request[s].held
        OBVIOUS
    <2>4. n \in Nat /\ n <= Slack
        BY <2>3, SlackIsLong, AnalyticsAssumption DEF RequestType, IsRequest
    <2> QED
        BY <1>3, <2>1, <2>2, <2>3, <2>4
<1> QED
    BY <1>5, <1>6, <1>7, <1>8 DEF Handle

LEMMA HandleBecomes ==
    ASSUME AnalyticsInv, NEW s \in Slot, Handle(s) PROVE \E r : Becomes(s, r)
<1> USE DEF AnalyticsInv
<1>1. CASE GetFromCache(s)
    BY <1>1, GetFromCacheMakes
<1>2. CASE QueryView(s)
    BY <1>2, QueryViewMakes
<1>3. CASE ScanTransactions(s)
    BY <1>3, ScanMakes
<1>4. CASE SetCache(s)
    BY <1>4, SetCacheMakes
<1> QED
    BY <1>1, <1>2, <1>3, <1>4 DEF Handle

\* An answer is not the absence of one.
AnsweredHasReply == \A s \in Slot : request[s].pc = "answered" => Reply(request[s]) # NoReply

LEMMA AnsweredStep ==
    AnalyticsInv /\ AnsweredHasReply /\ [Next]_vars => AnsweredHasReply'
<1> SUFFICES ASSUME AnalyticsInv, AnsweredHasReply, [Next]_vars,
                    NEW t \in Slot, request'[t].pc = "answered"
             PROVE  Reply(request'[t]) # NoReply
    BY DEF AnsweredHasReply, Reply
<1>1. ASSUME request'[t] = request[t] PROVE Reply(request'[t]) # NoReply
    BY <1>1 DEF AnsweredHasReply
<1>2. ASSUME NEW s \in Slot, Handle(s) PROVE Reply(request'[t]) # NoReply
    <2>1. CASE t = s
        <3>1. Promise!Give(s)
            BY <1>2, <2>1, HandleGives
        <3>2. Replies'[s] # NoReply
            BY <3>1 DEF Promise!Give
        <3> QED
            BY <2>1, <3>2, RepliesAfter
    <2>2. CASE t # s
        <3>1. request'[t] = request[t]
            BY <1>2, <2>2, HandleBecomes DEF Becomes
        <3> QED
            BY <1>1, <3>1
    <2> QED
        BY <2>1, <2>2
<1>3. ASSUME NEW s \in Slot, NEW r, r.pc # "answered", Becomes(s, r)
      PROVE  Reply(request'[t]) # NoReply
    BY <1>1, <1>3 DEF Becomes
<1>4. ASSUME NEW s \in Slot, NEW q \in Question, Ask(s, q) PROVE Reply(request'[t]) # NoReply
    BY <1>3, <1>4, AskMakes DEF AnalyticsInv
<1>5. ASSUME NEW s \in Slot, Deliver(s) PROVE Reply(request'[t]) # NoReply
    BY <1>3, <1>5, DeliverMakes DEF AnalyticsInv, Free
<1>6. CASE Tick
    BY <1>1, <1>6, TickOnRequests DEF AnalyticsInv, With
<1>7. CASE UNCHANGED request
    BY <1>1, <1>7
<1> QED
    BY <1>2, <1>4, <1>5, <1>6, <1>7 DEF Next, vars, InsertBlock, ReplaceRow, MergeParts

LEMMA SnapshotStep ==
    AnalyticsInv /\ AnsweredHasReply /\ [Next]_vars => [Promise!Next]_Promise!vars
<1> SUFFICES ASSUME AnalyticsInv, AnsweredHasReply, [Next]_vars
             PROVE  [Promise!Next]_Promise!vars
    OBVIOUS
<1> USE DEF AnalyticsInv
<1>1. CASE InsertBlock
    <2>1. Replies' = Replies
        BY <1>1, RepliesOfRequests, RepliesAfter DEF InsertBlock
    <2> QED
        BY <1>1, <2>1 DEF InsertBlock, Promise!Next, Promise!Change
<1>2. CASE Tick
    <2>1. ASSUME NEW s \in Slot PROVE Reply(request'[s]) = Reply(request[s])
        <3>1. CASE request[s].pc # "filling"
            BY <1>2, <3>1, TickOnRequests
        <3>2. CASE request[s].pc = "filling"
            BY <1>2, <3>2, TickOnRequests DEF With, Reply
        <3> QED
            BY <3>1, <3>2
    <2>2. Replies' = Replies
        BY <2>1, RepliesOfRequests, RepliesAfter
    <2> QED
        BY <1>2, <2>2 DEF Tick, databaseVars, Promise!Next, Promise!Pass
<1>3. ASSUME NEW a \in parts, NEW b \in parts, MergeParts(a, b) PROVE UNCHANGED Promise!vars
    BY <1>3, NothingGiven DEF MergeParts
<1>4. ASSUME NEW new, NEW old, ReplaceRow(new, old) PROVE UNCHANGED Promise!vars
    BY <1>4, NothingGiven DEF ReplaceRow
<1>5. ASSUME NEW s \in Slot, Handle(s)
      PROVE  Promise!Give(s) \/ UNCHANGED Promise!vars
    BY <1>5, HandleGives
<1>6. ASSUME NEW s \in Slot, NEW q \in Question, Ask(s, q) PROVE UNCHANGED Promise!vars
    <2>1. PICK r : r = [pc |-> "reading", q |-> q, result |-> NoReply, held |-> 0]
        OBVIOUS
    <2>2. r.pc = "reading" /\ request[s].pc = "free" /\ Becomes(s, r)
        BY <1>6, <2>1, AskMakes
    <2>3. UNCHANGED <<version, since>>
        BY <1>6 DEF Ask, databaseVars
    <2> QED
        BY <2>2, <2>3, NothingGiven DEF Becomes
<1>7. ASSUME NEW s \in Slot, Deliver(s) PROVE Promise!Take(s)
    <2>1. request[s].pc = "answered" /\ Becomes(s, Free) /\ Free.pc = "free"
        BY <1>7, DeliverMakes DEF Free
    <2>2. \A t \in Slot : Reply(request'[t]) = IF t = s THEN NoReply ELSE Reply(request[t])
        BY <2>1 DEF Becomes, Reply
    <2>3. Replies' = [Replies EXCEPT ![s] = NoReply]
        BY <2>2, RepliesOfRequests, RepliesAfter
    <2>4. Replies[s] # NoReply
        BY <2>1, RepliesOfRequests DEF AnsweredHasReply
    <2> QED
        BY <1>7, <2>3, <2>4 DEF Deliver, databaseVars, Promise!Take
<1>8. CASE UNCHANGED vars
    BY <1>8, NothingGiven DEF vars, databaseVars
<1>9. CASE \E s \in Slot : Promise!Give(s) \/ Promise!Take(s)
    BY <1>9 DEF Promise!Next
<1> QED
    BY <1>1, <1>2, <1>3, <1>4, <1>5, <1>6, <1>7, <1>8, <1>9 DEF Next

\* Every answer, of the cache, the view or the scan, is the result of its own
\* question on what the view or the scanned table held no more than Ttl + Delay ago,
\* merged or not; so the API implements Snapshots, for any questions, inserts and failures.
THEOREM AnswersAreRecent == Spec => AnswersAreSnapshots
<1>1. Init => AnsweredHasReply
    BY DEF Init, AnsweredHasReply, Free
<1>2. Init => Promise!Init
    <2> SUFFICES ASSUME Init PROVE Promise!Init
        OBVIOUS
    <2>1. \A s \in Slot : Reply(request[s]) = NoReply
        BY DEF Init, Free, Reply
    <2> QED
        BY <2>1, RepliesOfRequests DEF Init, Promise!Init
<1> QED
    BY <1>1, <1>2, AnsweredStep, SnapshotStep, AnalyticsInvariant, PTL
       DEF Spec, AnswersAreSnapshots, Promise!Spec

-----------------------------------------------------------------------------
(* The page (Dashboard), over whatever the API answers within its promise.   *)
(* The question of a key is the same in every period that watches the key.  *)

Belongs(key, q) ==
    \A period \in Periods : key \in Watched(period) => q = QuestionFor(key, period)

LEMMA KeysTellPeriods ==
    ASSUME NEW p, NEW r, QueryKey(p) = QueryKey(r)
    PROVE  SummaryOf(p) = SummaryOf(r)
<1>1. p.fromDate = r.fromDate /\ p.toDate = r.toDate
    BY DEF QueryKey
<1> QED
    BY <1>1 DEF SummaryOf

LEMMA FilteredQuestionBelongs ==
    ASSUME NEW key, NEW p \in Periods, key \in Watched(p)
    PROVE  Belongs(key, QuestionFor(key, p))
<1> SUFFICES ASSUME NEW r \in Periods, key \in Watched(r)
             PROVE  QuestionFor(key, p) = QuestionFor(key, r)
    BY DEF Belongs
<1>1. CASE key = TotalsKey
    BY <1>1 DEF QuestionFor
<1>2. CASE key # TotalsKey
    <2>1. key = QueryKey(p) /\ key = QueryKey(r)
        BY <1>2 DEF Watched
    <2>2. SummaryOf(p) = SummaryOf(r)
        BY <2>1, KeysTellPeriods
    <2> QED
        BY <1>2, <2>2 DEF QuestionFor
<1> QED
    BY <1>1, <1>2

-----------------------------------------------------------------------------
(* The inductive invariant: a fetch asks the question of its key, an answer  *)
(* belongs to the fetch under way, and so does what is left of it as data.  *)

IsEntry(e) ==
    e = [status |-> e.status, data |-> e.data, asked |-> e.asked, failures |-> e.failures]

EntryInv(key, e) ==
    /\ IsEntry(e)
    /\ e.status = "fetching" => Belongs(key, e.asked)
    /\ e.data # NoData => Belongs(key, e.data.q)

CacheInv ==
    /\ DOMAIN entry = QueryKeys /\ DOMAIN reply = QueryKeys
    /\ \A k \in QueryKeys : EntryInv(k, entry[k])
    /\ \A k \in QueryKeys :
        reply[k] # NoAnswer => entry[k].status = "fetching" /\ reply[k].q = entry[k].asked

PageInv == filters \in Periods /\ CacheInv

LEMMA UnfetchedEntry ==
    ASSUME NEW key PROVE EntryInv(key, Unfetched)
BY DEF EntryInv, IsEntry, Unfetched

\* An entry that keeps its data while its fetch ends.
LEMMA EndedEntry ==
    ASSUME NEW key \in QueryKeys, EntryInv(key, entry[key]),
           NEW e, e = [Unfetched EXCEPT !.data = entry[key].data]
    PROVE  EntryInv(key, e)
<1>1. IsEntry(e) /\ e.status = "idle" /\ e.data = entry[key].data
    BY DEF IsEntry, Unfetched
<1> QED
    BY <1>1 DEF EntryInv

\* A fetch that is started in a period that watches the query.
LEMMA FetchingEntry ==
    ASSUME NEW key \in QueryKeys, EntryInv(key, entry[key]),
           NEW p \in Periods, key \in Watched(p)
    PROVE  /\ EntryInv(key, Fetching(key, p))
           /\ EntryInv(key, [Fetching(key, p) EXCEPT !.failures = 0])
<1>1. Belongs(key, QuestionFor(key, p))
    BY FilteredQuestionBelongs
<1>2. PICK asked : asked = QuestionFor(key, p)
    OBVIOUS
<1>3. PICK e : e = Fetching(key, p)
    OBVIOUS
<1>4. e = [entry[key] EXCEPT !.status = "fetching", !.asked = asked]
    BY <1>2, <1>3 DEF Fetching
<1>5. /\ IsEntry(e) /\ e.status = "fetching" /\ e.asked = asked
      /\ e.data = entry[key].data
    BY <1>4 DEF EntryInv, IsEntry
<1>6. EntryInv(key, e)
    BY <1>1, <1>2, <1>5 DEF EntryInv
<1>7. PICK f : f = [e EXCEPT !.failures = 0]
    OBVIOUS
<1>8. /\ IsEntry(f) /\ f.status = e.status /\ f.asked = e.asked /\ f.data = e.data
    BY <1>5, <1>7 DEF IsEntry
<1>9. EntryInv(key, f)
    BY <1>6, <1>8 DEF EntryInv
<1> QED
    BY <1>3, <1>6, <1>7, <1>9

\* One entry changes, and no answer is waiting for it.
LEMMA OneEntry ==
    ASSUME CacheInv, NEW key \in QueryKeys, NEW e, EntryInv(key, e),
           entry' = [entry EXCEPT ![key] = e],
           \/ reply' = [reply EXCEPT ![key] = NoAnswer]
           \/ reply[key] = NoAnswer /\ UNCHANGED reply
    PROVE  CacheInv'
<1>1. \A k \in QueryKeys : entry'[k] = IF k = key THEN e ELSE entry[k]
    BY DEF CacheInv
<1>2. \A k \in QueryKeys : reply'[k] = IF k = key THEN NoAnswer ELSE reply[k]
    BY DEF CacheInv
<1>3. DOMAIN entry' = QueryKeys /\ DOMAIN reply' = QueryKeys
    BY DEF CacheInv
<1>4. \A k \in QueryKeys : EntryInv(k, entry'[k])
    BY <1>1 DEF CacheInv
<1>5. \A k \in QueryKeys :
          reply'[k] # NoAnswer => entry'[k].status = "fetching" /\ reply'[k].q = entry'[k].asked
    BY <1>1, <1>2 DEF CacheInv
<1>6. (\A k \in QueryKeys : EntryInv(k, entry[k]))'
    BY <1>4 DEF EntryInv, Belongs, IsEntry, NoData
<1> QED
    BY <1>3, <1>5, <1>6 DEF CacheInv

\* What Refetch starts belongs to the period it is started in, and has no answer yet.
LEMMA RefetchStarts ==
    ASSUME CacheInv, NEW p \in Periods, NEW keys \in SUBSET Watched(p), Refetch(keys, p)
    PROVE  CacheInv'
<1>1. PICK fresh \in SUBSET keys :
          /\ entry' = [k \in QueryKeys |-> IF k \in fresh
                         THEN [Fetching(k, p) EXCEPT !.failures = 0] ELSE entry[k]]
          /\ reply' = [k \in QueryKeys |-> IF k \in fresh THEN NoAnswer ELSE reply[k]]
    BY DEF Refetch
<1>2. ASSUME NEW k \in QueryKeys PROVE EntryInv(k, entry'[k])
    <2>1. EntryInv(k, entry[k])
        BY DEF CacheInv
    <2>2. CASE k \in fresh
        <3>1. EntryInv(k, [Fetching(k, p) EXCEPT !.failures = 0])
            BY <2>1, <2>2, FetchingEntry
        <3>2. entry'[k] = [Fetching(k, p) EXCEPT !.failures = 0]
            BY <1>1, <2>2
        <3> QED
            BY <3>1, <3>2
    <2>3. CASE k \notin fresh
        <3>1. entry'[k] = entry[k]
            BY <1>1, <2>3
        <3> QED
            BY <2>1, <3>1
    <2> QED
        BY <2>2, <2>3
<1>3. ASSUME NEW k \in QueryKeys, reply'[k] # NoAnswer
      PROVE  entry'[k].status = "fetching" /\ reply'[k].q = entry'[k].asked
    <2>1. k \notin fresh /\ reply'[k] = reply[k] /\ entry'[k] = entry[k]
        BY <1>1, <1>3
    <2> QED
        BY <1>3, <2>1 DEF CacheInv
<1>4. DOMAIN entry' = QueryKeys /\ DOMAIN reply' = QueryKeys
    BY <1>1
<1>5. (\A k \in QueryKeys : EntryInv(k, entry[k]))'
    BY <1>2 DEF EntryInv, Belongs, IsEntry, NoData
<1> QED
    BY <1>3, <1>4, <1>5 DEF CacheInv

\* Whatever the API promises for a question names that question.
LEMMA AnswersNameTheirQuestion ==
    ASSUME NEW q, NEW answer \in Api!Promised(q) PROVE answer.q = q
<1>1. \E x : answer = [q |-> q, result |-> x]
    BY DEF Api!Promised
<1> QED
    BY <1>1

LEMMA PageStep == PageInv /\ [PageNext]_pageVars => PageInv'
<1> SUFFICES ASSUME PageInv, [PageNext]_pageVars PROVE PageInv'
    OBVIOUS
<1> USE DEF PageInv
<1>1. CASE UNCHANGED <<filters, entry, reply>>
    BY <1>1 DEF CacheInv, EntryInv, Belongs, IsEntry, NoData
<1>2. ASSUME NEW key \in QueryKeys, Poll(key) PROVE PageInv'
    <2>1. Refetch({key}, filters) /\ {key} \in SUBSET Watched(filters) /\ UNCHANGED filters
        BY <1>2 DEF Poll
    <2> QED
        BY <2>1, RefetchStarts
<1>3. ASSUME NEW period \in Choice \cup {Default}, Apply(period) PROVE PageInv'
    <2>1. period \in Periods /\ filters' = period /\ Refetch({QueryKey(period)}, period)
        BY <1>3 DEF Apply, Periods
    <2>2. {QueryKey(period)} \in SUBSET Watched(period)
        BY DEF Watched
    <2> QED
        BY <2>1, <2>2, RefetchStarts
<1>4. CASE Refresh
    <2>1. Refetch(Watched(filters), filters) /\ UNCHANGED filters
        BY <1>4 DEF Refresh
    <2> QED
        BY <2>1, RefetchStarts
<1>5. ASSUME NEW key \in QueryKeys, Respond(key) PROVE PageInv'
    <2>1. PICK answer \in Api!Promised(entry[key].asked) : reply' = [reply EXCEPT ![key] = answer]
        BY <1>5 DEF Respond
    <2>2. /\ entry[key].status = "fetching" /\ answer.q = entry[key].asked
          /\ UNCHANGED <<filters, entry>>
        BY <1>5, AnswersNameTheirQuestion DEF Respond
    <2>3. /\ DOMAIN reply' = QueryKeys
          /\ \A k \in QueryKeys : reply'[k] = IF k = key THEN answer ELSE reply[k]
        BY <2>1 DEF CacheInv
    <2>4. \A k \in QueryKeys :
             reply'[k] # NoAnswer => entry[k].status = "fetching" /\ reply'[k].q = entry[k].asked
        BY <2>2, <2>3 DEF CacheInv
    <2>5. (\A k \in QueryKeys : EntryInv(k, entry[k]))'
        BY <2>2 DEF CacheInv, EntryInv, Belongs, IsEntry, NoData
    <2> QED
        BY <2>2, <2>3, <2>4, <2>5 DEF CacheInv
<1>6. ASSUME NEW key \in QueryKeys, Receive(key) PROVE PageInv'
    <2>0. EntryInv(key, entry[key]) /\ UNCHANGED filters
        BY <1>6 DEF CacheInv, Receive
    <2>1. /\ reply' = [reply EXCEPT ![key] = NoAnswer]
          /\ entry[key].status = "fetching" /\ reply[key].q = entry[key].asked
        BY <1>6 DEF Receive, CacheInv
    <2>2. PICK e :
             /\ entry' = [entry EXCEPT ![key] = e]
             /\ \/ e = [Unfetched EXCEPT !.data = reply[key]]
                \/ e = FailedOnce(key)
                \/ e = [Unfetched EXCEPT !.data = entry[key].data]
        BY <1>6 DEF Receive
    <2>3. ASSUME e = [Unfetched EXCEPT !.data = reply[key]] PROVE EntryInv(key, e)
        <3>1. IsEntry(e) /\ e.status = "idle" /\ e.data = reply[key]
            BY <2>3 DEF IsEntry, Unfetched
        <3> QED
            BY <2>0, <2>1, <3>1 DEF EntryInv
    <2>4. ASSUME e = FailedOnce(key) PROVE EntryInv(key, e)
        <3>1. IsEntry(e) /\ e.status = "backoff" /\ e.data = entry[key].data
            BY <2>0, <2>4 DEF EntryInv, IsEntry, FailedOnce
        <3> QED
            BY <2>0, <3>1 DEF EntryInv
    <2>5. ASSUME e = [Unfetched EXCEPT !.data = entry[key].data] PROVE EntryInv(key, e)
        BY <2>0, <2>5, EndedEntry
    <2>6. EntryInv(key, e)
        BY <2>2, <2>3, <2>4, <2>5
    <2> QED
        BY <2>0, <2>1, <2>2, <2>6, OneEntry
<1>7. ASSUME NEW key \in QueryKeys, RetryFetch(key) PROVE PageInv'
    <2>0. /\ EntryInv(key, entry[key]) /\ UNCHANGED <<filters, reply>>
          /\ reply[key] = NoAnswer
        BY <1>7 DEF CacheInv, RetryFetch
    <2>1. PICK e : /\ entry' = [entry EXCEPT ![key] = e]
                   /\ e = IF key \in Watched(filters) THEN Fetching(key, filters)
                          ELSE [Unfetched EXCEPT !.data = entry[key].data]
        BY <1>7 DEF RetryFetch
    <2>2. EntryInv(key, e)
        BY <2>0, <2>1, FetchingEntry, EndedEntry
    <2> QED
        BY <2>0, <2>1, <2>2, OneEntry
<1>8. ASSUME NEW key \in QueryKeys, Forget(key) PROVE PageInv'
    <2>1. reply[key] = NoAnswer
        BY <1>8 DEF Forget, CacheInv
    <2> QED
        BY <1>8, <2>1, UnfetchedEntry, OneEntry DEF Forget
<1> QED
    BY <1>1, <1>2, <1>3, <1>4, <1>5, <1>6, <1>7, <1>8
       DEF PageNext, Outside, Api!Change, Api!Pass, pageVars

LEMMA PageStarts == PageInit => PageInv
<1> SUFFICES ASSUME PageInit PROVE PageInv
    OBVIOUS
<1>1. /\ filters = Default /\ entry = [k \in QueryKeys |-> Unfetched]
      /\ reply = [k \in QueryKeys |-> NoAnswer]
    BY DEF PageInit, Api!Init
<1> QED
    BY <1>1, UnfetchedEntry DEF PageInv, CacheInv, Periods

\* The numbers on the page are those of the period in its form, whatever fetches,
\* retries and changes of the filters overlap, for any periods and any answers.
THEOREM PageShowsWhatIsAsked == FairSpec => []ShownIsAsked
<1>1. PageInv => ShownIsAsked
    <2> SUFFICES ASSUME PageInv, NEW period \in Periods, NEW key \in Watched(period),
                        entry[key].data # NoData
                 PROVE  entry[key].data.q = QuestionFor(key, period)
        BY DEF ShownIsAsked
    <2>1. key \in QueryKeys
        BY DEF Watched, QueryKeys
    <2> QED
        BY <2>1 DEF PageInv, CacheInv, EntryInv, Belongs
<1> QED
    BY <1>1, PageStarts, PageStep, PTL DEF FairSpec

-----------------------------------------------------------------------------
(* The types: above all, that a fetch is not retried more than Retry times.  *)

EntryType(e) == e.status \in {"idle", "fetching", "backoff"} /\ e.failures \in 0..Retry

CountsType ==
    /\ inserts \in 0..Len(Block) /\ failed \in 0..MaxFailures /\ clicks \in 0..MaxClicks
    /\ replaced \in [0..Len(Block) -> 0..MaxAge + 1]

EntriesType == \A k \in QueryKeys : EntryType(entry[k])

LEMMA CountsStep ==
    ASSUME CountsType, [PageNext]_pageVars
    PROVE  CountsType'
<1>1. CASE Api!Change /\ UNCHANGED <<clicks, failed>>
    BY <1>1, VolumeAssumption DEF CountsType, Api!Change
<1>2. CASE Api!Pass /\ UNCHANGED <<clicks, failed>>
    <2>1. replaced' \in [0..Len(Block) -> 0..MaxAge + 1]
        BY <1>2, DashboardAssumption DEF CountsType, Api!Pass
    <2> QED
        BY <1>2, <2>1 DEF CountsType, Api!Pass
<1>3. CASE /\ UNCHANGED <<inserts, replaced>>
           /\ UNCHANGED clicks \/ Click
           /\ UNCHANGED failed \/ (failed < MaxFailures /\ failed' = failed + 1)
    BY <1>3, DashboardAssumption DEF CountsType, Click
<1> QED
    BY <1>1, <1>2, <1>3
       DEF PageNext, pageVars, Outside, Poll, Respond, Receive, RetryFetch, Forget, Apply, Refresh

LEMMA UnfetchedType ==
    ASSUME NEW d, NEW e, e = [Unfetched EXCEPT !.data = d] PROVE EntryType(e)
BY DashboardAssumption DEF EntryType, Unfetched

LEMMA FetchingType ==
    ASSUME NEW key, IsEntry(entry[key]), EntryType(entry[key]), NEW p, NEW e,
           \/ e = Fetching(key, p)
           \/ e = [Fetching(key, p) EXCEPT !.failures = 0]
    PROVE  EntryType(e)
<1>1. PICK asked, f : asked = QuestionFor(key, p) /\ f = Fetching(key, p)
    OBVIOUS
<1>2. f = [entry[key] EXCEPT !.status = "fetching", !.asked = asked]
    BY <1>1 DEF Fetching
<1>3. IsEntry(f) /\ f.status = "fetching" /\ f.failures = entry[key].failures
    BY <1>2 DEF IsEntry
<1>4. CASE e = f
    BY <1>3, <1>4 DEF EntryType
<1>5. CASE e = [f EXCEPT !.failures = 0]
    <2>1. e.status = "fetching" /\ e.failures = 0
        BY <1>3, <1>5 DEF IsEntry
    <2> QED
        BY <2>1, DashboardAssumption DEF EntryType
<1> QED
    BY <1>1, <1>4, <1>5

LEMMA OneEntryType ==
    ASSUME EntriesType, PageInv, NEW key \in QueryKeys, NEW e, EntryType(e),
           entry' = [entry EXCEPT ![key] = e]
    PROVE  EntriesType'
BY DEF EntriesType, EntryType, PageInv, CacheInv

LEMMA RefetchTypes ==
    ASSUME EntriesType, PageInv, NEW keys, NEW p, Refetch(keys, p)
    PROVE  EntriesType'
<1>1. ASSUME NEW k \in QueryKeys PROVE EntryType(entry'[k])
    <2>1. IsEntry(entry[k]) /\ EntryType(entry[k])
        BY DEF EntriesType, PageInv, CacheInv, EntryInv
    <2>2. entry'[k] = [Fetching(k, p) EXCEPT !.failures = 0] \/ entry'[k] = entry[k]
        BY DEF Refetch
    <2>3. PICK e : e = entry'[k]
        OBVIOUS
    <2>4. EntryType(e)
        BY <2>1, <2>2, <2>3, FetchingType
    <2> QED
        BY <2>3, <2>4
<1> QED
    BY <1>1 DEF EntriesType, EntryType

LEMMA EntriesStep ==
    ASSUME EntriesType, PageInv, [PageNext]_pageVars
    PROVE  EntriesType'
<1>0. \A k \in QueryKeys : IsEntry(entry[k]) /\ EntryType(entry[k])
    BY DEF EntriesType, PageInv, CacheInv, EntryInv
<1>1. CASE \E keys, p : Refetch(keys, p)
    BY <1>1, RefetchTypes
<1>2. ASSUME NEW key \in QueryKeys, Receive(key) PROVE EntriesType'
    <2>1. PICK e :
             /\ entry' = [entry EXCEPT ![key] = e]
             /\ \/ \E d : e = [Unfetched EXCEPT !.data = d]
                \/ Retries(key) /\ e = FailedOnce(key)
        BY <1>2 DEF Receive
    <2>2. ASSUME Retries(key), e = FailedOnce(key) PROVE EntryType(e)
        <3>1. PICK n : n = entry[key].failures
            OBVIOUS
        <3>2. e = [entry[key] EXCEPT !.status = "backoff", !.failures = n + 1]
            BY <2>2, <3>1 DEF FailedOnce
        <3>3. e.status = "backoff" /\ e.failures = n + 1
            BY <1>0, <3>2 DEF IsEntry
        <3>4. n \in 0..Retry /\ n < Retry
            BY <1>0, <2>2, <3>1 DEF EntryType, Retries
        <3> QED
            BY <3>3, <3>4, DashboardAssumption DEF EntryType
    <2>3. EntryType(e)
        BY <2>1, <2>2, UnfetchedType
    <2> QED
        BY <2>1, <2>3, OneEntryType
<1>3. ASSUME NEW key \in QueryKeys, RetryFetch(key) PROVE EntriesType'
    <2>1. PICK e : /\ entry' = [entry EXCEPT ![key] = e]
                   /\ \/ e = Fetching(key, filters)
                      \/ e = [Unfetched EXCEPT !.data = entry[key].data]
        BY <1>3 DEF RetryFetch
    <2>2. EntryType(e)
        BY <1>0, <2>1, FetchingType, UnfetchedType
    <2> QED
        BY <2>1, <2>2, OneEntryType
<1>4. ASSUME NEW key \in QueryKeys, Forget(key) PROVE EntriesType'
    <2>1. EntryType(Unfetched)
        BY DashboardAssumption DEF EntryType, Unfetched
    <2> QED
        BY <1>4, <2>1, OneEntryType DEF Forget
<1>5. CASE UNCHANGED entry
    BY <1>5 DEF EntriesType, EntryType
<1> QED
    BY <1>1, <1>2, <1>3, <1>4, <1>5
       DEF PageNext, pageVars, Outside, Poll, Respond, Apply, Refresh

\* A fetch is retried at most Retry times and then given up, an answer waits only
\* for the fetch that asked for it, and the page's period is one the form accepts,
\* in any order of fetches, answers, timers and uses of the form.
THEOREM PageTypesAreRight == FairSpec => []PageTypeOK
<1>1. PageInit => CountsType /\ EntriesType
    <2> SUFFICES ASSUME PageInit PROVE CountsType /\ EntriesType
        OBVIOUS
    <2>1. /\ inserts = 0 /\ clicks = 0 /\ failed = 0
          /\ replaced = [v \in 0..Len(Block) |-> 0]
          /\ entry = [k \in QueryKeys |-> Unfetched]
        BY DEF PageInit, Api!Init
    <2>2. CountsType
        BY <2>1, VolumeAssumption, DashboardAssumption DEF CountsType
    <2>3. EntriesType
        BY <2>1, DashboardAssumption DEF EntriesType, EntryType, Unfetched
    <2> QED
        BY <2>2, <2>3
<1>2. PageInv /\ CountsType /\ EntriesType => PageTypeOK
    BY DEF PageInv, CacheInv, CountsType, EntriesType, EntryType, PageTypeOK
<1>3. CountsType /\ [PageNext]_pageVars => CountsType'
    BY CountsStep
<1>4. EntriesType /\ PageInv /\ [PageNext]_pageVars => EntriesType'
    BY EntriesStep
<1> QED
    BY <1>1, <1>2, <1>3, <1>4, PageStarts, PageStep, PTL DEF FairSpec
=============================================================================
