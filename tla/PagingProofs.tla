---------------------------- MODULE PagingProofs ----------------------------
(***************************************************************************)
(* What a client sees that walks a list page by page, for all requests,    *)
(* batches and bounds.  Every list's ORDER BY is a strict total order of   *)
(* its rows (RowsOrdered), so the sorted list has each row once and a page *)
(* those of its ranks (PageHolds).  A walk during which nothing commits    *)
(* and whose pages all ask the same has seen the rows below its offset     *)
(* (Quiet); in a fixed order, and in a list of discrepancies that only     *)
(* ages (RowsAge), a row that was there at first and has not been seen     *)
(* never has a smaller rank than the offset (Waiting).                     *)
(***************************************************************************)
EXTENDS Paging, LedgerProofs

-----------------------------------------------------------------------------
(* Key lists of one ORDER BY: its directions, and a number or NULL each.   *)
KeyList(dirs, k) ==
  /\ DOMAIN k = DOMAIN dirs
  /\ \A i \in DOMAIN dirs : k[i] = <<dirs[i], k[i][2]>> /\ k[i][2] \in Nat \cup {NULL}

(* Comparison column by column is a strict total order of key lists.       *)
LEMMA KeyOrder ==
  ASSUME NEW N \in Nat, NEW dirs, DOMAIN dirs = 1..N,
         NEW k, KeyList(dirs, k), NEW l, KeyList(dirs, l), NEW m, KeyList(dirs, m)
  PROVE  /\ ~ RowBefore(k, k)
         /\ RowBefore(k, l) /\ RowBefore(l, m) => RowBefore(k, m)
         /\ (\A i \in 1..N : k[i] = l[i]) \/ RowBefore(k, l) \/ RowBefore(l, k)
<1>1. /\ DOMAIN k = 1..N /\ DOMAIN l = 1..N
      /\ \A i \in 1..N : /\ k[i][1] = dirs[i] /\ l[i][1] = dirs[i]
                         /\ k[i] = <<dirs[i], k[i][2]>> /\ l[i] = <<dirs[i], l[i][2]>>
                         /\ k[i][2] \in Nat \cup {NULL} /\ l[i][2] \in Nat \cup {NULL}
                         /\ m[i][2] \in Nat \cup {NULL}
  BY DEF KeyList
<1>2. ~ RowBefore(k, k)
  <2>1. \A i \in 1..N : ~ Precedes(k[i][1], k[i][2], k[i][2])
    BY <1>1, NullAssumption DEF Precedes
  <2> QED  BY <1>1, <2>1 DEF RowBefore
<1>3. ASSUME RowBefore(k, l), RowBefore(l, m) PROVE RowBefore(k, m)
  <2>1. PICK i \in 1..N : /\ Precedes(dirs[i], k[i][2], l[i][2])
                          /\ \A h \in 1..(i - 1) : k[h] = l[h]
    BY <1>1, <1>3 DEF RowBefore
  <2>2. PICK j \in 1..N : /\ Precedes(dirs[j], l[j][2], m[j][2])
                          /\ \A h \in 1..(j - 1) : l[h] = m[h]
    BY <1>1, <1>3 DEF RowBefore
  <2>3. ASSUME NEW n \in 1..N, n <= i, n <= j, Precedes(dirs[n], k[n][2], m[n][2])
        PROVE  RowBefore(k, m)
    <3>1. \A h \in 1..(n - 1) : h \in 1..(i - 1) /\ h \in 1..(j - 1)
      BY <2>3
    <3>2. \A h \in 1..(n - 1) : k[h] = m[h]
      BY <2>1, <2>2, <3>1
    <3> QED  BY <1>1, <2>3, <3>2 DEF RowBefore
  <2>4. CASE i < j
    <3>1. i \in 1..(j - 1)
      BY <2>4
    <3>2. l[i] = m[i]
      BY <2>2, <3>1
    <3> QED  BY <2>1, <2>3, <2>4, <3>2
  <2>5. CASE j < i
    <3>1. j \in 1..(i - 1)
      BY <2>5
    <3>2. k[j] = l[j]
      BY <2>1, <3>1
    <3> QED  BY <2>2, <2>3, <2>5, <3>2
  <2>6. CASE i = j
    <3>1. Precedes(dirs[i], k[i][2], m[i][2])
      BY <1>1, <2>1, <2>2, <2>6, NullAssumption DEF Precedes
    <3> QED  BY <2>3, <2>6, <3>1
  <2> QED  BY <2>4, <2>5, <2>6
<1>4. ASSUME NEW i0 \in 1..N, k[i0] # l[i0] PROVE RowBefore(k, l) \/ RowBefore(l, k)
  <2> DEFINE D == {i \in 1..N : k[i] # l[i]}
  <2>1. PICK i \in D : \A h \in D : i <= h
    <3>1. D \in SUBSET Nat /\ D # {}
      BY <1>4
    <3> HIDE DEF D
    <3> QED  BY <3>1, LeastNatural
  <2>2. \A h \in 1..(i - 1) : k[h] = l[h] /\ l[h] = k[h]
    BY <2>1
  <2>3. k[i][2] # l[i][2]
    BY <1>1, <2>1
  <2>4. Precedes(dirs[i], k[i][2], l[i][2]) \/ Precedes(dirs[i], l[i][2], k[i][2])
    BY <1>1, <2>1, <2>3, NullAssumption DEF Precedes
  <2> QED  BY <1>1, <2>1, <2>2, <2>4 DEF RowBefore
<1> QED  BY <1>2, <1>3, <1>4

-----------------------------------------------------------------------------
(* Rows ordered by their keys, no two alike.                               *)
Ordered(keys) ==
  LET R == DOMAIN keys
  IN /\ IsFiniteSet(R)
     /\ \A x \in R : ~ RowBefore(keys[x], keys[x])
     /\ \A x, y, z \in R :
          RowBefore(keys[x], keys[y]) /\ RowBefore(keys[y], keys[z]) => RowBefore(keys[x], keys[z])
     /\ \A x, y \in R : x = y \/ RowBefore(keys[x], keys[y]) \/ RowBefore(keys[y], keys[x])

(* A row's rank is smaller than that of the rows behind it.                *)
LEMMA RankOrder ==
  ASSUME NEW keys, Ordered(keys)
  PROVE  /\ Cardinality(DOMAIN keys) \in Nat
         /\ \A x \in DOMAIN keys : Ranks(keys)[x] \in 0..(Cardinality(DOMAIN keys) - 1)
         /\ \A x, y \in DOMAIN keys :
              /\ RowBefore(keys[x], keys[y]) <=> Ranks(keys)[x] < Ranks(keys)[y]
              /\ Ranks(keys)[x] = Ranks(keys)[y] => x = y
<1> DEFINE R == DOMAIN keys
           N == Cardinality(R)
           A(x) == {y \in R : RowBefore(keys[y], keys[x])}
           rank == Ranks(keys)
<1>1. IsFiniteSet(R) /\ N \in Nat
  BY FS_CardinalityType DEF Ordered
<1>2. \A x \in R : rank[x] = Cardinality(A(x))
  BY DEF Ranks
<1>3. ASSUME NEW x \in R PROVE rank[x] \in 0..(N - 1)
  <2>1. A(x) \in SUBSET R /\ x \notin A(x)
    BY DEF Ordered
  <2>2. /\ IsFiniteSet(A(x)) /\ Cardinality(A(x)) <= N
        /\ N = Cardinality(A(x)) => R = A(x)
    BY <1>1, <2>1, FS_Subset
  <2>3. Cardinality(A(x)) \in Nat
    BY <2>2, FS_CardinalityType
  <2> HIDE DEF A, R
  <2> QED  BY <1>1, <1>2, <2>1, <2>2, <2>3
<1>4. ASSUME NEW x \in R, NEW y \in R, RowBefore(keys[x], keys[y]) PROVE rank[x] < rank[y]
  <2>1. A(x) \in SUBSET A(y)
    BY <1>4 DEF Ordered
  <2>2. x \in A(y) /\ x \notin A(x)
    BY <1>4 DEF Ordered
  <2>3. IsFiniteSet(A(y))
    BY <1>1, FS_Subset
  <2>4. Cardinality(A(x)) <= Cardinality(A(y)) /\ Cardinality(A(y)) # Cardinality(A(x))
    BY <2>1, <2>2, <2>3, FS_Subset
  <2> HIDE DEF A, R, N
  <2>5. rank[x] \in Nat /\ rank[y] \in Nat
    BY <1>1, <1>3
  <2> QED  BY <1>2, <2>4, <2>5
<1>5. \A x, y \in R : x = y \/ RowBefore(keys[x], keys[y]) \/ RowBefore(keys[y], keys[x])
  BY DEF Ordered
<1> HIDE DEF R, N, rank
<1>6. \A x \in R : rank[x] \in Nat
  BY <1>1, <1>3
<1>7. \A x, y \in R : /\ RowBefore(keys[x], keys[y]) <=> rank[x] < rank[y]
                      /\ rank[x] = rank[y] => x = y
  <2> TAKE x, y \in R
  <2>1. RowBefore(keys[x], keys[y]) => rank[x] < rank[y]
    BY <1>4
  <2>2. RowBefore(keys[y], keys[x]) => rank[y] < rank[x]
    BY <1>4
  <2>3. CASE x = y
    <3>1. ~ RowBefore(keys[x], keys[y])
      BY <2>3 DEF Ordered, R
    <3> QED  BY <1>6, <2>3, <3>1
  <2>4. CASE RowBefore(keys[x], keys[y])
    BY <1>6, <2>1, <2>4
  <2>5. CASE RowBefore(keys[y], keys[x])
    <3>1. ~ RowBefore(keys[x], keys[y])
      BY <1>6, <2>1, <2>2, <2>5
    <3> QED  BY <1>6, <2>2, <2>5, <3>1
  <2> QED  BY <1>5, <2>3, <2>4, <2>5
<1> QED  BY <1>1, <1>3, <1>7 DEF R, N, rank

(* The sorted list has at each place the row of that rank.                 *)
LEMMA SortedIs ==
  ASSUME NEW keys, Ordered(keys)
  PROVE  LET N == Cardinality(DOMAIN keys)
         IN /\ Sorted(keys) \in Seq(DOMAIN keys) /\ Len(Sorted(keys)) = N
            /\ \A n \in 1..N : Ranks(keys)[Sorted(keys)[n]] = n - 1
            /\ \A x \in DOMAIN keys : Sorted(keys)[Ranks(keys)[x] + 1] = x
<1> DEFINE R == DOMAIN keys
           N == Cardinality(R)
           rank == Ranks(keys)
           s == Sorted(keys)
<1>1. /\ N \in Nat /\ \A x \in R : rank[x] \in 0..(N - 1)
      /\ \A x, y \in R : rank[x] = rank[y] => x = y
  BY RankOrder
<1>2. DOMAIN rank = R /\ rank = [x \in R |-> rank[x]] /\ IsFiniteSet(R)
  BY DEF Ranks, Ordered
<1>3. s = [n \in 1..N |-> CHOOSE x \in R : rank[x] = n - 1]
  BY DEF Sorted
<1> HIDE DEF R, N, rank, s
<1>4. rank \in Injection(R, 0..(N - 1))
  BY <1>1, <1>2 DEF Injection, IsInjective
<1>5. IsFiniteSet(0..(N - 1)) /\ Cardinality(0..(N - 1)) = N
  BY <1>1, FS_Interval
<1>6. rank \in Surjection(R, 0..(N - 1))
  BY <1>2, <1>4, <1>5, FS_Injection DEF N
<1>7. ASSUME NEW n \in 1..N PROVE s[n] \in R /\ rank[s[n]] = n - 1
  <2>1. n - 1 \in 0..(N - 1)
    BY <1>1
  <2>2. \E x \in R : rank[x] = n - 1
    BY <1>6, <2>1 DEF Surjection, Range
  <2> QED  BY <1>3, <2>2
<1>8. s \in [1..N -> R]
  BY <1>3, <1>7
<1>9. s \in Seq(R) /\ Len(s) = N
  BY <1>1, <1>8
<1>10. ASSUME NEW x \in R PROVE s[rank[x] + 1] = x
  <2>1. rank[x] + 1 \in 1..N /\ (rank[x] + 1) - 1 = rank[x]
    BY <1>1
  <2>2. s[rank[x] + 1] \in R /\ rank[s[rank[x] + 1]] = rank[x]
    BY <1>7, <2>1
  <2> QED  BY <1>1, <2>2
<1> QED  BY <1>7, <1>9, <1>10 DEF R, N, rank, s

(* The rows of the ranks from one number up to before another.             *)
Between(keys, low, high) == {x \in DOMAIN keys : low <= Ranks(keys)[x] /\ Ranks(keys)[x] < high}

(* A page holds the rows of its ranks, each once.                          *)
LEMMA PageHolds ==
  ASSUME NEW keys, Ordered(keys), NEW limit \in Nat \ {0}, NEW offset \in Nat
  PROVE  LET p == Page(Sorted(keys), limit, offset)
         IN /\ p \in Seq(DOMAIN keys) /\ Len(p) <= limit /\ IsInjective(p)
            /\ Range(p) = Between(keys, offset, offset + limit)
<1> DEFINE R == DOMAIN keys
           N == Cardinality(R)
           rank == Ranks(keys)
           s == Sorted(keys)
           T == {offset + limit, N}
           last == IF offset + limit <= N THEN offset + limit ELSE N
           p == SubSeq(s, offset + 1, last)
<1>1. N \in Nat /\ \A x \in R : rank[x] \in 0..(N - 1)
  BY RankOrder
<1>2. /\ s \in Seq(R) /\ Len(s) = N
      /\ \A n \in 1..N : s[n] \in R /\ rank[s[n]] = n - 1
      /\ \A x \in R : s[rank[x] + 1] = x
  <2>1. s \in Seq(R) /\ Len(s) = N
    BY SortedIs
  <2>2. \A n \in 1..N : s[n] \in R
    <3> HIDE DEF s, R
    <3> QED  BY <2>1, ElementOfSeq DEF N
  <2> QED  BY <2>1, <2>2, SortedIs
<1> HIDE DEF R, N, rank, s
<1>3. last \in Int /\ last \in T /\ \A x \in T : last <= x
  BY <1>1
<1>4. Min(T) = last
  <2>1. \A x \in T : (\A y \in T : x <= y) => x = last
    BY <1>1, <1>3
  <2> HIDE DEF T, last
  <2> QED  BY <1>3, <2>1 DEF Min
<1>5. Page(s, limit, offset) = p
  <2> HIDE DEF last
  <2> QED  BY <1>2, <1>4 DEF Page, Slice
<1>6. last <= offset + limit /\ last <= N
  BY <1>1
<1>7. /\ p \in Seq(R) /\ Len(p) \in Nat /\ Len(p) <= limit /\ last <= offset + Len(p)
      /\ \A i \in 1..Len(p) : p[i] = s[offset + i] /\ offset + i \in 1..N
  <2> HIDE DEF last
  <2>1. CASE offset + 1 <= last
    <3> DEFINE size == last - offset
    <3>1. p \in Seq(R) /\ Len(p) = last - (offset + 1) + 1
      BY <1>1, <1>2, <1>3, <1>6, <2>1
    <3>2. \A i \in 1..(last - (offset + 1) + 1) : p[i] = s[(offset + 1) + i - 1]
      BY <1>1, <1>2, <1>3, <1>6, <2>1, SMTT(30)
    <3>3. /\ size \in Nat /\ size = last - (offset + 1) + 1 /\ size <= limit
          /\ last <= offset + size /\ offset + size <= N
      BY <1>1, <1>3, <1>6, <2>1
    <3> HIDE DEF size, p
    <3>4. Len(p) = size /\ \A i \in 1..size : p[i] = s[(offset + 1) + i - 1]
      BY <3>2, <3>1, <3>3
    <3>5. \A i \in 1..size : (offset + 1) + i - 1 = offset + i /\ offset + i \in 1..N
      BY <1>1, <3>3
    <3> QED  BY <3>1, <3>3, <3>4, <3>5
  <2>2. CASE ~ (offset + 1 <= last)
    <3>1. p = <<>>
      BY <1>1, <1>2, <1>3, <2>2
    <3> HIDE DEF p
    <3>2. p \in Seq(R) /\ Len(p) = 0
      BY <3>1
    <3> QED  BY <1>3, <2>2, <3>2
  <2> QED  BY <2>1, <2>2
<1> HIDE DEF p
<1>8. DOMAIN p = 1..Len(p)
  BY <1>7
<1>9. \A i \in 1..Len(p) : p[i] \in R /\ rank[p[i]] = offset + i - 1
  BY <1>2, <1>7
<1>10. IsInjective(p)
  <2>1. ASSUME NEW i \in 1..Len(p), NEW j \in 1..Len(p), p[i] = p[j] PROVE i = j
    <3>1. offset + i - 1 = offset + j - 1
      BY <1>9, <2>1
    <3> QED  BY <1>7, <3>1
  <2> QED  BY <1>8, <2>1 DEF IsInjective
<1>11. Range(p) = Between(keys, offset, offset + limit)
  <2>1. ASSUME NEW i \in 1..Len(p) PROVE p[i] \in Between(keys, offset, offset + limit)
    <3>1. offset <= offset + i - 1 /\ offset + i - 1 < offset + limit
      BY <1>7
    <3> QED  BY <1>9, <3>1 DEF Between, R, rank
  <2>2. ASSUME NEW x \in Between(keys, offset, offset + limit) PROVE x \in Range(p)
    <3> DEFINE i == rank[x] - offset + 1
    <3>1. x \in R /\ rank[x] \in 0..(N - 1) /\ offset <= rank[x] /\ rank[x] < offset + limit
      BY <1>1, <2>2 DEF Between, R, rank
    <3>2. rank[x] + 1 <= last
      BY <1>1, <3>1
    <3> HIDE DEF last
    <3>3. i \in 1..Len(p) /\ offset + i = rank[x] + 1
      BY <1>1, <1>3, <1>7, <3>1, <3>2
    <3>4. p[i] = x
      BY <1>2, <1>7, <3>1, <3>3
    <3> QED  BY <1>8, <3>3, <3>4 DEF Range
  <2> QED  BY <1>8, <2>1, <2>2 DEF Range
<1> QED  BY <1>5, <1>7, <1>8, <1>10, <1>11 DEF R, s

-----------------------------------------------------------------------------
(* The directions of a list's ORDER BY.                                    *)
Directions(q) ==
  CASE q.list = "transactions" -> <<q.order, "asc">>
    [] q.list = "events"       -> <<"desc", "asc">>
    [] q.list = "groups"       -> [i \in DOMAIN q.group_by |-> "asc"]
    [] OTHER                   -> <<q.order, "desc", "asc">>

(* Alphabetical positions are numbers, and tell ids of a kind apart.       *)
LEMMA Positions ==
  /\ \A x \in EventIds \cup Txns \cup Merchants \cup Currencies \cup Statuses :
       TextOrder[x] \in Nat
  /\ \A x, y \in EventIds : TextOrder[x] = TextOrder[y] => x = y
  /\ \A x, y \in Txns : TextOrder[x] = TextOrder[y] => x = y
  /\ \A x, y \in Merchants : TextOrder[x] = TextOrder[y] => x = y
  /\ \A x, y \in Currencies : TextOrder[x] = TextOrder[y] => x = y
  /\ \A x, y \in Statuses : TextOrder[x] = TextOrder[y] => x = y
  BY PagingAssumption

(* Every column a list may be sorted by holds numbers or NULL.             *)
LEMMA ColumnTyped ==
  ASSUME NEW t \in Txns, NEW r \in TxnRow, NEW cutoff,
         NEW column \in TransactionSorts \cup DiscrepancySorts
  PROVE  SortColumn(t, r, column, cutoff) \in Nat \cup {NULL}
<1>1. /\ r.amount_minor \in Nat /\ r.last_event_at \in Nat /\ r.first_event_at \in Nat
      /\ r.event_count \in Nat /\ r.merchant_id \in Merchants
      /\ r.at["settled_at"] \in Nat \cup {NULL}
  BY DEF TxnRow, Columns
<1>2. Status(r) \in Statuses
  BY DEF Status, Statuses
<1>3. TextOrder[t] \in Nat /\ TextOrder[Status(r)] \in Nat /\ TextOrder[r.merchant_id] \in Nat
  BY <1>1, <1>2, Positions
<1>4. SeverityRank(FlagColumns(r, cutoff)) \in Nat
  BY DEF SeverityRank
<1>5. CASE column \in {"transaction_id", "status", "merchant_id", "severity"}
  BY <1>3, <1>4, <1>5 DEF SortColumn
<1>6. CASE column \in {"amount", "settled_at", "age", "first_event_at", "last_event_at",
                       "event_count"}
  BY <1>1, <1>6 DEF SortColumn
<1> QED  BY <1>5, <1>6 DEF TransactionSorts, DiscrepancySorts

(* Transactions and discrepancies: the last key is that of the id.         *)
LEMMA TransactionKeys ==
  ASSUME NEW d, GoodDb(d), NEW q, Acceptable(q), q.list \in {"transactions", "discrepancies"},
         NEW x \in DOMAIN d.transactions, NEW y \in DOMAIN d.transactions
  PROVE  /\ KeyList(Directions(q), SortKeys(d, q, x))
         /\ (\A i \in DOMAIN Directions(q) : SortKeys(d, q, x)[i] = SortKeys(d, q, y)[i])
              => x = y
<1> DEFINE C(t, column) == SortColumn(t, d.transactions[t], column, q.cutoff)
<1>1. \A t \in DOMAIN d.transactions : t \in Txns /\ d.transactions[t] \in TxnRow
  BY SMTT(30) DEF GoodDb, IsDb, IsTable
<1>2. q.sort_by \in TransactionSorts \cup DiscrepancySorts
  BY DEF Acceptable
<1>3. \A t \in DOMAIN d.transactions :
        /\ C(t, q.sort_by) \in Nat \cup {NULL} /\ C(t, "severity") \in Nat \cup {NULL}
        /\ d.transactions[t].last_event_at \in Nat /\ TextOrder[t] \in Nat
  <2> TAKE t \in DOMAIN d.transactions
  <2>1. C(t, q.sort_by) \in Nat \cup {NULL} /\ C(t, "severity") \in Nat \cup {NULL}
    BY <1>1, <1>2, ColumnTyped DEF DiscrepancySorts
  <2>2. d.transactions[t].last_event_at \in Nat
    BY <1>1 DEF TxnRow
  <2> QED  BY <1>1, <2>1, <2>2, Positions
<1>4. TextOrder[x] = TextOrder[y] => x = y
  BY <1>1, Positions
<1> HIDE DEF C
<1>5. CASE q.list = "transactions"
  <2>1. Directions(q) = <<q.order, "asc">>
    BY <1>5 DEF Directions
  <2>2. \A t : SortKeys(d, q, t) = <<<<q.order, C(t, q.sort_by)>>, <<"asc", TextOrder[t]>>>>
    BY <1>5 DEF SortKeys, Asc, C
  <2>3. KeyList(Directions(q), SortKeys(d, q, x))
    BY <1>3, <2>1, <2>2 DEF KeyList
  <2>4. SortKeys(d, q, x)[2] = SortKeys(d, q, y)[2] => x = y
    BY <1>4, <2>2
  <2> QED  BY <2>1, <2>3, <2>4
<1>6. CASE q.list = "discrepancies"
  <2> DEFINE M(t) == IF q.sort_by = "severity" THEN d.transactions[t].last_event_at
                     ELSE C(t, "severity")
  <2>1. Directions(q) = <<q.order, "desc", "asc">>
    BY <1>6 DEF Directions
  <2>2. \A t : SortKeys(d, q, t) =
                 <<<<q.order, C(t, q.sort_by)>>, <<"desc", M(t)>>, <<"asc", TextOrder[t]>>>>
    BY <1>6 DEF SortKeys, Asc, Desc, C
  <2>3. M(x) \in Nat \cup {NULL}
    BY <1>3
  <2> HIDE DEF M
  <2>4. KeyList(Directions(q), SortKeys(d, q, x))
    BY <1>3, <2>1, <2>2, <2>3 DEF KeyList
  <2>5. SortKeys(d, q, x)[3] = SortKeys(d, q, y)[3] => x = y
    BY <1>4, <2>2
  <2> QED  BY <2>1, <2>4, <2>5
<1> QED  BY <1>5, <1>6

(* Events: the last key is that of the event id, and no two have the same. *)
LEMMA EventKeys ==
  ASSUME NEW d, GoodDb(d), NEW q, q.list = "events",
         NEW x \in StoredEvents(d), NEW y \in StoredEvents(d)
  PROVE  /\ KeyList(Directions(q), SortKeys(d, q, x))
         /\ (\A i \in DOMAIN Directions(q) : SortKeys(d, q, x)[i] = SortKeys(d, q, y)[i])
              => x = y
<1>1. \A i \in DOMAIN d.events : d.events[i].payload \in EventIn
  <2> TAKE i \in DOMAIN d.events
  <2>1. d.events[i] \in EventRow
    BY ElementOfSeq DEF GoodDb, IsDb
  <2> QED  BY <2>1 DEF EventRow
<1>2. x \in EventIn /\ y \in EventIn /\ (x.event_id = y.event_id => x = y)
  BY <1>1 DEF StoredEvents, GoodDb, KeysHold
<1>3. x.timestamp \in Nat /\ x.event_id \in EventIds /\ y.event_id \in EventIds
  BY <1>2 DEF EventIn
<1>4. /\ TextOrder[x.event_id] \in Nat
      /\ TextOrder[x.event_id] = TextOrder[y.event_id] => x = y
  BY <1>2, <1>3, Positions
<1>5. Directions(q) = <<"desc", "asc">>
  BY DEF Directions
<1> DEFINE Line(e) == <<<<"desc", e.timestamp>>, <<"asc", TextOrder[e.event_id]>>>>
<1>6. SortKeys(d, q, x) = Line(x) /\ SortKeys(d, q, y) = Line(y)
  BY DEF SortKeys, Asc, Desc
<1>7. KeyList(Directions(q), SortKeys(d, q, x))
  BY <1>3, <1>4, <1>5, <1>6 DEF KeyList
<1>8. SortKeys(d, q, x)[2] = SortKeys(d, q, y)[2] => x = y
  BY <1>4, <1>6
<1> QED  BY <1>5, <1>7, <1>8

(* Groups: their keys are the positions of their own values.               *)
LEMMA GroupOrderKeys ==
  ASSUME NEW d, GoodDb(d), NEW q, Acceptable(q), q.list = "groups",
         NEW x \in GroupKeys(d, q.filter, q.group_by), NEW y \in GroupKeys(d, q.filter, q.group_by)
  PROVE  /\ KeyList(Directions(q), SortKeys(d, q, x))
         /\ (\A i \in DOMAIN Directions(q) : SortKeys(d, q, x)[i] = SortKeys(d, q, y)[i])
              => x = y
<1> DEFINE G == DOMAIN q.group_by
           Value(i, v) == IF q.group_by[i] = "date" THEN v ELSE TextOrder[v]
<1>1. \A t \in DOMAIN d.transactions : d.transactions[t] \in TxnRow
  BY SMTT(30) DEF GoodDb, IsDb, IsTable
<1>2. \A i \in G : q.group_by[i] \in GroupByDimensions
  BY ElementOfSeq DEF Acceptable
<1>3. PICK s \in DOMAIN d.transactions : x = GroupKey(d.transactions[s], q.group_by)
  BY DEF GroupKeys, Population, Joined, Selected
<1>4. PICK t \in DOMAIN d.transactions : y = GroupKey(d.transactions[t], q.group_by)
  BY DEF GroupKeys, Population, Joined, Selected
<1>5. /\ x = [i \in G |-> Dimension(d.transactions[s], q.group_by[i])]
      /\ y = [i \in G |-> Dimension(d.transactions[t], q.group_by[i])]
  BY <1>3, <1>4 DEF GroupKey
<1>6. /\ Directions(q) = [i \in G |-> "asc"]
      /\ SortKeys(d, q, x) = [i \in G |-> <<"asc", Value(i, x[i])>>]
      /\ SortKeys(d, q, y) = [i \in G |-> <<"asc", Value(i, y[i])>>]
  BY <1>5 DEF Directions, SortKeys, GroupOrder, Asc
<1>7. ASSUME NEW i \in G
      PROVE  Value(i, x[i]) \in Nat /\ (Value(i, x[i]) = Value(i, y[i]) => x[i] = y[i])
  <2> DEFINE dim == q.group_by[i]
             r == d.transactions[s]
             p == d.transactions[t]
  <2>1. /\ r \in TxnRow /\ p \in TxnRow
        /\ dim \in GroupByDimensions
        /\ x[i] = Dimension(r, dim) /\ y[i] = Dimension(p, dim)
    BY <1>1, <1>2, <1>5
  <2>2. Value(i, x[i]) = (IF dim = "date" THEN x[i] ELSE TextOrder[x[i]])
        /\ Value(i, y[i]) = (IF dim = "date" THEN y[i] ELSE TextOrder[y[i]])
    OBVIOUS
  <2> HIDE DEF dim, r, p, Value
  <2>3. CASE dim = "date"
    <3>1. x[i] = r.first_event_at \div DayLength /\ r.first_event_at \in Nat
      BY <2>1, <2>3 DEF Dimension, TxnRow
    <3>2. x[i] \in Nat
      BY <3>1, DayAssumption
    <3> QED  BY <2>2, <2>3, <3>2
  <2>4. CASE dim = "merchant"
    <3>1. x[i] \in Merchants /\ y[i] \in Merchants
      BY <2>1, <2>4 DEF Dimension, TxnRow
    <3> QED  BY <2>2, <2>4, <3>1, Positions
  <2>5. CASE dim = "currency"
    <3>1. x[i] \in Currencies /\ y[i] \in Currencies
      BY <2>1, <2>5 DEF Dimension, TxnRow
    <3> QED  BY <2>2, <2>5, <3>1, Positions
  <2>6. CASE dim = "status"
    <3>1. x[i] \in Statuses /\ y[i] \in Statuses
      BY <2>1, <2>6 DEF Dimension, Status, Statuses
    <3> QED  BY <2>2, <2>6, <3>1, Positions
  <2> QED  BY <2>1, <2>3, <2>4, <2>5, <2>6 DEF GroupByDimensions
<1> HIDE DEF Value, G
<1>8. KeyList(Directions(q), SortKeys(d, q, x))
  BY <1>6, <1>7 DEF KeyList
<1>9. (\A i \in G : SortKeys(d, q, x)[i] = SortKeys(d, q, y)[i]) => x = y
  <2>1. \A i \in G : SortKeys(d, q, x)[i] = SortKeys(d, q, y)[i] => x[i] = y[i]
    BY <1>6, <1>7
  <2> QED  BY <1>5, <2>1
<1> QED  BY <1>6, <1>8, <1>9

(* The rows a list draws from are finitely many, and what they are of.     *)
LEMMA RowsKnown ==
  ASSUME NEW d, GoodDb(d), NEW q, Acceptable(q)
  PROVE  /\ IsFiniteSet(Rows(d, q))
         /\ q.list \in {"transactions", "discrepancies"} =>
              Rows(d, q) \subseteq DOMAIN d.transactions
         /\ q.list = "events" => Rows(d, q) \subseteq StoredEvents(d)
         /\ q.list = "groups" => Rows(d, q) = GroupKeys(d, q.filter, q.group_by)
         /\ Count(d, q) = Cardinality(Rows(d, q))
<1> DEFINE T == DOMAIN d.transactions
           R == Rows(d, q)
<1>1. IsFiniteSet(T)
  BY TransactionsFinite
<1>2. \A t \in T : d.transactions[t].merchant_id \in DOMAIN d.merchants
  BY DEF GoodDb, KeysHold
<1>3. CASE q.list = "transactions"
  <2>1. R = Joined(d, q.filter) /\ Count(d, q) = Cardinality(Selected(d, q.filter))
    BY <1>3 DEF Rows, Count
  <2>2. Joined(d, q.filter) = Selected(d, q.filter) /\ Selected(d, q.filter) \subseteq T
    BY <1>2 DEF Joined, Selected
  <2> HIDE DEF T
  <2> QED  BY <1>1, <1>3, <2>1, <2>2, FS_Subset DEF T
<1>4. CASE q.list = "discrepancies"
  <2>1. R = Flagged(d, q.filter, q.types, q.cutoff) /\ Count(d, q) = Cardinality(R)
    BY <1>4 DEF Rows, Count
  <2>2. R \subseteq T
    BY <2>1 DEF Flagged, Joined, Selected
  <2> HIDE DEF R, T
  <2> QED  BY <1>1, <1>4, <2>1, <2>2, FS_Subset DEF R, T
<1>5. CASE q.list = "events"
  <2> DEFINE I == DOMAIN d.events
             f == [i \in I |-> d.events[i].payload]
  <2>1. R \subseteq StoredEvents(d) /\ Count(d, q) = Cardinality(R)
    BY <1>5 DEF Rows, Count
  <2>2. IsFiniteSet(I)
    <3>1. d.events \in Seq(EventRow)
      BY DEF GoodDb, IsDb
    <3> QED  BY <3>1, LenProperties, FS_Interval
  <2>3. StoredEvents(d) = {f[i] : i \in I}
    BY DEF StoredEvents
  <2>4. IsFiniteSet(StoredEvents(d))
    <3> HIDE DEF f, I
    <3> QED  BY <2>2, <2>3, ImageFinite
  <2> HIDE DEF R
  <2> QED  BY <1>5, <2>1, <2>4, FS_Subset DEF R
<1>6. CASE q.list = "groups"
  <2> DEFINE P == Population(d, q.filter, q.group_by)
             f == [t \in P |-> GroupKey(d.transactions[t], q.group_by)]
  <2>1. R = GroupKeys(d, q.filter, q.group_by) /\ Count(d, q) = Cardinality(R)
    BY <1>6 DEF Rows, Count
  <2>2. P \subseteq T
    BY DEF Population, Joined, Selected
  <2>3. IsFiniteSet(P)
    <3> HIDE DEF P, T
    <3> QED  BY <1>1, <2>2, FS_Subset
  <2>4. R = {f[t] : t \in P}
    BY <2>1 DEF GroupKeys
  <2>5. IsFiniteSet(R)
    <3> HIDE DEF f, P, R
    <3> QED  BY <2>3, <2>4, ImageFinite
  <2> QED  BY <1>6, <2>1, <2>5
<1> QED  BY <1>3, <1>4, <1>5, <1>6 DEF Acceptable

(* Every list's ORDER BY puts its rows in one order.                       *)
LEMMA RowsOrdered ==
  ASSUME NEW d, GoodDb(d), NEW q, Acceptable(q)
  PROVE  Ordered(Keys(d, q)) /\ DOMAIN Keys(d, q) = Rows(d, q)
<1> DEFINE R == Rows(d, q)
           keys == Keys(d, q)
           dirs == Directions(q)
<1>1. IsFiniteSet(R) /\ DOMAIN keys = R /\ \A x \in R : keys[x] = SortKeys(d, q, x)
  BY RowsKnown DEF Keys
<1>2. PICK N \in Nat : DOMAIN dirs = 1..N
  <2>1. CASE q.list = "groups"
    <3>1. DOMAIN dirs = DOMAIN q.group_by /\ q.group_by \in Seq(GroupByDimensions)
      BY <2>1 DEF Directions, Acceptable
    <3> QED  BY <3>1, LenProperties
  <2>2. CASE q.list = "transactions"
    <3>1. DOMAIN dirs = 1..2
      BY <2>2 DEF Directions
    <3> QED  BY <3>1
  <2>3. CASE q.list = "events"
    <3>1. DOMAIN dirs = 1..2
      BY <2>3 DEF Directions
    <3> QED  BY <3>1
  <2>4. CASE q.list = "discrepancies"
    <3>1. DOMAIN dirs = 1..3
      BY <2>4 DEF Directions
    <3> QED  BY <3>1
  <2> QED  BY <2>1, <2>2, <2>3, <2>4 DEF Acceptable
<1>3. \A x, y \in R : /\ KeyList(dirs, keys[x])
                      /\ (\A i \in DOMAIN dirs : keys[x][i] = keys[y][i]) => x = y
  <2> TAKE x, y \in R
  <2>1. CASE q.list \in {"transactions", "discrepancies"}
    BY <1>1, <2>1, RowsKnown, TransactionKeys
  <2>2. CASE q.list = "events"
    BY <1>1, <2>2, RowsKnown, EventKeys
  <2>3. CASE q.list = "groups"
    BY <1>1, <2>3, RowsKnown, GroupOrderKeys
  <2> QED  BY <2>1, <2>2, <2>3 DEF Acceptable
<1> HIDE DEF R, keys, dirs
<1>4. \A x \in R : ~ RowBefore(keys[x], keys[x])
  BY <1>2, <1>3, KeyOrder
<1>5. ASSUME NEW x \in R, NEW y \in R, NEW z \in R,
             RowBefore(keys[x], keys[y]), RowBefore(keys[y], keys[z])
      PROVE  RowBefore(keys[x], keys[z])
  <2>1. KeyList(dirs, keys[x]) /\ KeyList(dirs, keys[y]) /\ KeyList(dirs, keys[z])
    BY <1>3
  <2> QED  BY <1>2, <1>5, <2>1, KeyOrder
<1>6. ASSUME NEW x \in R, NEW y \in R
      PROVE  x = y \/ RowBefore(keys[x], keys[y]) \/ RowBefore(keys[y], keys[x])
  <2>1. KeyList(dirs, keys[x]) /\ KeyList(dirs, keys[y])
    BY <1>3
  <2>2. \/ \A i \in 1..N : keys[x][i] = keys[y][i]
        \/ RowBefore(keys[x], keys[y]) \/ RowBefore(keys[y], keys[x])
    BY <1>2, <2>1, KeyOrder
  <2> QED  BY <1>2, <1>3, <2>2
<1>7. Ordered(keys)
  BY <1>1, <1>4, <1>5, <1>6 DEF Ordered
<1> QED  BY <1>1, <1>7 DEF R, keys

(* What a page of a list shows: the wanted rows of its ranks, each once.   *)
LEMMA ItemsHold ==
  ASSUME NEW d, GoodDb(d), NEW q, Acceptable(q), NEW offset \in Nat
  PROVE  LET items == Items(d, q, offset)
             keys == Keys(d, q)
         IN /\ items \in Seq(Rows(d, q)) /\ Len(items) \in Nat /\ Len(items) <= q.limit
            /\ IsInjective(items)
            /\ Range(items) = Between(keys, offset, offset + q.limit) \cap Wanted(d, q)
<1> DEFINE R == Rows(d, q)
           keys == Keys(d, q)
           p == Page(Sorted(keys), q.limit, offset)
           W == Wanted(d, q)
<1>1. Ordered(keys) /\ DOMAIN keys = R /\ q.limit \in Nat \ {0}
  BY RowsOrdered DEF Acceptable
<1>2. Items(d, q, offset) = Within(p, W)
  BY DEF Items, Listing
<1> HIDE DEF keys, R, W
<1>3. /\ p \in Seq(R) /\ Len(p) <= q.limit /\ IsInjective(p)
      /\ Range(p) = Between(keys, offset, offset + q.limit)
  BY <1>1, PageHolds
<1> HIDE DEF p
<1>4. Within(p, W) \in Seq(R \cap W) /\ Range(Within(p, W)) = Range(p) \cap W
  BY <1>3, WithinElements
<1>5. IsInjective(Within(p, W)) /\ Len(Within(p, W)) <= Len(p)
  BY <1>3, WithinInjective
<1> DEFINE items == Within(p, W)
<1> HIDE DEF items
<1>6. items \in Seq(R) /\ Len(items) \in Nat /\ Len(p) \in Nat
  <2>1. items \in Seq(R \cap W)
    BY <1>4 DEF items
  <2>2. Seq(R \cap W) \subseteq Seq(R)
    OBVIOUS
  <2> QED  BY <1>3, <2>1, <2>2, LenProperties
<1>7. Len(items) <= q.limit
  BY <1>1, <1>3, <1>5, <1>6 DEF items
<1> QED  BY <1>2, <1>3, <1>4, <1>5, <1>6, <1>7 DEF items, R, keys, W

-----------------------------------------------------------------------------
(* The inductive invariant.                                                *)
WalkOk(w) ==
  /\ w = [at |-> w.at, request |-> w.request, offset |-> w.offset, total |-> w.total,
          seen |-> w.seen, since |-> w.since, present |-> w.present]
  /\ w.at \in {"count", "rows", "done"}
  /\ Acceptable(w.request)
  /\ \E m \in Nat : m <= clock /\ w.request = Resolve(w.request, m)
  /\ w.offset \in Nat /\ w.total \in Nat
  /\ w.seen \in Seq(Range(w.seen))
  /\ w.since \in Nat /\ w.since <= commits

(* While nothing has committed since its start, a walk's count is the true *)
(* one; if its pages all ask the same it has seen the wanted rows below    *)
(* its offset, each once.                                                  *)
Quiet(w) ==
  LET W == Wanted(db, w.request)
      keys == Keys(db, w.request)
  IN w.since = commits =>
       /\ w.at = "rows" => w.total = Count(db, w.request)
       /\ Pinned(w.request) =>
            /\ IsInjective(w.seen)
            /\ w.at \in {"count", "rows"} => Range(w.seen) = Between(keys, 0, w.offset) \cap W
            /\ w.at = "done" => Range(w.seen) = W

(* A list of discrepancies from which nothing has been committed away.     *)
Ageing(w) ==
  /\ w.since = commits
  /\ w.request.list = "discrepancies" /\ w.request.types \subseteq DefaultTypes

(* In such a list, and in a fixed order, the rows that were there are      *)
(* still there; one that has not been seen lies at or behind the offset,   *)
(* and behind those seen.                                                  *)
Waiting(w) ==
  LET keys == Keys(db, w.request)
  IN FixedOrder(w.request) \/ Ageing(w) =>
       /\ w.present \subseteq Wanted(db, w.request)
       /\ w.at \in {"count", "rows"} =>
            \A x \in w.present \ Range(w.seen) : w.offset <= Ranks(keys)[x]
       /\ \A x \in w.present \ Range(w.seen), y \in w.present \cap Range(w.seen) :
            ~ RowBefore(keys[x], keys[y])
       /\ Ageing(w) /\ w.at = "done" => w.present \subseteq Range(w.seen)

IInv ==
  /\ GoodDb(db) /\ commits \in Nat /\ clock \in Nat
  /\ walk = [c \in Clients |-> walk[c]]
  /\ \A c \in Clients : walk[c] = NoWalk \/ (WalkOk(walk[c]) /\ Quiet(walk[c]) /\ Waiting(walk[c]))

-----------------------------------------------------------------------------
(* Seeing one more page.                                                   *)
LEMMA SeenGrows ==
  ASSUME NEW s, s \in Seq(Range(s)), NEW t, t \in Seq(Range(t))
  PROVE  LET u == s \o t
         IN /\ Range(u) = Range(s) \cup Range(t) /\ u \in Seq(Range(u))
            /\ IsInjective(s) /\ IsInjective(t) /\ Range(s) \cap Range(t) = {} => IsInjective(u)
<1> DEFINE u == s \o t
           S == Range(s) \cup Range(t)
           M == Len(s)
           N == Len(t)
<1>1. M \in Nat /\ N \in Nat /\ DOMAIN s = 1..M /\ DOMAIN t = 1..N
  BY LenProperties
<1>2. s \in Seq(S) /\ t \in Seq(S)
  <2>1. Seq(Range(s)) \subseteq Seq(S) /\ Seq(Range(t)) \subseteq Seq(S)
    OBVIOUS
  <2> QED  BY <2>1
<1>3. /\ u \in Seq(S) /\ Len(u) = M + N /\ DOMAIN u = 1..(M + N)
      /\ \A i \in 1..(M + N) : u[i] = IF i <= M THEN s[i] ELSE t[i - M]
  <2> HIDE DEF S
  <2>1. u \in Seq(S) /\ Len(u) = M + N
    BY <1>2, ConcatProperties
  <2>2. \A i \in 1..(M + N) : u[i] = IF i <= M THEN s[i] ELSE t[i - M]
    BY <1>2, ConcatProperties
  <2> QED  BY <1>1, <2>1, <2>2, LenProperties
<1> HIDE DEF u, M, N
<1>4. ASSUME NEW i \in 1..M PROVE u[i] = s[i] /\ i \in DOMAIN u
  BY <1>1, <1>3
<1>5. ASSUME NEW i \in 1..N PROVE u[M + i] = t[i] /\ M + i \in DOMAIN u
  <2>1. M + i \in 1..(M + N) /\ ~ (M + i <= M) /\ (M + i) - M = i
    BY <1>1
  <2> QED  BY <1>3, <2>1
<1>6. ASSUME NEW i \in 1..(M + N)
      PROVE  \/ i \in 1..M /\ u[i] = s[i]
             \/ i - M \in 1..N /\ u[i] = t[i - M] /\ i = M + (i - M)
  BY <1>1, <1>3
<1>7. Range(u) = S
  <2>1. Range(u) \subseteq S
    BY <1>1, <1>3, <1>6 DEF Range
  <2>2. Range(s) \subseteq Range(u)
    BY <1>1, <1>4 DEF Range
  <2>3. Range(t) \subseteq Range(u)
    BY <1>1, <1>5 DEF Range
  <2> QED  BY <2>1, <2>2, <2>3
<1>8. ASSUME IsInjective(s), IsInjective(t), Range(s) \cap Range(t) = {} PROVE IsInjective(u)
  <2>1. \A i \in 1..M, j \in 1..N : s[i] # t[j]
    BY <1>1, <1>8 DEF Range
  <2>2. \A i, j \in 1..M : s[i] = s[j] => i = j
    BY <1>1, <1>8 DEF IsInjective
  <2>3. \A i, j \in 1..N : t[i] = t[j] => i = j
    BY <1>1, <1>8 DEF IsInjective
  <2>4. ASSUME NEW i \in 1..(M + N), NEW j \in 1..(M + N), u[i] = u[j] PROVE i = j
    BY <1>6, <2>1, <2>2, <2>3, <2>4
  <2> QED  BY <1>3, <2>4 DEF IsInjective
<1> QED  BY <1>3, <1>7, <1>8 DEF u

(* What a batch does to the rows of a list in a fixed order: they stay,    *)
(* with their keys.                                                        *)
LEMMA RowsStay ==
  ASSUME NEW d, GoodDb(d), NEW n, GoodDb(n), NEW now, Extended(d, n, now),
         NEW q, Acceptable(q), FixedOrder(q)
  PROVE  /\ Rows(d, q) \subseteq Rows(n, q)
         /\ \A x \in Rows(d, q) : SortKeys(n, q, x) = SortKeys(d, q, x)
<1>1. \A t \in DOMAIN d.transactions :
        /\ t \in DOMAIN n.transactions /\ Sticky(d.transactions[t], n.transactions[t])
        /\ d.transactions[t].duplicate_event_count \in Nat
        /\ d.transactions[t].merchant_id \in DOMAIN d.merchants
        /\ n.transactions[t].merchant_id \in DOMAIN n.merchants
  <2>1. \A t \in DOMAIN d.transactions : d.transactions[t] \in TxnRow
    BY SMTT(30) DEF GoodDb, IsDb, IsTable
  <2>2. \A t \in DOMAIN d.transactions :
          t \in DOMAIN n.transactions /\ Sticky(d.transactions[t], n.transactions[t])
    BY DEF Extended
  <2>3. \A t \in DOMAIN d.transactions : d.transactions[t].merchant_id \in DOMAIN d.merchants
    BY DEF GoodDb, KeysHold
  <2>4. \A t \in DOMAIN n.transactions : n.transactions[t].merchant_id \in DOMAIN n.merchants
    BY DEF GoodDb, KeysHold
  <2> QED  BY <2>1, <2>2, <2>3, <2>4 DEF TxnRow
<1>2. ASSUME Lasting(q.filter), NEW t \in DOMAIN d.transactions,
             Matches(d.transactions[t], q.filter)
      PROVE  Matches(n.transactions[t], q.filter)
  <2> DEFINE r == d.transactions[t]
             s == n.transactions[t]
             f == q.filter
  <2>1. Sticky(r, s) /\ Matches(r, f) /\ Lasting(f)
    BY <1>1, <1>2
  <2> HIDE DEF r, s, f
  <2>2. /\ OneOf(Status(s), f.status) /\ OneOf(PaymentStatus(s), f.payment_status)
        /\ OneOf(SettlementStatus(s), f.settlement_status)
    BY <2>1 DEF OneOf, Lasting
  <2>3. /\ AtLeast(DateOf(s, f.date_field), f.date_from)
        /\ AtMost(DateOf(s, f.date_field), f.date_to)
    BY <2>1 DEF AtLeast, AtMost, Lasting
  <2>4. /\ OneOf(s.merchant_id, f.merchant_id) /\ f.currency \in {NULL, s.currency}
        /\ AtLeast(s.amount_minor, f.min_amount) /\ AtMost(s.amount_minor, f.max_amount)
    BY <2>1 DEF Matches, Sticky
  <2>5. ASSUME f.has_duplicates # NULL PROVE f.has_duplicates = (s.duplicate_event_count > 0)
    <3>1. f.has_duplicates = (r.duplicate_event_count > 0) /\ f.has_duplicates # FALSE
      BY <2>1, <2>5 DEF Matches, Lasting
    <3>2. r.duplicate_event_count > 0
      <4> DEFINE b == r.duplicate_event_count > 0
      <4>1. b \in BOOLEAN
        OBVIOUS
      <4>2. f.has_duplicates = b
        BY <3>1
      <4> HIDE DEF b
      <4>3. b = TRUE
        BY <3>1, <4>1, <4>2
      <4> QED  BY <4>3 DEF b
    <3>3. s.duplicate_event_count > 0
      BY <2>1, <3>2 DEF Sticky
    <3>4. (r.duplicate_event_count > 0) = (s.duplicate_event_count > 0)
      BY <3>2, <3>3
    <3> QED  BY <3>1, <3>4
  <2> QED  BY <2>2, <2>3, <2>4, <2>5 DEF Matches, r, s, f
<1>3. CASE q.list = "events"
  <2>1. StoredEvents(d) \subseteq StoredEvents(n)
    BY DEF StoredEvents, Extended, ContinuedBy
  <2>2. Rows(d, q) = {e \in StoredEvents(d) : EventMatches(e, q.filter)}
        /\ Rows(n, q) = {e \in StoredEvents(n) : EventMatches(e, q.filter)}
    BY <1>3 DEF Rows
  <2>3. \A x : SortKeys(n, q, x) = SortKeys(d, q, x)
    BY <1>3 DEF SortKeys
  <2> QED  BY <2>1, <2>2, <2>3
<1>4. ASSUME Lasting(q.filter)
      PROVE  /\ Selected(d, q.filter) \subseteq Selected(n, q.filter)
             /\ Joined(d, q.filter) \subseteq Joined(n, q.filter)
             /\ Selected(d, q.filter) \subseteq DOMAIN d.transactions
             /\ Joined(d, q.filter) \subseteq DOMAIN d.transactions
  <2>1. Selected(d, q.filter) \subseteq Selected(n, q.filter)
    BY <1>1, <1>2, <1>4 DEF Selected
  <2>2. Joined(d, q.filter) \subseteq Joined(n, q.filter)
    BY <1>1, <2>1 DEF Joined, Selected
  <2> QED  BY <2>1, <2>2 DEF Joined, Selected
<1>5. CASE q.list = "transactions"
  <2>1. Lasting(q.filter) /\ q.sort_by \in {"transaction_id", "merchant_id", "amount"}
    BY <1>5 DEF FixedOrder
  <2>2. Rows(d, q) = Joined(d, q.filter) /\ Rows(n, q) = Joined(n, q.filter)
    BY <1>5 DEF Rows
  <2>3. ASSUME NEW x \in DOMAIN d.transactions PROVE SortKeys(n, q, x) = SortKeys(d, q, x)
    <3>1. SortColumn(x, n.transactions[x], q.sort_by, q.cutoff)
            = SortColumn(x, d.transactions[x], q.sort_by, q.cutoff)
      BY <1>1, <2>1 DEF SortColumn, Sticky
    <3> QED  BY <1>5, <3>1 DEF SortKeys
  <2> QED  BY <1>4, <2>1, <2>2, <2>3
<1>6. CASE q.list = "groups"
  <2>1. /\ Lasting(q.filter)
        /\ \A i \in DOMAIN q.group_by : q.group_by[i] \in {"merchant", "currency"}
    BY <1>6 DEF FixedOrder
  <2>2. \A x : SortKeys(n, q, x) = SortKeys(d, q, x)
    BY <1>6 DEF SortKeys
  <2>3. \A t \in DOMAIN d.transactions :
          GroupKey(n.transactions[t], q.group_by) = GroupKey(d.transactions[t], q.group_by)
    <3> TAKE t \in DOMAIN d.transactions
    <3>1. \A i \in DOMAIN q.group_by : Dimension(n.transactions[t], q.group_by[i])
                                        = Dimension(d.transactions[t], q.group_by[i])
      BY <1>1, <2>1 DEF Dimension, Sticky
    <3> QED  BY <3>1 DEF GroupKey
  <2>4. /\ Population(d, q.filter, q.group_by) \subseteq Population(n, q.filter, q.group_by)
        /\ Population(d, q.filter, q.group_by) \subseteq DOMAIN d.transactions
    BY <1>4, <2>1 DEF Population
  <2>5. GroupKeys(d, q.filter, q.group_by) \subseteq GroupKeys(n, q.filter, q.group_by)
    BY <2>3, <2>4 DEF GroupKeys
  <2> QED  BY <1>6, <2>2, <2>5 DEF Rows
<1> QED  BY <1>3, <1>5, <1>6 DEF FixedOrder

(* Rows that come in only push those that stay to later ranks.             *)
LEMMA RanksGrow ==
  ASSUME NEW old, NEW new, Ordered(new), DOMAIN old \subseteq DOMAIN new,
         \A x \in DOMAIN old : new[x] = old[x], NEW x \in DOMAIN old
  PROVE  Ranks(old)[x] <= Ranks(new)[x]
<1> DEFINE A == {y \in DOMAIN old : RowBefore(old[y], old[x])}
           B == {y \in DOMAIN new : RowBefore(new[y], new[x])}
<1>1. Ranks(old)[x] = Cardinality(A) /\ Ranks(new)[x] = Cardinality(B)
  BY DEF Ranks
<1>2. A \in SUBSET B
  OBVIOUS
<1>3. IsFiniteSet(B)
  BY FS_Subset DEF Ordered
<1> HIDE DEF A, B
<1> QED  BY <1>1, <1>2, <1>3, FS_Subset

(* The rows of P that are not in S lie at or behind an offset, and behind  *)
(* those that are.                                                         *)
Behind(keys, P, S, offset) == \A x \in P \ S : offset <= Ranks(keys)[x]

Apart(keys, P, S) == \A x \in P \ S, y \in P \cap S : ~ RowBefore(keys[x], keys[y])

(* They still do when rows come in.                                        *)
LEMMA StillWaiting ==
  ASSUME NEW old, NEW new, Ordered(old), Ordered(new), DOMAIN old \subseteq DOMAIN new,
         \A x \in DOMAIN old : new[x] = old[x],
         NEW P \in SUBSET DOMAIN old, NEW S, NEW offset \in Nat
  PROVE  /\ Behind(old, P, S, offset) => Behind(new, P, S, offset)
         /\ Apart(old, P, S) => Apart(new, P, S)
<1>1. ASSUME NEW x \in P
      PROVE  Ranks(old)[x] <= Ranks(new)[x] /\ Ranks(old)[x] \in Nat /\ Ranks(new)[x] \in Nat
  <2>1. Ranks(old)[x] <= Ranks(new)[x]
    BY RanksGrow
  <2>2. Ranks(old)[x] \in 0..(Cardinality(DOMAIN old) - 1) /\ Cardinality(DOMAIN old) \in Nat
    BY RankOrder
  <2>3. Ranks(new)[x] \in 0..(Cardinality(DOMAIN new) - 1) /\ Cardinality(DOMAIN new) \in Nat
    BY RankOrder
  <2> QED  BY <2>1, <2>2, <2>3
<1>2. Behind(old, P, S, offset) => Behind(new, P, S, offset)
  <2> SUFFICES ASSUME Behind(old, P, S, offset), NEW x \in P \ S PROVE offset <= Ranks(new)[x]
    BY DEF Behind
  <2> QED  BY <1>1 DEF Behind
<1>3. Apart(old, P, S) => Apart(new, P, S)
  BY DEF Apart
<1> QED  BY <1>2, <1>3

-----------------------------------------------------------------------------
(* Time passing.                                                           *)

(* The greatest of some severities.                                        *)
LEMMA MaxSeverity ==
  ASSUME NEW S \in SUBSET {1, 2, 3}, 1 \in S
  PROVE  Max(S) = IF 3 \in S THEN 3 ELSE IF 2 \in S THEN 2 ELSE 1
<1> DEFINE m == IF 3 \in S THEN 3 ELSE IF 2 \in S THEN 2 ELSE 1
<1>1. m \in S /\ m \in Int /\ S \subseteq Int /\ \A x \in S : m >= x
  OBVIOUS
<1> HIDE DEF m
<1>2. \A x \in S : (\A y \in S : x >= y) => x = m
  BY <1>1
<1> QED  BY <1>1, <1>2 DEF Max, m

(* A discrepancy of a default type does not go away with time, and what    *)
(* time adds to it is no more severe than it is.                           *)
LEMMA SeverityLasts ==
  ASSUME NEW r \in TxnRow, NEW cutoff \in Int, NEW later \in Int, cutoff <= later,
         NEW types \in SUBSET DefaultTypes,
         Present(FlagColumns(r, cutoff), types) # {}
  PROVE  /\ Present(FlagColumns(r, later), types) # {}
         /\ SeverityRank(FlagColumns(r, later)) = SeverityRank(FlagColumns(r, cutoff))
         /\ ShownSeverity(Present(FlagColumns(r, later), types))
              = ShownSeverity(Present(FlagColumns(r, cutoff), types))
<1> DEFINE F == FlagColumns(r, cutoff)
           G == FlagColumns(r, later)
           High == {"SETTLED_AFTER_FAILURE", "CONFLICTING_PAYMENT_STATE",
                    "AMOUNT_MISMATCH", "MERCHANT_MISMATCH"}
           Medium == {"SETTLED_WITHOUT_PROCESSING", "PROCESSED_NOT_SETTLED"}
           Low == {"STUCK_IN_INITIATED"}
<1>1. /\ \A ty \in High \cup {"SETTLED_WITHOUT_PROCESSING"} : G[ty] <=> F[ty]
      /\ \A ty \in DefaultTypes : F[ty] => G[ty]
      /\ F["STUCK_IN_INITIATED"] => ~ G["PROCESSED_NOT_SETTLED"] /\ ~ F["PROCESSED_NOT_SETTLED"]
      /\ F["SETTLED_WITHOUT_PROCESSING"] => ~ G["PROCESSED_NOT_SETTLED"]
  <2>1. \A c \in Columns : r.at[c] \in Nat \cup {NULL}
    BY DEF TxnRow
  <2>2. \A c \in Columns : Before(r, c, cutoff) => Before(r, c, later)
    BY <2>1, NullAssumption DEF Before
  <2>3. "processed_at" \in Columns /\ "initiated_at" \in Columns
    BY DEF Columns
  <2>4. /\ Before(r, "processed_at", cutoff) => Before(r, "processed_at", later)
        /\ Before(r, "initiated_at", cutoff) => Before(r, "initiated_at", later)
    BY <2>2, <2>3
  <2>5. \A ty \in High \cup {"SETTLED_WITHOUT_PROCESSING"} : G[ty] <=> F[ty]
    BY DEF FlagColumns
  <2>6. /\ F["PROCESSED_NOT_SETTLED"] => G["PROCESSED_NOT_SETTLED"]
        /\ F["STUCK_IN_INITIATED"] => G["STUCK_IN_INITIATED"]
        /\ F["STUCK_IN_INITIATED"] => ~ G["PROCESSED_NOT_SETTLED"] /\ ~ F["PROCESSED_NOT_SETTLED"]
        /\ F["SETTLED_WITHOUT_PROCESSING"] => ~ G["PROCESSED_NOT_SETTLED"]
    BY <2>4 DEF FlagColumns
  <2> HIDE DEF F, G
  <2> QED  BY <2>5, <2>6 DEF DefaultTypes, DiscrepancyTypes, Severity
<1>2. DefaultTypes = High \cup Medium \cup Low
  BY DEF DefaultTypes, DiscrepancyTypes, Severity
<1>3. PICK ty \in types : F[ty]
  BY DEF Present
<1>4. /\ SeverityRank(F) = IF \E x \in High : F[x] THEN 3
                           ELSE IF \E x \in Medium : F[x] THEN 2 ELSE 1
      /\ SeverityRank(G) = IF \E x \in High : G[x] THEN 3
                           ELSE IF \E x \in Medium : G[x] THEN 2 ELSE 1
  BY DEF SeverityRank
<1> DEFINE A == {1} \cup {Severity[x] : x \in Present(F, types)}
           B == {1} \cup {Severity[x] : x \in Present(G, types)}
<1>5. \A x \in DefaultTypes : /\ Severity[x] = 3 <=> x \in High
                              /\ Severity[x] = 2 <=> x \in Medium
                              /\ Severity[x] \in {1, 2, 3}
  BY <1>2 DEF Severity
<1> HIDE DEF F, G
<1>6. SeverityRank(G) = SeverityRank(F)
  BY <1>1, <1>2, <1>3, <1>4
<1>7. Present(G, types) # {}
  BY <1>1, <1>3 DEF Present
<1>8. A \in SUBSET {1, 2, 3} /\ B \in SUBSET {1, 2, 3} /\ 1 \in A /\ 1 \in B
  BY <1>5 DEF Present
<1>9. (3 \in A <=> \E x \in types \cap High : F[x]) /\ (3 \in B <=> \E x \in types \cap High : G[x])
  BY <1>5 DEF Present
<1>10. (2 \in A <=> \E x \in types \cap Medium : F[x]) /\ (2 \in B <=> \E x \in types \cap Medium : G[x])
  BY <1>5 DEF Present
<1>11. ShownSeverity(Present(F, types)) = Max(A) /\ ShownSeverity(Present(G, types)) = Max(B)
  BY DEF ShownSeverity
<1> HIDE DEF A, B
<1>12. 3 \in A <=> 3 \in B
  BY <1>1, <1>9
<1>13. 3 \in A \/ (2 \in A <=> 2 \in B)
  BY <1>1, <1>2, <1>3, <1>9, <1>10
<1>14. Max(A) = Max(B)
  <2>1. Max(A) = IF 3 \in A THEN 3 ELSE IF 2 \in A THEN 2 ELSE 1
    BY <1>8, MaxSeverity
  <2>2. Max(B) = IF 3 \in B THEN 3 ELSE IF 2 \in B THEN 2 ELSE 1
    BY <1>8, MaxSeverity
  <2> QED  BY <1>12, <1>13, <2>1, <2>2
<1> QED  BY <1>6, <1>7, <1>11, <1>14 DEF F, G

(* A page's request is the walk's with a cutoff of its own.                *)
LEMMA Resolved ==
  ASSUME NEW q, Acceptable(q), NEW m \in Nat
  PROVE  LET a == Resolve(q, m)
         IN /\ Acceptable(a) /\ a = Resolve(a, m)
            /\ q.list # "discrepancies" => a = q
            /\ q.list = "discrepancies" =>
                 /\ a.list = q.list /\ a.types = q.types /\ a.filter = q.filter
                 /\ a.severity = q.severity /\ a.sort_by = q.sort_by /\ a.order = q.order
                 /\ a.as_of = q.as_of /\ a.stale_after = q.stale_after
                 /\ a.cutoff = (IF q.as_of = NULL THEN m ELSE q.as_of) - q.stale_after
                 /\ a.cutoff \in Int
<1> DEFINE a == Resolve(q, m)
           cutoff == (IF q.as_of = NULL THEN m ELSE q.as_of) - q.stale_after
<1>1. CASE q.list # "discrepancies"
  BY <1>1 DEF Resolve
<1>2. CASE q.list = "discrepancies"
  <2>1. q.as_of \in Nat \cup {NULL} /\ q.stale_after \in Nat /\ "cutoff" \in DOMAIN q
    BY <1>2 DEF Acceptable
  <2>2. cutoff \in Int
    BY <2>1
  <2>3. a = [q EXCEPT !.cutoff = cutoff]
    BY <1>2 DEF Resolve
  <2> HIDE DEF a, cutoff
  <2>4. /\ DOMAIN a = DOMAIN q /\ a = [x \in DOMAIN q |-> a[x]]
        /\ a.cutoff = cutoff
        /\ a.list = q.list /\ a.types = q.types /\ a.filter = q.filter
        /\ a.severity = q.severity /\ a.sort_by = q.sort_by /\ a.order = q.order
        /\ a.as_of = q.as_of /\ a.stale_after = q.stale_after /\ a.limit = q.limit
    BY <2>1, <2>3
  <2>5. Acceptable(a)
    BY <1>2, <2>4 DEF Acceptable
  <2>6. a = Resolve(a, m)
    <3>1. Resolve(a, m) = [a EXCEPT !.cutoff = cutoff]
      BY <1>2, <2>4 DEF Resolve, cutoff
    <3> QED  BY <2>4, <3>1
  <2> QED  BY <1>2, <2>2, <2>4, <2>5, <2>6 DEF a, cutoff
<1> QED  BY <1>1, <1>2

(* A later page asks with a later cutoff; only a walk of discrepancies     *)
(* that names no as_of asks something else.                                *)
LEMMA AskedAgain ==
  ASSUME NEW q, Acceptable(q), NEW m \in Nat, q = Resolve(q, m), NEW n \in Nat, m <= n
  PROVE  LET a == Resolve(q, n)
         IN /\ Pinned(a) \/ FixedOrder(a) => a = q
            /\ q.list = "discrepancies" => q.cutoff \in Int /\ q.cutoff <= a.cutoff
            /\ a.list = q.list
            /\ q.list = "discrepancies" => a.types = q.types
<1> DEFINE a == Resolve(q, n)
<1>1. CASE q.list # "discrepancies"
  BY <1>1 DEF Resolve
<1>2. CASE q.list = "discrepancies"
  <2>1. /\ q.cutoff = (IF q.as_of = NULL THEN m ELSE q.as_of) - q.stale_after
        /\ q.cutoff \in Int
    BY <1>2, Resolved, Zenon
  <2>2. /\ a.cutoff = (IF q.as_of = NULL THEN n ELSE q.as_of) - q.stale_after
        /\ a.list = q.list /\ a.types = q.types /\ a.as_of = q.as_of
    BY <1>2, Resolved
  <2>3. q.as_of \in Nat \cup {NULL} /\ q.stale_after \in Nat
    BY <1>2 DEF Acceptable
  <2>4. Pinned(a) => q.as_of # NULL
    BY <1>2, <2>2 DEF Pinned
  <2>5. q.as_of # NULL => a = q
    <3>1. q.as_of # NULL => Resolve(q, n) = Resolve(q, m)
      BY DEF Resolve
    <3> QED  BY <3>1
  <2>6. ~ FixedOrder(a)
    BY <1>2, <2>2 DEF FixedOrder
  <2> HIDE DEF a
  <2>7. q.cutoff <= a.cutoff
    BY <2>1, <2>2, <2>3
  <2> QED  BY <1>2, <2>1, <2>2, <2>4, <2>5, <2>6, <2>7 DEF a
<1> QED  BY <1>1, <1>2

(* What the clock does to a list of discrepancies: its rows stay, with     *)
(* their keys and the severity they show.                                  *)
LEMMA RowsAge ==
  ASSUME NEW d, GoodDb(d), NEW q, Acceptable(q), q.list = "discrepancies",
         q.types \subseteq DefaultTypes, NEW n \in Nat, NEW a, a = Resolve(q, n),
         q.cutoff \in Int, q.cutoff <= a.cutoff
  PROVE  /\ Rows(d, q) \subseteq Rows(d, a)
         /\ Wanted(d, q) \subseteq Wanted(d, a)
         /\ \A x \in Rows(d, q) : SortKeys(d, a, x) = SortKeys(d, q, x)
<1>1. /\ a.list = "discrepancies" /\ a.types = q.types /\ a.filter = q.filter
      /\ a.severity = q.severity /\ a.sort_by = q.sort_by /\ a.order = q.order
      /\ a.cutoff \in Int
  BY Resolved
<1>2. /\ Rows(d, q) = Flagged(d, q.filter, q.types, q.cutoff)
      /\ Rows(d, a) = Flagged(d, q.filter, q.types, a.cutoff)
  BY <1>1 DEF Rows
<1>3. \A t \in DOMAIN d.transactions : d.transactions[t] \in TxnRow
  BY SMTT(30) DEF GoodDb, IsDb, IsTable
<1>4. ASSUME NEW x \in Rows(d, q)
      PROVE  /\ x \in Joined(d, q.filter)
             /\ Present(FlagColumns(d.transactions[x], a.cutoff), q.types) # {}
             /\ SeverityRank(FlagColumns(d.transactions[x], a.cutoff))
                  = SeverityRank(FlagColumns(d.transactions[x], q.cutoff))
             /\ ShownSeverity(Present(FlagColumns(d.transactions[x], a.cutoff), q.types))
                  = ShownSeverity(Present(FlagColumns(d.transactions[x], q.cutoff), q.types))
  <2>1. /\ x \in Joined(d, q.filter)
        /\ Present(FlagColumns(d.transactions[x], q.cutoff), q.types) # {}
    BY <1>2 DEF Flagged
  <2>2. d.transactions[x] \in TxnRow
    BY <1>3, <2>1 DEF Joined, Selected
  <2> QED  BY <1>1, <2>1, <2>2, SeverityLasts
<1>5. Rows(d, q) \subseteq Rows(d, a)
  BY <1>2, <1>4 DEF Flagged
<1>6. Wanted(d, q) \subseteq Wanted(d, a)
  <2>1. \A x \in Rows(d, q) : Shown(d, q, x) => Shown(d, a, x)
    BY <1>1, <1>4 DEF Shown
  <2> QED  BY <1>1, <1>5, <2>1 DEF Wanted
<1>7. ASSUME NEW x \in Rows(d, q) PROVE SortKeys(d, a, x) = SortKeys(d, q, x)
  <2>1. \A column : SortColumn(x, d.transactions[x], column, a.cutoff)
                      = SortColumn(x, d.transactions[x], column, q.cutoff)
    BY <1>4, <1>7 DEF SortColumn
  <2> QED  BY <1>1, <2>1 DEF SortKeys
<1> QED  BY <1>5, <1>6, <1>7

-----------------------------------------------------------------------------
(* A client that has not started has nothing to go by.                     *)
LEMMA Started ==
  ASSUME NEW c \in Clients, IInv, walk[c].at # "none"
  PROVE  WalkOk(walk[c]) /\ Quiet(walk[c]) /\ Waiting(walk[c])
  BY DEF IInv, NoWalk

(* The initial state.                                                      *)
LEMMA InitHolds == Init => IInv
<1> SUFFICES ASSUME Init PROVE IInv
  OBVIOUS
<1> QED  BY EmptyDbGood, PagingAssumption DEF Init, IInv

(* A step of one client leaves the others alone.                           *)
LEMMA ClientStep ==
  ASSUME IInv, NEW c \in Clients, NEW w, walk' = [walk EXCEPT ![c] = w],
         UNCHANGED <<db, commits, clock>>, WalkOk(w), Quiet(w), Waiting(w)
  PROVE  IInv'
<1>1. /\ GoodDb(db)' /\ commits' \in Nat /\ clock' \in Nat
      /\ walk' = [x \in Clients |-> walk'[x]]
      /\ walk'[c] = w /\ \A x \in Clients : x # c => walk'[x] = walk[x]
  BY DEF IInv
<1>2. ASSUME NEW x \in Clients
      PROVE  (walk[x] = NoWalk \/ (WalkOk(walk[x]) /\ Quiet(walk[x]) /\ Waiting(walk[x])))'
  <2> DEFINE v == walk'[x]
  <2>1. v = NoWalk \/ (WalkOk(v) /\ Quiet(v) /\ Waiting(v))
    BY <1>1 DEF IInv
  <2> QED  BY <2>1 DEF WalkOk, Quiet, Waiting, Ageing
<1> QED  BY <1>1, <1>2 DEF IInv

(* Updating a walk leaves a walk with the same fields.                     *)
LEMMA FieldsStay ==
  ASSUME NEW v, NEW w, DOMAIN w = DOMAIN v, w = [x \in DOMAIN w |-> w[x]],
         v = [at |-> v.at, request |-> v.request, offset |-> v.offset, total |-> v.total,
              seen |-> v.seen, since |-> v.since, present |-> v.present]
  PROVE  w = [at |-> w.at, request |-> w.request, offset |-> w.offset, total |-> w.total,
              seen |-> w.seen, since |-> w.since, present |-> w.present]
<1> DEFINE u == [at |-> w.at, request |-> w.request, offset |-> w.offset, total |-> w.total,
                 seen |-> w.seen, since |-> w.since, present |-> w.present]
<1>1. DOMAIN w = {"at", "request", "offset", "total", "seen", "since", "present"}
  OBVIOUS
<1>2. \A x \in DOMAIN w : u[x] = w[x]
  BY <1>1
<1>3. u = [x \in DOMAIN w |-> u[x]]
  BY <1>1
<1> HIDE DEF u
<1>4. w = u
  BY <1>2, <1>3
<1> QED  BY <1>4 DEF u

(* A walk begins at the first row.                                         *)
LEMMA StartStep ==
  ASSUME IInv, NEW c \in Clients, NEW p \in Walks, StartWalk(c, p)
  PROVE  IInv'
<1>1. PICK d, k, m, q : d = db /\ k = commits /\ m = clock /\ q = Resolve(p, m)
  OBVIOUS
<1> DEFINE w == [at |-> "count", request |-> q, offset |-> 0, total |-> 0, seen |-> <<>>,
                 since |-> k, present |-> Wanted(d, q)]
           keys == Keys(d, q)
<1>2. GoodDb(d) /\ k \in Nat /\ m \in Nat /\ Acceptable(p)
  BY <1>1, PagingAssumption DEF IInv
<1>3. Acceptable(q) /\ q = Resolve(q, m)
  BY <1>1, <1>2, Resolved
<1>4. Ordered(keys) /\ DOMAIN keys = Rows(d, q)
  BY <1>2, <1>3, RowsOrdered
<1>5. walk' = [walk EXCEPT ![c] = w] /\ UNCHANGED <<db, commits, clock>>
  BY <1>1 DEF StartWalk
<1>6. \A x \in Rows(d, q) : Ranks(keys)[x] \in Nat
  <2>1. Cardinality(DOMAIN keys) \in Nat
        /\ \A x \in DOMAIN keys : Ranks(keys)[x] \in 0..(Cardinality(DOMAIN keys) - 1)
    <3> HIDE DEF keys
    <3> QED  BY <1>4, RankOrder
  <2> HIDE DEF keys
  <2> QED  BY <1>4, <2>1
<1>7. Between(keys, 0, 0) = {}
  <2> HIDE DEF keys
  <2> QED  BY <1>4, <1>6 DEF Between
<1>8. w.seen = <<>> /\ Range(<<>>) = {} /\ IsInjective(<<>>)
  BY DEF Range, IsInjective
<1>9. WalkOk(w)
  <2>1. <<>> \in Seq({})
    OBVIOUS
  <2>2. \E n \in Nat : n <= clock /\ w.request = Resolve(w.request, n)
    BY <1>1, <1>2, <1>3
  <2> QED  BY <1>1, <1>2, <1>3, <1>8, <2>1, <2>2 DEF WalkOk
<1> HIDE DEF keys
<1>10. Quiet(w)
  BY <1>1, <1>7, <1>8 DEF Quiet, keys
<1>11. Waiting(w)
  <2>1. /\ w.present = Wanted(d, q) /\ w.offset = 0 /\ w.request = q /\ w.seen = <<>>
        /\ w.at = "count"
    OBVIOUS
  <2>2. \A x \in Wanted(d, q) : 0 <= Ranks(keys)[x]
    BY <1>6 DEF Wanted
  <2> HIDE DEF w
  <2> QED  BY <1>1, <1>8, <2>1, <2>2 DEF Waiting, keys
<1> HIDE DEF w
<1> QED  BY <1>5, <1>9, <1>10, <1>11, ClientStep

(* The next page is asked for: its count is the number of rows of the list *)
(* as it is now, in which those that were there still wait.                *)
LEMMA CountStep ==
  ASSUME IInv, NEW c \in Clients, CountRows(c)
  PROVE  IInv'
<1>1. PICK d, k, n, v, q : /\ d = db /\ k = commits /\ n = clock /\ v = walk[c]
                           /\ q = Resolve(v.request, n)
  OBVIOUS
<1> DEFINE total == Count(d, q)
           w == [v EXCEPT !.at = "rows", !.request = q, !.total = total]
<1>2. /\ GoodDb(d) /\ k \in Nat /\ n \in Nat
      /\ WalkOk(v) /\ Quiet(v) /\ Waiting(v) /\ v.at = "count"
  BY <1>1, Started DEF IInv, CountRows
<1>3. Acceptable(v.request) /\ v.offset \in Nat
  BY <1>2 DEF WalkOk
<1>4. PICK m \in Nat : m <= n /\ v.request = Resolve(v.request, m)
  BY <1>1, <1>2 DEF WalkOk
<1>5. Acceptable(q) /\ q = Resolve(q, n)
  BY <1>1, <1>2, <1>3, Resolved
<1>6. /\ Pinned(q) \/ FixedOrder(q) => q = v.request
      /\ q.list = v.request.list
      /\ q.list = "discrepancies" => /\ v.request.cutoff \in Int /\ v.request.cutoff <= q.cutoff
                                     /\ q.types = v.request.types
  BY <1>1, <1>2, <1>3, <1>4, AskedAgain
<1>7. total \in Nat
  BY <1>2, <1>5, RowsKnown, FS_CardinalityType
<1>8. walk' = [walk EXCEPT ![c] = w] /\ UNCHANGED <<db, commits, clock>>
  BY <1>1 DEF CountRows, IInv
<1> HIDE DEF total
<1>9. /\ w.at = "rows" /\ w.request = q /\ w.offset = v.offset /\ w.total = total
      /\ w.seen = v.seen /\ w.since = v.since /\ w.present = v.present
      /\ DOMAIN w = DOMAIN v /\ w = [x \in DOMAIN w |-> w[x]]
  <2>1. v = [at |-> v.at, request |-> v.request, offset |-> v.offset, total |-> v.total,
             seen |-> v.seen, since |-> v.since, present |-> v.present]
    BY <1>2 DEF WalkOk
  <2> QED  BY <2>1
<1> HIDE DEF w
<1>10. w = [at |-> w.at, request |-> w.request, offset |-> w.offset, total |-> w.total,
            seen |-> w.seen, since |-> w.since, present |-> w.present]
  <2>1. v = [at |-> v.at, request |-> v.request, offset |-> v.offset, total |-> v.total,
             seen |-> v.seen, since |-> v.since, present |-> v.present]
    BY <1>2 DEF WalkOk
  <2> QED  BY <1>9, <2>1, FieldsStay
<1>11. WalkOk(w)
  <2>1. \E x \in Nat : x <= clock /\ w.request = Resolve(w.request, x)
    BY <1>1, <1>2, <1>5, <1>9
  <2> QED  BY <1>2, <1>5, <1>7, <1>9, <1>10, <2>1 DEF WalkOk
<1>12. Quiet(w)
  <2> SUFFICES ASSUME v.since = commits, Pinned(q)
               PROVE  /\ IsInjective(v.seen)
                      /\ Range(v.seen) = Between(Keys(d, q), 0, v.offset) \cap Wanted(d, q)
    BY <1>1, <1>9 DEF Quiet, total
  <2> QED  BY <1>1, <1>2, <1>6 DEF Quiet
<1>13. CASE FixedOrder(q)
  <2>1. w.request = v.request /\ ~ Ageing(w) /\ FixedOrder(v.request)
    BY <1>6, <1>9, <1>13 DEF Ageing, FixedOrder
  <2>2. Waiting(w)
    BY <1>2, <1>9, <2>1 DEF Waiting
  <2> QED  BY <1>8, <1>11, <1>12, <2>2, ClientStep
<1>14. CASE Ageing(w)
  <2>1. q.list = "discrepancies" /\ v.request.types \subseteq DefaultTypes /\ Ageing(v)
    BY <1>6, <1>9, <1>14 DEF Ageing
  <2> DEFINE old == Keys(d, v.request)
             new == Keys(d, q)
             S == Range(v.seen)
  <2>2. /\ v.present \subseteq Wanted(d, v.request)
        /\ Behind(old, v.present, S, v.offset) /\ Apart(old, v.present, S)
    BY <1>1, <1>2, <2>1 DEF Waiting, Behind, Apart
  <2>3. /\ Rows(d, v.request) \subseteq Rows(d, q)
        /\ Wanted(d, v.request) \subseteq Wanted(d, q)
        /\ \A x \in Rows(d, v.request) : SortKeys(d, q, x) = SortKeys(d, v.request, x)
    <3>1. /\ GoodDb(d) /\ Acceptable(v.request) /\ v.request.list = "discrepancies"
          /\ v.request.types \subseteq DefaultTypes /\ n \in Nat /\ q = Resolve(v.request, n)
          /\ v.request.cutoff \in Int /\ v.request.cutoff <= q.cutoff
      BY <1>1, <1>2, <1>3, <1>6, <2>1
    <3> QED  BY <3>1, RowsAge
  <2>4. /\ Ordered(old) /\ DOMAIN old = Rows(d, v.request)
        /\ Ordered(new) /\ DOMAIN new = Rows(d, q)
    BY <1>2, <1>3, <1>5, RowsOrdered
  <2>5. \A x \in DOMAIN old : new[x] = old[x]
    BY <2>3 DEF Keys
  <2>6. v.present \in SUBSET DOMAIN old /\ v.present \subseteq Wanted(d, q)
    BY <2>2, <2>3, <2>4 DEF Wanted
  <2>7. DOMAIN old \subseteq DOMAIN new /\ v.offset \in Nat
    BY <1>3, <2>3, <2>4
  <2> HIDE DEF old, new, S
  <2>8. /\ Behind(old, v.present, S, v.offset) => Behind(new, v.present, S, v.offset)
        /\ Apart(old, v.present, S) => Apart(new, v.present, S)
    BY <2>4, <2>5, <2>6, <2>7, StillWaiting
  <2>9. Behind(new, v.present, S, v.offset) /\ Apart(new, v.present, S)
    BY <2>2, <2>8
  <2>10. Waiting(w)
    BY <1>1, <1>9, <2>6, <2>9 DEF Waiting, Behind, Apart, new, S
  <2> QED  BY <1>8, <1>11, <1>12, <2>10, ClientStep
<1>15. CASE ~ FixedOrder(q) /\ ~ Ageing(w)
  <2>1. Waiting(w)
    BY <1>9, <1>15 DEF Waiting
  <2> QED  BY <1>8, <1>11, <1>12, <2>1, ClientStep
<1> QED  BY <1>13, <1>14, <1>15

(* A page adds the wanted rows of its ranks; the walk is over when the     *)
(* count says that nothing lies behind them.                               *)
LEMMA FetchStep ==
  ASSUME IInv, NEW c \in Clients, FetchRows(c)
  PROVE  IInv'
<1>1. PICK d, k, v : d = db /\ k = commits /\ v = walk[c]
  OBVIOUS
<1> DEFINE q == v.request
           keys == Keys(d, q)
           R == Rows(d, q)
           W == Wanted(d, q)
           items == Items(d, q, v.offset)
           more == HasMore(v.offset, Len(items), v.total, q.limit)
           last == v.offset + q.limit
           seen == v.seen \o items
           at == IF more THEN "count" ELSE "done"
           offset == IF more THEN last ELSE v.offset
           w == [v EXCEPT !.seen = seen, !.at = at, !.offset = offset]
<1>2. GoodDb(d) /\ k \in Nat /\ WalkOk(v) /\ Quiet(v) /\ Waiting(v) /\ v.at = "rows"
  BY <1>1, Started DEF IInv, FetchRows
<1>3. Acceptable(q) /\ q.limit \in Nat \ {0} /\ v.offset \in Nat /\ v.total \in Nat
  BY <1>2 DEF WalkOk, Acceptable
<1>4. Ordered(keys) /\ DOMAIN keys = R
  BY <1>2, <1>3, RowsOrdered
<1>5. /\ items \in Seq(R) /\ Len(items) \in Nat /\ Len(items) <= q.limit
      /\ IsInjective(items) /\ Range(items) = Between(keys, v.offset, last) \cap W
  BY <1>2, <1>3, ItemsHold
<1>6. W \subseteq R
  BY DEF Wanted
<1>7. walk' = [walk EXCEPT ![c] = w] /\ UNCHANGED <<db, commits, clock>>
  BY <1>1 DEF FetchRows, IInv
<1> HIDE DEF keys, R, W, items
<1>8. /\ Range(seen) = Range(v.seen) \cup Range(items)
      /\ seen \in Seq(Range(seen))
      /\ IsInjective(v.seen) /\ Range(v.seen) \cap Range(items) = {} => IsInjective(seen)
  <2>1. items \in Seq(Range(items))
    <3>1. DOMAIN items = 1..Len(items) /\ items = [i \in 1..Len(items) |-> items[i]]
      BY <1>5
    <3>2. \A i \in 1..Len(items) : items[i] \in Range(items)
      BY <3>1 DEF Range
    <3> QED  BY <1>5, <3>1, <3>2
  <2>2. v.seen \in Seq(Range(v.seen))
    BY <1>2 DEF WalkOk
  <2> QED  BY <1>5, <2>1, <2>2, SeenGrows
<1>9. /\ Cardinality(R) \in Nat
      /\ \A x \in R : Ranks(keys)[x] \in 0..(Cardinality(R) - 1)
      /\ \A x, y \in R : RowBefore(keys[x], keys[y]) <=> Ranks(keys)[x] < Ranks(keys)[y]
  BY <1>4, RankOrder
<1>10. /\ last \in Nat /\ v.offset <= last /\ offset \in Nat
       /\ at \in {"count", "done"} /\ (at = "count" => more /\ offset = last)
       /\ at = "done" => ~ more
  BY <1>3
<1>11. \A x \in R : Ranks(keys)[x] \in Nat
  BY <1>9
<1> HIDE DEF seen, more, at, offset
<1>12. /\ w.at = at /\ w.request = q /\ w.offset = offset /\ w.total = v.total
       /\ w.seen = seen /\ w.since = v.since /\ w.present = v.present
       /\ DOMAIN w = DOMAIN v /\ w = [x \in DOMAIN w |-> w[x]]
  <2>1. v = [at |-> v.at, request |-> q, offset |-> v.offset, total |-> v.total,
             seen |-> v.seen, since |-> v.since, present |-> v.present]
    BY <1>2 DEF WalkOk
  <2> QED  BY <2>1
<1> HIDE DEF w
<1>13. w = [at |-> w.at, request |-> w.request, offset |-> w.offset, total |-> w.total,
            seen |-> w.seen, since |-> w.since, present |-> w.present]
  <2>1. v = [at |-> v.at, request |-> v.request, offset |-> v.offset, total |-> v.total,
             seen |-> v.seen, since |-> v.since, present |-> v.present]
    BY <1>2 DEF WalkOk
  <2> QED  BY <1>12, <2>1, FieldsStay
<1>14. WalkOk(w)
  BY <1>2, <1>8, <1>10, <1>12, <1>13 DEF WalkOk
<1>15. v.since = commits => v.total = Cardinality(R)
  <2>1. v.since = commits => v.total = Count(d, q)
    BY <1>1, <1>2 DEF Quiet
  <2> QED  BY <1>2, <1>3, <2>1, RowsKnown DEF R
<1>16. ASSUME v.since = commits, at = "done"
       PROVE  \A x \in R : Ranks(keys)[x] < last
  <2>1. ~ (v.offset + Len(items) < v.total)
    BY <1>10, <1>16 DEF more, HasMore
  <2>2. Cardinality(R) <= last
    BY <1>3, <1>5, <1>9, <1>15, <1>16, <2>1
  <2> QED  BY <1>9, <1>10, <2>2
<1>17. ASSUME v.since = commits, Pinned(q)
       PROVE  /\ IsInjective(seen) /\ Range(seen) = Between(keys, 0, last) \cap W
              /\ at = "done" => Range(seen) = W
  <2>1. IsInjective(v.seen) /\ Range(v.seen) = Between(keys, 0, v.offset) \cap W
    BY <1>1, <1>2, <1>17 DEF Quiet, keys, W
  <2>2. /\ Between(keys, 0, v.offset) \cap Between(keys, v.offset, last) = {}
        /\ Between(keys, 0, last) = Between(keys, 0, v.offset) \cup Between(keys, v.offset, last)
    BY <1>3, <1>4, <1>10, <1>11 DEF Between
  <2>3. IsInjective(seen) /\ Range(seen) = Between(keys, 0, last) \cap W
    BY <1>5, <1>8, <2>1, <2>2
  <2>4. at = "done" => Between(keys, 0, last) \cap W = W
    BY <1>4, <1>6, <1>11, <1>16, <1>17 DEF Between
  <2> QED  BY <2>3, <2>4
<1>18. Quiet(w)
  BY <1>1, <1>10, <1>12, <1>17 DEF Quiet, keys, W
<1>19. Waiting(w)
  <2>1. Ageing(w) <=> Ageing(v)
    BY <1>12 DEF Ageing
  <2> SUFFICES ASSUME FixedOrder(q) \/ Ageing(v)
               PROVE  /\ v.present \subseteq W
                      /\ at = "count" =>
                           \A x \in v.present \ Range(seen) : last <= Ranks(keys)[x]
                      /\ \A x \in v.present \ Range(seen), y \in v.present \cap Range(seen) :
                           ~ RowBefore(keys[x], keys[y])
                      /\ Ageing(v) /\ at = "done" => v.present \subseteq Range(seen)
    BY <1>1, <1>10, <1>12, <2>1 DEF Waiting, keys, W
  <2>2. /\ v.present \subseteq W
        /\ \A x \in v.present \ Range(v.seen) : v.offset <= Ranks(keys)[x]
        /\ \A x \in v.present \ Range(v.seen), y \in v.present \cap Range(v.seen) :
             ~ RowBefore(keys[x], keys[y])
    BY <1>1, <1>2 DEF Waiting, keys, W
  <2>3. \A y \in Range(items) : y \in R /\ Ranks(keys)[y] < last
    BY <1>4, <1>5 DEF Between
  <2>4. ASSUME NEW x \in v.present \ Range(seen) PROVE last <= Ranks(keys)[x]
    <3>1. /\ x \in R /\ x \in W /\ x \notin Range(items)
          /\ v.offset <= Ranks(keys)[x] /\ Ranks(keys)[x] \in Nat
      BY <1>6, <1>8, <1>11, <2>2, <2>4
    <3>2. ~ (Ranks(keys)[x] < last)
      BY <1>4, <1>5, <3>1 DEF Between
    <3> QED  BY <1>10, <3>1, <3>2
  <2>5. ASSUME NEW x \in v.present \ Range(seen), NEW y \in v.present \cap Range(seen)
        PROVE  ~ RowBefore(keys[x], keys[y])
    <3>1. x \notin Range(v.seen) /\ (y \in Range(v.seen) \/ y \in Range(items))
      BY <1>8, <2>5
    <3>2. CASE y \in Range(v.seen)
      BY <2>2, <2>5, <3>1, <3>2
    <3>3. CASE y \in Range(items)
      <4>1. x \in R /\ y \in R /\ last <= Ranks(keys)[x] /\ Ranks(keys)[y] < last
        BY <1>6, <2>2, <2>3, <2>4, <2>5, <3>3
      <4> QED  BY <1>9, <1>10, <1>11, <4>1
    <3> QED  BY <3>1, <3>2, <3>3
  <2>6. ASSUME Ageing(v), at = "done", NEW x \in v.present, x \notin Range(seen) PROVE FALSE
    <3>1. x \in R /\ last <= Ranks(keys)[x] /\ Ranks(keys)[x] \in Nat
      BY <1>6, <1>11, <2>2, <2>4, <2>6
    <3>2. Ranks(keys)[x] < last
      BY <1>16, <2>6, <3>1 DEF Ageing
    <3> QED  BY <1>10, <3>1, <3>2
  <2> QED  BY <2>2, <2>4, <2>5, <2>6
<1> QED  BY <1>7, <1>14, <1>18, <1>19, ClientStep

(* A batch may come at any time: it ends the quiet, and in a fixed order   *)
(* it takes no row away and none to the front.                             *)
LEMMA BatchStep ==
  ASSUME IInv, NEW b \in Batches, CommitBatch(b)
  PROVE  IInv'
<1>1. PICK d, k, n : d = db /\ k = commits /\ n = ApplyBatch(d, b, k + 1)
  OBVIOUS
<1>2. GoodDb(d) /\ k \in Nat /\ k + 1 \in Nat /\ clock \in Nat
  BY <1>1 DEF IInv
<1>3. db' = n /\ commits' = k + 1 /\ walk' = walk /\ clock' = clock
  BY <1>1 DEF CommitBatch
<1>4. b \in Seq(EventIn)
  <2>1. b \in Seq({e \in EventIn : Valid(e)})
    BY PagingAssumption
  <2>2. Seq({e \in EventIn : Valid(e)}) \subseteq Seq(EventIn)
    OBVIOUS
  <2> QED  BY <2>1, <2>2
<1>5. GoodDb(n) /\ Extended(d, n, k + 1)
  BY <1>1, <1>2, <1>4, BatchExtends
<1>6. ASSUME NEW c \in Clients, walk[c] # NoWalk
      PROVE  (WalkOk(walk[c]) /\ Quiet(walk[c]) /\ Waiting(walk[c]))'
  <2>1. PICK w : w = walk[c]
    OBVIOUS
  <2>2. WalkOk(w) /\ Quiet(w) /\ Waiting(w)
    BY <1>6, <2>1 DEF IInv
  <2>3. w.since \in Nat /\ w.since <= k /\ w.offset \in Nat
    BY <1>1, <2>2 DEF WalkOk
  <2> DEFINE q == w.request
             old == Keys(d, q)
             new == Keys(n, q)
             S == Range(w.seen)
  <2>4. WalkOk(w)'
    BY <1>1, <1>2, <1>3, <2>2, <2>3 DEF WalkOk
  <2>5. w.since # commits'
    BY <1>2, <1>3, <2>3
  <2>6. Quiet(w)' /\ ~ Ageing(w)'
    BY <2>5 DEF Quiet, Ageing
  <2>7. ASSUME FixedOrder(q)
        PROVE  /\ w.present \subseteq Wanted(n, q)
               /\ w.at \in {"count", "rows"} => Behind(new, w.present, S, w.offset)
               /\ Apart(new, w.present, S)
    <3>1. Acceptable(q)
      BY <2>2 DEF WalkOk
    <3>2. Wanted(d, q) = Rows(d, q) /\ Wanted(n, q) = Rows(n, q)
      BY <2>7 DEF FixedOrder, Wanted
    <3>3. /\ w.present \subseteq Rows(d, q)
          /\ w.at \in {"count", "rows"} => Behind(old, w.present, S, w.offset)
          /\ Apart(old, w.present, S)
      BY <1>1, <2>2, <2>7, <3>2 DEF Waiting, Behind, Apart
    <3>4. /\ Ordered(old) /\ DOMAIN old = Rows(d, q)
          /\ Ordered(new) /\ DOMAIN new = Rows(n, q)
      BY <1>2, <1>5, <3>1, RowsOrdered
    <3>5. /\ Rows(d, q) \subseteq Rows(n, q)
          /\ \A x \in Rows(d, q) : SortKeys(n, q, x) = SortKeys(d, q, x)
      BY <1>2, <1>5, <2>7, <3>1, RowsStay
    <3>6. \A x \in DOMAIN old : new[x] = old[x]
      BY <3>5 DEF Keys
    <3>7. w.present \in SUBSET DOMAIN old
      BY <3>3, <3>4
    <3>8. DOMAIN old \subseteq DOMAIN new /\ w.offset \in Nat
      BY <2>3, <3>4, <3>5
    <3> HIDE DEF old, new, S
    <3>9. /\ Behind(old, w.present, S, w.offset) => Behind(new, w.present, S, w.offset)
          /\ Apart(old, w.present, S) => Apart(new, w.present, S)
      BY <3>4, <3>6, <3>7, <3>8, StillWaiting
    <3> QED  BY <3>2, <3>3, <3>5, <3>9
  <2>8. Waiting(w)'
    BY <1>3, <2>6, <2>7 DEF Waiting, Behind, Apart
  <2> QED  BY <1>3, <2>1, <2>4, <2>6, <2>8 DEF WalkOk, Quiet, Waiting, Ageing
<1> QED  BY <1>2, <1>3, <1>5, <1>6 DEF IInv

(* The clock advances: no page asked for so far was asked for later.       *)
LEMMA TickStep ==
  ASSUME IInv, Tick
  PROVE  IInv'
<1>1. /\ clock \in Nat /\ clock' \in Nat /\ clock <= clock'
      /\ UNCHANGED <<db, commits, walk>>
  BY PagingAssumption DEF Tick, IInv
<1>2. ASSUME NEW c \in Clients
      PROVE  (walk[c] = NoWalk \/ (WalkOk(walk[c]) /\ Quiet(walk[c]) /\ Waiting(walk[c])))'
  <2>1. PICK w : w = walk[c]
    OBVIOUS
  <2>2. CASE WalkOk(w) /\ Quiet(w) /\ Waiting(w)
    <3>1. PICK m \in Nat : m <= clock /\ w.request = Resolve(w.request, m)
      BY <2>2 DEF WalkOk
    <3>2. m <= clock'
      BY <1>1, <3>1
    <3>3. WalkOk(w)'
      BY <1>1, <2>2, <3>1, <3>2 DEF WalkOk
    <3>4. Quiet(w)' /\ Waiting(w)'
      BY <1>1, <2>2 DEF Quiet, Waiting, Ageing
    <3> QED  BY <1>1, <2>1, <3>3, <3>4 DEF WalkOk, Quiet, Waiting, Ageing
  <2>3. CASE w = NoWalk
    BY <1>1, <2>1, <2>3
  <2> QED  BY <2>1, <2>2, <2>3 DEF IInv
<1> QED  BY <1>1, <1>2 DEF IInv

(* Every step preserves the invariant.                                     *)
THEOREM PagingInvariant == Spec => []IInv
<1>1. ASSUME IInv, [Next]_vars PROVE IInv'
  <2>1. CASE UNCHANGED vars
    BY <1>1, <2>1 DEF vars, IInv, WalkOk, Quiet, Waiting, Ageing
  <2>2. ASSUME NEW b \in Batches, CommitBatch(b) PROVE IInv'
    BY <1>1, <2>2, BatchStep
  <2>3. ASSUME NEW c \in Clients, NEW q \in Walks, StartWalk(c, q) PROVE IInv'
    BY <1>1, <2>3, StartStep
  <2>4. ASSUME NEW c \in Clients, CountRows(c) PROVE IInv'
    BY <1>1, <2>4, CountStep
  <2>5. ASSUME NEW c \in Clients, FetchRows(c) PROVE IInv'
    BY <1>1, <2>5, FetchStep
  <2>6. ASSUME Tick PROVE IInv'
    BY <1>1, <2>6, TickStep
  <2> QED  BY <1>1, <2>1, <2>2, <2>3, <2>4, <2>5, <2>6 DEF Next
<1> QED  BY <1>1, InitHolds, PTL DEF Spec

(* A walk during which nothing commits and whose pages all ask the same    *)
(* shows every wanted row once and no other, for every list, sort, filter  *)
(* and page size: ORDER BY ends in a key that no two rows share, the count *)
(* joins away nothing, and has_more is computed from the offset and not    *)
(* from the fullness of a page.                                            *)
THEOREM QuietWalks == Spec => []QuietWalkIsExact
<1>1. IInv => QuietWalkIsExact
  <2> SUFFICES ASSUME IInv, NEW c \in Clients, walk[c].at = "done", walk[c].since = commits,
                      Pinned(walk[c].request)
               PROVE  /\ IsInjective(walk[c].seen)
                      /\ Range(walk[c].seen) = Wanted(db, walk[c].request)
    BY DEF QuietWalkIsExact
  <2>1. Quiet(walk[c])
    BY Started
  <2> QED  BY <2>1 DEF Quiet
<1> QED  BY <1>1, PagingInvariant, PTL

(* A walk of discrepancies of default types, each page evaluated when it   *)
(* is asked for, misses none of those it began with while nothing commits, *)
(* however the clock advances between its pages.                           *)
THEOREM NothingHiddenByAge == Spec => []AgeingHidesNothing
<1>1. IInv => AgeingHidesNothing
  <2> SUFFICES ASSUME IInv, NEW c \in Clients, walk[c].at = "done", Ageing(walk[c])
               PROVE  walk[c].present \subseteq Range(walk[c].seen)
    BY DEF AgeingHidesNothing, Ageing
  <2>1. Waiting(walk[c])
    BY Started
  <2> QED  BY <2>1 DEF Waiting
<1> QED  BY <1>1, PagingInvariant, PTL

(* In an order by columns no event changes, over rows no event takes away, *)
(* a row that was there when the walk began is never passed over for one   *)
(* behind it, whatever commits between the pages.                          *)
THEOREM NobodyPassedOver == Spec => []NothingPassedOver
<1>1. IInv => NothingPassedOver
  <2> SUFFICES ASSUME IInv, NEW c \in Clients, walk[c].at # "none",
                      FixedOrder(walk[c].request)
               PROVE  LET w == walk[c]
                          keys == Keys(db, w.request)
                      IN \A x \in w.present, y \in w.present \cap Range(w.seen) :
                           RowBefore(keys[x], keys[y]) => x \in Range(w.seen)
    BY DEF NothingPassedOver
  <2>1. Waiting(walk[c])
    BY Started
  <2> QED  BY <2>1 DEF Waiting
<1> QED  BY <1>1, PagingInvariant, PTL
=============================================================================
