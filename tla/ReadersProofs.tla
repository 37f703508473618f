--------------------------- MODULE ReadersProofs ---------------------------
(***************************************************************************)
(* Two groups of results about the reports.                                *)
(*                                                                         *)
(* The three definitions of a discrepancy - the predicate of the summary,  *)
(* the flag columns of the report, the Python of the detail page - agree   *)
(* on every row and for every cutoff, so they agree in every state of      *)
(* Readers, whatever was ingested.                                         *)
(*                                                                         *)
(* The SELECTs of one answer, though each sees another database, fit one   *)
(* another and the database that is there when the answer is read.  Every  *)
(* part of an answer bounds what later databases hold (Fits); a batch only *)
(* extends the database (BatchExtends), so a bound that held still holds;  *)
(* and on one snapshot the parts add up (sums over groups, counts over     *)
(* joins).  RInv carries these bounds from SELECT to SELECT up to the      *)
(* last, which returns a page: what is not on a page that is not full lies *)
(* before its offset (PageEnds), whatever the ORDER BY.                    *)
(***************************************************************************)
EXTENDS Readers, LedgerProofs

(* Max of a set of small ranks, without induction.                         *)
LEMMA MaxIs ==
  ASSUME NEW S \in SUBSET Nat, NEW m \in S, \A x \in S : x <= m
  PROVE  Max(S) = m
<1>1. \E y \in S : \A z \in S : y >= z
  OBVIOUS
<1>2. \A y \in S : (\A z \in S : y >= z) => y = m
  OBVIOUS
<1> QED
  BY <1>1, <1>2 DEF Max

(* The detail page lists exactly the flags the report would set            *)
(* (discrepancy_types_for_transaction against _FLAGGED_CTE).               *)
THEOREM DetailMatchesReport ==
  ASSUME NEW r, NEW cutoff
  PROVE  DetailTypes(r, cutoff) = Present(FlagColumns(r, cutoff), DiscrepancyTypes)
<1> DEFINE flags == FlagColumns(r, cutoff)
<1>1. DiscrepancyTypes =
        {"SETTLED_AFTER_FAILURE", "CONFLICTING_PAYMENT_STATE", "AMOUNT_MISMATCH",
         "MERCHANT_MISMATCH", "SETTLED_WITHOUT_PROCESSING", "PROCESSED_NOT_SETTLED",
         "STUCK_IN_INITIATED", "DUPLICATE_EVENTS"}
  BY DEF DiscrepancyTypes, Severity
<1>2. ASSUME NEW ty
      PROVE  ty \in DetailTypes(r, cutoff) <=>
               \/ ty = "SETTLED_AFTER_FAILURE" /\ flags.SETTLED_AFTER_FAILURE
               \/ ty = "SETTLED_WITHOUT_PROCESSING" /\ flags.SETTLED_WITHOUT_PROCESSING
               \/ ty = "PROCESSED_NOT_SETTLED" /\ flags.PROCESSED_NOT_SETTLED
               \/ ty = "STUCK_IN_INITIATED" /\ flags.STUCK_IN_INITIATED
               \/ ty = "CONFLICTING_PAYMENT_STATE" /\ flags.CONFLICTING_PAYMENT_STATE
               \/ ty = "AMOUNT_MISMATCH" /\ flags.AMOUNT_MISMATCH
               \/ ty = "MERCHANT_MISMATCH" /\ flags.MERCHANT_MISMATCH
               \/ ty = "DUPLICATE_EVENTS" /\ flags.DUPLICATE_EVENTS
  BY ZenonT(60) DEF DetailTypes, FlagColumns, Has, Before
<1>3. ASSUME NEW ty
      PROVE  ty \in Present(flags, DiscrepancyTypes)
               <=> ty \in DiscrepancyTypes /\ flags[ty]
  BY DEF Present
<1>4. ASSUME NEW ty
      PROVE  ty \in DetailTypes(r, cutoff) <=> ty \in Present(flags, DiscrepancyTypes)
  <2> HIDE DEF flags
  <2> QED
    BY <1>1, <1>2, <1>3
<1>5. DetailTypes(r, cutoff) \subseteq DiscrepancyTypes
  BY <1>3, <1>4
<1>6. Present(flags, DiscrepancyTypes) \subseteq DiscrepancyTypes
  BY DEF Present
<1> QED
  BY <1>4, <1>5, <1>6

(* The summary counts exactly the transactions a default report lists      *)
(* (_discrepancy_predicate against _FLAGGED_CTE).                          *)
THEOREM SummaryMatchesReport ==
  ASSUME NEW r, NEW cutoff
  PROVE  HasDiscrepancy(r, cutoff)
           <=> Present(FlagColumns(r, cutoff), DefaultTypes) # {}
<1> DEFINE flags == FlagColumns(r, cutoff)
<1>1. DefaultTypes =
        {"SETTLED_AFTER_FAILURE", "CONFLICTING_PAYMENT_STATE", "AMOUNT_MISMATCH",
         "MERCHANT_MISMATCH", "SETTLED_WITHOUT_PROCESSING", "PROCESSED_NOT_SETTLED",
         "STUCK_IN_INITIATED"}
  BY DEF DefaultTypes, DiscrepancyTypes, Severity
<1>2. HasDiscrepancy(r, cutoff) <=>
        \/ flags["SETTLED_AFTER_FAILURE"] \/ flags["SETTLED_WITHOUT_PROCESSING"]
        \/ flags["PROCESSED_NOT_SETTLED"] \/ flags["STUCK_IN_INITIATED"]
        \/ flags["CONFLICTING_PAYMENT_STATE"] \/ flags["AMOUNT_MISMATCH"]
        \/ flags["MERCHANT_MISMATCH"]
  BY DEF HasDiscrepancy, FlagColumns, Has, Before
<1>3. Present(flags, DefaultTypes) # {} <=> \E ty \in DefaultTypes : flags[ty]
  BY DEF Present
<1>4. HasDiscrepancy(r, cutoff) <=> \E ty \in DefaultTypes : flags[ty]
  <2> HIDE DEF flags
  <2> QED
    BY <1>1, <1>2
<1> QED
  BY <1>3, <1>4

(* A default report sorts by the severity it shows                         *)
(* (scored.severity_rank against _shape_discrepancy_row).                  *)
THEOREM RankMatchesShown ==
  ASSUME NEW r, NEW cutoff
  PROVE  LET flags == FlagColumns(r, cutoff)
         IN SeverityRank(flags) = ShownSeverity(Present(flags, DefaultTypes))
<1> DEFINE flags == FlagColumns(r, cutoff)
           present == Present(flags, DefaultTypes)
           ranks == {1} \cup {Severity[ty] : ty \in present}
<1>1. \A ty \in DefaultTypes : Severity[ty] \in {1, 2, 3}
  BY DEF DefaultTypes, DiscrepancyTypes, Severity
<1>2. present \subseteq DefaultTypes
  BY DEF Present
<1>3. ranks \in SUBSET Nat /\ \A x \in ranks : x \in {1, 2, 3}
  BY <1>1, <1>2
<1>4. CASE SeverityRank(flags) = 3
  <2>1. \E ty \in present : Severity[ty] = 3
    BY <1>4 DEF SeverityRank, Present, FlagColumns, DefaultTypes, DiscrepancyTypes, Severity
  <2>2. 3 \in ranks /\ \A x \in ranks : x <= 3
    BY <1>3, <2>1
  <2> QED
    BY <1>3, <1>4, <2>2, MaxIs DEF ShownSeverity
<1>5. CASE SeverityRank(flags) = 2
  <2>1. \E ty \in present : Severity[ty] = 2
    BY <1>5 DEF SeverityRank, Present, FlagColumns, DefaultTypes, DiscrepancyTypes, Severity
  <2>2. \A ty \in present : Severity[ty] <= 2
    BY <1>5 DEF SeverityRank, Present, FlagColumns, DefaultTypes, DiscrepancyTypes, Severity
  <2>3. 2 \in ranks /\ \A x \in ranks : x <= 2
    BY <1>3, <2>1, <2>2
  <2> QED
    BY <1>3, <1>5, <2>3, MaxIs DEF ShownSeverity
<1>6. CASE SeverityRank(flags) = 1
  <2>1. \A ty \in present : Severity[ty] <= 1
    BY <1>6 DEF SeverityRank, Present, FlagColumns, DefaultTypes, DiscrepancyTypes, Severity
  <2>2. 1 \in ranks /\ \A x \in ranks : x <= 1
    BY <1>3, <2>1
  <2> QED
    BY <1>3, <1>6, <2>2, MaxIs DEF ShownSeverity
<1>7. SeverityRank(flags) \in {1, 2, 3}
  BY DEF SeverityRank
<1> QED
  BY <1>4, <1>5, <1>6, <1>7

(* In every state of the service the three agree on every stored row.      *)
THEOREM DefinitionsCoincide == Spec => []DefinitionsAgree
<1>1. DefinitionsAgree
  BY DetailMatchesReport, SummaryMatchesReport, RankMatchesShown DEF DefinitionsAgree
<1> QED
  BY <1>1, PTL

-----------------------------------------------------------------------------
(* The members of T in group k, and in one of the groups M.                *)
InGroup(T, g, k) == {t \in T : g[t] = k}

InGroups(T, g, M) == {t \in T : g[t] \in M}

(* The sums of the groups of T, with the groups k of M summed, is the sum  *)
(* over the members of T whose group is one of M.                          *)
LEMMA SumOfGroups ==
  ASSUME NEW T, IsFiniteSet(T), NEW M, IsFiniteSet(M),
         NEW g, NEW v, \A t \in T : v[t] \in Nat,
         NEW w, \A k \in M : w[k] = SumOver(v, InGroup(T, g, k))
  PROVE  SumOver(w, M) = SumOver(v, InGroups(T, g, M))
<1> DEFINE Of(s) == InGroups(T, g, s)
           P == {s \in SUBSET M : SumOver(w, s) = SumOver(v, Of(s))}
<1>1. ASSUME NEW s \in SUBSET M, \A r \in SUBSET s : r # s => r \in P PROVE s \in P
  <2>1. IsFiniteSet(s)
    BY FS_Subset
  <2>2. CASE s = {}
    <3>1. Of(s) = {} /\ SumOver(w, s) = 0 /\ SumOver(v, {}) = 0
      BY <2>1, <2>2, SumUnfolds DEF InGroups
    <3> QED  BY <3>1
  <2>3. CASE s # {}
    <3> DEFINE k == First(s)
               r == s \ {k}
    <3>1. k \in s /\ k \in M /\ r \in P
      BY <1>1, <2>3, FirstMember
    <3>2. SumOver(w, s) = w[k] + SumOver(w, r)
      BY <2>1, <2>3, SumUnfolds
    <3>3. w[k] = SumOver(v, Of({k}))
      <4>1. Of({k}) = InGroup(T, g, k)
        BY DEF InGroups, InGroup
      <4> QED  BY <3>1, <4>1
    <3>4. Of({k}) \cup Of(r) = Of(s) /\ Of({k}) \cap Of(r) = {}
      BY <3>1 DEF InGroups
    <3>5. /\ IsFiniteSet(Of({k})) /\ IsFiniteSet(Of(r))
         /\ Of({k}) \subseteq T /\ Of(r) \subseteq T
      BY FS_Subset DEF InGroups
    <3>6. SumOver(v, Of(s)) = SumOver(v, Of({k})) + SumOver(v, Of(r))
      <4> DEFINE A == Of({k})
                 B == Of(r)
      <4>1. \A t \in A \cup B : v[t] \in Nat
        BY <3>5
      <4>2. IsFiniteSet(A) /\ IsFiniteSet(B) /\ A \cap B = {} /\ A \cup B = Of(s)
        BY <3>4, <3>5
      <4> HIDE DEF Of, A, B
      <4>3. SumOver(v, A \cup B) = SumOver(v, A) + SumOver(v, B)
        BY <4>1, <4>2, SumDisjoint
      <4> QED  BY <4>2, <4>3 DEF A, B
    <3>7. SumOver(w, r) = SumOver(v, Of(r))
      BY <3>1
    <3> HIDE DEF k, r, Of
    <3> QED  BY <3>2, <3>3, <3>6, <3>7
  <2> QED  BY <2>2, <2>3
<1>2. \A s \in SUBSET M : (\A r \in SUBSET s : r # s => r \in P) => s \in P
  BY <1>1
<1>3. M \in P
  <2> HIDE DEF P
  <2> QED  BY <1>2, OverSubsets
<1> QED  BY <1>3

(* Counting is summing ones.                                               *)
LEMMA SumOfOnes ==
  ASSUME NEW T, IsFiniteSet(T), NEW v, \A t \in T : v[t] = 1
  PROVE  SumOver(v, T) = Cardinality(T)
<1> DEFINE P == {s \in SUBSET T : SumOver(v, s) = Cardinality(s)}
<1>1. ASSUME NEW s \in SUBSET T, \A r \in SUBSET s : r # s => r \in P PROVE s \in P
  <2>1. IsFiniteSet(s)
    BY FS_Subset
  <2>2. CASE s = {}
    BY <2>1, <2>2, SumUnfolds, FS_EmptySet
  <2>3. CASE s # {}
    <3> DEFINE r == s \ {First(s)}
    <3>1. First(s) \in s /\ r \in P /\ v[First(s)] = 1
      BY <1>1, <2>3, FirstMember
    <3>2. SumOver(v, s) = 1 + SumOver(v, r)
      BY <2>1, <2>3, <3>1, SumUnfolds
    <3>3. Cardinality(r) = Cardinality(s) - 1 /\ Cardinality(s) \in Nat
      BY <2>1, <3>1, FS_RemoveElement, FS_CardinalityType
    <3>4. SumOver(v, r) = Cardinality(r)
      BY <3>1
    <3> QED  BY <3>2, <3>3, <3>4
  <2> QED  BY <2>2, <2>3
<1>2. \A s \in SUBSET T : (\A r \in SUBSET s : r # s => r \in P) => s \in P
  BY <1>1
<1>3. T \in P
  <2> HIDE DEF P
  <2> QED  BY <1>2, OverSubsets
<1> QED  BY <1>3

(* The sizes of the groups add up to the number of rows in them.           *)
LEMMA CountOfGroups ==
  ASSUME NEW T, IsFiniteSet(T), NEW M, IsFiniteSet(M), NEW g,
         NEW w, \A k \in M : w[k] = Cardinality(InGroup(T, g, k))
  PROVE  SumOver(w, M) = Cardinality(InGroups(T, g, M))
<1> DEFINE v == [t \in T |-> 1]
<1>1. \A S \in SUBSET T : SumOver(v, S) = Cardinality(S)
  <2> TAKE S \in SUBSET T
  <2>1. IsFiniteSet(S) /\ \A t \in S : v[t] = 1
    BY FS_Subset
  <2> HIDE DEF v
  <2> QED  BY <2>1, SumOfOnes
<1>2. \A t \in T : v[t] \in Nat
  OBVIOUS
<1> HIDE DEF v
<1>3. \A k \in M : w[k] = SumOver(v, InGroup(T, g, k))
  <2> TAKE k \in M
  <2>1. InGroup(T, g, k) \in SUBSET T
    BY DEF InGroup
  <2> QED  BY <1>1, <2>1
<1>4. SumOver(w, M) = SumOver(v, InGroups(T, g, M))
  BY <1>2, <1>3, SumOfGroups
<1>5. InGroups(T, g, M) \in SUBSET T
  BY DEF InGroups
<1> QED  BY <1>1, <1>4, <1>5

-----------------------------------------------------------------------------
(* What one snapshot says: the endpoints' statements on a database in      *)
(* order.                                                                  *)
Named(d, field, s) == {d.events[i].payload[field] : i \in s}

(* Events name no more transactions or merchants than there are events.    *)
LEMMA NamedCount ==
  ASSUME NEW d, NEW field, NEW S, IsFiniteSet(S)
  PROVE  /\ IsFiniteSet(Named(d, field, S))
         /\ Cardinality(Named(d, field, S)) <= Cardinality(S)
         /\ Cardinality(Named(d, field, S)) \in Nat
<1> DEFINE f == [i \in S |-> d.events[i].payload[field]]
<1>1. Named(d, field, S) = {f[i] : i \in S}
  BY DEF Named
<1> HIDE DEF f
<1> QED  BY <1>1, ImageFinite, FS_CardinalityType

(* Every table is finite, and there are as many transactions and merchants *)
(* as the events name.                                                     *)
LEMMA TableSizes ==
  ASSUME NEW d, GoodDb(d)
  PROVE  /\ IsFiniteSet(DOMAIN d.events) /\ Cardinality(DOMAIN d.events) = Len(d.events)
         /\ Len(d.events) \in Nat /\ DOMAIN d.events = 1..Len(d.events)
         /\ DOMAIN d.transactions = Named(d, "transaction_id", DOMAIN d.events)
         /\ IsFiniteSet(DOMAIN d.transactions)
         /\ Cardinality(DOMAIN d.transactions) \in Nat
         /\ Cardinality(DOMAIN d.transactions) <= Len(d.events)
<1>1. d.events \in Seq(EventRow) /\ ProjectionOfLog(d) /\ DOMAIN d.transactions \subseteq Txns
  BY DEF GoodDb, IsDb, IsTable
<1>2. DOMAIN d.events = 1..Len(d.events) /\ Len(d.events) \in Nat
  BY <1>1, LenProperties
<1>3. IsFiniteSet(DOMAIN d.events) /\ Cardinality(DOMAIN d.events) = Len(d.events)
  BY <1>2, FS_Interval
<1>4. \A i \in DOMAIN d.events : d.events[i].payload.transaction_id \in Txns
  <2> TAKE i \in DOMAIN d.events
  <2>1. d.events[i] \in EventRow
    BY <1>1, <1>2, ElementOfSeq
  <2> QED  BY <2>1 DEF EventRow, EventIn
<1>5. \A t \in Txns : t \in DOMAIN d.transactions <=>
                        \E i \in DOMAIN d.events : d.events[i].payload.transaction_id = t
  <2> TAKE t \in Txns
  <2>1. t \in DOMAIN d.transactions <=> EventsOf(d.events, t) # {}
    BY <1>1 DEF ProjectionOfLog
  <2>2. EventsOf(d.events, t) # {} <=>
          \E i \in DOMAIN d.events : d.events[i].payload.transaction_id = t
    BY DEF EventsOf
  <2> QED  BY <2>1, <2>2
<1>6. DOMAIN d.transactions = Named(d, "transaction_id", DOMAIN d.events)
  BY <1>1, <1>4, <1>5 DEF Named
<1> QED  BY <1>2, <1>3, <1>6, NamedCount

(* A join with merchants loses no transaction.                             *)
LEMMA JoinLosesNothing ==
  ASSUME NEW d, GoodDb(d), NEW f, NEW group_by
  PROVE  Joined(d, f) = Selected(d, f) /\ Population(d, f, group_by) = Selected(d, f)
<1>1. \A t \in Selected(d, f) : d.transactions[t].merchant_id \in DOMAIN d.merchants
  BY DEF GoodDb, KeysHold, Selected
<1>2. Joined(d, f) = Selected(d, f)
  BY <1>1 DEF Joined
<1> QED  BY <1>2 DEF Population

(* A filter selects finitely many of the stored rows.                      *)
LEMMA SelectedFinite ==
  ASSUME NEW d, GoodDb(d), NEW f
  PROVE  /\ Selected(d, f) \subseteq DOMAIN d.transactions
         /\ IsFiniteSet(Selected(d, f)) /\ Cardinality(Selected(d, f)) \in Nat
         /\ \A t \in DOMAIN d.transactions : Amounts(d)[t] \in Nat
         /\ Amount(d, Selected(d, f)) \in Nat
<1>1. Selected(d, f) \in SUBSET DOMAIN d.transactions
  BY DEF Selected
<1>2. IsFiniteSet(Selected(d, f)) /\ Cardinality(Selected(d, f)) \in Nat
  BY <1>1, TableSizes, FS_Subset, FS_CardinalityType
<1>3. \A t \in DOMAIN d.transactions : Amounts(d)[t] \in Nat
  BY DEF Amounts, GoodDb, IsDb, IsTable, TxnRow
<1>4. SumOver(Amounts(d), Selected(d, f)) \in Nat
  BY <1>1, <1>2, <1>3, SumType
<1> QED  BY <1>1, <1>2, <1>3, <1>4 DEF Amount

(* There are finitely many groups.                                         *)
LEMMA GroupKeysFinite ==
  ASSUME NEW d, GoodDb(d), NEW f, NEW group_by
  PROVE  /\ IsFiniteSet(GroupKeys(d, f, group_by))
         /\ Cardinality(GroupKeys(d, f, group_by)) \in Nat
<1> DEFINE P == Population(d, f, group_by)
           g == [t \in P |-> GroupKey(d.transactions[t], group_by)]
<1>1. IsFiniteSet(P)
  BY JoinLosesNothing, SelectedFinite
<1>2. GroupKeys(d, f, group_by) = {g[t] : t \in P}
  BY DEF GroupKeys
<1> HIDE DEF P, g
<1> QED  BY <1>1, <1>2, ImageFinite, FS_CardinalityType

(* The groups that a page of a summary shows count each transaction of the *)
(* population once at most, and all of them if all the groups are shown,   *)
(* whatever dimensions they are grouped by.                                *)
LEMMA GroupsAddUp ==
  ASSUME NEW d, GoodDb(d), NEW f, NEW group_by, NEW cutoff,
         NEW page \in SUBSET GroupKeys(d, f, group_by)
  PROVE  LET groups == Restrict(Groups(d, f, group_by, cutoff), page)
         IN /\ DOMAIN groups = page
            /\ Total(groups, "transaction_count") \in Int
            /\ Total(groups, "transaction_count") <= Cardinality(Selected(d, f))
            /\ page = GroupKeys(d, f, group_by) =>
                 /\ Total(groups, "transaction_count") = Cardinality(Selected(d, f))
                 /\ Total(groups, "total_amount") = Amount(d, Selected(d, f))
<1> DEFINE groups == Restrict(Groups(d, f, group_by, cutoff), page)
           T == Selected(d, f)
           M == GroupKeys(d, f, group_by)
           g == [t \in T |-> GroupKey(d.transactions[t], group_by)]
<1>1. Population(d, f, group_by) = T
  BY JoinLosesNothing
<1>2. IsFiniteSet(T) /\ \A t \in T : Amounts(d)[t] \in Nat
  BY SelectedFinite
<1>3. M = {g[t] : t \in T} /\ page \in SUBSET M
  BY <1>1 DEF GroupKeys
<1>4. IsFiniteSet(page)
  <2> HIDE DEF M
  <2> QED  BY <1>3, GroupKeysFinite, FS_Subset DEF M
<1>5. DOMAIN groups = page
  BY DEF Restrict
<1>6. \A k \in page : groups[k] = Metrics(d, InGroup(T, g, k), cutoff)
  <2> TAKE k \in page
  <2>1. groups[k] = Metrics(d, {t \in T : GroupKey(d.transactions[t], group_by) = k}, cutoff)
    BY <1>1, <1>3 DEF Groups, Restrict
  <2>2. {t \in T : GroupKey(d.transactions[t], group_by) = k} = InGroup(T, g, k)
    BY DEF InGroup
  <2> QED  BY <2>1, <2>2
<1>7. InGroups(T, g, page) \in SUBSET T /\ InGroups(T, g, M) = T
  BY <1>3 DEF InGroups
<1> HIDE DEF groups, M, T, g
<1>8. \A k \in page :
        /\ Column(groups, "transaction_count")[k] = Cardinality(InGroup(T, g, k))
        /\ Column(groups, "total_amount")[k] = SumOver(Amounts(d), InGroup(T, g, k))
  <2> TAKE k \in page
  <2>1. \A m : Column(groups, m)[k] = Metrics(d, InGroup(T, g, k), cutoff)[m]
    BY <1>5, <1>6 DEF Column
  <2> DEFINE S == InGroup(T, g, k)
  <2> HIDE DEF S
  <2>2. /\ Metrics(d, S, cutoff)["transaction_count"] = Cardinality(S)
        /\ Metrics(d, S, cutoff)["total_amount"] = SumOver(Amounts(d), S)
    BY DEF Metrics, Amount
  <2> QED  BY <2>1, <2>2 DEF S
<1>9. Total(groups, "transaction_count") = Cardinality(InGroups(T, g, page))
  <2>1. SumOver(Column(groups, "transaction_count"), page) = Cardinality(InGroups(T, g, page))
    BY <1>2, <1>4, <1>8, CountOfGroups
  <2> QED  BY <1>5, <2>1 DEF Total
<1>10. Total(groups, "total_amount") = SumOver(Amounts(d), InGroups(T, g, page))
  <2>1. SumOver(Column(groups, "total_amount"), page) = SumOver(Amounts(d), InGroups(T, g, page))
    BY <1>2, <1>4, <1>8, SumOfGroups
  <2> QED  BY <1>5, <2>1 DEF Total
<1>11. /\ Cardinality(InGroups(T, g, page)) <= Cardinality(T)
       /\ Cardinality(InGroups(T, g, page)) \in Int
  BY <1>2, <1>7, FS_Subset, FS_CardinalityType
<1>12. page = M => /\ Total(groups, "transaction_count") = Cardinality(T)
                   /\ Total(groups, "total_amount") = Amount(d, T)
  BY <1>7, <1>9, <1>10 DEF Amount
<1> QED  BY <1>5, <1>9, <1>11, <1>12 DEF groups, T, M

(* The merchant list accounts for every transaction once.                  *)
LEMMA MerchantsAddUp ==
  ASSUME NEW d, GoodDb(d), MerchantsNamed(d)
  PROVE  /\ DOMAIN MerchantList(d) = Named(d, "merchant_id", DOMAIN d.events)
         /\ Total(MerchantList(d), "transaction_count") = Cardinality(DOMAIN d.transactions)
<1> DEFINE list == MerchantList(d)
           T == DOMAIN d.transactions
           M == DOMAIN d.merchants
           g == [t \in T |-> d.transactions[t].merchant_id]
<1>1. M = Named(d, "merchant_id", DOMAIN d.events)
  BY DEF MerchantsNamed, Named
<1>2. IsFiniteSet(T) /\ IsFiniteSet(M)
  <2> HIDE DEF T, M
  <2>1. IsFiniteSet(DOMAIN d.events) /\ IsFiniteSet(T)
    BY TableSizes DEF T
  <2> QED  BY <1>1, <2>1, NamedCount
<1>3. DOMAIN list = M
  BY DEF MerchantList
<1>4. \A m \in M : Column(list, "transaction_count")[m] = Cardinality(InGroup(T, g, m))
  <2> TAKE m \in M
  <2>1. Column(list, "transaction_count")[m] = Cardinality(OfMerchant(d, m))
    BY DEF MerchantList, Column, Volume
  <2>2. OfMerchant(d, m) = InGroup(T, g, m)
    BY DEF OfMerchant, InGroup
  <2> QED  BY <2>1, <2>2
<1>5. InGroups(T, g, M) = T
  BY DEF InGroups, GoodDb, KeysHold
<1> HIDE DEF list, T, M, g
<1>6. SumOver(Column(list, "transaction_count"), M) = Cardinality(T)
  BY <1>2, <1>4, <1>5, CountOfGroups
<1> QED  BY <1>1, <1>3, <1>6 DEF Total, list, T

-----------------------------------------------------------------------------
(* What a later snapshot keeps of an earlier one.                          *)
LEMMA HistoryGrows ==
  ASSUME NEW older, GoodDb(older), NEW newer, GoodDb(newer), NEW now,
         Extended(older, newer, now), NEW t
  PROVE  /\ EventsOf(older.events, t) \subseteq EventsOf(newer.events, t)
         /\ IsFiniteSet(EventsOf(newer.events, t))
<1>1. newer.events \in Seq(EventRow)
  BY DEF GoodDb, IsDb
<1>2. IsFiniteSet(EventsOf(newer.events, t))
  BY <1>1, EventsOfType
<1>3. \A i \in DOMAIN older.events :
        i \in DOMAIN newer.events /\ newer.events[i] = older.events[i]
  BY DEF Extended, ContinuedBy
<1> QED  BY <1>2, <1>3 DEF EventsOf

(* A later database has every row a filter on fixed columns selected, and  *)
(* counts and adds up no less.                                             *)
LEMMA SelectionGrows ==
  ASSUME NEW older, GoodDb(older), NEW newer, GoodDb(newer), NEW now,
         Extended(older, newer, now), NEW f, FixedFilter(f)
  PROVE  /\ Selected(older, f) \subseteq Selected(newer, f)
         /\ Cardinality(Selected(older, f)) <= Cardinality(Selected(newer, f))
         /\ Amount(older, Selected(older, f)) <= Amount(newer, Selected(newer, f))
<1> DEFINE S == Selected(older, f)
           T == Selected(newer, f)
<1>1. ASSUME NEW t \in S PROVE t \in T /\ Amounts(older)[t] = Amounts(newer)[t]
  <2>1. t \in DOMAIN older.transactions /\ Matches(older.transactions[t], f)
    BY <1>1 DEF Selected
  <2>2. t \in DOMAIN newer.transactions /\ Sticky(older.transactions[t], newer.transactions[t])
    BY <2>1 DEF Extended
  <2> DEFINE r == older.transactions[t]
             q == newer.transactions[t]
  <2>3. q.merchant_id = r.merchant_id /\ q.amount_minor = r.amount_minor /\ q.currency = r.currency
    BY <2>2 DEF Sticky
  <2>4. Matches(r, f) => Matches(q, f)
    <3> HIDE DEF r, q
    <3> QED  BY <2>3 DEF Matches, FixedFilter, OneOf, AtLeast, AtMost
  <2>5. Amounts(older)[t] = r.amount_minor /\ Amounts(newer)[t] = q.amount_minor
    BY <2>1, <2>2 DEF Amounts
  <2> QED  BY <2>1, <2>2, <2>3, <2>4, <2>5 DEF Selected
<1>2. /\ IsFiniteSet(S) /\ IsFiniteSet(T) /\ S \in SUBSET T
      /\ \A t \in T : Amounts(newer)[t] \in Nat
  BY <1>1, SelectedFinite
<1> HIDE DEF S, T
<1>3. Cardinality(S) <= Cardinality(T)
  BY <1>2, FS_Subset
<1>4. SumOver(Amounts(older), S) = SumOver(Amounts(newer), S)
  BY <1>1, <1>2, SumSame
<1>5. SumOver(Amounts(newer), S) <= SumOver(Amounts(newer), T)
  BY <1>2, SumMonotone
<1> QED  BY <1>2, <1>3, <1>4, <1>5 DEF Amount, S, T

(* The dimensions of a transaction that never change.                      *)
FixedDimensions(group_by) ==
  \A i \in DOMAIN group_by : group_by[i] \in {"merchant", "currency"}

(* A later database has no fewer groups by fixed dimensions.               *)
LEMMA GroupsGrow ==
  ASSUME NEW older, GoodDb(older), NEW newer, GoodDb(newer), NEW now,
         Extended(older, newer, now), NEW f, FixedFilter(f),
         NEW group_by, FixedDimensions(group_by)
  PROVE  Cardinality(GroupKeys(older, f, group_by))
           <= Cardinality(GroupKeys(newer, f, group_by))
<1>1. /\ Population(older, f, group_by) = Selected(older, f)
      /\ Population(newer, f, group_by) = Selected(newer, f)
  BY JoinLosesNothing
<1>2. Selected(older, f) \subseteq Selected(newer, f)
  BY SelectionGrows
<1>3. ASSUME NEW t \in Selected(older, f)
      PROVE  GroupKey(older.transactions[t], group_by) = GroupKey(newer.transactions[t], group_by)
  <2>1. Sticky(older.transactions[t], newer.transactions[t])
    BY <1>3 DEF Extended, Selected
  <2>2. \A i \in DOMAIN group_by :
          Dimension(older.transactions[t], group_by[i])
            = Dimension(newer.transactions[t], group_by[i])
    BY <2>1 DEF Sticky, Dimension, FixedDimensions
  <2> QED  BY <2>2 DEF GroupKey
<1>4. GroupKeys(older, f, group_by) \subseteq GroupKeys(newer, f, group_by)
  BY <1>1, <1>2, <1>3 DEF GroupKeys
<1>5. IsFiniteSet(GroupKeys(newer, f, group_by))
  BY GroupKeysFinite
<1> QED  BY <1>4, <1>5, FS_Subset

(* A recorded contradiction stays on its transaction, and the transaction  *)
(* in the report.                                                          *)
LEMMA ContradictionsGrow ==
  ASSUME NEW older, GoodDb(older), NEW newer, GoodDb(newer), NEW now,
         Extended(older, newer, now), NEW f, FixedFilter(f),
         NEW types \in SUBSET Lasting, NEW cutoff
  PROVE  /\ Flagged(older, f, types, cutoff) \subseteq Flagged(newer, f, types, cutoff)
         /\ Cardinality(Flagged(older, f, types, cutoff))
              <= Cardinality(Flagged(newer, f, types, cutoff))
<1>1. Joined(older, f) = Selected(older, f) /\ Joined(newer, f) = Selected(newer, f)
  BY JoinLosesNothing
<1>2. Selected(older, f) \subseteq Selected(newer, f) /\ IsFiniteSet(Selected(newer, f))
  BY SelectionGrows, SelectedFinite
<1>3. ASSUME NEW t \in Selected(older, f), NEW ty \in types,
             FlagColumns(older.transactions[t], cutoff)[ty]
      PROVE  FlagColumns(newer.transactions[t], cutoff)[ty]
  <2> DEFINE r == older.transactions[t]
             q == newer.transactions[t]
  <2>1. Sticky(r, q)
    BY <1>3 DEF Extended, Selected
  <2>2. FlagColumns(r, cutoff)[ty]
    BY <1>3
  <2> HIDE DEF r, q
  <2>3. ty \in Lasting
    OBVIOUS
  <2>4. \A c \in {"initiated_at", "processed_at", "failed_at", "settled_at"} :
          r.at[c] # NULL => q.at[c] # NULL
    BY <2>1 DEF Sticky, Columns
  <2>5. ASSUME NEW x
        PROVE  /\ FlagColumns(x, cutoff)["SETTLED_AFTER_FAILURE"]
                    <=> x.at["settled_at"] # NULL /\ x.at["failed_at"] # NULL
               /\ FlagColumns(x, cutoff)["CONFLICTING_PAYMENT_STATE"]
                    <=> x.at["processed_at"] # NULL /\ x.at["failed_at"] # NULL
               /\ FlagColumns(x, cutoff)["AMOUNT_MISMATCH"] <=> x.has_amount_mismatch = 1
               /\ FlagColumns(x, cutoff)["MERCHANT_MISMATCH"] <=> x.has_merchant_mismatch = 1
               /\ FlagColumns(x, cutoff)["DUPLICATE_EVENTS"] <=> x.duplicate_event_count > 0
    BY DEF FlagColumns, Has
  <2>6. /\ r.has_amount_mismatch = 1 => q.has_amount_mismatch = 1
        /\ r.has_merchant_mismatch = 1 => q.has_merchant_mismatch = 1
        /\ r.duplicate_event_count > 0 => q.duplicate_event_count > 0
    BY <2>1 DEF Sticky
  <2>7. FlagColumns(q, cutoff)[ty]
    <3>1. CASE ty = "SETTLED_AFTER_FAILURE"
      BY <2>2, <2>4, <2>5, <3>1
    <3>2. CASE ty = "CONFLICTING_PAYMENT_STATE"
      BY <2>2, <2>4, <2>5, <3>2
    <3>3. CASE ty = "AMOUNT_MISMATCH"
      BY <2>2, <2>5, <2>6, <3>3
    <3>4. CASE ty = "MERCHANT_MISMATCH"
      BY <2>2, <2>5, <2>6, <3>4
    <3>5. CASE ty = "DUPLICATE_EVENTS"
      BY <2>2, <2>5, <2>6, <3>5
    <3> QED  BY <2>3, <3>1, <3>2, <3>3, <3>4, <3>5 DEF Lasting
  <2> QED  BY <2>7 DEF q
<1>4. Flagged(older, f, types, cutoff) \subseteq Flagged(newer, f, types, cutoff)
  BY <1>1, <1>2, <1>3 DEF Flagged, Present
<1>5. Flagged(newer, f, types, cutoff) \in SUBSET Selected(newer, f)
  BY <1>1 DEF Flagged
<1>6. IsFiniteSet(Flagged(newer, f, types, cutoff))
  BY <1>2, <1>5, FS_Subset
<1> QED  BY <1>4, <1>6, FS_Subset

-----------------------------------------------------------------------------
(* A request in progress: the statements run are the first few of its      *)
(* endpoint.                                                               *)
Parts ==
  [summary |-> {{}, {"totals"}, {"totals", "group_count"}, {"totals", "group_count", "groups"}},
   discrepancies |->
     {{}, {"total"}, {"total", "counts_by_type"}, {"total", "counts_by_type", "items"}},
   detail |-> {{}, {"row"}, {"row", "events"}},
   health |-> {{}, {"row_counts"}},
   merchants |-> {{}, {"merchants"}}]

Shape(r, now) ==
  /\ r = [op |-> r.op, request |-> r.request, since |-> r.since, got |-> r.got]
  /\ r.request \in Requests /\ r.op = r.request.op
  /\ r.since \in Nat /\ r.since <= now
  /\ DOMAIN r.got \in Parts[r.op]

(* Two different things are two.                                           *)
LEMMA PairSize ==
  ASSUME NEW a, NEW b, a # b
  PROVE  IsFiniteSet({a, b}) /\ Cardinality({a, b}) = 2
<1>1. {a} \cup {b} = {a, b} /\ b \notin {a}
  OBVIOUS
<1>2. IsFiniteSet({a}) /\ Cardinality({a}) = 1
  BY FS_Singleton
<1>3. IsFiniteSet({a} \cup {b}) /\ Cardinality({a} \cup {b}) = Cardinality({a}) + 1
  BY <1>1, <1>2, FS_AddElement
<1> QED  BY <1>1, <1>2, <1>3

(* Three different things are three.                                       *)
LEMMA TripleSize ==
  ASSUME NEW a, NEW b, NEW c, a # b, c # a, c # b
  PROVE  Cardinality({a, b, c}) = 3
<1>1. {a, b} \cup {c} = {a, b, c} /\ c \notin {a, b}
  OBVIOUS
<1>2. IsFiniteSet({a, b}) /\ Cardinality({a, b}) = 2
  BY PairSize
<1>3. Cardinality({a, b} \cup {c}) = Cardinality({a, b}) + 1
  BY <1>1, <1>2, FS_AddElement
<1> QED  BY <1>1, <1>2, <1>3

(* The next statement is a new one, and a request that has run as many as  *)
(* its endpoint has has run them all.                                      *)
Proceeds(op, S) ==
  LET s == Statements[op][Cardinality(S) + 1]
  IN IF Cardinality(S) = Len(Statements[op])
     THEN S = {Statements[op][i] : i \in DOMAIN Statements[op]}
     ELSE s \notin S /\ S \cup {s} \in Parts[op]

(* The statements an answer has run are a beginning of its request's       *)
(* statements.                                                             *)
LEMMA PartProceeds ==
  ASSUME NEW op \in DOMAIN Parts, NEW S \in Parts[op]
  PROVE  Proceeds(op, S)
<1>1. CASE op = "summary"
  <2>0. /\ Statements[op] = <<"totals", "group_count", "groups">>
        /\ Parts[op] = {{}, {"totals"}, {"totals", "group_count"}, {"totals", "group_count", "groups"}}
    BY <1>1 DEF Statements, Parts
  <2>1. CASE S = {}
    <3>1. Cardinality(S) = 0
      BY <2>1, FS_EmptySet, FS_Singleton, PairSize, TripleSize
    <3>2. S \cup {"totals"} = {"totals"}
      BY <2>1
    <3> QED  BY <2>0, <2>1, <3>1, <3>2 DEF Proceeds
  <2>2. CASE S = {"totals"}
    <3>1. Cardinality(S) = 1
      BY <2>2, FS_EmptySet, FS_Singleton, PairSize, TripleSize
    <3>2. S \cup {"group_count"} = {"totals", "group_count"}
      BY <2>2
    <3> QED  BY <2>0, <2>2, <3>1, <3>2 DEF Proceeds
  <2>3. CASE S = {"totals", "group_count"}
    <3>1. Cardinality(S) = 2
      BY <2>3, FS_EmptySet, FS_Singleton, PairSize, TripleSize
    <3>2. S \cup {"groups"} = {"totals", "group_count", "groups"}
      BY <2>3
    <3> QED  BY <2>0, <2>3, <3>1, <3>2 DEF Proceeds
  <2>4. CASE S = {"totals", "group_count", "groups"}
    <3>1. Cardinality(S) = 3
      <4>1. "totals" # "group_count" /\ "groups" # "totals" /\ "groups" # "group_count"
        OBVIOUS
      <4>2. Cardinality({"totals", "group_count", "groups"}) = 3
        BY <4>1, TripleSize, Zenon
      <4> QED  BY <2>4, <4>2
    <3>2. Len(Statements[op]) = 3 /\ S = {Statements[op][i] : i \in DOMAIN Statements[op]}
      BY <2>0, <2>4
    <3> QED  BY <3>1, <3>2 DEF Proceeds
  <2> QED  BY <2>0, <2>1, <2>2, <2>3, <2>4
<1>2. CASE op = "discrepancies"
  <2>0. /\ Statements[op] = <<"total", "counts_by_type", "items">>
        /\ Parts[op] = {{}, {"total"}, {"total", "counts_by_type"}, {"total", "counts_by_type", "items"}}
    BY <1>2 DEF Statements, Parts
  <2>1. CASE S = {}
    <3>1. Cardinality(S) = 0
      BY <2>1, FS_EmptySet, FS_Singleton, PairSize, TripleSize
    <3>2. S \cup {"total"} = {"total"}
      BY <2>1
    <3> QED  BY <2>0, <2>1, <3>1, <3>2 DEF Proceeds
  <2>2. CASE S = {"total"}
    <3>1. Cardinality(S) = 1
      BY <2>2, FS_EmptySet, FS_Singleton, PairSize, TripleSize
    <3>2. S \cup {"counts_by_type"} = {"total", "counts_by_type"}
      BY <2>2
    <3> QED  BY <2>0, <2>2, <3>1, <3>2 DEF Proceeds
  <2>3. CASE S = {"total", "counts_by_type"}
    <3>1. Cardinality(S) = 2
      BY <2>3, FS_EmptySet, FS_Singleton, PairSize, TripleSize
    <3>2. S \cup {"items"} = {"total", "counts_by_type", "items"}
      BY <2>3
    <3> QED  BY <2>0, <2>3, <3>1, <3>2 DEF Proceeds
  <2>4. CASE S = {"total", "counts_by_type", "items"}
    <3>1. Cardinality(S) = 3
      <4>1. "total" # "counts_by_type" /\ "items" # "total" /\ "items" # "counts_by_type"
        OBVIOUS
      <4>2. Cardinality({"total", "counts_by_type", "items"}) = 3
        BY <4>1, TripleSize, Zenon
      <4> QED  BY <2>4, <4>2
    <3>2. Len(Statements[op]) = 3 /\ S = {Statements[op][i] : i \in DOMAIN Statements[op]}
      BY <2>0, <2>4
    <3> QED  BY <3>1, <3>2 DEF Proceeds
  <2> QED  BY <2>0, <2>1, <2>2, <2>3, <2>4
<1>3. CASE op = "detail"
  <2>0. /\ Statements[op] = <<"row", "events">>
        /\ Parts[op] = {{}, {"row"}, {"row", "events"}}
    BY <1>3 DEF Statements, Parts
  <2>1. CASE S = {}
    <3>1. Cardinality(S) = 0
      BY <2>1, FS_EmptySet, FS_Singleton, PairSize, TripleSize
    <3>2. S \cup {"row"} = {"row"}
      BY <2>1
    <3> QED  BY <2>0, <2>1, <3>1, <3>2 DEF Proceeds
  <2>2. CASE S = {"row"}
    <3>1. Cardinality(S) = 1
      BY <2>2, FS_EmptySet, FS_Singleton, PairSize, TripleSize
    <3>2. S \cup {"events"} = {"row", "events"}
      BY <2>2
    <3> QED  BY <2>0, <2>2, <3>1, <3>2 DEF Proceeds
  <2>3. CASE S = {"row", "events"}
    <3>1. Cardinality(S) = 2
      BY <2>3, FS_EmptySet, FS_Singleton, PairSize, TripleSize
    <3>2. Len(Statements[op]) = 2 /\ S = {Statements[op][i] : i \in DOMAIN Statements[op]}
      BY <2>0, <2>3
    <3> QED  BY <3>1, <3>2 DEF Proceeds
  <2> QED  BY <2>0, <2>1, <2>2, <2>3
<1>4. CASE op = "health"
  <2>0. /\ Statements[op] = <<"row_counts">>
        /\ Parts[op] = {{}, {"row_counts"}}
    BY <1>4 DEF Statements, Parts
  <2>1. CASE S = {}
    <3>1. Cardinality(S) = 0
      BY <2>1, FS_EmptySet, FS_Singleton, PairSize, TripleSize
    <3>2. S \cup {"row_counts"} = {"row_counts"}
      BY <2>1
    <3> QED  BY <2>0, <2>1, <3>1, <3>2 DEF Proceeds
  <2>2. CASE S = {"row_counts"}
    <3>1. Cardinality(S) = 1
      BY <2>2, FS_EmptySet, FS_Singleton, PairSize, TripleSize
    <3>2. Len(Statements[op]) = 1 /\ S = {Statements[op][i] : i \in DOMAIN Statements[op]}
      BY <2>0, <2>2
    <3> QED  BY <3>1, <3>2 DEF Proceeds
  <2> QED  BY <2>0, <2>1, <2>2
<1>5. CASE op = "merchants"
  <2>0. /\ Statements[op] = <<"merchants">>
        /\ Parts[op] = {{}, {"merchants"}}
    BY <1>5 DEF Statements, Parts
  <2>1. CASE S = {}
    <3>1. Cardinality(S) = 0
      BY <2>1, FS_EmptySet, FS_Singleton, PairSize, TripleSize
    <3>2. S \cup {"merchants"} = {"merchants"}
      BY <2>1
    <3> QED  BY <2>0, <2>1, <3>1, <3>2 DEF Proceeds
  <2>2. CASE S = {"merchants"}
    <3>1. Cardinality(S) = 1
      BY <2>2, FS_EmptySet, FS_Singleton, PairSize, TripleSize
    <3>2. Len(Statements[op]) = 1 /\ S = {Statements[op][i] : i \in DOMAIN Statements[op]}
      BY <2>0, <2>2
    <3> QED  BY <3>1, <3>2 DEF Proceeds
  <2> QED  BY <2>0, <2>1, <2>2
<1> QED  BY <1>1, <1>2, <1>3, <1>4, <1>5 DEF Parts

(* An answer with as many results as its request has statements has them   *)
(* all.                                                                    *)
LEMMA AllParts ==
  ASSUME NEW op \in DOMAIN Parts, NEW S \in Parts[op], Cardinality(S) = Len(Statements[op])
  PROVE  \A i \in DOMAIN Statements[op] : Statements[op][i] \in S
  BY PartProceeds DEF Proceeds

-----------------------------------------------------------------------------
(* The result of statement s: what it returned, or would return now.       *)
Owed(r, s, d) == IF s \in DOMAIN r.got THEN r.got[s] ELSE Select(r.request, s, d)

(* What the statements a request has run say of those still to come, for   *)
(* each endpoint: the part of the inductive invariant about its property.  *)
SummaryPage(q, got, d) ==
  LET groups == got["groups"]
      returned == Cardinality(DOMAIN groups)
  IN /\ Total(groups, "transaction_count") <= Cardinality(Selected(d, q.filter))
     /\ ~ Full(q, returned) =>
          /\ FixedDimensions(q.group_by) => got["group_count"] <= q.cut.offset + returned
          /\ q.cut.offset = 0 =>
               /\ got["totals"].transaction_count <= Total(groups, "transaction_count")
               /\ got["totals"].total_amount <= Total(groups, "total_amount")

SummaryFits(r, d) ==
  LET q == r.request
      T == Selected(d, q.filter)
  IN r.op = "summary" /\ FixedFilter(q.filter) =>
       /\ "groups" \in DOMAIN r.got =>
            /\ Total(r.got["groups"], "transaction_count") \in Int
            /\ SummaryPage(q, r.got, d)
       /\ "groups" \notin DOMAIN r.got =>
            /\ "totals" \in DOMAIN r.got =>
                 /\ r.got["totals"].transaction_count <= Cardinality(T)
                 /\ r.got["totals"].total_amount <= Amount(d, T)
                 /\ r.got["totals"].transaction_count \in Nat
                 /\ r.got["totals"].total_amount \in Nat
            /\ "group_count" \in DOMAIN r.got /\ FixedDimensions(q.group_by) =>
                 /\ r.got["group_count"] <= Cardinality(GroupKeys(d, q.filter, q.group_by))
                 /\ r.got["group_count"] \in Nat

(* The counts of a report's header that has been read are at most n.       *)
HeaderWithin(r, n) ==
  /\ "total" \in DOMAIN r.got => r.got["total"] \in Nat /\ r.got["total"] <= n
  /\ "counts_by_type" \in DOMAIN r.got =>
       \A ty \in r.request.types : /\ r.got["counts_by_type"][ty] \in Nat
                                   /\ r.got["counts_by_type"][ty] <= n

ReportFits(r, d) ==
  LET q == r.request
      returned == Cardinality(r.got["items"])
  IN /\ r.op = "discrepancies" /\ q.types \subseteq Lasting
     /\ q.severity = NULL /\ FixedFilter(q.filter)
     => /\ "items" \in DOMAIN r.got /\ ~ Full(q, returned) =>
             HeaderWithin(r, q.cut.offset + returned)
        /\ "items" \notin DOMAIN r.got =>
             HeaderWithin(r, Cardinality(Flagged(d, q.filter, q.types, q.cutoff)))

Explains(E, r) ==
  /\ r.event_count <= Cardinality(E)
  /\ \A ty \in EventTypes :
       r.at[ColumnOf[ty]] # NULL => \E e \in OfType(E, ty) : e.timestamp = r.at[ColumnOf[ty]]
  /\ \E e \in E : e.timestamp = r.first_event_at
  /\ \E e \in E : e.timestamp = r.last_event_at

DetailFits(r, d) ==
  r.op = "detail" /\ "row" \in DOMAIN r.got /\ r.got["row"] # NULL =>
    /\ r.got["row"].event_count \in Nat
    /\ Explains(Owed(r, "events", d), r.got["row"])

Stored(d, since) == {i \in DOMAIN d.events : d.events[i].received_at <= since}

MerchantsFit(r, d) ==
  r.op = "merchants" =>
    LET list == Owed(r, "merchants", d)
    IN /\ Named(d, "merchant_id", Stored(d, r.since)) \subseteq DOMAIN list
       /\ Total(list, "transaction_count") \in
            Cardinality(Named(d, "transaction_id", Stored(d, r.since)))
              ..Cardinality(DOMAIN d.transactions)

HealthFits(r, d) ==
  r.op = "health" =>
    LET n == Owed(r, "row_counts", d)
    IN /\ Cardinality(Stored(d, r.since)) <= n.events
       /\ n.transactions <= n.events /\ n.merchants <= n.events
       /\ n.events > 0 => n.transactions > 0 /\ n.merchants > 0

(* The inductive invariant: a database in order, and answers in progress   *)
(* that fit it.                                                            *)
RInv ==
  /\ GoodDb(db) /\ MerchantsNamed(db)
  /\ commits \in Nat
  /\ DOMAIN rd = Clients
  /\ \A c \in Clients :
       \/ rd[c] = Idle
       \/ /\ Shape(rd[c], commits)
          /\ SummaryFits(rd[c], db) /\ ReportFits(rd[c], db) /\ DetailFits(rd[c], db)
          /\ MerchantsFit(rd[c], db) /\ HealthFits(rd[c], db)

(* Every request is of an operation that has statements; a list's request  *)
(* has a limit and an offset.                                              *)
LEMMA RequestOps ==
  ASSUME NEW q \in Requests
  PROVE  /\ q.op \in DOMAIN Parts /\ q.op # "none"
         /\ q.op \in {"summary", "discrepancies"} =>
              q.cut \in Cuts /\ q.cut.limit \in Nat \ {0} /\ q.cut.offset \in Nat
<1>1. q.op \in DOMAIN Parts /\ q.op # "none"
  BY DEF Requests, Parts
<1>2. q.op \in {"summary", "discrepancies"} => q.cut \in Cuts
  BY DEF Requests
<1> QED  BY <1>1, <1>2, CutsAssumption

(* So has every request in progress.                                       *)
LEMMA ShapeOps ==
  ASSUME NEW r, NEW now, Shape(r, now)
  PROVE  /\ r.op \in DOMAIN Parts /\ DOMAIN r.got \in Parts[r.op]
         /\ r.op \in {"summary", "discrepancies"} =>
              r.request.cut.limit \in Nat \ {0} /\ r.request.cut.offset \in Nat
<1>1. r.request \in Requests /\ r.op = r.request.op /\ DOMAIN r.got \in Parts[r.op]
  BY DEF Shape
<1> QED  BY <1>1, RequestOps

(* An answer after one more statement, which returned x.                   *)
Advanced(r, s, x) == [r EXCEPT !.got = Put(r.got, s, x)]

(* Only that statement's result is new.                                    *)
LEMMA AdvancedRecord ==
  ASSUME NEW r, NEW now, Shape(r, now), NEW s, s \notin DOMAIN r.got, NEW x
  PROVE  LET q == Advanced(r, s, x)
         IN /\ q.op = r.op /\ q.request = r.request /\ q.since = r.since
            /\ q = [op |-> r.op, request |-> r.request, since |-> r.since, got |-> q.got]
            /\ DOMAIN q.got = DOMAIN r.got \cup {s}
            /\ q.got[s] = x
            /\ \A y \in DOMAIN r.got : q.got[y] = r.got[y]
            /\ \A d : x = Select(r.request, s, d) => \A y : Owed(q, y, d) = Owed(r, y, d)
<1> DEFINE g == Put(r.got, s, x)
           q == Advanced(r, s, x)
<1>1. /\ DOMAIN g = DOMAIN r.got \cup {s} /\ g[s] = x
      /\ \A y \in DOMAIN r.got : g[y] = r.got[y]
  BY DEF Put
<1> HIDE DEF g
<1>2. r = [op |-> r.op, request |-> r.request, since |-> r.since, got |-> r.got]
  BY DEF Shape
<1>3. q = [op |-> r.op, request |-> r.request, since |-> r.since, got |-> g]
  BY <1>2 DEF Advanced, g
<1>4. q.op = r.op /\ q.request = r.request /\ q.since = r.since /\ q.got = g
  BY <1>3
<1> HIDE DEF q
<1>5. ASSUME NEW d, x = Select(r.request, s, d), NEW y PROVE Owed(q, y, d) = Owed(r, y, d)
  BY <1>1, <1>4, <1>5 DEF Owed
<1> QED  BY <1>1, <1>3, <1>4, <1>5 DEF q

(* What each statement returns.                                            *)
LEMMA SelectSays ==
  ASSUME NEW q, NEW d
  PROVE  /\ Select(q, "totals", d) = Metrics(d, Selected(d, q.filter), q.cutoff)
         /\ Select(q, "group_count", d) = Cardinality(GroupKeys(d, q.filter, q.group_by))
         /\ Select(q, "groups", d) = Groups(d, q.filter, q.group_by, q.cutoff)
         /\ Select(q, "total", d) = Cardinality(Flagged(d, q.filter, q.types, q.cutoff))
         /\ Select(q, "counts_by_type", d) = CountsByType(d, q.filter, q.types, q.cutoff)
         /\ Select(q, "items", d) = Flagged(d, q.filter, q.types, q.cutoff)
         /\ Select(q, "row", d) = IF q.transaction_id \in DOMAIN d.transactions
                                  THEN d.transactions[q.transaction_id] ELSE NULL
         /\ Select(q, "events", d) = EventsOf(d.events, q.transaction_id)
         /\ Select(q, "row_counts", d) = RowCounts(d)
         /\ Select(q, "merchants", d) = MerchantList(d)
  BY DEF Select

(* What a page of some rows tells of them, whatever their order: one that  *)
(* is not full has nothing behind it.                                      *)
LEMMA PageEnds ==
  ASSUME NEW q, q.cut.limit \in Nat \ {0}, q.cut.offset \in Nat,
         NEW rows, IsFiniteSet(rows), NEW page \in Pages(q.cut, rows)
  PROVE  LET n == Cardinality(page)
         IN /\ page \in SUBSET rows /\ n \in Nat
            /\ ~ Full(q, n) => /\ Cardinality(rows) <= q.cut.offset + n
                               /\ q.cut.offset = 0 => page = rows
<1>1. page \in SUBSET rows /\ Cardinality(page) = PageSize(q.cut, Cardinality(rows))
  BY DEF Pages, kSubset
<1>2. /\ IsFiniteSet(page) /\ Cardinality(rows) \in Nat /\ Cardinality(page) \in Nat
      /\ Cardinality(rows) = Cardinality(page) => rows = page
  BY <1>1, FS_Subset, FS_CardinalityType
<1>3. ASSUME ~ Full(q, Cardinality(page))
      PROVE  Cardinality(rows) <= q.cut.offset + Cardinality(page)
  BY <1>1, <1>2, <1>3 DEF Full, PageSize
<1>4. ASSUME ~ Full(q, Cardinality(page)), q.cut.offset = 0 PROVE page = rows
  <2>1. Cardinality(rows) = Cardinality(page)
    BY <1>1, <1>2, <1>4 DEF Full, PageSize
  <2> QED  BY <1>2, <2>1
<1> QED  BY <1>1, <1>2, <1>3, <1>4

(* What a statement without a LIMIT returns is all it found.               *)
LEMMA ResultsOf ==
  ASSUME NEW q, NEW s, NEW d, NEW x \in Results(q, s, d)
  PROVE  /\ s \notin {"groups", "items"} => x = Select(q, s, d)
         /\ s = "groups" =>
              \E page \in Pages(q.cut, GroupKeys(d, q.filter, q.group_by)) :
                x = Restrict(Groups(d, q.filter, q.group_by, q.cutoff), page)
         /\ s = "items" =>
              \E page \in Pages(q.cut, Flagged(d, q.filter, q.types, q.cutoff)) :
                x = Items(d, q, page)
<1>1. s \notin {"groups", "items"} => x = Select(q, s, d)
  BY DEF Results
<1>2. ASSUME s = "groups"
      PROVE  \E page \in Pages(q.cut, GroupKeys(d, q.filter, q.group_by)) :
               x = Restrict(Groups(d, q.filter, q.group_by, q.cutoff), page)
  <2> DEFINE G == Groups(d, q.filter, q.group_by, q.cutoff)
  <2>1. Select(q, s, d) = G
    BY <1>2, SelectSays
  <2>2. DOMAIN G = GroupKeys(d, q.filter, q.group_by)
    BY DEF Groups
  <2> HIDE DEF G
  <2>3. x \in {Restrict(G, page) : page \in Pages(q.cut, DOMAIN G)}
    BY <1>2, <2>1 DEF Results
  <2> QED  BY <2>2, <2>3 DEF G
<1>3. ASSUME s = "items"
      PROVE  \E page \in Pages(q.cut, Flagged(d, q.filter, q.types, q.cutoff)) :
               x = Items(d, q, page)
  <2>1. Select(q, s, d) = Flagged(d, q.filter, q.types, q.cutoff)
    BY <1>3, SelectSays
  <2> QED  BY <1>3, <2>1 DEF Results
<1> QED  BY <1>1, <1>2, <1>3

-----------------------------------------------------------------------------
(* The last statement of an endpoint has not run while another has not,    *)
(* and runs when all others have.                                          *)
LEMMA LastComesLast ==
  ASSUME NEW op \in DOMAIN Parts, NEW S \in Parts[op], NEW s, s \notin S, S \cup {s} \in Parts[op]
  PROVE  /\ op = "summary" => /\ "groups" \notin S
                              /\ s = "groups" => {"totals", "group_count"} \subseteq S
                              /\ s \in {"totals", "group_count", "groups"}
         /\ op = "discrepancies" => /\ "items" \notin S
                                    /\ s = "items" => {"total", "counts_by_type"} \subseteq S
                                    /\ s \in {"total", "counts_by_type", "items"}
         /\ op = "detail" => "events" \notin S
         /\ op \in {"detail", "health", "merchants"} => s \notin {"groups", "items"}
<1>1. ASSUME op = "summary"
      PROVE  /\ "groups" \notin S
             /\ s = "groups" => {"totals", "group_count"} \subseteq S
             /\ s \in {"totals", "group_count", "groups"}
  <2>1. Parts[op] = {{}, {"totals"}, {"totals", "group_count"}, {"totals", "group_count", "groups"}}
    BY <1>1 DEF Parts
  <2>2. \A T \in Parts[op] : /\ T \subseteq {"totals", "group_count", "groups"}
                             /\ "groups" \in T => T = {"totals", "group_count", "groups"}
    BY <2>1
  <2> QED  BY <2>2
<1>2. ASSUME op = "discrepancies"
      PROVE  /\ "items" \notin S
             /\ s = "items" => {"total", "counts_by_type"} \subseteq S
             /\ s \in {"total", "counts_by_type", "items"}
  <2>1. Parts[op] = {{}, {"total"}, {"total", "counts_by_type"}, {"total", "counts_by_type", "items"}}
    BY <1>2 DEF Parts
  <2>2. \A T \in Parts[op] : /\ T \subseteq {"total", "counts_by_type", "items"}
                             /\ "items" \in T => T = {"total", "counts_by_type", "items"}
    BY <2>1
  <2> QED  BY <2>2
<1>3. ASSUME op = "detail" PROVE "events" \notin S
  <2>1. Parts[op] = {{}, {"row"}, {"row", "events"}}
    BY <1>3 DEF Parts
  <2>2. \A T \in Parts[op] : T \subseteq {"row", "events"} /\ ("events" \in T => T = {"row", "events"})
    BY <2>1
  <2> QED  BY <2>2
<1>4. op \in {"detail", "health", "merchants"} => s \notin {"groups", "items"}
  BY DEF Parts
<1> QED  BY <1>1, <1>2, <1>3, <1>4

(* The page that the last SELECT of a summary returns fits what was read   *)
(* before it.                                                              *)
LEMMA SummaryLast ==
  ASSUME NEW d, GoodDb(d), NEW r, r.op = "summary", FixedFilter(r.request.filter),
         r.request.cut.limit \in Nat \ {0}, r.request.cut.offset \in Nat,
         "groups" \notin DOMAIN r.got, {"totals", "group_count"} \subseteq DOMAIN r.got,
         SummaryFits(r, d),
         NEW x \in Results(r.request, "groups", d), NEW got, got["groups"] = x,
         got["totals"] = r.got["totals"], got["group_count"] = r.got["group_count"]
  PROVE  Total(x, "transaction_count") \in Int /\ SummaryPage(r.request, got, d)
<1> DEFINE q == r.request
           T == Selected(d, q.filter)
           K == GroupKeys(d, q.filter, q.group_by)
           totals == r.got["totals"]
<1>1. /\ totals.transaction_count \in Nat /\ totals.total_amount \in Nat
      /\ totals.transaction_count <= Cardinality(T) /\ totals.total_amount <= Amount(d, T)
      /\ FixedDimensions(q.group_by) =>
           r.got["group_count"] <= Cardinality(K) /\ r.got["group_count"] \in Nat
  BY DEF SummaryFits
<1>2. PICK page \in Pages(q.cut, K) :
        x = Restrict(Groups(d, q.filter, q.group_by, q.cutoff), page)
  BY ResultsOf
<1> DEFINE n == Cardinality(page)
<1>3. IsFiniteSet(K) /\ Cardinality(K) \in Nat /\ Cardinality(T) \in Nat /\ Amount(d, T) \in Nat
  BY GroupKeysFinite, SelectedFinite
<1>4. /\ page \in SUBSET K /\ n \in Nat
      /\ ~ Full(q, n) => /\ Cardinality(K) <= q.cut.offset + n
                         /\ q.cut.offset = 0 => page = K
  <2>1. q.cut.limit \in Nat \ {0} /\ q.cut.offset \in Nat
    OBVIOUS
  <2> HIDE DEF K, q
  <2> QED  BY <1>2, <1>3, <2>1, PageEnds
<1>5. /\ DOMAIN x = page
      /\ Total(x, "transaction_count") \in Int
      /\ Total(x, "transaction_count") <= Cardinality(T)
      /\ page = K => /\ Total(x, "transaction_count") = Cardinality(T)
                     /\ Total(x, "total_amount") = Amount(d, T)
  BY <1>2, <1>4, GroupsAddUp
<1> HIDE DEF T, K, totals, q, n
<1>6. ASSUME ~ Full(q, n)
      PROVE  /\ FixedDimensions(q.group_by) => r.got["group_count"] <= q.cut.offset + n
             /\ q.cut.offset = 0 => /\ totals.transaction_count <= Total(x, "transaction_count")
                                    /\ totals.total_amount <= Total(x, "total_amount")
  <2>1. q.cut.offset \in Nat
    BY DEF q
  <2>2. FixedDimensions(q.group_by) => r.got["group_count"] <= q.cut.offset + n
    BY <1>1, <1>3, <1>4, <1>6, <2>1
  <2> QED  BY <1>1, <1>4, <1>5, <1>6, <2>2
<1> QED  BY <1>5, <1>6 DEF SummaryPage, T, q, n, totals

(* The summary, statement by statement and over a commit in between.       *)
LEMMA SummaryExecute ==
  ASSUME NEW d, GoodDb(d), NEW r, NEW now, Shape(r, now), SummaryFits(r, d),
         NEW s, s \notin DOMAIN r.got, DOMAIN r.got \cup {s} \in Parts[r.op],
         NEW x \in Results(r.request, s, d)
  PROVE  SummaryFits(Advanced(r, s, x), d)
<1> SUFFICES ASSUME r.op = "summary", FixedFilter(r.request.filter)
             PROVE  SummaryFits(Advanced(r, s, x), d)
  BY AdvancedRecord DEF SummaryFits
<1> DEFINE q == Advanced(r, s, x)
           f == r.request.filter
           T == Selected(d, f)
           K == GroupKeys(d, f, r.request.group_by)
<1>1. /\ q.op = r.op /\ q.request = r.request
      /\ DOMAIN q.got = DOMAIN r.got \cup {s} /\ q.got[s] = x
      /\ \A y \in DOMAIN r.got : q.got[y] = r.got[y]
  BY AdvancedRecord
<1>2. /\ "groups" \notin DOMAIN r.got
      /\ s = "groups" => {"totals", "group_count"} \subseteq DOMAIN r.got
      /\ s \in {"totals", "group_count", "groups"}
      /\ r.request.cut.limit \in Nat \ {0} /\ r.request.cut.offset \in Nat
  BY ShapeOps, LastComesLast
<1> HIDE DEF q
<1>3. CASE s = "groups"
  <2>1. /\ q.got["groups"] = x /\ q.got["totals"] = r.got["totals"]
        /\ q.got["group_count"] = r.got["group_count"]
    BY <1>1, <1>2, <1>3
  <2>2. Total(x, "transaction_count") \in Int /\ SummaryPage(r.request, q.got, d)
    BY <1>2, <1>3, <2>1, SummaryLast
  <2>3. SummaryFits(q, d)
    BY <1>1, <1>3, <2>1, <2>2 DEF SummaryFits
  <2> QED  BY <2>3 DEF q
<1>4. CASE s # "groups"
  <2>1. /\ Cardinality(T) \in Nat /\ Amount(d, T) \in Nat /\ Cardinality(K) \in Nat
    BY SelectedFinite, GroupKeysFinite
  <2>2. x = Select(r.request, s, d) /\ "groups" \notin DOMAIN q.got
    BY <1>1, <1>2, <1>4, ResultsOf
  <2>3. s = "totals" => /\ x.transaction_count = Cardinality(T)
                        /\ x.total_amount = Amount(d, T)
    <3>1. s = "totals" => x = Metrics(d, T, r.request.cutoff)
      BY <2>2, SelectSays
    <3> HIDE DEF T
    <3>2. /\ Metrics(d, T, r.request.cutoff).transaction_count = Cardinality(T)
          /\ Metrics(d, T, r.request.cutoff).total_amount = Amount(d, T)
      BY DEF Metrics
    <3> QED  BY <3>1, <3>2
  <2>4. s = "group_count" => x = Cardinality(K)
    BY <2>2, SelectSays
  <2> HIDE DEF T, K, f
  <2>5. ASSUME "totals" \in DOMAIN q.got
        PROVE  /\ q.got["totals"].transaction_count <= Cardinality(T)
               /\ q.got["totals"].total_amount <= Amount(d, T)
               /\ q.got["totals"].transaction_count \in Nat
               /\ q.got["totals"].total_amount \in Nat
    <3>1. CASE s = "totals"
      BY <1>1, <2>1, <2>3, <3>1
    <3>2. CASE s # "totals"
      BY <1>1, <1>2, <2>5, <3>2 DEF SummaryFits, T, f
    <3> QED  BY <3>1, <3>2
  <2>6. ASSUME "group_count" \in DOMAIN q.got, FixedDimensions(r.request.group_by)
        PROVE  q.got["group_count"] <= Cardinality(K) /\ q.got["group_count"] \in Nat
    <3>1. CASE s = "group_count"
      BY <1>1, <2>1, <2>4, <3>1
    <3>2. CASE s # "group_count"
      BY <1>1, <1>2, <2>6, <3>2 DEF SummaryFits, K, f
    <3> QED  BY <3>1, <3>2
  <2>7. SummaryFits(q, d)
    BY <1>1, <2>2, <2>5, <2>6 DEF SummaryFits, T, K, f
  <2> QED  BY <2>7 DEF q
<1> QED  BY <1>3, <1>4

(* A batch committed between the SELECTs of a summary leaves its parts     *)
(* fitting.                                                                *)
LEMMA SummaryCommit ==
  ASSUME NEW older, GoodDb(older), NEW newer, GoodDb(newer), NEW now,
         Extended(older, newer, now), NEW r, SummaryFits(r, older)
  PROVE  SummaryFits(r, newer)
<1> SUFFICES ASSUME r.op = "summary", FixedFilter(r.request.filter)
             PROVE  SummaryFits(r, newer)
  BY DEF SummaryFits
<1> DEFINE f == r.request.filter
           g == r.request.group_by
           Sel(d) == Selected(d, f)
           Kinds(d) == GroupKeys(d, f, g)
<1>1. /\ Cardinality(Sel(older)) <= Cardinality(Sel(newer))
      /\ Amount(older, Sel(older)) <= Amount(newer, Sel(newer))
      /\ FixedDimensions(g) => Cardinality(Kinds(older)) <= Cardinality(Kinds(newer))
  BY SelectionGrows, GroupsGrow
<1>2. /\ Cardinality(Sel(older)) \in Nat /\ Amount(older, Sel(older)) \in Nat
      /\ Cardinality(Sel(newer)) \in Nat /\ Amount(newer, Sel(newer)) \in Nat
      /\ Cardinality(Kinds(older)) \in Nat /\ Cardinality(Kinds(newer)) \in Nat
  BY SelectedFinite, GroupKeysFinite
<1> HIDE DEF Sel, Kinds, f, g
<1>3. CASE "groups" \in DOMAIN r.got
  <2> DEFINE n == Total(r.got["groups"], "transaction_count")
  <2>1. n \in Int /\ n <= Cardinality(Sel(older)) /\ SummaryPage(r.request, r.got, older)
    BY <1>3 DEF SummaryFits, SummaryPage, Sel, f
  <2> HIDE DEF n
  <2>2. n <= Cardinality(Sel(newer))
    BY <1>1, <1>2, <2>1
  <2>3. SummaryPage(r.request, r.got, newer)
    BY <2>1, <2>2 DEF SummaryPage, Sel, f, n
  <2> QED  BY <1>3, <2>1, <2>3 DEF SummaryFits, n
<1>4. CASE "groups" \notin DOMAIN r.got
  <2>1. "totals" \in DOMAIN r.got =>
          /\ r.got["totals"].transaction_count \in Nat /\ r.got["totals"].total_amount \in Nat
          /\ r.got["totals"].transaction_count <= Cardinality(Sel(older))
          /\ r.got["totals"].total_amount <= Amount(older, Sel(older))
    BY <1>4 DEF SummaryFits, Sel, f
  <2>2. "group_count" \in DOMAIN r.got /\ FixedDimensions(g) =>
          r.got["group_count"] \in Nat /\ r.got["group_count"] <= Cardinality(Kinds(older))
    BY <1>4 DEF SummaryFits, Kinds, f, g
  <2>3. "totals" \in DOMAIN r.got =>
          /\ r.got["totals"].transaction_count <= Cardinality(Sel(newer))
          /\ r.got["totals"].total_amount <= Amount(newer, Sel(newer))
    BY <1>1, <1>2, <2>1
  <2>4. "group_count" \in DOMAIN r.got /\ FixedDimensions(g) =>
          r.got["group_count"] <= Cardinality(Kinds(newer))
    BY <1>1, <1>2, <2>2
  <2> QED  BY <1>4, <2>1, <2>2, <2>3, <2>4 DEF SummaryFits, Sel, Kinds, f, g
<1> QED  BY <1>3, <1>4

(* A summary that has read nothing claims nothing.                         *)
LEMMA SummaryBegins ==
  ASSUME NEW d, NEW r, DOMAIN r.got = {}
  PROVE  SummaryFits(r, d)
  BY DEF SummaryFits

-----------------------------------------------------------------------------
(* The discrepancy report: on one database its header fits its population. *)
LEMMA ReportNow ==
  ASSUME NEW d, GoodDb(d), NEW q
  PROVE  LET F == Flagged(d, q.filter, q.types, q.cutoff)
         IN /\ IsFiniteSet(F) /\ Cardinality(F) \in Nat
            /\ \A ty \in DiscrepancyTypes :
                 /\ CountsByType(d, q.filter, q.types, q.cutoff)[ty] \in Nat
                 /\ CountsByType(d, q.filter, q.types, q.cutoff)[ty] <= Cardinality(F)
<1> DEFINE F == Flagged(d, q.filter, q.types, q.cutoff)
           G(ty) == {t \in F : FlagColumns(d.transactions[t], q.cutoff)[ty]}
<1>1. IsFiniteSet(F)
  <2>1. F \in SUBSET Selected(d, q.filter)
    BY DEF Flagged, Joined
  <2> HIDE DEF F
  <2> QED  BY <2>1, SelectedFinite, FS_Subset
<1>2. \A ty \in DiscrepancyTypes :
        CountsByType(d, q.filter, q.types, q.cutoff)[ty] = Cardinality(G(ty))
  BY DEF CountsByType
<1>3. \A ty : Cardinality(G(ty)) \in Nat /\ Cardinality(G(ty)) <= Cardinality(F)
  <2> TAKE ty
  <2>1. G(ty) \in SUBSET F
    OBVIOUS
  <2> HIDE DEF F, G
  <2> QED  BY <1>1, <2>1, FS_Subset, FS_CardinalityType
<1>4. Cardinality(F) \in Nat
  BY <1>1, FS_CardinalityType
<1> HIDE DEF F, G
<1>5. \A ty \in DiscrepancyTypes :
        /\ CountsByType(d, q.filter, q.types, q.cutoff)[ty] \in Nat
        /\ CountsByType(d, q.filter, q.types, q.cutoff)[ty] <= Cardinality(F)
  BY <1>2, <1>3
<1> QED  BY <1>1, <1>4, <1>5 DEF F

(* A bound of the header is kept by a larger one.                          *)
LEMMA HeaderGrows ==
  ASSUME NEW r, NEW m \in Nat, NEW n \in Nat, m <= n, HeaderWithin(r, m)
  PROVE  HeaderWithin(r, n)
  BY DEF HeaderWithin

(* A statement of a report read now fits those read before.                *)
LEMMA ReportExecute ==
  ASSUME NEW d, GoodDb(d), NEW r, NEW now, Shape(r, now), ReportFits(r, d),
         NEW s, s \notin DOMAIN r.got, DOMAIN r.got \cup {s} \in Parts[r.op],
         NEW x \in Results(r.request, s, d)
  PROVE  ReportFits(Advanced(r, s, x), d)
<1> SUFFICES ASSUME r.op = "discrepancies", r.request.types \subseteq Lasting,
                    r.request.severity = NULL, FixedFilter(r.request.filter)
             PROVE  ReportFits(Advanced(r, s, x), d)
  BY AdvancedRecord DEF ReportFits
<1> DEFINE q == Advanced(r, s, x)
           F == Flagged(d, r.request.filter, r.request.types, r.request.cutoff)
           C == CountsByType(d, r.request.filter, r.request.types, r.request.cutoff)
<1>1. /\ q.op = r.op /\ q.request = r.request
      /\ DOMAIN q.got = DOMAIN r.got \cup {s} /\ q.got[s] = x
      /\ \A y \in DOMAIN r.got : q.got[y] = r.got[y]
  BY AdvancedRecord
<1>2. /\ "items" \notin DOMAIN r.got
      /\ s \in {"total", "counts_by_type", "items"}
      /\ r.request.cut.limit \in Nat \ {0} /\ r.request.cut.offset \in Nat
  BY ShapeOps, LastComesLast
<1>3. /\ IsFiniteSet(F) /\ Cardinality(F) \in Nat
      /\ \A ty \in DiscrepancyTypes : C[ty] \in Nat /\ C[ty] <= Cardinality(F)
  BY ReportNow
<1>4. HeaderWithin(r, Cardinality(F))
  BY <1>2 DEF ReportFits
<1>5. r.request.types \subseteq DiscrepancyTypes
  BY DEF Lasting, DiscrepancyTypes, Severity
<1>6. /\ s = "total" => x = Cardinality(F)
      /\ s = "counts_by_type" => x = C
  BY ResultsOf, SelectSays
<1> HIDE DEF q, C
<1>7. CASE s = "items"
  <2>1. PICK page \in Pages(r.request.cut, F) : x = Items(d, r.request, page)
    BY <1>7, ResultsOf
  <2>2. x = page
    BY <2>1 DEF Items
  <2> DEFINE n == Cardinality(page)
             o == r.request.cut.offset
  <2>3. n \in Nat /\ (~ Full(r.request, n) => Cardinality(F) <= o + n)
    <3> HIDE DEF F
    <3> QED  BY <1>2, <1>3, <2>1, PageEnds
  <2> HIDE DEF F
  <2>4. ~ Full(r.request, n) => HeaderWithin(r, o + n)
    <3>1. o + n \in Nat
      BY <1>2, <2>3
    <3> QED  BY <1>3, <1>4, <2>3, <3>1, HeaderGrows
  <2>5. ~ Full(r.request, n) => HeaderWithin(q, o + n)
    BY <1>1, <1>7, <2>4 DEF HeaderWithin
  <2>6. q.got["items"] = page /\ "items" \in DOMAIN q.got
    BY <1>1, <1>7, <2>2
  <2>7. ReportFits(q, d)
    BY <1>1, <2>5, <2>6 DEF ReportFits
  <2> QED  BY <2>7 DEF q
<1>8. CASE s # "items"
  <2> HIDE DEF F
  <2>1. "total" \in DOMAIN q.got => q.got["total"] \in Nat /\ q.got["total"] <= Cardinality(F)
    <3>1. CASE s = "total"
      BY <1>1, <1>3, <1>6, <3>1
    <3>2. CASE s # "total"
      BY <1>1, <1>4, <3>2 DEF HeaderWithin
    <3> QED  BY <3>1, <3>2
  <2>2. "counts_by_type" \in DOMAIN q.got =>
          \A ty \in r.request.types :
            /\ q.got["counts_by_type"][ty] \in Nat
            /\ q.got["counts_by_type"][ty] <= Cardinality(F)
    <3>1. CASE s = "counts_by_type"
      BY <1>1, <1>3, <1>5, <1>6, <3>1
    <3>2. CASE s # "counts_by_type"
      BY <1>1, <1>4, <3>2 DEF HeaderWithin
    <3> QED  BY <3>1, <3>2
  <2>3. HeaderWithin(q, Cardinality(F)) /\ "items" \notin DOMAIN q.got
    BY <1>1, <1>2, <1>8, <2>1, <2>2 DEF HeaderWithin
  <2>4. ReportFits(q, d)
    BY <1>1, <2>3 DEF ReportFits, F
  <2> QED  BY <2>4 DEF q
<1> QED  BY <1>7, <1>8

(* A batch committed between the SELECTs of a report leaves its parts      *)
(* fitting.                                                                *)
LEMMA ReportCommit ==
  ASSUME NEW older, GoodDb(older), NEW newer, GoodDb(newer), NEW now,
         Extended(older, newer, now), NEW r, ReportFits(r, older)
  PROVE  ReportFits(r, newer)
<1> SUFFICES ASSUME r.op = "discrepancies", r.request.types \subseteq Lasting,
                    r.request.severity = NULL, FixedFilter(r.request.filter)
             PROVE  ReportFits(r, newer)
  BY DEF ReportFits
<1> DEFINE n(d) == Cardinality(Flagged(d, r.request.filter, r.request.types, r.request.cutoff))
<1>1. CASE "items" \in DOMAIN r.got
  BY <1>1 DEF ReportFits
<1>2. CASE "items" \notin DOMAIN r.got
  <2>1. HeaderWithin(r, n(older))
    BY <1>2 DEF ReportFits
  <2>2. n(older) <= n(newer) /\ n(older) \in Nat /\ n(newer) \in Nat
    BY ContradictionsGrow, ReportNow
  <2> HIDE DEF n
  <2>3. HeaderWithin(r, n(newer))
    BY <2>1, <2>2, HeaderGrows
  <2> QED  BY <1>2, <2>3 DEF ReportFits, n
<1> QED  BY <1>1, <1>2

(* A report that has read nothing claims nothing.                          *)
LEMMA ReportBegins ==
  ASSUME NEW d, NEW r, DOMAIN r.got = {}
  PROVE  ReportFits(r, d)
  BY DEF ReportFits, HeaderWithin

-----------------------------------------------------------------------------
(* The detail page: a statement read now fits those read before.           *)
LEMMA DetailExecute ==
  ASSUME NEW d, GoodDb(d), NEW r, NEW now, Shape(r, now), DetailFits(r, d),
         NEW s, s \notin DOMAIN r.got, DOMAIN r.got \cup {s} \in Parts[r.op],
         NEW x \in Results(r.request, s, d)
  PROVE  DetailFits(Advanced(r, s, x), d)
<1> SUFFICES ASSUME r.op = "detail" PROVE DetailFits(Advanced(r, s, x), d)
  BY AdvancedRecord DEF DetailFits
<1>0. x = Select(r.request, s, d)
  BY ShapeOps, LastComesLast, ResultsOf
<1> DEFINE q == Advanced(r, s, x)
           t == r.request.transaction_id
           E == EventsOf(d.events, t)
<1>1. /\ q.op = r.op /\ q.request = r.request
      /\ DOMAIN q.got = DOMAIN r.got \cup {s} /\ q.got[s] = Select(r.request, s, d)
      /\ \A y \in DOMAIN r.got : q.got[y] = r.got[y]
      /\ Owed(q, "events", d) = Owed(r, "events", d)
  BY <1>0, AdvancedRecord
<1>2. "events" \notin DOMAIN r.got
  BY ShapeOps, LastComesLast
<1>3. Owed(q, "events", d) = E
  BY <1>1, <1>2, SelectSays DEF Owed
<1> HIDE DEF q
<1>4. ASSUME s = "row", q.got["row"] # NULL PROVE DetailFits(q, d)
  <2> DEFINE row == d.transactions[t]
  <2>1. t \in DOMAIN d.transactions /\ q.got["row"] = row
    BY <1>1, <1>4, SelectSays
  <2>2. row \in TxnRow /\ t \in Txns
    BY <2>1 DEF GoodDb, IsDb, IsTable
  <2>3. LifecycleOf(row, E)
    BY <2>1, <2>2 DEF GoodDb, ProjectionOfLog
  <2>4. d.events \in Seq(EventRow)
    BY DEF GoodDb, IsDb
  <2>5. IsFiniteSet(E)
    BY <2>4, EventsOfType
  <2> HIDE DEF row, E
  <2>6. row.event_count \in Nat /\ row.event_count <= Cardinality(E)
    <3>1. row.event_count \in Nat
      BY <2>2 DEF TxnRow
    <3> QED  BY <3>1, <2>3 DEF LifecycleOf
  <2>7. \A ty \in EventTypes :
          row.at[ColumnOf[ty]] # NULL =>
            \E e \in OfType(E, ty) : e.timestamp = row.at[ColumnOf[ty]]
    BY <2>3 DEF LifecycleOf, IsEarliest
  <2>8. E # {}
    BY <2>1, <2>2 DEF GoodDb, ProjectionOfLog, E
  <2>9. /\ \E e \in E : e.timestamp = row.first_event_at
        /\ \E e \in E : e.timestamp = row.last_event_at
    BY <2>3, <2>8 DEF LifecycleOf, IsEarliest, IsLatest
  <2>10. Explains(E, row)
    BY <2>6, <2>7, <2>9 DEF Explains
  <2> QED  BY <1>3, <2>1, <2>6, <2>10 DEF DetailFits
<1>5. ASSUME s # "row" PROVE DetailFits(q, d)
  BY <1>1, <1>5 DEF DetailFits
<1>6. ASSUME s = "row", q.got["row"] = NULL PROVE DetailFits(q, d)
  BY <1>6 DEF DetailFits
<1>7. DetailFits(q, d)
  BY <1>4, <1>5, <1>6
<1> QED  BY <1>7 DEF q

(* A batch committed between the SELECTs of a detail page leaves its parts *)
(* fitting.                                                                *)
LEMMA DetailCommit ==
  ASSUME NEW older, GoodDb(older), NEW newer, GoodDb(newer), NEW now,
         Extended(older, newer, now), NEW r, DetailFits(r, older)
  PROVE  DetailFits(r, newer)
<1> SUFFICES ASSUME r.op = "detail", "row" \in DOMAIN r.got, r.got["row"] # NULL
             PROVE  DetailFits(r, newer)
  BY DEF DetailFits
<1> DEFINE t == r.request.transaction_id
           row == r.got["row"]
<1>1. row.event_count \in Nat /\ Explains(Owed(r, "events", older), row)
  BY DEF DetailFits
<1>2. CASE "events" \in DOMAIN r.got
  BY <1>1, <1>2 DEF DetailFits, Owed
<1>3. CASE "events" \notin DOMAIN r.got
  <2> DEFINE E == EventsOf(older.events, t)
             F == EventsOf(newer.events, t)
  <2>1. Owed(r, "events", older) = E /\ Owed(r, "events", newer) = F
    BY <1>3, SelectSays DEF Owed
  <2>2. E \subseteq F /\ IsFiniteSet(F)
    BY HistoryGrows
  <2>3. Explains(E, row)
    BY <1>1, <2>1
  <2> HIDE DEF E, F, row
  <2>4. /\ Cardinality(E) <= Cardinality(F)
        /\ Cardinality(E) \in Nat /\ Cardinality(F) \in Nat
    BY <2>2, FS_Subset, FS_CardinalityType
  <2>5. row.event_count <= Cardinality(F)
    BY <1>1, <2>3, <2>4 DEF Explains
  <2>6. Explains(F, row)
    BY <2>2, <2>3, <2>5 DEF Explains, OfType
  <2> QED  BY <1>1, <2>1, <2>6 DEF DetailFits, row
<1> QED  BY <1>2, <1>3

(* A detail page that has read nothing claims nothing.                     *)
LEMMA DetailBegins ==
  ASSUME NEW d, NEW r, DOMAIN r.got = {}
  PROVE  DetailFits(r, d)
  BY DEF DetailFits

-----------------------------------------------------------------------------
(* The merchant list and the row counts: what was stored before a request  *)
(* began is what it is, whatever is committed afterwards.                  *)
LEMMA StoredLasts ==
  ASSUME NEW older, GoodDb(older), NEW newer, NEW now \in Nat, Extended(older, newer, now),
         NEW since \in Nat, since < now
  PROVE  /\ Stored(newer, since) = Stored(older, since)
         /\ \A field : Named(newer, field, Stored(newer, since))
                         = Named(older, field, Stored(older, since))
<1>1. /\ \A i \in DOMAIN older.events :
           i \in DOMAIN newer.events /\ newer.events[i] = older.events[i]
      /\ \A i \in DOMAIN newer.events \ DOMAIN older.events : newer.events[i].received_at = now
  BY DEF Extended, ContinuedBy
<1>2. Stored(newer, since) = Stored(older, since)
  BY <1>1 DEF Stored
<1>3. \A i \in Stored(older, since) : newer.events[i] = older.events[i]
  BY <1>1 DEF Stored
<1> QED  BY <1>2, <1>3 DEF Named

(* Finitely many events were stored before a moment.                       *)
LEMMA StoredFinite ==
  ASSUME NEW d, GoodDb(d), NEW since
  PROVE  /\ Stored(d, since) \subseteq DOMAIN d.events
         /\ IsFiniteSet(Stored(d, since)) /\ Cardinality(Stored(d, since)) \in Nat
         /\ Cardinality(Stored(d, since)) <= Len(d.events)
<1>1. Stored(d, since) \in SUBSET DOMAIN d.events
  BY DEF Stored
<1> QED  BY <1>1, TableSizes, FS_Subset, FS_CardinalityType

(* On one database the merchant list has everyone and counts every         *)
(* transaction once at most.                                               *)
LEMMA MerchantsNow ==
  ASSUME NEW d, GoodDb(d), MerchantsNamed(d), NEW since
  PROVE  LET list == MerchantList(d)
         IN /\ Named(d, "merchant_id", Stored(d, since)) \subseteq DOMAIN list
            /\ Total(list, "transaction_count") \in
                 Cardinality(Named(d, "transaction_id", Stored(d, since)))
                   ..Cardinality(DOMAIN d.transactions)
<1> DEFINE list == MerchantList(d)
           T == Named(d, "transaction_id", Stored(d, since))
<1>1. /\ DOMAIN list = Named(d, "merchant_id", DOMAIN d.events)
      /\ Total(list, "transaction_count") = Cardinality(DOMAIN d.transactions)
  BY MerchantsAddUp
<1>2. Named(d, "merchant_id", Stored(d, since)) \subseteq DOMAIN list
  BY <1>1, StoredFinite DEF Named
<1>3. T \in SUBSET DOMAIN d.transactions
  BY TableSizes, StoredFinite DEF Named
<1> HIDE DEF list, T
<1>4. Cardinality(T) \in Nat /\ Cardinality(T) <= Cardinality(DOMAIN d.transactions)
  BY <1>3, TableSizes, FS_Subset, FS_CardinalityType
<1>5. Cardinality(DOMAIN d.transactions) \in Nat
  BY TableSizes
<1>6. Total(list, "transaction_count") \in Cardinality(T)..Cardinality(DOMAIN d.transactions)
  BY <1>1, <1>4, <1>5
<1> QED  BY <1>2, <1>6 DEF list, T

(* The SELECT of the merchant list returns what it would have returned.    *)
LEMMA MerchantsExecute ==
  ASSUME NEW d, NEW r, NEW now, Shape(r, now), MerchantsFit(r, d),
         NEW s, s \notin DOMAIN r.got, DOMAIN r.got \cup {s} \in Parts[r.op],
         NEW x \in Results(r.request, s, d)
  PROVE  MerchantsFit(Advanced(r, s, x), d)
<1> SUFFICES ASSUME r.op = "merchants" PROVE MerchantsFit(Advanced(r, s, x), d)
  BY AdvancedRecord DEF MerchantsFit
<1>1. x = Select(r.request, s, d)
  BY ShapeOps, LastComesLast, ResultsOf
<1> QED  BY <1>1, AdvancedRecord DEF MerchantsFit

(* A batch leaves the merchant list true of what was stored before the     *)
(* request.                                                                *)
LEMMA MerchantsCommit ==
  ASSUME NEW older, GoodDb(older), NEW newer, GoodDb(newer), MerchantsNamed(newer),
         NEW now \in Nat, Extended(older, newer, now),
         NEW r, r.since \in Nat, r.since < now, MerchantsFit(r, older)
  PROVE  MerchantsFit(r, newer)
<1> SUFFICES ASSUME r.op = "merchants" PROVE MerchantsFit(r, newer)
  BY DEF MerchantsFit
<1>1. CASE "merchants" \in DOMAIN r.got
  <2> DEFINE list == Owed(r, "merchants", newer)
             T == Named(newer, "transaction_id", Stored(newer, r.since))
  <2>1. list = Owed(r, "merchants", older)
    BY <1>1 DEF Owed
  <2>2. /\ T = Named(older, "transaction_id", Stored(older, r.since))
        /\ Named(newer, "merchant_id", Stored(newer, r.since))
             = Named(older, "merchant_id", Stored(older, r.since))
    BY StoredLasts
  <2>3. Cardinality(DOMAIN older.transactions) <= Cardinality(DOMAIN newer.transactions)
    <3>1. DOMAIN older.transactions \in SUBSET DOMAIN newer.transactions
      BY DEF Extended
    <3> QED  BY <3>1, TableSizes, FS_Subset
  <2>4. /\ Cardinality(DOMAIN older.transactions) \in Nat
        /\ Cardinality(DOMAIN newer.transactions) \in Nat
    BY TableSizes
  <2> HIDE DEF list, T
  <2>5. /\ Named(newer, "merchant_id", Stored(newer, r.since)) \subseteq DOMAIN list
        /\ Total(list, "transaction_count") \in
             Cardinality(T)..Cardinality(DOMAIN older.transactions)
    BY <2>1, <2>2 DEF MerchantsFit
  <2>6. Cardinality(T) \in Nat
    BY StoredFinite, NamedCount DEF T
  <2>7. Total(list, "transaction_count") \in
          Cardinality(T)..Cardinality(DOMAIN newer.transactions)
    BY <2>3, <2>4, <2>5, <2>6
  <2> QED  BY <2>5, <2>7 DEF MerchantsFit, list, T
<1>2. CASE "merchants" \notin DOMAIN r.got
  <2>1. Owed(r, "merchants", newer) = MerchantList(newer)
    BY <1>2, SelectSays DEF Owed
  <2> QED  BY <2>1, MerchantsNow DEF MerchantsFit
<1> QED  BY <1>1, <1>2

(* A merchant list asked for now is complete.                              *)
LEMMA MerchantsBegin ==
  ASSUME NEW d, GoodDb(d), MerchantsNamed(d), NEW r, DOMAIN r.got = {}
  PROVE  MerchantsFit(r, d)
<1>1. Owed(r, "merchants", d) = MerchantList(d)
  BY SelectSays DEF Owed
<1> QED  BY <1>1, MerchantsNow DEF MerchantsFit

(* On one database the three row counts fit one another.                   *)
LEMMA HealthNow ==
  ASSUME NEW d, GoodDb(d), MerchantsNamed(d), NEW since
  PROVE  LET n == RowCounts(d)
         IN /\ Cardinality(Stored(d, since)) <= n.events
            /\ n.transactions <= n.events /\ n.merchants <= n.events
            /\ n.events > 0 => n.transactions > 0 /\ n.merchants > 0
<1>1. /\ RowCounts(d).events = Len(d.events)
      /\ RowCounts(d).transactions = Cardinality(DOMAIN d.transactions)
      /\ RowCounts(d).merchants = Cardinality(DOMAIN d.merchants)
  BY DEF RowCounts
<1>2. /\ DOMAIN d.transactions = Named(d, "transaction_id", DOMAIN d.events)
      /\ DOMAIN d.merchants = Named(d, "merchant_id", DOMAIN d.events)
      /\ IsFiniteSet(DOMAIN d.events) /\ Cardinality(DOMAIN d.events) = Len(d.events)
      /\ Len(d.events) \in Nat /\ DOMAIN d.events = 1..Len(d.events)
  BY TableSizes DEF MerchantsNamed, Named
<1>3. \A field : /\ IsFiniteSet(Named(d, field, DOMAIN d.events))
                 /\ Cardinality(Named(d, field, DOMAIN d.events)) \in Nat
                 /\ Cardinality(Named(d, field, DOMAIN d.events)) <= Len(d.events)
  <2> TAKE field
  <2> QED  BY <1>2, NamedCount
<1>4. Len(d.events) > 0 => \A field : Cardinality(Named(d, field, DOMAIN d.events)) > 0
  <2> SUFFICES ASSUME Len(d.events) > 0, NEW field
               PROVE  Cardinality(Named(d, field, DOMAIN d.events)) > 0
    OBVIOUS
  <2>1. 1 \in DOMAIN d.events
    BY <1>2
  <2>2. Named(d, field, DOMAIN d.events) # {}
    BY <2>1 DEF Named
  <2>3. Cardinality(Named(d, field, DOMAIN d.events)) # 0
    BY <1>3, <2>2, FS_EmptySet
  <2> QED  BY <1>3, <2>3
<1>5. Cardinality(Stored(d, since)) <= Len(d.events)
  BY StoredFinite
<1> QED  BY <1>1, <1>2, <1>3, <1>4, <1>5

(* The SELECT of the row counts returns what it would have returned.       *)
LEMMA HealthExecute ==
  ASSUME NEW d, NEW r, NEW now, Shape(r, now), HealthFits(r, d),
         NEW s, s \notin DOMAIN r.got, DOMAIN r.got \cup {s} \in Parts[r.op],
         NEW x \in Results(r.request, s, d)
  PROVE  HealthFits(Advanced(r, s, x), d)
<1> SUFFICES ASSUME r.op = "health" PROVE HealthFits(Advanced(r, s, x), d)
  BY AdvancedRecord DEF HealthFits
<1>1. x = Select(r.request, s, d)
  BY ShapeOps, LastComesLast, ResultsOf
<1> QED  BY <1>1, AdvancedRecord DEF HealthFits

(* A batch leaves the row counts true of what was stored before the        *)
(* request.                                                                *)
LEMMA HealthCommit ==
  ASSUME NEW older, GoodDb(older), NEW newer, GoodDb(newer), MerchantsNamed(newer),
         NEW now \in Nat, Extended(older, newer, now),
         NEW r, r.since \in Nat, r.since < now, HealthFits(r, older)
  PROVE  HealthFits(r, newer)
<1> SUFFICES ASSUME r.op = "health" PROVE HealthFits(r, newer)
  BY DEF HealthFits
<1>1. CASE "row_counts" \in DOMAIN r.got
  <2>1. Owed(r, "row_counts", newer) = Owed(r, "row_counts", older)
    BY <1>1 DEF Owed
  <2>2. Stored(newer, r.since) = Stored(older, r.since)
    BY StoredLasts
  <2> QED  BY <2>1, <2>2 DEF HealthFits
<1>2. CASE "row_counts" \notin DOMAIN r.got
  <2>1. Owed(r, "row_counts", newer) = RowCounts(newer)
    BY <1>2, SelectSays DEF Owed
  <2> QED  BY <2>1, HealthNow DEF HealthFits
<1> QED  BY <1>1, <1>2

(* Row counts asked for now fit.                                           *)
LEMMA HealthBegins ==
  ASSUME NEW d, GoodDb(d), MerchantsNamed(d), NEW r, DOMAIN r.got = {}
  PROVE  HealthFits(r, d)
<1>1. Owed(r, "row_counts", d) = RowCounts(d)
  BY SelectSays DEF Owed
<1> QED  BY <1>1, HealthNow DEF HealthFits

-----------------------------------------------------------------------------
(* RInv is inductive.                                                      *)
Fits(r, d) ==
  /\ SummaryFits(r, d) /\ ReportFits(r, d) /\ DetailFits(r, d)
  /\ MerchantsFit(r, d) /\ HealthFits(r, d)

(* Of an empty database nothing has been read.                             *)
LEMMA InitRInv == Init => RInv
<1> SUFFICES ASSUME Init PROVE RInv
  OBVIOUS
<1>1. GoodDb(db)
  BY EmptyDbGood DEF Init
<1>2. MerchantsNamed(db)
  BY DEF Init, EmptyDb, MerchantsNamed
<1> QED  BY <1>1, <1>2 DEF Init, RInv

(* A batch that commits between any two SELECTs keeps RInv.                *)
LEMMA CommitRInv ==
  ASSUME RInv, NEW b \in Batches, CommitBatch(b)
  PROVE  RInv'
<1> DEFINE now == commits + 1
<1>1. GoodDb(db) /\ MerchantsNamed(db) /\ now \in Nat /\ commits \in Nat /\ commits < now
  BY DEF RInv
<1>2. db' = ApplyBatch(db, b, now) /\ commits' = now /\ rd' = rd
  BY DEF CommitBatch
<1>3. b \in Seq(EventIn)
  <2>1. b \in Seq({e \in EventIn : Valid(e)})
    BY BatchesAssumption
  <2> QED  BY <2>1
<1>4. GoodDb(db') /\ MerchantsNamed(db') /\ Extended(db, db', now)
  BY <1>1, <1>2, <1>3, BatchExtends
<1>5. ASSUME NEW c \in Clients, rd[c] # Idle
      PROVE  Shape(rd[c], now) /\ Fits(rd[c], db')
  <2> DEFINE r == rd[c]
  <2>1. Shape(r, commits) /\ Fits(r, db)
    BY <1>5 DEF RInv, Fits
  <2>2. r.since \in Nat /\ r.since < now /\ Shape(r, now)
    BY <1>1, <2>1 DEF Shape
  <2> HIDE DEF r
  <2>3. SummaryFits(r, db')
    BY <1>1, <1>4, <2>1, SummaryCommit DEF Fits
  <2>4. ReportFits(r, db')
    BY <1>1, <1>4, <2>1, ReportCommit DEF Fits
  <2>5. DetailFits(r, db')
    BY <1>1, <1>4, <2>1, DetailCommit DEF Fits
  <2>6. MerchantsFit(r, db')
    BY <1>1, <1>4, <2>1, <2>2, MerchantsCommit DEF Fits
  <2>7. HealthFits(r, db')
    BY <1>1, <1>4, <2>1, <2>2, HealthCommit DEF Fits
  <2> QED  BY <2>2, <2>3, <2>4, <2>5, <2>6, <2>7 DEF Fits, r
<1> QED  BY <1>1, <1>2, <1>4, <1>5 DEF RInv, Fits

(* A new request keeps RInv.                                               *)
LEMMA BeginRInv ==
  ASSUME RInv, NEW c \in Clients, NEW q \in Requests, Begin(c, q)
  PROVE  RInv'
<1> DEFINE r == [op |-> q.op, request |-> q, since |-> commits,
                 got |-> [stmt \in {} |-> NULL]]
<1>1. db' = db /\ commits' = commits /\ (rd' = rd \/ rd' = [rd EXCEPT ![c] = r])
  BY DEF Begin
<1>2. GoodDb(db) /\ MerchantsNamed(db) /\ commits \in Nat
  BY DEF RInv
<1>3. DOMAIN r.got = {}
  OBVIOUS
<1>4. Shape(r, commits)
  <2>1. {} \in Parts[q.op]
    BY RequestOps DEF Parts
  <2> QED  BY <1>2, <2>1 DEF Shape
<1> HIDE DEF r
<1>5. Fits(r, db)
  BY <1>2, <1>3, SummaryBegins, ReportBegins, DetailBegins, MerchantsBegin, HealthBegins DEF Fits
<1>6. \A x \in Clients : rd'[x] = rd[x] \/ rd'[x] = r
  BY <1>1 DEF RInv
<1>7. DOMAIN rd' = Clients
  BY <1>1 DEF RInv
<1> QED  BY <1>1, <1>2, <1>4, <1>5, <1>6, <1>7 DEF RInv, Fits

(* The next SELECT of a request keeps RInv.                                *)
LEMMA ExecuteRInv ==
  ASSUME RInv, NEW c \in Clients, Execute(c)
  PROVE  RInv'
<1> DEFINE r == rd[c]
           s == Statements[r.request.op][Ran(c) + 1]
<1>1. db' = db /\ commits' = commits /\ r.op # "none" /\ ~ Finished(c)
  BY DEF Execute
<1>2. PICK x \in Results(r.request, s, db) : rd' = [rd EXCEPT ![c].got = Put(rd[c].got, s, x)]
  BY DEF Execute
<1> DEFINE q == Advanced(r, s, x)
<1>3. rd' = [rd EXCEPT ![c] = q]
  BY <1>2 DEF Advanced
<1>4. GoodDb(db) /\ MerchantsNamed(db) /\ Shape(r, commits) /\ Fits(r, db)
  BY <1>1 DEF RInv, Fits, Idle
<1>5. /\ r.op \in DOMAIN Parts /\ DOMAIN r.got \in Parts[r.op] /\ r.op = r.request.op
      /\ Ran(c) = Cardinality(DOMAIN r.got)
  BY <1>4, RequestOps DEF Shape, Ran
<1>6. Cardinality(DOMAIN r.got) # Len(Statements[r.op])
  BY <1>1, <1>5 DEF Finished
<1>7. s \notin DOMAIN r.got /\ DOMAIN r.got \cup {s} \in Parts[r.op]
  BY <1>5, <1>6, PartProceeds DEF Proceeds
<1> HIDE DEF r, s, q
<1>8. Fits(q, db)
  BY <1>4, <1>7, SummaryExecute, ReportExecute, DetailExecute, MerchantsExecute, HealthExecute
     DEF Fits, q
<1>9. Shape(q, commits)
  <2>1. /\ q.op = r.op /\ q.request = r.request /\ q.since = r.since
        /\ q = [op |-> r.op, request |-> r.request, since |-> r.since, got |-> q.got]
        /\ DOMAIN q.got = DOMAIN r.got \cup {s}
    BY <1>4, <1>7, AdvancedRecord DEF q
  <2> QED  BY <1>4, <1>7, <2>1 DEF Shape
<1>10. \A k \in Clients : rd'[k] = rd[k] \/ rd'[k] = q
  BY <1>3 DEF RInv
<1>11. DOMAIN rd' = Clients
  BY <1>3 DEF RInv
<1> QED  BY <1>1, <1>8, <1>9, <1>10, <1>11 DEF RInv, Fits

(* Every step keeps RInv.                                                  *)
LEMMA NextRInv == RInv /\ [Next]_vars => RInv'
<1> SUFFICES ASSUME RInv, [Next]_vars PROVE RInv'
  OBVIOUS
<1>1. ASSUME NEW b \in Batches, CommitBatch(b) PROVE RInv'
  BY <1>1, CommitRInv
<1>2. ASSUME NEW c \in Clients, NEW q \in Requests, Begin(c, q) PROVE RInv'
  BY <1>2, BeginRInv
<1>3. ASSUME NEW c \in Clients, Execute(c) PROVE RInv'
  BY <1>3, ExecuteRInv
<1>4. ASSUME NEW c \in Clients, Answer(c) PROVE RInv'
  <2>1. db' = db /\ commits' = commits /\ rd' = [rd EXCEPT ![c] = Idle]
    BY <1>4 DEF Answer
  <2>2. DOMAIN rd' = Clients /\ \A x \in Clients : rd'[x] = rd[x] \/ rd'[x] = Idle
    BY <2>1 DEF RInv
  <2> QED  BY <2>1, <2>2 DEF RInv
<1>5. ASSUME UNCHANGED vars PROVE RInv'
  BY <1>5 DEF vars, RInv
<1> QED  BY <1>1, <1>2, <1>3, <1>4, <1>5 DEF Next

(* In every state the database is in order and every part of an answer     *)
(* read so far is explained by it.                                         *)
THEOREM ReadersInvariance == Spec => []RInv
<1> QED  BY InitRInv, NextRInv, PTL DEF Spec

(* An answered request has run every statement of its endpoint.            *)
LEMMA AnswerComplete ==
  ASSUME RInv, NEW c \in Clients, NEW op \in DOMAIN Parts, Answered(c, op)
  PROVE  /\ rd[c].op = op /\ Fits(rd[c], db)
         /\ \A i \in DOMAIN Statements[op] :
              /\ Statements[op][i] \in DOMAIN rd[c].got
              /\ Owed(rd[c], Statements[op][i], db) = rd[c].got[Statements[op][i]]
<1>1. rd[c].op = op /\ rd[c] # Idle
  BY DEF Answered, Parts, Idle
<1>2. Shape(rd[c], commits) /\ Fits(rd[c], db)
  BY <1>1 DEF RInv, Fits
<1>3. DOMAIN rd[c].got \in Parts[op] /\ Cardinality(DOMAIN rd[c].got) = Len(Statements[op])
  BY <1>1, <1>2 DEF Shape, Answered, Ran
<1>4. \A i \in DOMAIN Statements[op] : Statements[op][i] \in DOMAIN rd[c].got
  BY <1>3, AllParts
<1> QED  BY <1>1, <1>2, <1>4 DEF Owed

(* What is committed between the SELECTs of a summary cannot make a page   *)
(* of groups hold more than is stored; a page that is not full ends no     *)
(* earlier than the count before it said and, if it is the first, covers   *)
(* the grand total (reconciliation_summary).                               *)
THEOREM GroupsCoverTotals == Spec => []TotalsNeverExceedGroups
<1>1. RInv => TotalsNeverExceedGroups
  <2> SUFFICES ASSUME RInv, NEW c \in Clients, Answered(c, "summary"),
                      FixedFilter(rd[c].request.filter)
               PROVE  SummaryPage(rd[c].request, rd[c].got, db)
    BY DEF TotalsNeverExceedGroups, SummaryPage, FixedDimensions
  <2>1. rd[c].op = "summary" /\ SummaryFits(rd[c], db) /\ "groups" \in DOMAIN rd[c].got
    BY AnswerComplete DEF Parts, Statements, Fits
  <2> QED  BY <2>1 DEF SummaryFits
<1> QED  BY <1>1, ReadersInvariance, PTL

(* The history of a detail page explains its row, however many events of   *)
(* the transaction are committed between the two SELECTs                   *)
(* (get_transaction, get_transaction_events).                              *)
THEOREM HistoryExplains == Spec => []HistoryExplainsRow
<1>1. RInv => HistoryExplainsRow
  <2> SUFFICES ASSUME RInv, NEW c \in Clients, Answered(c, "detail"), rd[c].got["row"] # NULL
               PROVE  Explains(rd[c].got["events"], rd[c].got["row"])
    BY DEF HistoryExplainsRow, Explains
  <2>1. /\ rd[c].op = "detail" /\ DetailFits(rd[c], db)
        /\ {"row", "events"} \subseteq DOMAIN rd[c].got
        /\ Owed(rd[c], "events", db) = rd[c].got["events"]
    BY AnswerComplete DEF Parts, Statements, Fits
  <2> QED  BY <2>1 DEF DetailFits
<1> QED  BY <1>1, ReadersInvariance, PTL

(* A contradiction the header of a report counts is still there when its   *)
(* items are read: a page that is not full ends no earlier than the header *)
(* said (discrepancies()).                                                 *)
THEOREM ContradictionsStay == Spec => []ContradictionsLast
<1>1. RInv => ContradictionsLast
  <2> SUFFICES ASSUME RInv, NEW c \in Clients, Answered(c, "discrepancies"),
                      rd[c].request.types \subseteq Lasting,
                      rd[c].request.severity = NULL, FixedFilter(rd[c].request.filter),
                      NEW n, n = Cardinality(rd[c].got["items"]), ~ Full(rd[c].request, n)
               PROVE  /\ rd[c].got["total"] <= rd[c].request.cut.offset + n
                      /\ \A ty \in rd[c].request.types :
                           rd[c].got["counts_by_type"][ty] <= rd[c].request.cut.offset + n
    BY DEF ContradictionsLast
  <2>1. /\ rd[c].op = "discrepancies" /\ ReportFits(rd[c], db)
        /\ {"total", "counts_by_type", "items"} \subseteq DOMAIN rd[c].got
    BY AnswerComplete DEF Parts, Statements, Fits
  <2>2. HeaderWithin(rd[c], rd[c].request.cut.offset + n)
    BY <2>1 DEF ReportFits
  <2> QED  BY <2>1, <2>2 DEF HeaderWithin
<1> QED  BY <1>1, ReadersInvariance, PTL

(* The merchant list leaves nobody out and counts every transaction once;  *)
(* the row counts fit one another (list_merchants, health).                *)
THEOREM MerchantsComplete == Spec => []MerchantsAccountForAll
<1>1. RInv => MerchantsAccountForAll
  <2> SUFFICES ASSUME RInv, NEW c \in Clients
               PROVE  LET stored == {i \in DOMAIN db.events :
                                       db.events[i].received_at <= rd[c].since}
                          Known(field) == {db.events[i].payload[field] : i \in stored}
                      IN /\ Answered(c, "merchants") =>
                              LET list == rd[c].got["merchants"]
                              IN /\ Known("merchant_id") \subseteq DOMAIN list
                                 /\ Total(list, "transaction_count") \in
                                      Cardinality(Known("transaction_id"))
                                        ..Cardinality(DOMAIN db.transactions)
                         /\ Answered(c, "health") =>
                              LET n == rd[c].got["row_counts"]
                              IN /\ Cardinality(stored) <= n.events
                                 /\ n.transactions <= n.events /\ n.merchants <= n.events
                                 /\ n.events > 0 => n.transactions > 0 /\ n.merchants > 0
    BY DEF MerchantsAccountForAll
  <2>1. ASSUME Answered(c, "merchants")
        PROVE  /\ rd[c].op = "merchants" /\ MerchantsFit(rd[c], db)
               /\ Owed(rd[c], "merchants", db) = rd[c].got["merchants"]
    BY <2>1, AnswerComplete DEF Parts, Statements, Fits
  <2>2. ASSUME Answered(c, "health")
        PROVE  /\ rd[c].op = "health" /\ HealthFits(rd[c], db)
               /\ Owed(rd[c], "row_counts", db) = rd[c].got["row_counts"]
    BY <2>2, AnswerComplete DEF Parts, Statements, Fits
  <2> QED  BY <2>1, <2>2 DEF MerchantsFit, HealthFits, Stored, Named
<1> QED  BY <1>1, ReadersInvariance, PTL
=============================================================================
