------------------------------ MODULE Reports ------------------------------
(***************************************************************************)
(* The read side, app/queries.py and the routers over it, as functions of  *)
(* one database snapshot: filters, the reconciliation summary, and the     *)
(* three places that decide which discrepancies a transaction has.         *)
(* Readers.tla runs them statement by statement against a moving database. *)
(***************************************************************************)
EXTENDS Ledger, Collections

CONSTANT DayLength   (* timestamps per calendar day                        *)

ASSUME DayAssumption == DayLength \in Nat \ {0}

-----------------------------------------------------------------------------
(* Filters.  An empty set and NULL mean that a filter is not given.        *)
NoFilter == [merchant_id |-> {}, status |-> {}, payment_status |-> {},
             settlement_status |-> {}, currency |-> NULL,
             date_field |-> "first_event_at", date_from |-> NULL, date_to |-> NULL,
             min_amount |-> NULL, max_amount |-> NULL, has_duplicates |-> NULL]

DateOf(r, field) ==
  CASE field = "first_event_at" -> r.first_event_at
    [] field = "last_event_at"  -> r.last_event_at
    [] OTHER                    -> r.at[field]

(* A comparison with SQL NULL is not true.                                 *)
AtLeast(x, bound) == bound = NULL \/ (x # NULL /\ x >= bound)
AtMost(x, bound) == bound = NULL \/ (x # NULL /\ x <= bound)
OneOf(x, S) == S = {} \/ x \in S

Matches(r, f) ==
  /\ OneOf(r.merchant_id, f.merchant_id)
  /\ OneOf(Status(r), f.status)
  /\ OneOf(PaymentStatus(r), f.payment_status)
  /\ OneOf(SettlementStatus(r), f.settlement_status)
  /\ f.currency \in {NULL, r.currency}
  /\ AtLeast(DateOf(r, f.date_field), f.date_from)
  /\ AtMost(DateOf(r, f.date_field), f.date_to)
  /\ AtLeast(r.amount_minor, f.min_amount)
  /\ AtMost(r.amount_minor, f.max_amount)
  /\ f.has_duplicates # NULL => f.has_duplicates = (r.duplicate_event_count > 0)

(* FROM transactions WHERE ...                                             *)
Selected(db, f) == {t \in DOMAIN db.transactions : Matches(db.transactions[t], f)}

(* ... JOIN merchants.                                                     *)
Joined(db, f) ==
  {t \in Selected(db, f) : db.transactions[t].merchant_id \in DOMAIN db.merchants}

-----------------------------------------------------------------------------
(* Discrepancies.                                                          *)
Severity == [SETTLED_AFTER_FAILURE      |-> 3, CONFLICTING_PAYMENT_STATE |-> 3,
             AMOUNT_MISMATCH            |-> 3, MERCHANT_MISMATCH         |-> 3,
             SETTLED_WITHOUT_PROCESSING |-> 2, PROCESSED_NOT_SETTLED     |-> 2,
             STUCK_IN_INITIATED         |-> 1, DUPLICATE_EVENTS          |-> 1]

DiscrepancyTypes == DOMAIN Severity

DefaultTypes == DiscrepancyTypes \ {"DUPLICATE_EVENTS"}

Has(r, c) == r.at[c] # NULL
Before(r, c, cutoff) == r.at[c] # NULL /\ r.at[c] < cutoff

(* Fault variant: the summary counts a failure among the stale payments.   *)
HasDiscrepancy_FailedStale(r, cutoff) ==
  \/ Has(r, "settled_at") /\ Has(r, "failed_at")
  \/ Has(r, "settled_at") /\ ~ Has(r, "processed_at") /\ ~ Has(r, "failed_at")
  \/ /\ Has(r, "processed_at") /\ ~ Has(r, "failed_at") /\ ~ Has(r, "settled_at")
     /\ Before(r, "processed_at", cutoff)
  \/ /\ ~ Has(r, "processed_at") /\ ~ Has(r, "settled_at")
     /\ Before(r, "initiated_at", cutoff)
  \/ Has(r, "processed_at") /\ Has(r, "failed_at")
  \/ r.has_amount_mismatch = 1
  \/ r.has_merchant_mismatch = 1

(* First definition: the predicate the summary counts with.                *)
HasDiscrepancy(r, cutoff) ==
  \/ Has(r, "settled_at") /\ Has(r, "failed_at")
  \/ Has(r, "settled_at") /\ ~ Has(r, "processed_at") /\ ~ Has(r, "failed_at")
  \/ /\ Has(r, "processed_at") /\ ~ Has(r, "failed_at") /\ ~ Has(r, "settled_at")
     /\ Before(r, "processed_at", cutoff)
  \/ /\ Has(r, "initiated_at") /\ ~ Has(r, "processed_at")
     /\ ~ Has(r, "failed_at") /\ ~ Has(r, "settled_at")
     /\ Before(r, "initiated_at", cutoff)
  \/ Has(r, "processed_at") /\ Has(r, "failed_at")
  \/ r.has_amount_mismatch = 1
  \/ r.has_merchant_mismatch = 1

(* Second: the flag columns of the discrepancy report.                     *)
FlagColumns(r, cutoff) ==
  [SETTLED_AFTER_FAILURE |-> Has(r, "settled_at") /\ Has(r, "failed_at"),
   SETTLED_WITHOUT_PROCESSING |->
     Has(r, "settled_at") /\ ~ Has(r, "processed_at") /\ ~ Has(r, "failed_at"),
   PROCESSED_NOT_SETTLED |->
     /\ Has(r, "processed_at") /\ ~ Has(r, "failed_at") /\ ~ Has(r, "settled_at")
     /\ Before(r, "processed_at", cutoff),
   STUCK_IN_INITIATED |->
     /\ Has(r, "initiated_at") /\ ~ Has(r, "processed_at")
     /\ ~ Has(r, "failed_at") /\ ~ Has(r, "settled_at")
     /\ Before(r, "initiated_at", cutoff),
   CONFLICTING_PAYMENT_STATE |-> Has(r, "processed_at") /\ Has(r, "failed_at"),
   AMOUNT_MISMATCH |-> r.has_amount_mismatch = 1,
   MERCHANT_MISMATCH |-> r.has_merchant_mismatch = 1,
   DUPLICATE_EVENTS |-> r.duplicate_event_count > 0]

(* Third: recomputed in Python for the detail page of one transaction.     *)
DetailTypes(r, cutoff) ==
  LET settled == r.at["settled_at"]
      failed == r.at["failed_at"]
      processed == r.at["processed_at"]
      initiated == r.at["initiated_at"]
      none == {failed, settled} = {NULL}
  IN UNION {
       IF settled # NULL /\ failed # NULL THEN {"SETTLED_AFTER_FAILURE"} ELSE {},
       IF settled # NULL /\ {processed, failed} = {NULL}
         THEN {"SETTLED_WITHOUT_PROCESSING"} ELSE {},
       IF processed # NULL /\ none /\ processed < cutoff
         THEN {"PROCESSED_NOT_SETTLED"} ELSE {},
       IF initiated # NULL /\ processed = NULL /\ none /\ initiated < cutoff
         THEN {"STUCK_IN_INITIATED"} ELSE {},
       IF processed # NULL /\ failed # NULL THEN {"CONFLICTING_PAYMENT_STATE"} ELSE {},
       IF r.has_amount_mismatch = 1 THEN {"AMOUNT_MISMATCH"} ELSE {},
       IF r.has_merchant_mismatch = 1 THEN {"MERCHANT_MISMATCH"} ELSE {},
       IF r.duplicate_event_count > 0 THEN {"DUPLICATE_EVENTS"} ELSE {}}

(* scored.severity_rank: over every flag, selected or not.                 *)
SeverityRank(flags) ==
  IF \/ flags.SETTLED_AFTER_FAILURE \/ flags.CONFLICTING_PAYMENT_STATE
     \/ flags.AMOUNT_MISMATCH \/ flags.MERCHANT_MISMATCH THEN 3
  ELSE IF flags.SETTLED_WITHOUT_PROCESSING \/ flags.PROCESSED_NOT_SETTLED THEN 2 ELSE 1

Present(flags, types) == {ty \in types : flags[ty]}

(* The severity an item shows: over the selected types it has.             *)
ShownSeverity(present) == Max({1} \cup {Severity[ty] : ty \in present})

(* The rows of a discrepancy report, unordered: WHERE any selected flag.   *)
Flagged(db, f, types, cutoff) ==
  {t \in Joined(db, f) : Present(FlagColumns(db.transactions[t], cutoff), types) # {}}

(* counts_by_type over those rows, for every type.                         *)
CountsByType(db, f, types, cutoff) ==
  [ty \in DiscrepancyTypes |->
     Cardinality({t \in Flagged(db, f, types, cutoff) :
                    FlagColumns(db.transactions[t], cutoff)[ty]})]

-----------------------------------------------------------------------------
(* The reconciliation summary.                                             *)
Amounts(db) == [t \in DOMAIN db.transactions |-> db.transactions[t].amount_minor]

Amount(db, T) == SumOver(Amounts(db), T)

WithStatus(db, T, s) == {t \in T : Status(db.transactions[t]) = s}

(* _METRICS over a set of transactions.                                    *)
Metrics(db, T, cutoff) ==
  [transaction_count |-> Cardinality(T),
   total_amount      |-> Amount(db, T),
   initiated_count   |-> Cardinality(WithStatus(db, T, "initiated")),
   processed_count   |-> Cardinality(WithStatus(db, T, "processed")),
   failed_count      |-> Cardinality(WithStatus(db, T, "failed")),
   settled_count     |-> Cardinality(WithStatus(db, T, "settled")),
   settled_amount    |-> Amount(db, WithStatus(db, T, "settled")),
   failed_amount     |-> Amount(db, WithStatus(db, T, "failed")),
   unsettled_amount  |-> Amount(db, {t \in T : ~ Has(db.transactions[t], "settled_at") /\
                                              ~ Has(db.transactions[t], "failed_at")}),
   discrepancy_count |-> Cardinality({t \in T : HasDiscrepancy(db.transactions[t], cutoff)})]

(* What a summary may be grouped by, and a transaction's value in it.      *)
GroupByDimensions == {"merchant", "date", "status", "currency"}

Dimension(r, d) ==
  CASE d = "merchant" -> r.merchant_id
    [] d = "status"   -> Status(r)
    [] d = "currency" -> r.currency
    [] d = "date"     -> r.first_event_at \div DayLength

(* A group_by is a sequence of distinct dimensions; the key of a group     *)
(* has a value for each.                                                   *)
Supported(group_by) ==
  /\ \A i \in DOMAIN group_by : group_by[i] \in GroupByDimensions
  /\ \A i, j \in DOMAIN group_by : group_by[i] = group_by[j] => i = j

GroupKey(r, group_by) == [i \in DOMAIN group_by |-> Dimension(r, group_by[i])]

(* Grouping by merchant joins the merchants table.                         *)
Population(db, f, group_by) ==
  IF \E i \in DOMAIN group_by : group_by[i] = "merchant" THEN Joined(db, f) ELSE Selected(db, f)

GroupKeys(db, f, group_by) ==
  {GroupKey(db.transactions[t], group_by) : t \in Population(db, f, group_by)}

Groups(db, f, group_by, cutoff) ==
  [k \in GroupKeys(db, f, group_by) |->
     Metrics(db, {t \in Population(db, f, group_by) :
                    GroupKey(db.transactions[t], group_by) = k}, cutoff)]

-----------------------------------------------------------------------------
(* GET /health and GET /merchants.                                         *)
RowCounts(db) ==
  [events |-> Len(db.events), transactions |-> Cardinality(DOMAIN db.transactions),
   merchants |-> Cardinality(DOMAIN db.merchants)]

OfMerchant(db, m) == {t \in DOMAIN db.transactions : db.transactions[t].merchant_id = m}

Volume(db, m) == [transaction_count |-> Cardinality(OfMerchant(db, m)),
                  total_amount      |-> Amount(db, OfMerchant(db, m))]

(* Fault variant: an inner join drops merchants without transactions.      *)
MerchantList_InnerJoin(db) ==
  [m \in {x \in DOMAIN db.merchants : OfMerchant(db, x) # {}} |-> Volume(db, m)]

MerchantList(db) == [m \in DOMAIN db.merchants |-> Volume(db, m)]
=============================================================================
