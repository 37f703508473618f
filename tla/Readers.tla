------------------------------ MODULE Readers ------------------------------
(***************************************************************************)
(* The reporting endpoints while POST /events goes on.  Each endpoint is a *)
(* short sequence of SELECTs on a connection in autocommit mode, so every  *)
(* statement sees the database committed at that moment, and a batch may   *)
(* commit between any two of them.  Readers take no lock and never wait.   *)
(* The last SELECT of a summary and of a report has a LIMIT and an OFFSET: *)
(* it returns as many rows as they leave, and which ones its ORDER BY puts *)
(* there is left open here - Paging.tla has the orders.                    *)
(***************************************************************************)
EXTENDS Reports, Batch

CONSTANTS
  Clients,      (* concurrent readers                                      *)
  Batches,      (* the POST /events bodies that may commit                 *)
  Cutoffs,      (* staleness cutoffs requests resolve to                   *)
  Filters,      (* filters requests carry                                  *)
  GroupBys,     (* the group_by sequences of summary requests              *)
  TypeSets,     (* the ?type= selections of discrepancy requests           *)
  Severities,   (* the ?severity= ranks requests carry; NULL when absent    *)
  Cuts,         (* the limits and offsets requests carry                   *)
  MaxCommits,   (* bound: batches committed in a behaviour                 *)
  MaxReads      (* bound: requests served in a behaviour                   *)

ASSUME BatchesAssumption == Batches \subseteq Seq({e \in EventIn : Valid(e)})

ASSUME CutsAssumption == Cuts \subseteq [limit : Nat \ {0}, offset : Nat]

VARIABLES
  db,       (* the committed database                                      *)
  commits,  (* batches so far; also the clock                              *)
  reads,    (* requests so far                                             *)
  rd        (* rd[c]: the request client c waits for                       *)

vars == <<db, commits, reads, rd>>

(* Fault variant: each endpoint asks for its parts before its header.      *)
Statements_Reversed ==
  [summary       |-> <<"groups", "group_count", "totals">>,
   discrepancies |-> <<"items", "counts_by_type", "total">>,
   detail        |-> <<"events", "row">>,
   health        |-> <<"row_counts">>,
   merchants     |-> <<"merchants">>]

(* The SELECTs of each endpoint, in the order the code issues them.        *)
Statements ==
  [summary       |-> <<"totals", "group_count", "groups">>,
   discrepancies |-> <<"total", "counts_by_type", "items">>,
   detail        |-> <<"row", "events">>,
   health        |-> <<"row_counts">>,
   merchants     |-> <<"merchants">>]

Idle == [op |-> "none"]

Requests ==
  [op: {"summary"}, filter: Filters, group_by: GroupBys, cutoff: Cutoffs, cut: Cuts]
  \cup [op: {"discrepancies"}, filter: Filters, types: TypeSets, cutoff: Cutoffs,
        severity: Severities, cut: Cuts]
  \cup [op: {"detail"}, transaction_id: Txns, cutoff: Cutoffs]
  \cup [op: {"health", "merchants"}]

(* A summary by an unknown or a repeated dimension is answered 422.        *)
Refused(q) == q.op = "summary" /\ ~ Supported(q.group_by)

(* What one SELECT finds in the database d, before its LIMIT.              *)
Select(q, stmt, d) ==
  CASE stmt = "totals"         -> Metrics(d, Selected(d, q.filter), q.cutoff)
    [] stmt = "group_count"    -> Cardinality(GroupKeys(d, q.filter, q.group_by))
    [] stmt = "groups"         -> Groups(d, q.filter, q.group_by, q.cutoff)
    [] stmt = "total"          -> Cardinality(Flagged(d, q.filter, q.types, q.cutoff))
    [] stmt = "counts_by_type" -> CountsByType(d, q.filter, q.types, q.cutoff)
    [] stmt = "items"          -> Flagged(d, q.filter, q.types, q.cutoff)
    [] stmt = "row"            -> IF q.transaction_id \in DOMAIN d.transactions
                                  THEN d.transactions[q.transaction_id] ELSE NULL
    [] stmt = "events"         -> EventsOf(d.events, q.transaction_id)
    [] stmt = "row_counts"     -> RowCounts(d)
    [] stmt = "merchants"      -> MerchantList(d)

(* How many of n rows are left by LIMIT and OFFSET.                        *)
PageSize(cut, n) ==
  IF n <= cut.offset THEN 0
  ELSE IF n <= cut.offset + cut.limit THEN n - cut.offset
  ELSE cut.limit

(* The pages that an ORDER BY can cut from a set of rows.                  *)
Pages(cut, rows) == kSubset(PageSize(cut, Cardinality(rows)), rows)

(* The router drops items of another severity from the page.               *)
Items(d, q, page) ==
  {t \in page :
     q.severity \in
       {NULL, ShownSeverity(Present(FlagColumns(d.transactions[t], q.cutoff), q.types))}}

(* What the handler may have of a SELECT on the database d.                *)
Results(q, stmt, d) ==
  LET found == Select(q, stmt, d)
  IN CASE stmt = "groups" -> {Restrict(found, page) : page \in Pages(q.cut, DOMAIN found)}
       [] stmt = "items"  -> {Items(d, q, page) : page \in Pages(q.cut, found)}
       [] OTHER           -> {found}

-----------------------------------------------------------------------------
Init ==
  /\ db = EmptyDb
  /\ commits = 0 /\ reads = 0
  /\ rd = [c \in Clients |-> Idle]

CommitBatch(b) ==
  /\ commits < MaxCommits
  /\ commits' = commits + 1
  /\ db' = ApplyBatch(db, b, commits + 1)
  /\ UNCHANGED <<reads, rd>>

Begin(c, q) ==
  /\ rd[c] = Idle
  /\ reads < MaxReads
  /\ reads' = reads + 1
  /\ rd' = IF Refused(q) THEN rd
           ELSE [rd EXCEPT ![c] = [op |-> q.op, request |-> q, since |-> commits,
                                   got |-> [stmt \in {} |-> NULL]]]
  /\ UNCHANGED <<db, commits>>

(* How many of its SELECTs the request of client c has run.                *)
Ran(c) == Cardinality(DOMAIN rd[c].got)

(* An unknown transaction and a summary of totals only end early.          *)
Finished(c) ==
  /\ rd[c].op # "none"
  /\ \/ Ran(c) = Len(Statements[rd[c].op])
     \/ "row" \in DOMAIN rd[c].got /\ rd[c].got["row"] = NULL
     \/ /\ rd[c].op = "summary" /\ rd[c].request.group_by = <<>>
        /\ "totals" \in DOMAIN rd[c].got

Execute(c) ==
  /\ rd[c].op # "none"
  /\ ~ Finished(c)
  /\ LET q == rd[c].request
         stmt == Statements[q.op][Ran(c) + 1]
     IN \E result \in Results(q, stmt, db) :
          rd' = [rd EXCEPT ![c].got = Put(@, stmt, result)]
  /\ UNCHANGED <<db, commits, reads>>

Answer(c) ==
  /\ Finished(c)
  /\ rd' = [rd EXCEPT ![c] = Idle]
  /\ UNCHANGED <<db, commits, reads>>

Next ==
  \/ \E b \in Batches : CommitBatch(b)
  \/ \E c \in Clients : \/ \E q \in Requests : Begin(c, q)
                        \/ Execute(c)
                        \/ Answer(c)

Spec == Init /\ [][Next]_vars

-----------------------------------------------------------------------------
(* The answer of a finished request of kind op.                            *)
Answered(c, op) == rd[c].op = op /\ Ran(c) = Len(Statements[op])

Column(groups, m) == [k \in DOMAIN groups |-> groups[k][m]]

Total(groups, m) == SumOver(Column(groups, m), DOMAIN groups)

(* Filters on columns that never change once a transaction exists.         *)
FixedFilter(f) ==
  /\ f.status = {} /\ f.payment_status = {} /\ f.settlement_status = {}
  /\ f.has_duplicates = NULL /\ f.date_from = NULL /\ f.date_to = NULL

(* A page that is not full holds what there is behind its offset.          *)
Full(q, returned) == returned = q.cut.limit

(* No page of a summary holds more transactions than are stored.  One that *)
(* is not full has reached the end: by its position in the list it has at  *)
(* least as many groups as were counted, if they cannot merge; and if it   *)
(* is the first page, the groups on it account for the grand total, which  *)
(* was read before them.  Transactions only arrive, however many           *)
(* dimensions they are grouped by each is in one group, and grouping by    *)
(* merchant joins no row away (reconciliation_summary's three SELECTs).    *)
TotalsNeverExceedGroups ==
  \A c \in Clients :
    Answered(c, "summary") /\ FixedFilter(rd[c].request.filter) =>
      LET q == rd[c].request
          totals == rd[c].got["totals"]
          groups == rd[c].got["groups"]
          returned == Cardinality(DOMAIN groups)
      IN /\ Total(groups, "transaction_count") <= Cardinality(Selected(db, q.filter))
         /\ ~ Full(q, returned) =>
              /\ (\A i \in DOMAIN q.group_by : q.group_by[i] \in {"merchant", "currency"}) =>
                   rd[c].got["group_count"] <= q.cut.offset + returned
              /\ q.cut.offset = 0 =>
                   /\ totals.transaction_count <= Total(groups, "transaction_count")
                   /\ totals.total_amount <= Total(groups, "total_amount")

(* The history on a detail page explains the row above it: as many events  *)
(* as the row counts at least, and one for each timestamp the row shows    *)
(* (get_transaction, then get_transaction_events).                         *)
HistoryExplainsRow ==
  \A c \in Clients :
    Answered(c, "detail") /\ rd[c].got["row"] # NULL =>
      LET r == rd[c].got["row"]
          E == rd[c].got["events"]
      IN /\ r.event_count <= Cardinality(E)
         /\ \A ty \in EventTypes :
              r.at[ColumnOf[ty]] # NULL =>
                \E e \in OfType(E, ty) : e.timestamp = r.at[ColumnOf[ty]]
         /\ \E e \in E : e.timestamp = r.first_event_at
         /\ \E e \in E : e.timestamp = r.last_event_at

(* Discrepancies that record a contradiction do not go away: within one    *)
(* report the header counts none that the items lack, up to where its page *)
(* ends in the list, unless the page is full and others may follow         *)
(* (discrepancies()' three SELECTs over the sticky columns).               *)
Lasting == {"SETTLED_AFTER_FAILURE", "CONFLICTING_PAYMENT_STATE", "AMOUNT_MISMATCH",
            "MERCHANT_MISMATCH", "DUPLICATE_EVENTS"}

ContradictionsLast ==
  \A c \in Clients :
    /\ Answered(c, "discrepancies")
    /\ rd[c].request.types \subseteq Lasting
    /\ rd[c].request.severity = NULL
    /\ FixedFilter(rd[c].request.filter)
    => LET q == rd[c].request
           returned == Cardinality(rd[c].got["items"])
       IN ~ Full(q, returned) =>
            /\ rd[c].got["total"] <= q.cut.offset + returned
            /\ \A ty \in q.types : rd[c].got["counts_by_type"][ty] <= q.cut.offset + returned

(* The merchant list leaves nobody out: every merchant that any event      *)
(* stored before the request names is listed, also one that only disputes  *)
(* another's transactions, and the volumes account for every transaction   *)
(* once.  The row counts of a health check fit one another (list_merchants,*)
(* health).                                                                *)
MerchantsAccountForAll ==
  \A c \in Clients :
    LET stored == {i \in DOMAIN db.events : db.events[i].received_at <= rd[c].since}
        Known(field) == {db.events[i].payload[field] : i \in stored}
    IN /\ Answered(c, "merchants") =>
            LET list == rd[c].got["merchants"]
            IN /\ Known("merchant_id") \subseteq DOMAIN list
               /\ Total(list, "transaction_count") \in
                    Cardinality(Known("transaction_id"))..Cardinality(DOMAIN db.transactions)
       /\ Answered(c, "health") =>
            LET n == rd[c].got["row_counts"]
            IN /\ Cardinality(stored) <= n.events
               /\ n.transactions <= n.events /\ n.merchants <= n.events
               /\ n.events > 0 => n.transactions > 0 /\ n.merchants > 0

(* The three definitions of a discrepancy - the summary's predicate, the   *)
(* report's flag columns, the detail page's Python - agree on every row    *)
(* ingestion can produce; and where a report selects the default types,    *)
(* its sort rank is the severity shown (queries.py 260-275, 360-400,       *)
(* 464-523).  With DUPLICATE_EVENTS alone selected it need not be: the     *)
(* rank is over every flag.                                                *)
DefinitionsAgree ==
  \A t \in DOMAIN db.transactions : \A cutoff \in Cutoffs :
    LET r == db.transactions[t]
        flags == FlagColumns(r, cutoff)
    IN /\ DetailTypes(r, cutoff) = Present(flags, DiscrepancyTypes)
       /\ HasDiscrepancy(r, cutoff) <=> Present(flags, DefaultTypes) # {}
       /\ SeverityRank(flags) = ShownSeverity(Present(flags, DefaultTypes))

(* The database as it would be had only events up to instant a happened.   *)
AsItWas(a) ==
  LET Early(row) == row.payload.timestamp <= a
      log == SelectSeq(db.events, Early)
  IN ApplyBatch(EmptyDb, [i \in DOMAIN log |-> log[i].payload], 0)

(* README.md:392: "`as_of` re-runs the report as it would have looked at a *)
(* past instant".  The staleness window is zero hours, so the cutoff is    *)
(* as_of itself.                                                           *)
AsOfShowsThePast ==
  \A a \in Cutoffs :
    Flagged(db, NoFilter, DefaultTypes, a) = Flagged(AsItWas(a), NoFilter, DefaultTypes, a)

(* README.md:389-395: `severity' is one of the report's filters, and       *)
(* `counts_by_type' "is computed over the whole filtered population": with *)
(* nothing committed meanwhile, on a page that has room for all that the   *)
(* header counts, the counts are those of the items.                       *)
CountsDescribeItems ==
  \A c \in Clients :
    /\ Answered(c, "discrepancies") /\ rd[c].since = commits
    /\ rd[c].request.cut.offset = 0 /\ rd[c].got["total"] <= rd[c].request.cut.limit
    => \A ty \in rd[c].request.types :
         rd[c].got["counts_by_type"][ty] =
           Cardinality({t \in rd[c].got["items"] :
                          FlagColumns(db.transactions[t], rd[c].request.cutoff)[ty]})
=============================================================================
