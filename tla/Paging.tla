------------------------------- MODULE Paging -------------------------------
(***************************************************************************)
(* Offset pagination: GET /transactions, GET /events, the discrepancy      *)
(* report and the groups of a summary, walked page by page by a client     *)
(* while batches commit.  Two SELECTs of a page matter here, the count and *)
(* the rows (Readers.tla has the others); the client asks for the next     *)
(* page, `limit' further, while has_more says so.  A summary has no        *)
(* has_more: its client compares with group_count in the same way.  A page *)
(* of the discrepancy report that names no as_of is evaluated at the time  *)
(* it is asked for, so the list changes while the clock advances.          *)
(***************************************************************************)
EXTENDS Reports, Batch

CONSTANTS
  Clients,     (* concurrent walkers                                       *)
  Batches,     (* the POST /events bodies that may commit                  *)
  Walks,       (* the requests walked: list, sort, filter, limit           *)
  TextOrder,   (* alphabetical position of ids and statuses                *)
  Hours,       (* the readings of the wall clock                           *)
  MaxCommits   (* bound: batches committed in a behaviour                  *)

(* What a list may be sorted by.                                           *)
Statuses == {"initiated", "processed", "failed", "settled"}

TransactionSorts == {"first_event_at", "last_event_at", "amount", "status", "merchant_id",
                     "transaction_id", "settled_at", "event_count"}
DiscrepancySorts == {"severity", "last_event_at", "first_event_at", "amount",
                     "transaction_id", "age"}

(* The parameters a router lets through.                                   *)
Acceptable(q) ==
  /\ q.limit \in Nat \ {0}
  /\ q.order \in {"asc", "desc"}
  /\ \/ q.list = "events"
     \/ q.list = "transactions" /\ q.sort_by \in TransactionSorts
     \/ /\ q.list = "discrepancies" /\ q.sort_by \in DiscrepancySorts
        /\ q.as_of \in Nat \cup {NULL} /\ q.stale_after \in Nat /\ "cutoff" \in DOMAIN q
     \/ q.list = "groups" /\ q.group_by \in Seq(GroupByDimensions) /\ Supported(q.group_by)

ASSUME PagingAssumption ==
  /\ Batches \subseteq Seq({e \in EventIn : Valid(e)})
  /\ \A q \in Walks : Acceptable(q)
  /\ Hours \subseteq Nat
  /\ \A T \in {EventIds, Txns, Merchants, Currencies, Statuses} : \A x, y \in T :
       TextOrder[x] \in Nat /\ (TextOrder[x] = TextOrder[y] => x = y)

VARIABLES
  db,       (* the committed database                                      *)
  commits,  (* batches so far; also received_at                            *)
  walk,     (* walk[c]: the walk of client c                               *)
  clock     (* what datetime.now() returns                                 *)

vars == <<db, commits, walk, clock>>

-----------------------------------------------------------------------------
(* ORDER BY.  A sort key is a pair of a direction and a value.             *)

Asc(x) == <<"asc", x>>
Desc(x) == <<"desc", x>>

(* NULLS LAST in either direction.                                         *)
Precedes(dir, x, y) ==
  x # NULL /\ (y = NULL \/ (IF dir = "asc" THEN x < y ELSE x > y))

(* Lexicographic comparison of two rows' key lists.                        *)
RowBefore(k, l) ==
  \E i \in DOMAIN k : /\ Precedes(k[i][1], k[i][2], l[i][2])
                      /\ \A j \in 1..(i - 1) : k[j] = l[j]

SortColumn(t, r, column, cutoff) ==
  CASE column = "transaction_id" -> TextOrder[t]
    [] column = "status"         -> TextOrder[Status(r)]
    [] column = "merchant_id"    -> TextOrder[r.merchant_id]
    [] column = "amount"         -> r.amount_minor
    [] column = "settled_at"     -> r.at["settled_at"]
    [] column = "severity"       -> SeverityRank(FlagColumns(r, cutoff))
    [] column = "age"            -> r.last_event_at
    [] OTHER                     -> r[column]

(* ORDER BY the dimensions of a group, each ascending.                     *)
GroupOrder(q, x) ==
  [i \in DOMAIN x |-> Asc(IF q.group_by[i] = "date" THEN x[i] ELSE TextOrder[x[i]])]

SortKeys(d, q, x) ==
  LET row == d.transactions[x]
      Col(c) == SortColumn(x, row, c, q.cutoff)
      asked == <<q.order, Col(q.sort_by)>>
  IN CASE q.list = "transactions" -> <<asked, Asc(TextOrder[x])>>
       [] q.list = "groups" -> GroupOrder(q, x)
       [] q.list = "events" -> <<Desc(x.timestamp), Asc(TextOrder[x.event_id])>>
       [] q.list = "discrepancies" /\ q.sort_by = "severity" ->
            <<asked, Desc(row.last_event_at), Asc(TextOrder[x])>>
       [] OTHER -> <<asked, Desc(Col("severity")), Asc(TextOrder[x])>>

StoredEvents(d) == {d.events[i].payload : i \in DOMAIN d.events}

NoEventFilter == [transaction_id |-> NULL, merchant_id |-> NULL, event_type |-> NULL,
                  date_from |-> NULL, date_to |-> NULL]

EventMatches(e, f) ==
  /\ f.transaction_id \in {NULL, e.transaction_id}
  /\ f.merchant_id \in {NULL, e.merchant_id}
  /\ f.event_type \in {NULL, e.event_type}
  /\ AtLeast(e.timestamp, f.date_from)
  /\ AtMost(e.timestamp, f.date_to)

(* The rows a list draws from, and their number by the count's own SELECT, *)
(* which joins no merchants.                                               *)
Rows(d, q) ==
  CASE q.list = "transactions" -> Joined(d, q.filter)
    [] q.list = "events"       -> {e \in StoredEvents(d) : EventMatches(e, q.filter)}
    [] q.list = "groups"       -> GroupKeys(d, q.filter, q.group_by)
    [] OTHER                   -> Flagged(d, q.filter, q.types, q.cutoff)

Count(d, q) ==
  Cardinality(IF q.list = "transactions" THEN Selected(d, q.filter) ELSE Rows(d, q))

(* How many rows come before each one.                                     *)
Ranks(keys) ==
  [x \in DOMAIN keys |-> Cardinality({y \in DOMAIN keys : RowBefore(keys[y], keys[x])})]

(* ORDER BY.                                                               *)
Sorted(keys) ==
  LET rank == Ranks(keys)
  IN [n \in 1..Cardinality(DOMAIN keys) |-> CHOOSE x \in DOMAIN keys : rank[x] = n - 1]

Keys(d, q) == [x \in Rows(d, q) |-> SortKeys(d, q, x)]

Listing(d, q) == Sorted(Keys(d, q))

Slice(s, from, to) == SubSeq(s, from, Min({to, Len(s)}))

(* Fault variant: the offset counted from one and added to a rank that is. *)
Page_OffByOne(s, limit, offset) == Slice(s, offset + 2, offset + limit + 1)

(* LIMIT :limit OFFSET :offset.                                            *)
Page(s, limit, offset) == Slice(s, offset + 1, offset + limit)

(* The discrepancy router drops the items of another severity from a page. *)
Shown(d, q, x) ==
  q.severity \in
    {NULL, ShownSeverity(Present(FlagColumns(d.transactions[x], q.cutoff), q.types))}

Wanted(d, q) ==
  IF q.list = "discrepancies" THEN {x \in Rows(d, q) : Shown(d, q, x)} ELSE Rows(d, q)

(* The cutoff of a discrepancy request: its staleness window before as_of, *)
(* or before the time at which its handler runs.                           *)
Resolve(q, now) ==
  IF q.list = "discrepancies"
  THEN [q EXCEPT !.cutoff = (IF q.as_of = NULL THEN now ELSE q.as_of) - q.stale_after]
  ELSE q

Items(d, q, offset) == Within(Page(Listing(d, q), q.limit, offset), Wanted(d, q))

(* Fault variant: a full page is taken to mean that there is another.      *)
HasMore_FullPage(offset, returned, total, limit) == returned = limit

HasMore(offset, returned, total, limit) == offset + returned < total

-----------------------------------------------------------------------------
NoWalk == [at |-> "none"]

Init ==
  /\ db = EmptyDb
  /\ commits = 0
  /\ walk = [c \in Clients |-> NoWalk]
  /\ clock \in Hours

(* The wall clock, which nobody sets back.                                 *)
Tick ==
  /\ \E h \in Hours : h > clock /\ clock' = h
  /\ UNCHANGED <<db, commits, walk>>

CommitBatch(b) ==
  /\ commits < MaxCommits
  /\ commits' = commits + 1
  /\ db' = ApplyBatch(db, b, commits + 1)
  /\ UNCHANGED <<walk, clock>>

StartWalk(c, q) ==
  /\ walk[c] = NoWalk
  /\ LET asked == Resolve(q, clock)
     IN walk' = [walk EXCEPT ![c] =
          [at |-> "count", request |-> asked, offset |-> 0, total |-> 0, seen |-> <<>>,
           since |-> commits, present |-> Wanted(db, asked)]]
  /\ UNCHANGED <<db, commits, clock>>

(* Fault variant: the total of the first page is kept for those after it.  *)
CountRows_Once(c) ==
  /\ walk[c].at = "count"
  /\ LET asked == Resolve(walk[c].request, clock)
     IN walk' = [walk EXCEPT ![c].at = "rows", ![c].request = asked,
                             ![c].total = IF walk[c].offset = 0 THEN Count(db, asked) ELSE @]
  /\ UNCHANGED <<db, commits, clock>>

(* The handler of a page resolves the cutoff once, then counts.            *)
CountRows(c) ==
  /\ walk[c].at = "count"
  /\ LET asked == Resolve(walk[c].request, clock)
     IN walk' = [walk EXCEPT ![c].at = "rows", ![c].request = asked,
                             ![c].total = Count(db, asked)]
  /\ UNCHANGED <<db, commits, clock>>

(* The rows, has_more over them, and the client's decision to go on.       *)
FetchRows(c) ==
  /\ walk[c].at = "rows"
  /\ LET w == walk[c]
         q == w.request
         items == Items(db, q, w.offset)
         more == HasMore(w.offset, Len(items), w.total, q.limit)
     IN walk' = [walk EXCEPT
          ![c].seen = @ \o items,
          ![c].at = IF more THEN "count" ELSE "done",
          ![c].offset = IF more THEN @ + q.limit ELSE @]
  /\ UNCHANGED <<db, commits, clock>>

Next ==
  \/ Tick
  \/ \E b \in Batches : CommitBatch(b)
  \/ \E c \in Clients : \/ \E q \in Walks : StartWalk(c, q)
                        \/ CountRows(c)
                        \/ FetchRows(c)

Spec == Init /\ [][Next]_vars

-----------------------------------------------------------------------------
(* Walks whose every page asks the same question.                          *)
Pinned(q) == q.list # "discrepancies" \/ q.as_of # NULL

(* A walk during which nothing commits sees every matching row once, and   *)
(* only those, whatever the sort key repeats and although the severity     *)
(* filter thins pages out after they are cut; of a summary, every group    *)
(* once, so that the pages add up to the totals (tests/test_transactions.py*)
(* test_paging_covers_every_row_exactly_once; queries.py 178-192, 334-353, *)
(* 442-457).  A walk of discrepancies must name an as_of: without it rows  *)
(* go stale between two pages, and may come twice.                         *)
QuietWalkIsExact ==
  \A c \in Clients :
    walk[c].at = "done" /\ walk[c].since = commits /\ Pinned(walk[c].request) =>
      /\ IsInjective(walk[c].seen)
      /\ Range(walk[c].seen) = Wanted(db, walk[c].request)

(* A walk of discrepancies during which nothing commits, each page         *)
(* evaluated at its own time, misses none that was there when it began: a  *)
(* row that goes stale only pushes the others to later pages, because a    *)
(* transaction flagged by a default type keeps the rank it is sorted by    *)
(* and the severity it shows, and because every page is counted anew       *)
(* (reconciliation.py 167-196, queries.py 364-406, 434-457).               *)
AgeingHidesNothing ==
  \A c \in Clients :
    LET w == walk[c]
    IN /\ w.at = "done" /\ w.since = commits
       /\ w.request.list = "discrepancies" /\ w.request.types \subseteq DefaultTypes
       => w.present \subseteq Range(w.seen)

(* Filters that no event takes a row out of.                               *)
Lasting(f) ==
  /\ f.status = {} /\ f.payment_status = {} /\ f.settlement_status = {}
  /\ f.date_from = NULL /\ f.date_to = NULL
  /\ f.has_duplicates # FALSE

(* Lists whose rows stay, ordered by columns no event can change.          *)
FixedOrder(q) ==
  \/ q.list = "events"
  \/ /\ q.list = "transactions" /\ Lasting(q.filter)
     /\ q.sort_by \in {"transaction_id", "merchant_id", "amount"}
  \/ /\ q.list = "groups" /\ Lasting(q.filter)
     /\ \A i \in DOMAIN q.group_by : q.group_by[i] \in {"merchant", "currency"}

(* In a list ordered by fixed columns, rows that arrive during the walk    *)
(* only push others to later pages: a row that was there from the start is *)
(* never passed over for one behind it (list_events, list_transactions,    *)
(* reconciliation_summary).                                                *)
NothingPassedOver ==
  \A c \in Clients :
    walk[c].at # "none" /\ FixedOrder(walk[c].request) =>
      LET w == walk[c]
          keys == Keys(db, w.request)
      IN \A x \in w.present, y \in w.present \cap Range(w.seen) :
           RowBefore(keys[x], keys[y]) => x \in Range(w.seen)

=============================================================================
