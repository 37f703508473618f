------------------------------- MODULE Ledger -------------------------------
(***************************************************************************)
(* The SQLite database of the payment reconciliation service as data: the  *)
(* tables of app/schema.sql and the statements app/ingest.py issues on     *)
(* them.  Nothing here is a state machine; Ingest.tla and Replicas.tla run *)
(* these operators.                                                        *)
(*                                                                         *)
(* A table keyed by a TEXT primary key is a function whose domain is the   *)
(* set of keys present.  The append-only table `events' is the sequence of *)
(* its rows in insertion (rowid) order.  Timestamps are naturals: the      *)
(* fixed-width UTC strings are only ever compared and copied.              *)
(***************************************************************************)
EXTENDS Integers, Sequences, FiniteSets

CONSTANTS
  EventIds,    (* idempotency keys                                          *)
  Txns,        (* transaction ids                                           *)
  Merchants,   (* merchant ids                                              *)
  Names,       (* merchant display names                                    *)
  Currencies,  (* ISO currency codes                                        *)
  NULL         (* SQL NULL / Python None                                    *)

ASSUME NullAssumption == NULL \notin Nat

-----------------------------------------------------------------------------
(* The lifecycle event types and the column each one is folded into.       *)

EventTypes == {"payment_initiated", "payment_processed", "payment_failed", "settled"}

Columns == {"initiated_at", "processed_at", "failed_at", "settled_at"}

ColumnOf == [payment_initiated |-> "initiated_at",
             payment_processed |-> "processed_at",
             payment_failed    |-> "failed_at",
             settled           |-> "settled_at"]

(* A validated request event.  `amount' is in tenths of a minor unit: the  *)
(* first digit after the minor unit is the only one rounding looks at.     *)
EventIn == [event_id: EventIds, event_type: EventTypes, transaction_id: Txns,
            merchant_id: Merchants, merchant_name: Names \cup {NULL},
            amount: Nat, currency: Currencies, timestamp: Nat]

(* quantize(ROUND_HALF_UP) of a non-negative amount.                       *)
ToMinorUnits(amount) == (amount + 5) \div 10

(* What pydantic lets through: the amount must still be positive once it   *)
(* has been rounded to minor units.                                        *)
Valid(e) == ToMinorUnits(e.amount) > 0

-----------------------------------------------------------------------------
(* Rows.                                                                   *)

EventRow == [payload: EventIn, received_at: Nat]

MerchantRow == [merchant_name: Names \cup Merchants, updated_at: Nat]

TxnRow == [merchant_id: Merchants, amount_minor: Nat, currency: Currencies,
           at: [Columns -> Nat \cup {NULL}],
           first_event_at: Nat, last_event_at: Nat,
           event_count: Nat, duplicate_event_count: Nat,
           has_amount_mismatch: {0, 1}, has_merchant_mismatch: {0, 1},
           updated_at: Nat]

EmptyDb == [events |-> <<>>,
            transactions |-> [t \in {} |-> NULL],
            merchants |-> [m \in {} |-> NULL]]

IsTable(tbl, Keys, Row) ==
  /\ DOMAIN tbl \subseteq Keys
  /\ \A k \in DOMAIN tbl : tbl[k] \in Row

IsDb(db) ==
  /\ db = [events |-> db.events, transactions |-> db.transactions,
           merchants |-> db.merchants]
  /\ db.events \in Seq(EventRow)
  /\ IsTable(db.transactions, Txns, TxnRow)
  /\ IsTable(db.merchants, Merchants, MerchantRow)

(* INSERT ... ON CONFLICT(key) DO UPDATE.                                  *)
Put(tbl, k, row) == [x \in DOMAIN tbl \cup {k} |-> IF x = k THEN row ELSE tbl[x]]

-----------------------------------------------------------------------------
(* The generated columns of a transaction row.                             *)

Status(r) ==
  IF r.at["failed_at"] # NULL THEN "failed"
  ELSE IF r.at["settled_at"] # NULL THEN "settled"
  ELSE IF r.at["processed_at"] # NULL THEN "processed" ELSE "initiated"

PaymentStatus(r) ==
  IF r.at["failed_at"] # NULL /\ r.at["processed_at"] # NULL THEN "conflicted"
  ELSE IF r.at["failed_at"] # NULL THEN "failed"
  ELSE IF r.at["processed_at"] # NULL THEN "processed" ELSE "initiated"

SettlementStatus(r) == IF r.at["settled_at"] # NULL THEN "settled" ELSE "pending"

-----------------------------------------------------------------------------
(* The fold of an event into the projection.                               *)

Coalesce(a, b) == IF a # NULL THEN a ELSE b

SqlMin(a, b) == IF a = NULL \/ b = NULL THEN NULL ELSE IF a <= b THEN a ELSE b

(* Fault variants: the naive MIN the comment warns of, and an overwrite.   *)
FoldTime_Naive(old, new) == SqlMin(old, new)
FoldTime_Overwrite(old, new) == Coalesce(new, old)

FoldTime(old, new) == SqlMin(Coalesce(old, new), Coalesce(new, old))

(* The four timestamp parameters of an event: its own column, or NULL.     *)
TimeParams(e) ==
  [c \in Columns |-> IF c = ColumnOf[e.event_type] THEN e.timestamp ELSE NULL]

DisplayName(e) ==
  IF e.merchant_name \in {NULL, ""} THEN e.merchant_id ELSE e.merchant_name

UpsertMerchant(merchants, e, now) ==
  LET new == DisplayName(e)
      kept == IF e.merchant_id \in DOMAIN merchants /\ new = ""
              THEN merchants[e.merchant_id].merchant_name ELSE new
  IN Put(merchants, e.merchant_id, [merchant_name |-> kept, updated_at |-> now])

FreshTxn(e, now) ==
  [merchant_id |-> e.merchant_id, amount_minor |-> ToMinorUnits(e.amount),
   currency |-> e.currency, at |-> TimeParams(e),
   first_event_at |-> e.timestamp, last_event_at |-> e.timestamp,
   event_count |-> 1, duplicate_event_count |-> 0,
   has_amount_mismatch |-> 0, has_merchant_mismatch |-> 0, updated_at |-> now]

(* Fault variants: the CASE without its ELSE branch forgets an old flag,   *)
(* and a flag that counts.                                                 *)
Flag_Forgets(old, stored, incoming) == IF stored # incoming THEN 1 ELSE 0
Flag_Counts(old, stored, incoming) == IF stored # incoming THEN old + 1 ELSE old

Flag(old, stored, incoming) == IF stored # incoming THEN 1 ELSE old

FoldTxn(r, e, now) ==
  [r EXCEPT
     !.at = [c \in Columns |-> FoldTime(r.at[c], TimeParams(e)[c])],
     !.first_event_at = IF e.timestamp <= @ THEN e.timestamp ELSE @,
     !.last_event_at = IF e.timestamp >= @ THEN e.timestamp ELSE @,
     !.event_count = @ + 1,
     !.has_amount_mismatch = Flag(@, r.amount_minor, ToMinorUnits(e.amount)),
     !.has_merchant_mismatch = Flag(@, r.merchant_id, e.merchant_id),
     !.updated_at = now]

UpsertTransaction(transactions, e, now) ==
  Put(transactions, e.transaction_id,
      IF e.transaction_id \in DOMAIN transactions
      THEN FoldTxn(transactions[e.transaction_id], e, now)
      ELSE FreshTxn(e, now))

BumpDuplicate(transactions, t, now) ==
  [transactions EXCEPT ![t].duplicate_event_count = @ + 1, ![t].updated_at = now]

-----------------------------------------------------------------------------
(* The two branches of the ingest loop, on a whole database.               *)

Ids(log) == {log[i].payload.event_id : i \in DOMAIN log}

(* SELECT ... FROM events WHERE event_id = ?, for an id that is stored.    *)
Existing(log, id) ==
  log[CHOOSE i \in DOMAIN log : log[i].payload.event_id = id].payload

PayloadDiffers(existing, e) ==
  \/ existing.transaction_id # e.transaction_id
  \/ existing.merchant_id # e.merchant_id
  \/ existing.event_type # e.event_type
  \/ ToMinorUnits(existing.amount) # ToMinorUnits(e.amount)
  \/ existing.currency # e.currency
  \/ existing.timestamp # e.timestamp

ApplyNew(db, e, now) ==
  [events |-> Append(db.events, [payload |-> e, received_at |-> now]),
   transactions |-> UpsertTransaction(db.transactions, e, now),
   merchants |-> UpsertMerchant(db.merchants, e, now)]

(* Fault variant: a replay re-applied to the projection.                   *)
ApplyReplay_Refolds(db, e, now) ==
  [db EXCEPT !.transactions = UpsertTransaction(@, e, now)]

(* Fault variant: the counter bumped on the transaction the replay names   *)
(* instead of the one the stored event belongs to.                         *)
ApplyReplay_Misdirected(db, e, now) ==
  [db EXCEPT !.transactions =
     IF e.transaction_id \in DOMAIN @ THEN BumpDuplicate(@, e.transaction_id, now) ELSE @]

ApplyReplay(db, e, now) ==
  [db EXCEPT !.transactions =
     BumpDuplicate(@, Existing(db.events, e.event_id).transaction_id, now)]

-----------------------------------------------------------------------------
(* Reference meaning of the projection.                                    *)

(* The distinct events the log holds for transaction t.                    *)
EventsOf(log, t) ==
  {log[i].payload : i \in {j \in DOMAIN log : log[j].payload.transaction_id = t}}

OfType(E, ty) == {e \in E : e.event_type = ty}

(* x is the earliest timestamp of E, NULL when E is empty.                 *)
IsEarliest(x, E) ==
  IF E = {} THEN x = NULL
  ELSE /\ \E e \in E : x = e.timestamp
       /\ \A e \in E : x <= e.timestamp

IsLatest(x, E) ==
  /\ \E e \in E : x = e.timestamp
  /\ \A e \in E : e.timestamp <= x

(* Row r is what the set E of events of one transaction folds to, in       *)
(* whatever order they arrived: the lifecycle part of the row.             *)
LifecycleOf(r, E) ==
  /\ \A ty \in EventTypes : IsEarliest(r.at[ColumnOf[ty]], OfType(E, ty))
  /\ IsEarliest(r.first_event_at, E)
  /\ IsLatest(r.last_event_at, E)
  /\ r.event_count = Cardinality(E)

(* The flags tell whether any two events disagreed, and the identity part  *)
(* of the row is that of one of the events.                                *)
IdentityOf(r, E) ==
  /\ \E e \in E : /\ r.amount_minor = ToMinorUnits(e.amount)
                  /\ r.merchant_id = e.merchant_id
                  /\ r.currency = e.currency
  /\ r.has_amount_mismatch = 1
       <=> \E e \in E : ToMinorUnits(e.amount) # r.amount_minor
  /\ r.has_merchant_mismatch = 1 <=> \E e \in E : e.merchant_id # r.merchant_id

(* The projection of db is the one its own event log determines.           *)
ProjectionOfLog(db) ==
  \A t \in Txns :
    LET E == EventsOf(db.events, t)
    IN /\ t \in DOMAIN db.transactions <=> E # {}
       /\ E # {} => /\ LifecycleOf(db.transactions[t], E)
                    /\ IdentityOf(db.transactions[t], E)

(* PRIMARY KEY and FOREIGN KEY constraints hold without being enforced.    *)
KeysHold(db) ==
  /\ \A i, j \in DOMAIN db.events :
       db.events[i].payload.event_id = db.events[j].payload.event_id => i = j
  /\ \A i \in DOMAIN db.events :
       db.events[i].payload.transaction_id \in DOMAIN db.transactions
  /\ \A t \in DOMAIN db.transactions :
       db.transactions[t].merchant_id \in DOMAIN db.merchants

(* The requests that left their mark on a database.                        *)
Stamps(d) ==
  {d.events[i].received_at : i \in DOMAIN d.events}
  \cup {d.transactions[t].updated_at : t \in DOMAIN d.transactions}
  \cup {d.merchants[m].updated_at : m \in DOMAIN d.merchants}
=============================================================================
