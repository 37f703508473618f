---------------------------- MODULE LedgerProofs ----------------------------
(***************************************************************************)
(* What ingestion does to a well-formed database, for all values of the    *)
(* constants.  First the single statements: each keeps the rows typed, the *)
(* keys unique and resolvable, and the projection equal to the one the     *)
(* event log determines (ApplyNewGood, ApplyReplayGood).  Then whole       *)
(* batches, of any length: a batch keeps the database in order and takes   *)
(* nothing away (BatchExtends), and it stores and counts what EventLog.tla *)
(* accepts (BatchAccepted).  Both go along the images between the events   *)
(* of the batch.  The induction over them is a least counterexample, found *)
(* by the well-founded order of finite sets, so that a set takes the place *)
(* of a predicate (UpTo).                                                  *)
(***************************************************************************)
EXTENDS Batch, Collections, FiniteSetTheorems, SequenceTheorems, WellFoundedInduction, TLAPS

(* A database in order: the strengthening Ingest's invariants share.       *)
GoodDb(d) == IsDb(d) /\ KeysHold(d) /\ ProjectionOfLog(d)

-----------------------------------------------------------------------------
(* Folding one more time into a column: COALESCE on both sides of MIN      *)
(* yields the smaller of two times, and ignores NULL.                      *)
LEMMA FoldTimeMin ==
  ASSUME NEW x \in Nat \cup {NULL}, NEW y \in Nat
  PROVE  /\ FoldTime(x, NULL) = x
         /\ FoldTime(x, y) \in Nat
         /\ FoldTime(x, y) = y \/ FoldTime(x, y) = x
         /\ FoldTime(x, y) <= y
         /\ x \in Nat => FoldTime(x, y) <= x
         /\ x = NULL => FoldTime(x, y) = y
  BY NullAssumption, SMT DEF FoldTime, SqlMin, Coalesce

(* The earliest time of a set of events, after one more event: the folded  *)
(* time.  (initiated_at ... settled_at of _UPSERT_TRANSACTION.)            *)
LEMMA EarliestStep ==
  ASSUME NEW S \in SUBSET EventIn, NEW e \in EventIn, NEW x \in Nat \cup {NULL},
         IsEarliest(x, S)
  PROVE  IsEarliest(FoldTime(x, e.timestamp), S \cup {e})
<1> DEFINE y == FoldTime(x, e.timestamp)
<1>1. /\ e.timestamp \in Nat
      /\ \A s \in S : s.timestamp \in Nat
  BY DEF EventIn
<1>2. CASE S = {}
  <2>1. y = e.timestamp
    BY <1>1, <1>2, FoldTimeMin DEF IsEarliest
  <2> QED  BY <2>1, <1>1, <1>2 DEF IsEarliest
<1>3. CASE S # {}
  <2>1. /\ \E s \in S : x = s.timestamp
        /\ \A s \in S : x <= s.timestamp
    BY <1>3 DEF IsEarliest
  <2>2. x \in Nat
    BY <2>1, <1>1
  <2>3. /\ y \in Nat /\ y <= x /\ y <= e.timestamp
        /\ y = x \/ y = e.timestamp
    BY <2>2, <1>1, FoldTimeMin
  <2>4. \E s \in S \cup {e} : y = s.timestamp
    BY <2>1, <2>3
  <2>5. \A s \in S \cup {e} : y <= s.timestamp
    <3> HIDE DEF y
    <3> QED  BY <2>1, <2>2, <2>3, <1>1
  <2> QED  BY <2>4, <2>5, <1>3 DEF IsEarliest
<1> QED  BY <1>2, <1>3

-----------------------------------------------------------------------------
(* The columns are the images of the event types, one each.                *)
LEMMA ColumnPerType ==
  /\ \A ty \in EventTypes : ColumnOf[ty] \in Columns
  /\ \A ty, tz \in EventTypes : ColumnOf[ty] = ColumnOf[tz] => ty = tz
  /\ \A c \in Columns : \E ty \in EventTypes : c = ColumnOf[ty]
  BY DEF ColumnOf, Columns, EventTypes

(* Rounding to minor units yields a natural number.                        *)
LEMMA MinorUnitsType ==
  ASSUME NEW a \in Nat
  PROVE  ToMinorUnits(a) \in Nat
  BY SMT DEF ToMinorUnits

(* A new transaction row is typed and stands for its single event.         *)
LEMMA FreshRow ==
  ASSUME NEW e \in EventIn, NEW now \in Nat
  PROVE  /\ FreshTxn(e, now) \in TxnRow
         /\ LifecycleOf(FreshTxn(e, now), {e})
         /\ IdentityOf(FreshTxn(e, now), {e})
<1> DEFINE r == FreshTxn(e, now)
<1>0. /\ e.timestamp \in Nat /\ e.event_type \in EventTypes
      /\ e.merchant_id \in Merchants /\ e.currency \in Currencies
      /\ ToMinorUnits(e.amount) \in Nat
  BY MinorUnitsType DEF EventIn
<1>1. r \in TxnRow
  BY <1>0, ColumnPerType DEF FreshTxn, TxnRow, TimeParams
<1>2. /\ r.at = TimeParams(e)
      /\ r.first_event_at = e.timestamp /\ r.last_event_at = e.timestamp
      /\ r.event_count = 1
      /\ r.has_amount_mismatch = 0 /\ r.has_merchant_mismatch = 0
      /\ r.amount_minor = ToMinorUnits(e.amount)
      /\ r.merchant_id = e.merchant_id /\ r.currency = e.currency
  BY DEF FreshTxn
<1> HIDE DEF r
<1>3. ASSUME NEW ty \in EventTypes
      PROVE  IsEarliest(r.at[ColumnOf[ty]], OfType({e}, ty))
  <2>1. CASE e.event_type = ty
    <3>1. r.at[ColumnOf[ty]] = e.timestamp
      BY <1>2, <2>1, ColumnPerType DEF TimeParams
    <3>2. OfType({e}, ty) = {e}
      BY <2>1 DEF OfType
    <3> QED  BY <3>1, <3>2, <1>0 DEF IsEarliest
  <2>2. CASE e.event_type # ty
    <3>1. r.at[ColumnOf[ty]] = NULL
      BY <1>0, <1>2, <2>2, ColumnPerType DEF TimeParams
    <3>2. OfType({e}, ty) = {}
      BY <2>2 DEF OfType
    <3> QED  BY <3>1, <3>2 DEF IsEarliest
  <2> QED  BY <2>1, <2>2
<1>4. IsEarliest(r.first_event_at, {e}) /\ IsLatest(r.last_event_at, {e})
  BY <1>0, <1>2 DEF IsEarliest, IsLatest
<1>5. Cardinality({e}) = 1
  BY FS_Singleton
<1>6. LifecycleOf(r, {e})
  BY <1>2, <1>3, <1>4, <1>5 DEF LifecycleOf
<1>7. IdentityOf(r, {e})
  BY <1>2 DEF IdentityOf
<1> QED  BY <1>1, <1>6, <1>7 DEF r

(* Folding an event into a typed row that stands for the set E yields the  *)
(* row that stands for E and the event.                                    *)
LEMMA FoldedRow ==
  ASSUME NEW E \in SUBSET EventIn, IsFiniteSet(E), E # {},
         NEW e \in EventIn, e \notin E, NEW now \in Nat,
         NEW r \in TxnRow, LifecycleOf(r, E), IdentityOf(r, E)
  PROVE  /\ FoldTxn(r, e, now) \in TxnRow
         /\ LifecycleOf(FoldTxn(r, e, now), E \cup {e})
         /\ IdentityOf(FoldTxn(r, e, now), E \cup {e})
<1> DEFINE q == FoldTxn(r, e, now)
           F == E \cup {e}
<1>0. /\ e.timestamp \in Nat /\ e.event_type \in EventTypes
      /\ e.merchant_id \in Merchants /\ e.currency \in Currencies
      /\ ToMinorUnits(e.amount) \in Nat
  BY MinorUnitsType DEF EventIn
<1>1. /\ r.at \in [Columns -> Nat \cup {NULL}]
      /\ r.first_event_at \in Nat /\ r.last_event_at \in Nat /\ r.event_count \in Nat
      /\ r.amount_minor \in Nat
      /\ r.has_amount_mismatch \in {0, 1} /\ r.has_merchant_mismatch \in {0, 1}
  BY DEF TxnRow
<1>2. /\ q.at = [c \in Columns |-> FoldTime(r.at[c], TimeParams(e)[c])]
      /\ q.first_event_at = IF e.timestamp <= r.first_event_at
                            THEN e.timestamp ELSE r.first_event_at
      /\ q.last_event_at = IF e.timestamp >= r.last_event_at
                           THEN e.timestamp ELSE r.last_event_at
      /\ q.event_count = r.event_count + 1
      /\ q.has_amount_mismatch = Flag(r.has_amount_mismatch, r.amount_minor, ToMinorUnits(e.amount))
      /\ q.has_merchant_mismatch = Flag(r.has_merchant_mismatch, r.merchant_id, e.merchant_id)
      /\ q.amount_minor = r.amount_minor
      /\ q.merchant_id = r.merchant_id
      /\ q.currency = r.currency
  BY DEF FoldTxn, TxnRow
<1>3. \A c \in Columns : TimeParams(e)[c] = IF c = ColumnOf[e.event_type] THEN e.timestamp ELSE NULL
  BY DEF TimeParams
<1>4. \A c \in Columns : q.at[c] \in Nat \cup {NULL}
  <2> SUFFICES ASSUME NEW c \in Columns PROVE q.at[c] \in Nat \cup {NULL}
    OBVIOUS
  <2>1. q.at[c] = FoldTime(r.at[c], TimeParams(e)[c])
    BY <1>2
  <2>2. r.at[c] \in Nat \cup {NULL}
    BY <1>1
  <2> HIDE DEF q
  <2> QED  BY <2>1, <2>2, <1>0, <1>3, FoldTimeMin
<1>5. q \in TxnRow
  <2>1. q.at \in [Columns -> Nat \cup {NULL}]
    BY <1>2, <1>4
  <2>2. /\ q.first_event_at \in Nat /\ q.last_event_at \in Nat /\ q.event_count \in Nat
        /\ q.has_amount_mismatch \in {0, 1} /\ q.has_merchant_mismatch \in {0, 1}
    BY <1>0, <1>1, <1>2 DEF Flag
  <2>3. q = [r EXCEPT !.at = q.at, !.first_event_at = q.first_event_at,
                      !.last_event_at = q.last_event_at, !.event_count = q.event_count,
                      !.has_amount_mismatch = q.has_amount_mismatch,
                      !.has_merchant_mismatch = q.has_merchant_mismatch,
                      !.updated_at = now]
    BY DEF FoldTxn, TxnRow
  <2> HIDE DEF q
  <2> QED  BY <2>1, <2>2, <2>3 DEF TxnRow
<1> HIDE DEF q
<1>6. ASSUME NEW ty \in EventTypes
      PROVE  IsEarliest(q.at[ColumnOf[ty]], OfType(F, ty))
  <2>0. /\ ColumnOf[ty] \in Columns
        /\ IsEarliest(r.at[ColumnOf[ty]], OfType(E, ty))
        /\ r.at[ColumnOf[ty]] \in Nat \cup {NULL}
    BY <1>1, ColumnPerType DEF LifecycleOf
  <2>1. CASE e.event_type = ty
    <3>1. q.at[ColumnOf[ty]] = FoldTime(r.at[ColumnOf[ty]], e.timestamp)
      BY <1>2, <1>3, <2>0, <2>1
    <3>2. OfType(F, ty) = OfType(E, ty) \cup {e} /\ OfType(E, ty) \in SUBSET EventIn
      BY <2>1 DEF OfType
    <3> QED  BY <3>1, <3>2, <2>0, EarliestStep
  <2>2. CASE e.event_type # ty
    <3>1. q.at[ColumnOf[ty]] = FoldTime(r.at[ColumnOf[ty]], NULL)
      BY <1>0, <1>2, <1>3, <2>0, <2>2, ColumnPerType
    <3>2. OfType(F, ty) = OfType(E, ty)
      BY <2>2 DEF OfType
    <3>3. FoldTime(r.at[ColumnOf[ty]], NULL) = r.at[ColumnOf[ty]]
      BY <2>0, <1>0, FoldTimeMin
    <3> QED  BY <3>1, <3>2, <3>3, <2>0
  <2> QED  BY <2>1, <2>2
<1>7. \A f \in E : f.timestamp \in Nat
  BY DEF EventIn
<1>8. IsEarliest(q.first_event_at, F)
  <2>1. /\ \E f \in E : r.first_event_at = f.timestamp
        /\ \A f \in E : r.first_event_at <= f.timestamp
    BY DEF LifecycleOf, IsEarliest
  <2> QED  BY <2>1, <1>0, <1>1, <1>2, <1>7 DEF IsEarliest
<1>9. IsLatest(q.last_event_at, F)
  <2>1. /\ \E f \in E : r.last_event_at = f.timestamp
        /\ \A f \in E : f.timestamp <= r.last_event_at
    BY DEF LifecycleOf, IsLatest
  <2> QED  BY <2>1, <1>0, <1>1, <1>2, <1>7 DEF IsLatest
<1>10. q.event_count = Cardinality(F)
  <2>1. Cardinality(F) = Cardinality(E) + 1
    BY FS_AddElement
  <2> QED  BY <2>1, <1>2 DEF LifecycleOf
<1>11. IdentityOf(q, F)
  <2>1. \E f \in F : /\ q.amount_minor = ToMinorUnits(f.amount)
                     /\ q.merchant_id = f.merchant_id
                     /\ q.currency = f.currency
    BY <1>2 DEF IdentityOf
  <2>2. q.has_amount_mismatch = 1 <=> \E f \in F : ToMinorUnits(f.amount) # q.amount_minor
    BY <1>1, <1>2 DEF IdentityOf, Flag
  <2>3. q.has_merchant_mismatch = 1 <=> \E f \in F : f.merchant_id # q.merchant_id
    BY <1>1, <1>2 DEF IdentityOf, Flag
  <2> QED  BY <2>1, <2>2, <2>3 DEF IdentityOf
<1>12. LifecycleOf(q, F)
  BY <1>6, <1>8, <1>9, <1>10 DEF LifecycleOf
<1> QED  BY <1>5, <1>11, <1>12 DEF q

(* Counting a redelivery leaves every other column of the row alone.       *)
LEMMA BumpedRow ==
  ASSUME NEW d, IsDb(d), NEW t \in DOMAIN d.transactions, NEW now \in Nat
  PROVE  LET T == BumpDuplicate(d.transactions, t, now)
         IN /\ DOMAIN T = DOMAIN d.transactions
            /\ \A s \in DOMAIN T :
                 /\ T[s] \in TxnRow
                 /\ s # t => T[s] = d.transactions[s]
                 /\ T[s].at = d.transactions[s].at
                 /\ T[s].merchant_id = d.transactions[s].merchant_id
                 /\ \A E : LifecycleOf(d.transactions[s], E) => LifecycleOf(T[s], E)
                 /\ \A E : IdentityOf(d.transactions[s], E) => IdentityOf(T[s], E)
<1> DEFINE T == BumpDuplicate(d.transactions, t, now)
           r == d.transactions[t]
           k == r.duplicate_event_count + 1
<1>1. r \in TxnRow /\ \A s \in DOMAIN d.transactions : d.transactions[s] \in TxnRow
  BY DEF IsDb, IsTable
<1>2. /\ DOMAIN T = DOMAIN d.transactions
      /\ \A s \in DOMAIN T : s # t => T[s] = d.transactions[s]
      /\ T[t] = [r EXCEPT !.duplicate_event_count = k, !.updated_at = now]
  BY <1>1 DEF BumpDuplicate, TxnRow
<1>5. k \in Nat
  BY <1>1 DEF TxnRow
<1> HIDE DEF T, r, k
<1>3. /\ T[t] \in TxnRow
      /\ T[t].at = r.at /\ T[t].merchant_id = r.merchant_id
      /\ T[t].amount_minor = r.amount_minor /\ T[t].currency = r.currency
      /\ T[t].first_event_at = r.first_event_at /\ T[t].last_event_at = r.last_event_at
      /\ T[t].event_count = r.event_count
      /\ T[t].has_amount_mismatch = r.has_amount_mismatch
      /\ T[t].has_merchant_mismatch = r.has_merchant_mismatch
  BY <1>1, <1>2, <1>5, ZenonT(60) DEF TxnRow
<1>4. /\ \A E : LifecycleOf(r, E) => LifecycleOf(T[t], E)
      /\ \A E : IdentityOf(r, E) => IdentityOf(T[t], E)
  BY <1>3 DEF LifecycleOf, IdentityOf
<1> QED  BY <1>1, <1>2, <1>3, <1>4 DEF T, r

-----------------------------------------------------------------------------
(* The events of a transaction are finitely many validated events.         *)
LEMMA EventsOfType ==
  ASSUME NEW log \in Seq(EventRow), NEW t
  PROVE  EventsOf(log, t) \in SUBSET EventIn /\ IsFiniteSet(EventsOf(log, t))
<1> DEFINE D == {j \in DOMAIN log : log[j].payload.transaction_id = t}
<1>1. /\ Len(log) \in Nat /\ DOMAIN log = 1..Len(log)
      /\ \A j \in DOMAIN log : log[j] \in EventRow
  BY LenProperties, ElementOfSeq
<1>2. \A j \in DOMAIN log : log[j].payload \in EventIn
  BY <1>1 DEF EventRow
<1>3. IsFiniteSet(D)
  <2>1. IsFiniteSet(1..Len(log))
    BY <1>1, FS_Interval
  <2> QED  BY <1>1, <2>1, FS_Subset
<1>4. [j \in D |-> log[j].payload] \in Surjection(D, EventsOf(log, t))
  BY DEF Surjection, EventsOf
<1>5. IsFiniteSet(EventsOf(log, t))
  BY <1>3, <1>4, FS_Surjection
<1> QED  BY <1>2, <1>5 DEF EventsOf

(* Appending an event adds it to its own transaction's events, and leaves  *)
(* those of every other transaction alone.                                 *)
LEMMA EventsOfAppend ==
  ASSUME NEW log \in Seq(EventRow), NEW row \in EventRow
  PROVE  /\ Append(log, row) \in Seq(EventRow)
         /\ Ids(Append(log, row)) = Ids(log) \cup {row.payload.event_id}
         /\ \A t : EventsOf(Append(log, row), t) =
              IF t = row.payload.transaction_id
              THEN EventsOf(log, t) \cup {row.payload} ELSE EventsOf(log, t)
<1> DEFINE new == Append(log, row)
<1>1. /\ new \in Seq(EventRow)
      /\ Len(log) \in Nat /\ DOMAIN log = 1..Len(log) /\ DOMAIN new = 1..(Len(log) + 1)
      /\ \A i \in 1..Len(log) : new[i] = log[i]
      /\ new[Len(log) + 1] = row
  BY AppendProperties, LenProperties
<1>2. DOMAIN new = DOMAIN log \cup {Len(log) + 1}
  BY <1>1
<1> HIDE DEF new
<1>3. Ids(new) = Ids(log) \cup {row.payload.event_id}
  BY <1>1, <1>2 DEF Ids
<1>4. ASSUME NEW t
      PROVE  EventsOf(new, t) = IF t = row.payload.transaction_id
                                THEN EventsOf(log, t) \cup {row.payload} ELSE EventsOf(log, t)
  BY <1>1, <1>2 DEF EventsOf
<1> QED  BY <1>1, <1>3, <1>4 DEF new

(* An upsert of a typed row keeps a table typed.                          *)
LEMMA PutTyped ==
  ASSUME NEW Keys, NEW Row, NEW tbl, IsTable(tbl, Keys, Row),
         NEW k \in Keys, NEW row \in Row
  PROVE  IsTable(Put(tbl, k, row), Keys, Row)
<1>1. /\ DOMAIN Put(tbl, k, row) = DOMAIN tbl \cup {k}
      /\ Put(tbl, k, row)[k] = row
      /\ \A x \in DOMAIN tbl : x # k => Put(tbl, k, row)[x] = tbl[x]
  BY DEF Put
<1> QED  BY <1>1 DEF IsTable

(* The merchant upsert leaves a typed row for the event's merchant.        *)
LEMMA MerchantRegistered ==
  ASSUME NEW M, IsTable(M, Merchants, MerchantRow), NEW e \in EventIn, NEW now \in Nat
  PROVE  /\ IsTable(UpsertMerchant(M, e, now), Merchants, MerchantRow)
         /\ DOMAIN UpsertMerchant(M, e, now) = DOMAIN M \cup {e.merchant_id}
<1> DEFINE new == DisplayName(e)
           kept == IF e.merchant_id \in DOMAIN M /\ new = ""
                   THEN M[e.merchant_id].merchant_name ELSE new
           row == [merchant_name |-> kept, updated_at |-> now]
<1>1. UpsertMerchant(M, e, now) = Put(M, e.merchant_id, row)
  BY DEF UpsertMerchant
<1>2. e.merchant_id \in Merchants /\ new \in Names \cup Merchants
  BY DEF EventIn, DisplayName
<1> HIDE DEF new
<1>3. row \in MerchantRow
  BY <1>2 DEF IsTable, MerchantRow
<1> HIDE DEF row
<1>4. IsTable(Put(M, e.merchant_id, row), Merchants, MerchantRow)
  BY <1>2, <1>3, PutTyped
<1>5. DOMAIN Put(M, e.merchant_id, row) = DOMAIN M \cup {e.merchant_id}
  BY DEF Put
<1> QED  BY <1>1, <1>4, <1>5

-----------------------------------------------------------------------------
(* Storing a new event keeps a good database good: the lookup said its id  *)
(* is not in the log, so it is one more event of its transaction.          *)
THEOREM ApplyNewGood ==
  ASSUME NEW d, GoodDb(d), NEW e \in EventIn, NEW now \in Nat,
         e.event_id \notin Ids(d.events)
  PROVE  GoodDb(ApplyNew(d, e, now))
<1> DEFINE n == ApplyNew(d, e, now)
           row == [payload |-> e, received_at |-> now]
           t0 == e.transaction_id
<1>0. /\ IsDb(d) /\ KeysHold(d) /\ ProjectionOfLog(d)
      /\ t0 \in Txns /\ e.merchant_id \in Merchants
  BY DEF GoodDb, EventIn
<1>1. /\ n = [events |-> n.events, transactions |-> n.transactions, merchants |-> n.merchants]
      /\ n.events = Append(d.events, row)
      /\ n.transactions = UpsertTransaction(d.transactions, e, now)
      /\ n.merchants = UpsertMerchant(d.merchants, e, now)
  BY DEF ApplyNew
<1>2. /\ row \in EventRow /\ row.payload = e
      /\ d.events \in Seq(EventRow)
  BY <1>0 DEF EventRow, IsDb
<1> HIDE DEF n, row
<1>3. /\ n.events \in Seq(EventRow)
      /\ \A t : EventsOf(n.events, t) = IF t = t0 THEN EventsOf(d.events, t) \cup {e}
                                        ELSE EventsOf(d.events, t)
  <2>1. /\ Append(d.events, row) \in Seq(EventRow)
        /\ \A t : EventsOf(Append(d.events, row), t) =
             IF t = row.payload.transaction_id
             THEN EventsOf(d.events, t) \cup {row.payload} ELSE EventsOf(d.events, t)
    BY <1>2, EventsOfAppend
  <2> QED  BY <2>1, <1>1, <1>2
<1>4. /\ IsTable(n.merchants, Merchants, MerchantRow)
      /\ DOMAIN n.merchants = DOMAIN d.merchants \cup {e.merchant_id}
  <2>1. IsTable(d.merchants, Merchants, MerchantRow)
    BY <1>0 DEF IsDb
  <2>2. /\ IsTable(UpsertMerchant(d.merchants, e, now), Merchants, MerchantRow)
        /\ DOMAIN UpsertMerchant(d.merchants, e, now) = DOMAIN d.merchants \cup {e.merchant_id}
    BY <2>1, MerchantRegistered
  <2> QED  BY <2>2, <1>1
<1>5. \A t : EventsOf(d.events, t) \in SUBSET EventIn /\ IsFiniteSet(EventsOf(d.events, t))
  BY <1>2, EventsOfType
<1>6. /\ DOMAIN n.transactions = DOMAIN d.transactions \cup {t0}
      /\ \A t \in DOMAIN d.transactions : t # t0 => n.transactions[t] = d.transactions[t]
      /\ t0 \in DOMAIN d.transactions =>
           n.transactions[t0] = FoldTxn(d.transactions[t0], e, now)
      /\ t0 \notin DOMAIN d.transactions => n.transactions[t0] = FreshTxn(e, now)
  <2> DEFINE new == IF t0 \in DOMAIN d.transactions
                    THEN FoldTxn(d.transactions[t0], e, now) ELSE FreshTxn(e, now)
  <2>1. n.transactions = Put(d.transactions, t0, new)
    BY <1>1 DEF UpsertTransaction
  <2>2. /\ t0 \in DOMAIN d.transactions => new = FoldTxn(d.transactions[t0], e, now)
        /\ t0 \notin DOMAIN d.transactions => new = FreshTxn(e, now)
    OBVIOUS
  <2> HIDE DEF new, t0
  <2>3. /\ DOMAIN Put(d.transactions, t0, new) = DOMAIN d.transactions \cup {t0}
        /\ Put(d.transactions, t0, new)[t0] = new
        /\ \A t \in DOMAIN d.transactions :
             t # t0 => Put(d.transactions, t0, new)[t] = d.transactions[t]
    BY DEF Put
  <2> QED  BY <2>1, <2>2, <2>3
<1>7. e \notin EventsOf(d.events, t0)
  BY DEF EventsOf, Ids
<1>8. /\ n.transactions[t0] \in TxnRow
      /\ LifecycleOf(n.transactions[t0], EventsOf(n.events, t0))
      /\ IdentityOf(n.transactions[t0], EventsOf(n.events, t0))
  <2>1. CASE t0 \in DOMAIN d.transactions
    <3>1. /\ d.transactions[t0] \in TxnRow
          /\ EventsOf(d.events, t0) # {}
          /\ LifecycleOf(d.transactions[t0], EventsOf(d.events, t0))
          /\ IdentityOf(d.transactions[t0], EventsOf(d.events, t0))
      BY <1>0, <2>1 DEF IsDb, IsTable, ProjectionOfLog
    <3>2. EventsOf(n.events, t0) = EventsOf(d.events, t0) \cup {e}
      BY <1>3
    <3>3. n.transactions[t0] = FoldTxn(d.transactions[t0], e, now)
      BY <2>1, <1>6
    <3> DEFINE E == EventsOf(d.events, t0)
               r == d.transactions[t0]
    <3>4. /\ E \in SUBSET EventIn /\ IsFiniteSet(E) /\ E # {} /\ e \notin E
          /\ r \in TxnRow /\ LifecycleOf(r, E) /\ IdentityOf(r, E)
      BY <3>1, <1>5, <1>7
    <3> HIDE DEF E, r
    <3>5. /\ FoldTxn(r, e, now) \in TxnRow
          /\ LifecycleOf(FoldTxn(r, e, now), E \cup {e})
          /\ IdentityOf(FoldTxn(r, e, now), E \cup {e})
      BY <3>4, FoldedRow
    <3> QED  BY <3>2, <3>3, <3>5 DEF E, r
  <2>2. CASE t0 \notin DOMAIN d.transactions
    <3>1. EventsOf(d.events, t0) = {}
      BY <1>0, <2>2 DEF ProjectionOfLog
    <3>2. EventsOf(n.events, t0) = {e}
      BY <3>1, <1>3
    <3> QED  BY <3>2, <2>2, <1>6, FreshRow
  <2> QED  BY <2>1, <2>2
<1>9. IsTable(n.transactions, Txns, TxnRow)
  BY <1>0, <1>6, <1>8 DEF IsDb, IsTable
<1>10. IsDb(n)
  BY <1>1, <1>3, <1>4, <1>9 DEF IsDb
<1>11. KeysHold(n)
  <2>1. /\ Len(d.events) \in Nat /\ DOMAIN d.events = 1..Len(d.events)
        /\ DOMAIN n.events = 1..(Len(d.events) + 1)
        /\ \A i \in 1..Len(d.events) : n.events[i] = d.events[i]
        /\ n.events[Len(d.events) + 1].payload = e
    BY <1>1, <1>2, AppendProperties, LenProperties
  <2>2. \A i \in DOMAIN d.events : d.events[i].payload.event_id # e.event_id
    BY DEF Ids
  <2>3. \A i, j \in DOMAIN n.events :
          n.events[i].payload.event_id = n.events[j].payload.event_id => i = j
    <3>1. \A i \in DOMAIN n.events : i \in DOMAIN d.events \/ i = Len(d.events) + 1
      BY <2>1
    <3>2. \A i \in DOMAIN d.events :
            n.events[i].payload.event_id = d.events[i].payload.event_id
      BY <2>1
    <3>3. \A i, j \in DOMAIN d.events :
            d.events[i].payload.event_id = d.events[j].payload.event_id => i = j
      BY <1>0 DEF KeysHold
    <3> QED  BY <3>1, <3>2, <3>3, <2>1, <2>2
  <2>4. \A i \in DOMAIN n.events : n.events[i].payload.transaction_id \in DOMAIN n.transactions
    BY <1>0, <1>6, <2>1 DEF KeysHold
  <2>5. \A t \in DOMAIN n.transactions : n.transactions[t].merchant_id \in DOMAIN n.merchants
    <3>1. t0 \in DOMAIN d.transactions =>
            n.transactions[t0].merchant_id = d.transactions[t0].merchant_id
      BY <1>0, <1>6 DEF FoldTxn, IsDb, IsTable, TxnRow
    <3>2. t0 \notin DOMAIN d.transactions => n.transactions[t0].merchant_id = e.merchant_id
      BY <1>6 DEF FreshTxn
    <3> QED  BY <3>1, <3>2, <1>0, <1>4, <1>6 DEF KeysHold
  <2> QED  BY <2>3, <2>4, <2>5 DEF KeysHold
<1>12. ProjectionOfLog(n)
  <2> SUFFICES ASSUME NEW t \in Txns
               PROVE  /\ t \in DOMAIN n.transactions <=> EventsOf(n.events, t) # {}
                      /\ EventsOf(n.events, t) # {} =>
                           /\ LifecycleOf(n.transactions[t], EventsOf(n.events, t))
                           /\ IdentityOf(n.transactions[t], EventsOf(n.events, t))
    BY DEF ProjectionOfLog
  <2>1. CASE t = t0
    BY <2>1, <1>3, <1>6, <1>8
  <2>2. CASE t # t0
    BY <2>2, <1>0, <1>3, <1>6 DEF ProjectionOfLog
  <2> QED  BY <2>1, <2>2
<1> QED  BY <1>10, <1>11, <1>12 DEF GoodDb, n

(* The row a lookup by id returns is the stored one.                       *)
LEMMA ExistingStored ==
  ASSUME NEW log \in Seq(EventRow), NEW id \in Ids(log)
  PROVE  \E i \in DOMAIN log : /\ Existing(log, id) = log[i].payload
                               /\ log[i].payload.event_id = id
                               /\ log[i].payload \in EventIn
<1> DEFINE P(i) == log[i].payload.event_id = id
           k == CHOOSE i \in DOMAIN log : P(i)
<1>1. \E i \in DOMAIN log : P(i)
  BY DEF Ids
<1>2. k \in DOMAIN log /\ P(k)
  BY <1>1
<1>3. Existing(log, id) = log[k].payload
  BY DEF Existing
<1>4. k \in 1..Len(log)
  BY <1>2, LenProperties
<1>5. log[k] \in EventRow
  BY <1>4, ElementOfSeq
<1>6. log[k].payload \in EventIn
  BY <1>5 DEF EventRow
<1> QED  BY <1>2, <1>3, <1>6

(* Absorbing a redelivery keeps a good database good: the event log is not *)
(* touched and neither is any column the log determines.                   *)
THEOREM ApplyReplayGood ==
  ASSUME NEW d, GoodDb(d), NEW e \in EventIn, NEW now \in Nat,
         e.event_id \in Ids(d.events)
  PROVE  GoodDb(ApplyReplay(d, e, now))
<1> DEFINE t0 == Existing(d.events, e.event_id).transaction_id
           T == BumpDuplicate(d.transactions, t0, now)
           n == ApplyReplay(d, e, now)
<1>0. /\ IsDb(d) /\ KeysHold(d) /\ ProjectionOfLog(d)
      /\ d.events \in Seq(EventRow)
  BY DEF GoodDb, IsDb
<1>1. t0 \in DOMAIN d.transactions
  <2>1. PICK i \in DOMAIN d.events : Existing(d.events, e.event_id) = d.events[i].payload
    BY <1>0, ExistingStored
  <2> QED  BY <2>1, <1>0 DEF KeysHold
<1>2. n = [events |-> d.events, transactions |-> T, merchants |-> d.merchants]
  BY <1>0 DEF ApplyReplay, IsDb
<1>3. /\ DOMAIN T = DOMAIN d.transactions
      /\ \A s \in DOMAIN T :
           /\ T[s] \in TxnRow
           /\ T[s].merchant_id = d.transactions[s].merchant_id
           /\ \A E : LifecycleOf(d.transactions[s], E) => LifecycleOf(T[s], E)
           /\ \A E : IdentityOf(d.transactions[s], E) => IdentityOf(T[s], E)
  <2> HIDE DEF t0
  <2> QED  BY <1>0, <1>1, BumpedRow
<1> HIDE DEF n, T
<1>4. /\ n.events = d.events /\ n.transactions = T /\ n.merchants = d.merchants
      /\ n = [events |-> n.events, transactions |-> n.transactions, merchants |-> n.merchants]
  BY <1>2
<1>5. IsDb(n)
  BY <1>0, <1>3, <1>4 DEF IsDb, IsTable
<1>6. KeysHold(n)
  BY <1>0, <1>3, <1>4 DEF KeysHold
<1>7. ProjectionOfLog(n)
  BY <1>0, <1>3, <1>4 DEF ProjectionOfLog
<1> QED  BY <1>5, <1>6, <1>7 DEF GoodDb, n

(* A new database is in order.                                             *)
LEMMA EmptyDbGood == GoodDb(EmptyDb)
<1>1. EmptyDb.events = <<>> /\ DOMAIN EmptyDb.events = {}
  BY DEF EmptyDb
<1>2. DOMAIN EmptyDb.transactions = {} /\ DOMAIN EmptyDb.merchants = {}
  BY DEF EmptyDb
<1>3. EmptyDb.events \in Seq(EventRow)
  BY <1>1, EmptySeq
<1>4. IsDb(EmptyDb)
  BY <1>2, <1>3 DEF IsDb, IsTable, EmptyDb
<1>5. KeysHold(EmptyDb)
  BY <1>1, <1>2 DEF KeysHold
<1>6. \A t : EventsOf(EmptyDb.events, t) = {}
  BY <1>1 DEF EventsOf
<1> QED  BY <1>2, <1>4, <1>5, <1>6 DEF GoodDb, ProjectionOfLog

-----------------------------------------------------------------------------
(* No row disappears and no timestamp column goes back to NULL.            *)
KeepsTimes(older, newer) ==
  \A t \in DOMAIN older.transactions :
    /\ t \in DOMAIN newer.transactions
    /\ \A c \in Columns :
         older.transactions[t].at[c] # NULL => newer.transactions[t].at[c] # NULL

(* Storing a new event clears no lifecycle timestamp of any row.           *)
LEMMA ApplyNewKeepsTimes ==
  ASSUME NEW d, IsDb(d), NEW e \in EventIn, NEW now \in Nat
  PROVE  KeepsTimes(d, ApplyNew(d, e, now))
<1> DEFINE T == ApplyNew(d, e, now).transactions
<1>1. T = UpsertTransaction(d.transactions, e, now)
  BY DEF ApplyNew
<1>2. \A t \in DOMAIN d.transactions : d.transactions[t] \in TxnRow
  BY DEF IsDb, IsTable
<1> SUFFICES ASSUME NEW t \in DOMAIN d.transactions, NEW c \in Columns,
                    d.transactions[t].at[c] # NULL
             PROVE  t \in DOMAIN T /\ T[t].at[c] # NULL
  <2>1. \A t \in DOMAIN d.transactions : t \in DOMAIN T
    BY <1>1 DEF UpsertTransaction, Put
  <2> QED  BY <2>1 DEF KeepsTimes
<1>3. /\ t \in DOMAIN T
      /\ t # e.transaction_id => T[t] = d.transactions[t]
      /\ t = e.transaction_id => T[t] = FoldTxn(d.transactions[t], e, now)
  BY <1>1 DEF UpsertTransaction, Put
<1>4. d.transactions[t].at[c] \in Nat
  BY <1>2 DEF TxnRow
<1>5. /\ FoldTxn(d.transactions[t], e, now).at[c] =
           FoldTime(d.transactions[t].at[c], TimeParams(e)[c])
      /\ TimeParams(e)[c] \in Nat \cup {NULL}
  BY <1>2 DEF FoldTxn, TxnRow, TimeParams, EventIn
<1>6. FoldTime(d.transactions[t].at[c], TimeParams(e)[c]) \in Nat
  BY <1>4, <1>5, FoldTimeMin, ZenonT(60)
<1> QED  BY <1>3, <1>5, <1>6, NullAssumption

(* Absorbing a redelivery clears no lifecycle timestamp of any row.        *)
LEMMA ApplyReplayKeepsTimes ==
  ASSUME NEW d, GoodDb(d), NEW e \in EventIn, NEW now \in Nat,
         e.event_id \in Ids(d.events)
  PROVE  KeepsTimes(d, ApplyReplay(d, e, now))
<1> DEFINE t0 == Existing(d.events, e.event_id).transaction_id
           T == BumpDuplicate(d.transactions, t0, now)
<1>0. IsDb(d) /\ KeysHold(d) /\ d.events \in Seq(EventRow)
  BY DEF GoodDb, IsDb
<1>1. t0 \in DOMAIN d.transactions
  <2>1. PICK i \in DOMAIN d.events : Existing(d.events, e.event_id) = d.events[i].payload
    BY <1>0, ExistingStored
  <2> QED  BY <2>1, <1>0 DEF KeysHold
<1>2. ApplyReplay(d, e, now).transactions = T
  BY <1>0 DEF ApplyReplay, IsDb
<1>3. /\ DOMAIN T = DOMAIN d.transactions
      /\ \A s \in DOMAIN T : T[s].at = d.transactions[s].at
  <2> HIDE DEF t0
  <2> QED  BY <1>0, <1>1, BumpedRow
<1> HIDE DEF T
<1> QED  BY <1>2, <1>3 DEF KeepsTimes

-----------------------------------------------------------------------------
(* Two databases that hold the same events of a transaction give its row   *)
(* the same lifecycle columns, bounds, count and statuses, and two rows    *)
(* without a flag the same amount and merchant: schema.sql's order         *)
(* independence, for every log (_UPSERT_TRANSACTION's MIN fold).           *)
THEOREM Convergence ==
  ASSUME NEW a, GoodDb(a), NEW b, GoodDb(b), NEW t \in DOMAIN a.transactions,
         EventsOf(a.events, t) = EventsOf(b.events, t)
  PROVE  LET r == a.transactions[t]
             q == b.transactions[t]
         IN /\ t \in DOMAIN b.transactions
            /\ r.at = q.at
            /\ r.first_event_at = q.first_event_at
            /\ r.last_event_at = q.last_event_at
            /\ r.event_count = q.event_count
            /\ Status(r) = Status(q)
            /\ PaymentStatus(r) = PaymentStatus(q)
            /\ SettlementStatus(r) = SettlementStatus(q)
            /\ r.has_amount_mismatch = q.has_amount_mismatch
            /\ r.has_merchant_mismatch = q.has_merchant_mismatch
            /\ r.has_amount_mismatch = 0 => r.amount_minor = q.amount_minor
            /\ r.has_merchant_mismatch = 0 => r.merchant_id = q.merchant_id
<1> DEFINE r == a.transactions[t]
           q == b.transactions[t]
           E == EventsOf(a.events, t)
<1>1. /\ t \in Txns /\ r \in TxnRow /\ E \in SUBSET EventIn /\ E # {}
      /\ LifecycleOf(r, E) /\ IdentityOf(r, E)
  <2>1. t \in Txns /\ r \in TxnRow /\ a.events \in Seq(EventRow)
    BY DEF GoodDb, IsDb, IsTable
  <2>2. E # {} /\ LifecycleOf(r, E) /\ IdentityOf(r, E)
    BY <2>1 DEF GoodDb, ProjectionOfLog
  <2> QED  BY <2>1, <2>2, EventsOfType
<1>2. t \in DOMAIN b.transactions /\ LifecycleOf(q, E) /\ IdentityOf(q, E)
  BY <1>1 DEF GoodDb, ProjectionOfLog
<1>3. q \in TxnRow
  BY <1>2 DEF GoodDb, IsDb, IsTable
<1> HIDE DEF r, q, E
<1>4. \A f \in E : f.timestamp \in Nat
  BY <1>1 DEF EventIn
<1>5. ASSUME NEW S \in SUBSET E, NEW x, NEW y, IsEarliest(x, S), IsEarliest(y, S)
      PROVE  x = y
  <2>1. CASE S = {}
    BY <1>5, <2>1 DEF IsEarliest
  <2>2. CASE S # {}
    BY <1>4, <1>5, <2>2 DEF IsEarliest
  <2> QED  BY <2>1, <2>2
<1>6. r.at = q.at
  <2>1. r.at \in [Columns -> Nat \cup {NULL}] /\ q.at \in [Columns -> Nat \cup {NULL}]
    BY <1>1, <1>3 DEF TxnRow
  <2>2. ASSUME NEW c \in Columns PROVE r.at[c] = q.at[c]
    <3>1. PICK ty \in EventTypes : c = ColumnOf[ty]
      BY ColumnPerType
    <3>2. /\ IsEarliest(r.at[c], OfType(E, ty)) /\ IsEarliest(q.at[c], OfType(E, ty))
          /\ OfType(E, ty) \in SUBSET E
      BY <1>1, <1>2, <3>1 DEF LifecycleOf, OfType
    <3> QED  BY <3>2, <1>5
  <2> QED  BY <2>1, <2>2
<1>7. r.first_event_at = q.first_event_at
  BY <1>1, <1>2, <1>5 DEF LifecycleOf
<1>8. r.last_event_at = q.last_event_at
  BY <1>1, <1>2, <1>4 DEF LifecycleOf, IsLatest
<1>9. r.event_count = q.event_count
  BY <1>1, <1>2 DEF LifecycleOf
<1>10. /\ Status(r) = Status(q) /\ PaymentStatus(r) = PaymentStatus(q)
       /\ SettlementStatus(r) = SettlementStatus(q)
  BY <1>6 DEF Status, PaymentStatus, SettlementStatus
<1>11. /\ r.has_amount_mismatch \in {0, 1} /\ q.has_amount_mismatch \in {0, 1}
       /\ r.has_merchant_mismatch \in {0, 1} /\ q.has_merchant_mismatch \in {0, 1}
  BY <1>1, <1>3 DEF TxnRow
<1>12. /\ r.has_amount_mismatch = q.has_amount_mismatch
       /\ r.has_amount_mismatch = 0 => r.amount_minor = q.amount_minor
  BY <1>1, <1>2, <1>11 DEF IdentityOf
<1>13. /\ r.has_merchant_mismatch = q.has_merchant_mismatch
       /\ r.has_merchant_mismatch = 0 => r.merchant_id = q.merchant_id
  BY <1>1, <1>2, <1>11 DEF IdentityOf
<1> QED
  BY <1>2, <1>6, <1>7, <1>8, <1>9, <1>10, <1>12, <1>13 DEF r, q

-----------------------------------------------------------------------------
(* Folding keeps a row typed, whatever it held before.                     *)
LEMMA FoldTyped ==
  ASSUME NEW r \in TxnRow, NEW e \in EventIn, NEW now \in Nat
  PROVE  FoldTxn(r, e, now) \in TxnRow /\ FoldTxn(r, e, now).updated_at = now
<1> DEFINE q == FoldTxn(r, e, now)
           at == [c \in Columns |-> FoldTime(r.at[c], TimeParams(e)[c])]
           first == IF e.timestamp <= r.first_event_at THEN e.timestamp ELSE r.first_event_at
           last == IF e.timestamp >= r.last_event_at THEN e.timestamp ELSE r.last_event_at
           am == Flag(r.has_amount_mismatch, r.amount_minor, ToMinorUnits(e.amount))
           mm == Flag(r.has_merchant_mismatch, r.merchant_id, e.merchant_id)
<1>1. e.timestamp \in Nat /\ \A c \in Columns : TimeParams(e)[c] \in {e.timestamp, NULL}
  BY DEF EventIn, TimeParams
<1>2. \A c \in Columns : r.at[c] \in Nat \cup {NULL}
  BY DEF TxnRow
<1>3. ASSUME NEW c \in Columns
      PROVE  FoldTime(r.at[c], TimeParams(e)[c]) \in Nat \cup {NULL}
  <2>1. /\ FoldTime(r.at[c], NULL) \in Nat \cup {NULL}
        /\ FoldTime(r.at[c], e.timestamp) \in Nat \cup {NULL}
    BY <1>1, <1>2, FoldTimeMin
  <2> QED  BY <1>1, <2>1
<1>4. at \in [Columns -> Nat \cup {NULL}]
  BY <1>3
<1>5. /\ first \in Nat /\ last \in Nat /\ r.event_count + 1 \in Nat
      /\ am \in {0, 1} /\ mm \in {0, 1}
  BY <1>1 DEF TxnRow, Flag
<1>6. q = [r EXCEPT !.at = at, !.first_event_at = first, !.last_event_at = last,
                    !.event_count = r.event_count + 1, !.has_amount_mismatch = am,
                    !.has_merchant_mismatch = mm, !.updated_at = now]
  BY DEF FoldTxn, TxnRow
<1> HIDE DEF q, at, first, last, am, mm
<1>7. q \in TxnRow /\ q.updated_at = now
  BY <1>4, <1>5, <1>6 DEF TxnRow
<1> QED  BY <1>7 DEF q

(* Each row of table new is a row of old or carries the stamp.             *)
Touched(old, new, now) ==
  \A k \in DOMAIN new : \/ new[k].updated_at = now
                        \/ k \in DOMAIN old /\ new[k] = old[k]

(* The transaction upsert on a table that need not reflect its log.        *)
LEMMA TransactionStored ==
  ASSUME NEW T, IsTable(T, Txns, TxnRow), NEW e \in EventIn, NEW now \in Nat
  PROVE  /\ IsTable(UpsertTransaction(T, e, now), Txns, TxnRow)
         /\ DOMAIN UpsertTransaction(T, e, now) = DOMAIN T \cup {e.transaction_id}
         /\ Touched(T, UpsertTransaction(T, e, now), now)
<1> DEFINE t == e.transaction_id
           row == IF t \in DOMAIN T THEN FoldTxn(T[t], e, now) ELSE FreshTxn(e, now)
<1>1. UpsertTransaction(T, e, now) = Put(T, t, row) /\ t \in Txns
  BY DEF UpsertTransaction, EventIn
<1>3. FreshTxn(e, now) \in TxnRow /\ FreshTxn(e, now).updated_at = now
  BY FreshRow DEF FreshTxn
<1>4. row \in TxnRow /\ row.updated_at = now
  <2>1. CASE t \in DOMAIN T
    <3>1. T[t] \in TxnRow
      BY <2>1 DEF IsTable
    <3>2. FoldTxn(T[t], e, now) \in TxnRow /\ FoldTxn(T[t], e, now).updated_at = now
      BY <3>1, FoldTyped
    <3> QED  BY <2>1, <3>2
  <2> QED  BY <2>1, <1>3
<1> HIDE DEF row, t
<1>5. /\ DOMAIN Put(T, t, row) = DOMAIN T \cup {t}
      /\ \A k \in DOMAIN Put(T, t, row) : Put(T, t, row)[k] = IF k = t THEN row ELSE T[k]
  BY DEF Put
<1>6. IsTable(Put(T, t, row), Txns, TxnRow)
  BY <1>1, <1>4, PutTyped
<1>7. Touched(T, Put(T, t, row), now)
  BY <1>4, <1>5 DEF Touched
<1> QED  BY <1>1, <1>5, <1>6, <1>7 DEF t

(* A merchant upsert changes one row and stamps it.                        *)
LEMMA MerchantTouched ==
  ASSUME NEW M, NEW e, NEW now
  PROVE  Touched(M, UpsertMerchant(M, e, now), now)
  BY DEF Touched, UpsertMerchant, Put

(* Counting a redelivery changes one row, keeps its type and stamps it.    *)
LEMMA DuplicateCounted ==
  ASSUME NEW T, IsTable(T, Txns, TxnRow), NEW t \in DOMAIN T, NEW now \in Nat
  PROVE  /\ IsTable(BumpDuplicate(T, t, now), Txns, TxnRow)
         /\ DOMAIN BumpDuplicate(T, t, now) = DOMAIN T
         /\ Touched(T, BumpDuplicate(T, t, now), now)
<1> DEFINE n == BumpDuplicate(T, t, now)
           k == T[t].duplicate_event_count + 1
<1>1. T[t] \in TxnRow /\ \A s \in DOMAIN T : T[s] \in TxnRow /\ s \in Txns
  BY DEF IsTable
<1>2. k \in Nat
  BY <1>1 DEF TxnRow
<1>3. /\ DOMAIN n = DOMAIN T
      /\ \A s \in DOMAIN n : s # t => n[s] = T[s]
      /\ n[t] = [T[t] EXCEPT !.duplicate_event_count = k, !.updated_at = now]
  BY <1>1 DEF BumpDuplicate, TxnRow
<1> HIDE DEF n, k
<1>4. n[t] \in TxnRow /\ n[t].updated_at = now
  BY <1>1, <1>2, <1>3 DEF TxnRow
<1>5. IsTable(n, Txns, TxnRow) /\ Touched(T, n, now)
  BY <1>1, <1>3, <1>4 DEF IsTable, Touched
<1> QED  BY <1>3, <1>5 DEF n

(* Stamps grow with the tables.                                            *)
LEMMA StampsOfTables ==
  ASSUME NEW d, NEW n, NEW now, n.events = d.events,
         Touched(d.transactions, n.transactions, now), Touched(d.merchants, n.merchants, now)
  PROVE  Stamps(n) \subseteq Stamps(d) \cup {now}
  BY DEF Stamps, Touched

(* A table left alone has been touched by nobody.                          *)
LEMMA Untouched ==
  ASSUME NEW T, NEW now
  PROVE  Touched(T, T, now)
  BY DEF Touched

(* Inserting an event adds its clock value to the marks on a database.     *)
LEMMA StampsOfLog ==
  ASSUME NEW d, d.events \in Seq(EventRow), NEW n, NEW row \in EventRow,
         n.events = Append(d.events, row),
         n.transactions = d.transactions, n.merchants = d.merchants
  PROVE  Stamps(n) \subseteq Stamps(d) \cup {row.received_at}
<1>1. \A i \in DOMAIN n.events : \/ n.events[i] = row
                                 \/ i \in DOMAIN d.events /\ n.events[i] = d.events[i]
  <2>1. /\ Len(n.events) = Len(d.events) + 1 /\ Len(d.events) \in Nat
        /\ n.events[Len(d.events) + 1] = row
        /\ \A i \in 1..Len(d.events) : n.events[i] = d.events[i]
    BY AppendProperties, LenProperties
  <2>2. DOMAIN n.events = 1..(Len(d.events) + 1) /\ DOMAIN d.events = 1..Len(d.events)
    BY <2>1, AppendProperties, LenProperties
  <2> QED  BY <2>1, <2>2
<1> QED  BY <1>1 DEF Stamps

(* Both branches of the loop leave no stamp but the request's own.         *)
LEMMA ApplyNewStamps ==
  ASSUME NEW d, IsDb(d), NEW e \in EventIn, NEW now \in Nat
  PROVE  Stamps(ApplyNew(d, e, now)) \subseteq Stamps(d) \cup {now}
<1> DEFINE row == [payload |-> e, received_at |-> now]
           n == ApplyNew(d, e, now)
           l == [d EXCEPT !.events = Append(d.events, row)]
<1>1. row \in EventRow /\ row.received_at = now /\ d.events \in Seq(EventRow)
  BY DEF EventRow, IsDb
<1>2. /\ n.events = Append(d.events, row)
      /\ n.transactions = UpsertTransaction(d.transactions, e, now)
      /\ n.merchants = UpsertMerchant(d.merchants, e, now)
  BY DEF ApplyNew
<1>3. /\ l.events = Append(d.events, row)
      /\ l.transactions = d.transactions /\ l.merchants = d.merchants
  BY DEF IsDb
<1>4. /\ Touched(d.transactions, UpsertTransaction(d.transactions, e, now), now)
      /\ Touched(d.merchants, UpsertMerchant(d.merchants, e, now), now)
  BY TransactionStored, MerchantTouched DEF IsDb
<1> HIDE DEF row, n, l
<1>5. Stamps(l) \subseteq Stamps(d) \cup {row.received_at}
  BY <1>1, <1>3, StampsOfLog
<1>6. n.events = l.events
  BY <1>2, <1>3
<1>7. Touched(l.transactions, n.transactions, now) /\ Touched(l.merchants, n.merchants, now)
  BY <1>2, <1>3, <1>4
<1>8. Stamps(n) \subseteq Stamps(l) \cup {now}
  BY <1>6, <1>7, StampsOfTables
<1> QED  BY <1>1, <1>5, <1>8 DEF n

(* Absorbing a redelivery leaves the clock value of its request only.      *)
LEMMA ApplyReplayStamps ==
  ASSUME NEW d, GoodDb(d), NEW e \in EventIn, NEW now \in Nat,
         e.event_id \in Ids(d.events)
  PROVE  Stamps(ApplyReplay(d, e, now)) \subseteq Stamps(d) \cup {now}
<1> DEFINE t == Existing(d.events, e.event_id).transaction_id
           n == ApplyReplay(d, e, now)
           T == BumpDuplicate(d.transactions, t, now)
<1>1. d.events \in Seq(EventRow) /\ IsTable(d.transactions, Txns, TxnRow) /\ KeysHold(d)
  BY DEF GoodDb, IsDb
<1>2. t \in DOMAIN d.transactions
  BY <1>1, ExistingStored DEF KeysHold
<1>3. n.events = d.events /\ n.transactions = T /\ n.merchants = d.merchants
  BY DEF ApplyReplay, GoodDb, IsDb
<1>4. Touched(d.transactions, T, now)
  BY <1>1, <1>2, DuplicateCounted
<1>5. Touched(d.merchants, d.merchants, now)
  BY Untouched
<1> HIDE DEF n, T
<1> QED  BY <1>3, <1>4, <1>5, StampsOfTables DEF n

-----------------------------------------------------------------------------
(* What Append does, in the form the proofs about logs use.                *)
LEMMA Appended ==
  ASSUME NEW S, NEW s \in Seq(S), NEW x \in S
  PROVE  LET t == Append(s, x)
             n == Len(s) + 1
         IN /\ t \in Seq(S) /\ Len(t) = n /\ n \in Nat /\ Len(s) \in Nat
            /\ DOMAIN s = 1..Len(s) /\ n \notin DOMAIN s /\ IsFiniteSet(DOMAIN s)
            /\ DOMAIN t = DOMAIN s \cup {n}
            /\ t[n] = x /\ \A i \in DOMAIN s : t[i] = s[i]
<1> DEFINE t == Append(s, x)
           n == Len(s) + 1
<1>1. /\ t \in Seq(S) /\ Len(t) = n /\ n \in Nat /\ Len(s) \in Nat
      /\ DOMAIN s = 1..Len(s) /\ DOMAIN t = 1..n
      /\ t[n] = x /\ \A i \in 1..Len(s) : t[i] = s[i]
  BY AppendProperties, LenProperties
<1>2. IsFiniteSet(1..Len(s))
  BY <1>1, FS_Interval
<1> QED  BY <1>1, <1>2

(* newer continues the log of older with rows of one request.              *)
ContinuedBy(older, newer, now) ==
  /\ DOMAIN older.events \subseteq DOMAIN newer.events
  /\ \A j \in DOMAIN older.events : newer.events[j] = older.events[j]
  /\ \A j \in DOMAIN newer.events \ DOMAIN older.events : newer.events[j].received_at = now

(* Longer logs of longer logs are longer logs.                             *)
LEMMA ContinuedTransitive ==
  ASSUME NEW a, NEW b, NEW c, NEW now, ContinuedBy(a, b, now), ContinuedBy(b, c, now)
  PROVE  ContinuedBy(a, c, now)
  BY DEF ContinuedBy

-----------------------------------------------------------------------------
(* Every set of naturals that is not empty has a least element.            *)
LEMMA LeastNatural ==
  ASSUME NEW S \in SUBSET Nat, S # {}
  PROVE  \E n \in S : \A m \in S : n <= m
<1> DEFINE T == {0..n : n \in S}
           R == StrictSubsetOrdering(Nat)
<1>1. \A n \in S : IsFiniteSet(0..n) /\ 0..n \subseteq Nat
  BY FS_Interval
<1>2. T \subseteq FiniteSubsetsOf(Nat) /\ T # {}
  BY <1>1 DEF FiniteSubsetsOf
<1>3. IsWellFoundedOn(R, FiniteSubsetsOf(Nat))
  BY FS_StrictSubsetOrderingWellFounded
<1>4. PICK X \in T : \A Y \in T : ~ (<<Y, X>> \in R)
  <2> HIDE DEF T, R
  <2> QED  BY <1>2, <1>3, WFMin
<1>5. PICK n \in S : X = 0..n
  BY <1>4
<1>6. ASSUME NEW m \in S, m < n PROVE FALSE
  <2>1. 0..m \in T /\ 0..m \in SUBSET Nat /\ 0..n \in SUBSET Nat
    BY <1>1
  <2>2. 0..m \subseteq 0..n /\ 0..m # 0..n
    <3>1. n \in 0..n /\ n \notin 0..m
      BY <1>6
    <3> QED  BY <3>1, <1>6
  <2> QED  BY <1>4, <1>5, <2>1, <2>2 DEF StrictSubsetOrdering
<1> QED  BY <1>6

(* Induction up to a number, over a set instead of a predicate.            *)
LEMMA UpTo ==
  ASSUME NEW N \in Nat, NEW S, 0 \in S,
         \A n \in 1..N : n - 1 \in S => n \in S
  PROVE  \A n \in 0..N : n \in S
<1> SUFFICES ASSUME NEW m \in 0..N, m \notin S PROVE FALSE
  OBVIOUS
<1> DEFINE T == {n \in 0..N : n \notin S}
<1>1. PICK n \in T : \A k \in T : n <= k
  <2>1. T \in SUBSET Nat /\ T # {}
    OBVIOUS
  <2> HIDE DEF T
  <2> QED  BY <2>1, LeastNatural
<1>2. n \in 1..N /\ n - 1 \in 0..N /\ n - 1 < n
  BY <1>1
<1>3. n - 1 \in S
  BY <1>1, <1>2
<1> QED  BY <1>1, <1>2, <1>3

(* Induction over the subsets of a finite set, over a set instead of a     *)
(* predicate.                                                              *)
LEMMA OverSubsets ==
  ASSUME NEW T, IsFiniteSet(T), NEW P,
         \A s \in SUBSET T : (\A r \in SUBSET s : r # s => r \in P) => s \in P
  PROVE  \A s \in SUBSET T : s \in P
<1> SUFFICES ASSUME NEW s0 \in SUBSET T, s0 \notin P PROVE FALSE
  OBVIOUS
<1> DEFINE Q == {s \in SUBSET T : s \notin P}
           R == StrictSubsetOrdering(T)
<1>1. Q \subseteq FiniteSubsetsOf(T) /\ Q # {}
  BY FS_Subset DEF FiniteSubsetsOf
<1>2. IsWellFoundedOn(R, FiniteSubsetsOf(T))
  BY FS_StrictSubsetOrderingWellFounded
<1>3. PICK s \in Q : \A r \in Q : ~ (<<r, s>> \in R)
  <2> HIDE DEF Q, R
  <2> QED  BY <1>1, <1>2, WFMin
<1>4. ASSUME NEW r \in SUBSET s, r # s PROVE r \in P
  BY <1>3, <1>4 DEF StrictSubsetOrdering
<1> QED  BY <1>3, <1>4

(* A finite set has no more images than elements.                          *)
LEMMA ImageFinite ==
  ASSUME NEW f, NEW S, IsFiniteSet(S)
  PROVE  IsFiniteSet({f[x] : x \in S}) /\ Cardinality({f[x] : x \in S}) <= Cardinality(S)
<1> DEFINE T == {f[x] : x \in S}
           g == [x \in S |-> f[x]]
<1>1. g \in Surjection(S, T)
  BY DEF Surjection
<1> HIDE DEF g, T
<1>2. IsFiniteSet(T) /\ Cardinality(T) <= Cardinality(S)
  BY <1>1, FS_Surjection
<1> QED  BY <1>2 DEF T

(* The transactions of a database in order are finitely many.              *)
LEMMA TransactionsFinite ==
  ASSUME NEW d, GoodDb(d)
  PROVE  IsFiniteSet(DOMAIN d.transactions)
<1> DEFINE I == DOMAIN d.events
           f == [i \in I |-> d.events[i].payload.transaction_id]
           T == {f[i] : i \in I}
<1>1. d.events \in Seq(EventRow) /\ ProjectionOfLog(d) /\ DOMAIN d.transactions \subseteq Txns
  BY DEF GoodDb, IsDb, IsTable
<1>2. IsFiniteSet(I)
  BY <1>1, LenProperties, FS_Interval
<1>3. IsFiniteSet(T)
  <2> HIDE DEF I, f
  <2> QED  BY <1>2, ImageFinite
<1>4. DOMAIN d.transactions \subseteq T
  <2> SUFFICES ASSUME NEW t \in DOMAIN d.transactions PROVE t \in T
    OBVIOUS
  <2>1. EventsOf(d.events, t) # {}
    BY <1>1 DEF ProjectionOfLog
  <2> QED  BY <2>1 DEF EventsOf
<1> QED  BY <1>3, <1>4, FS_Subset

(* The recursive function a fold over a set unfolds to.                    *)
First(s) == CHOOSE x \in s : TRUE

IsSum(f, v, T) ==
  f = [s \in SUBSET T |-> IF s = {} THEN 0 ELSE v[First(s)] + f[s \ {First(s)}]]

(* FoldSet takes an element out of the set that is left.                   *)
LEMMA FirstMember ==
  ASSUME NEW s, s # {}
  PROVE  First(s) \in s /\ s \ {First(s)} \in SUBSET s /\ s \ {First(s)} # s
  BY DEF First

(* A sum is the value of the partial sums that FoldSet chooses.            *)
LEMMA SumIsChosen ==
  ASSUME NEW v, NEW T
  PROVE  SumOver(v, T) = (CHOOSE f : IsSum(f, v, T))[T]
<1>1. SumOver(v, T) =
        (CHOOSE f : f = [s \in SUBSET T |->
                           IF s = {} THEN 0
                           ELSE v[CHOOSE x \in s : TRUE] + f[s \ {CHOOSE x \in s : TRUE}]])[T]
  BY DEF SumOver, FoldSet, MapThenFoldSet
<1> QED  BY <1>1 DEF IsSum, First

(* Partial sums of one column agree wherever both are defined.             *)
LEMMA SumsAgree ==
  ASSUME NEW v, NEW A, IsFiniteSet(A), NEW B, NEW f, IsSum(f, v, A), NEW g, IsSum(g, v, B)
  PROVE  \A s \in SUBSET A : s \subseteq B => f[s] = g[s]
<1> DEFINE P == {s \in SUBSET A : s \subseteq B => f[s] = g[s]}
<1>1. ASSUME NEW s \in SUBSET A, \A r \in SUBSET s : r # s => r \in P PROVE s \in P
  <2> SUFFICES ASSUME s \subseteq B PROVE f[s] = g[s]
    OBVIOUS
  <2>1. f[s] = IF s = {} THEN 0 ELSE v[First(s)] + f[s \ {First(s)}]
    BY DEF IsSum
  <2>2. g[s] = IF s = {} THEN 0 ELSE v[First(s)] + g[s \ {First(s)}]
    BY DEF IsSum
  <2>3. CASE s = {}
    BY <2>1, <2>2, <2>3
  <2>4. CASE s # {}
    <3>1. f[s \ {First(s)}] = g[s \ {First(s)}]
      BY <1>1, <2>4, FirstMember
    <3> QED  BY <2>1, <2>2, <2>4, <3>1
  <2> QED  BY <2>3, <2>4
<1>2. \A s \in SUBSET A : s \in P
  <2>1. \A s \in SUBSET A : (\A r \in SUBSET s : r # s => r \in P) => s \in P
    BY <1>1
  <2> HIDE DEF P
  <2> QED  BY <2>1, OverSubsets
<1> QED  BY <1>2

(* Every finite set has partial sums.                                      *)
LEMMA SumExists ==
  ASSUME NEW v, NEW T, IsFiniteSet(T)
  PROVE  \A s \in SUBSET T : \E f : IsSum(f, v, s)
<1> DEFINE P == {s \in SUBSET T : \E f : IsSum(f, v, s)}
           Sol(s) == CHOOSE f : IsSum(f, v, s)
<1>1. ASSUME NEW s \in SUBSET T, \A r \in SUBSET s : r # s => r \in P PROVE s \in P
  <2> DEFINE g == [r \in SUBSET s |->
                     IF r = {} THEN 0
                     ELSE v[First(r)] + Sol(r \ {First(r)})[r \ {First(r)}]]
  <2>1. \A r \in SUBSET s : r # s => IsSum(Sol(r), v, r) /\ IsFiniteSet(r)
    BY <1>1, FS_Subset
  <2> HIDE DEF Sol
  <2>2. ASSUME NEW q \in SUBSET s, q # s PROVE g[q] = Sol(q)[q]
    <3>1. IsSum(Sol(q), v, q)
      BY <2>1, <2>2
    <3>2. Sol(q)[q] = IF q = {} THEN 0 ELSE v[First(q)] + Sol(q)[q \ {First(q)}]
      BY <3>1 DEF IsSum
    <3>3. CASE q = {}
      BY <3>2, <3>3
    <3>4. CASE q # {}
      <4> DEFINE r == q \ {First(q)}
      <4>1. r \in SUBSET q /\ r \in SUBSET s /\ r # s
        BY <2>2, <3>4, FirstMember
      <4>2. IsSum(Sol(r), v, r) /\ IsFiniteSet(r)
        BY <2>1, <4>1
      <4>3. Sol(r)[r] = Sol(q)[r]
        <5> HIDE DEF r
        <5> QED  BY <3>1, <4>1, <4>2, SumsAgree
      <4> QED  BY <3>2, <3>4, <4>3
    <3> QED  BY <3>3, <3>4
  <2> DEFINE h == [r \in SUBSET s |-> IF r = {} THEN 0 ELSE v[First(r)] + g[r \ {First(r)}]]
  <2>3. ASSUME NEW r \in SUBSET s PROVE g[r] = h[r]
    <3>1. CASE r = {}
      BY <3>1
    <3>2. CASE r # {}
      <4>1. r \ {First(r)} \in SUBSET s /\ r \ {First(r)} # s
        BY <3>2, FirstMember
      <4>2. g[r \ {First(r)}] = Sol(r \ {First(r)})[r \ {First(r)}]
        BY <2>2, <4>1
      <4> QED  BY <3>2, <4>2
    <3> QED  BY <3>1, <3>2
  <2>4. g = h
    BY <2>3
  <2>5. IsSum(g, v, s)
    BY <2>4 DEF IsSum
  <2> HIDE DEF g
  <2> QED  BY <2>5
<1>2. \A s \in SUBSET T : (\A r \in SUBSET s : r # s => r \in P) => s \in P
  BY <1>1
<1>3. \A s \in SUBSET T : s \in P
  <2> HIDE DEF P
  <2> QED  BY <1>2, OverSubsets
<1> QED  BY <1>3

(* A sum takes one element out and goes on with the rest.                  *)
LEMMA SumUnfolds ==
  ASSUME NEW v, NEW T, IsFiniteSet(T)
  PROVE  SumOver(v, T) = IF T = {} THEN 0
                         ELSE v[First(T)] + SumOver(v, T \ {First(T)})
<1> DEFINE Sol(s) == CHOOSE f : IsSum(f, v, s)
           r == T \ {First(T)}
<1>1. IsSum(Sol(T), v, T) /\ IsSum(Sol(r), v, r) /\ IsFiniteSet(r)
  <2>1. T \in SUBSET T /\ r \in SUBSET T
    OBVIOUS
  <2> QED  BY <2>1, SumExists, FS_Subset
<1>2. SumOver(v, T) = Sol(T)[T] /\ SumOver(v, r) = Sol(r)[r]
  BY SumIsChosen
<1> HIDE DEF Sol, r
<1>3. Sol(T)[T] = IF T = {} THEN 0 ELSE v[First(T)] + Sol(T)[r]
  BY <1>1 DEF IsSum, r
<1>4. Sol(r)[r] = Sol(T)[r]
  <2>1. r \in SUBSET r /\ r \subseteq T
    BY DEF r
  <2>2. \A s \in SUBSET r : s \subseteq T => Sol(r)[s] = Sol(T)[s]
    BY <1>1, SumsAgree
  <2> QED  BY <2>1, <2>2
<1> QED  BY <1>2, <1>3, <1>4 DEF r

(* Equal columns have equal sums.                                          *)
LEMMA SumSame ==
  ASSUME NEW T, IsFiniteSet(T), NEW v, NEW w, \A t \in T : v[t] = w[t]
  PROVE  SumOver(v, T) = SumOver(w, T)
<1> DEFINE P == {s \in SUBSET T : SumOver(v, s) = SumOver(w, s)}
<1>1. ASSUME NEW s \in SUBSET T, \A r \in SUBSET s : r # s => r \in P PROVE s \in P
  <2>1. IsFiniteSet(s)
    BY FS_Subset
  <2>2. /\ SumOver(v, s) = IF s = {} THEN 0 ELSE v[First(s)] + SumOver(v, s \ {First(s)})
        /\ SumOver(w, s) = IF s = {} THEN 0 ELSE w[First(s)] + SumOver(w, s \ {First(s)})
    BY <2>1, SumUnfolds
  <2>3. CASE s = {}
    BY <2>2, <2>3
  <2>4. CASE s # {}
    <3>1. First(s) \in T /\ s \ {First(s)} \in P
      BY <1>1, <2>4, FirstMember
    <3> QED  BY <2>2, <2>4, <3>1
  <2> QED  BY <2>3, <2>4
<1>2. \A s \in SUBSET T : (\A r \in SUBSET s : r # s => r \in P) => s \in P
  BY <1>1
<1>3. T \in P
  <2> HIDE DEF P
  <2> QED  BY <1>2, OverSubsets
<1> QED  BY <1>3

(* A sum of naturals is a natural.                                         *)
LEMMA SumType ==
  ASSUME NEW T, IsFiniteSet(T), NEW v, \A t \in T : v[t] \in Nat
  PROVE  SumOver(v, T) \in Nat
<1> DEFINE P == {s \in SUBSET T : SumOver(v, s) \in Nat}
<1>1. ASSUME NEW s \in SUBSET T, \A r \in SUBSET s : r # s => r \in P PROVE s \in P
  <2>1. IsFiniteSet(s)
    BY FS_Subset
  <2>2. SumOver(v, s) = IF s = {} THEN 0 ELSE v[First(s)] + SumOver(v, s \ {First(s)})
    BY <2>1, SumUnfolds
  <2>3. CASE s = {}
    BY <2>2, <2>3
  <2>4. CASE s # {}
    <3>1. First(s) \in T /\ s \ {First(s)} \in P
      BY <1>1, <2>4, FirstMember
    <3> QED  BY <2>2, <2>4, <3>1
  <2> QED  BY <2>3, <2>4
<1>2. \A s \in SUBSET T : (\A r \in SUBSET s : r # s => r \in P) => s \in P
  BY <1>1
<1>3. T \in P
  <2> HIDE DEF P
  <2> QED  BY <1>2, OverSubsets
<1> QED  BY <1>3

(* The order in which a sum takes its elements does not matter.            *)
LEMMA SumTakesOut ==
  ASSUME NEW T, IsFiniteSet(T), NEW v, \A t \in T : v[t] \in Nat
  PROVE  \A t \in T : SumOver(v, T) = v[t] + SumOver(v, T \ {t})
<1> DEFINE P == {s \in SUBSET T : \A t \in s : SumOver(v, s) = v[t] + SumOver(v, s \ {t})}
<1>1. ASSUME NEW s \in SUBSET T, \A r \in SUBSET s : r # s => r \in P PROVE s \in P
  <2> SUFFICES ASSUME NEW t \in s PROVE SumOver(v, s) = v[t] + SumOver(v, s \ {t})
    OBVIOUS
  <2> DEFINE x == First(s)
             u == s \ {x}
             w == s \ {t}
  <2>1. /\ x \in s /\ u \in SUBSET s /\ u # s /\ w \in SUBSET s /\ w # s
        /\ IsFiniteSet(s) /\ u \in P /\ w \in P /\ v[x] \in Nat /\ v[t] \in Nat
    BY <1>1, FirstMember, FS_Subset
  <2>2. SumOver(v, s) = v[x] + SumOver(v, u)
    BY <2>1, SumUnfolds
  <2>3. CASE t = x
    BY <2>2, <2>3
  <2>4. CASE t # x
    <3>1. SumOver(v, u) = v[t] + SumOver(v, u \ {t})
      BY <2>1, <2>4
    <3>2. SumOver(v, w) = v[x] + SumOver(v, w \ {x})
      BY <2>1, <2>4
    <3>3. u \ {t} = w \ {x}
      OBVIOUS
    <3>4. SumOver(v, w \ {x}) \in Nat
      <4>1. IsFiniteSet(w \ {x}) /\ \A y \in w \ {x} : v[y] \in Nat
        BY <2>1, FS_Subset
      <4> QED  BY <4>1, SumType
    <3> HIDE DEF x, u, w
    <3> QED  BY <2>1, <2>2, <3>1, <3>2, <3>3, <3>4, SMTT(30) DEF w
  <2> QED  BY <2>3, <2>4
<1>2. \A s \in SUBSET T : (\A r \in SUBSET s : r # s => r \in P) => s \in P
  BY <1>1
<1>3. T \in P
  <2> HIDE DEF P
  <2> QED  BY <1>2, OverSubsets
<1> QED  BY <1>3

(* Sums over disjoint sets add up, and a larger set has no smaller sum.    *)
LEMMA SumDisjoint ==
  ASSUME NEW A, IsFiniteSet(A), NEW B, IsFiniteSet(B), A \cap B = {},
         NEW v, \A t \in A \cup B : v[t] \in Nat
  PROVE  SumOver(v, A \cup B) = SumOver(v, A) + SumOver(v, B)
<1> DEFINE P == {s \in SUBSET A : SumOver(v, s \cup B) = SumOver(v, s) + SumOver(v, B)}
<1>1. SumOver(v, B) \in Nat
  BY SumType
<1>2. ASSUME NEW s \in SUBSET A, \A r \in SUBSET s : r # s => r \in P PROVE s \in P
  <2>1. IsFiniteSet(s) /\ IsFiniteSet(s \cup B)
    BY FS_Subset, FS_Union
  <2>2. CASE s = {}
    <3>1. SumOver(v, s) = 0
      BY <2>1, <2>2, SumUnfolds
    <3>2. s \cup B = B
      BY <2>2
    <3>3. SumOver(v, s \cup B) = SumOver(v, s) + SumOver(v, B)
      <4> DEFINE C == s \cup B
      <4>1. C = B
        BY <3>2
      <4> HIDE DEF C
      <4>2. SumOver(v, C) = SumOver(v, B)
        BY <4>1
      <4>3. SumOver(v, C) = SumOver(v, s) + SumOver(v, B)
        BY <1>1, <3>1, <4>2
      <4> QED  BY <4>3 DEF C
    <3> QED  BY <3>3
  <2>3. CASE s # {}
    <3> DEFINE x == First(s)
               r == s \ {x}
    <3>1. x \in s /\ x \in s \cup B /\ x \notin B /\ r \in P /\ v[x] \in Nat
      BY <1>2, <2>3, FirstMember
    <3>2. SumOver(v, s) = v[x] + SumOver(v, r)
      BY <2>1, <2>3, SumUnfolds
    <3>3. SumOver(v, s \cup B) = v[x] + SumOver(v, (s \cup B) \ {x})
      <4>1. \A t \in s \cup B : v[t] \in Nat
        OBVIOUS
      <4> QED  BY <2>1, <3>1, <4>1, SumTakesOut
    <3>4. (s \cup B) \ {x} = r \cup B
      BY <3>1
    <3>5. SumOver(v, r) \in Nat
      <4>1. IsFiniteSet(r) /\ \A t \in r : v[t] \in Nat
        BY <2>1, FS_Subset
      <4> QED  BY <4>1, SumType
    <3>6. SumOver(v, r \cup B) = SumOver(v, r) + SumOver(v, B)
      BY <3>1
    <3> HIDE DEF x, r
    <3> QED  BY <1>1, <3>1, <3>2, <3>3, <3>4, <3>5, <3>6
  <2> QED  BY <2>2, <2>3
<1>3. \A s \in SUBSET A : (\A r \in SUBSET s : r # s => r \in P) => s \in P
  BY <1>2
<1>4. A \in P
  <2> HIDE DEF P
  <2> QED  BY <1>3, OverSubsets
<1> QED  BY <1>4

(* A sum over more rows is no smaller.                                     *)
LEMMA SumMonotone ==
  ASSUME NEW B, IsFiniteSet(B), NEW A \in SUBSET B, NEW v, \A t \in B : v[t] \in Nat
  PROVE  SumOver(v, A) <= SumOver(v, B)
<1>1. IsFiniteSet(A) /\ IsFiniteSet(B \ A) /\ A \cap (B \ A) = {} /\ A \cup (B \ A) = B
  BY FS_Subset
<1>2. SumOver(v, B) = SumOver(v, A) + SumOver(v, B \ A)
  BY <1>1, SumDisjoint
<1>3. SumOver(v, A) \in Nat /\ SumOver(v, B \ A) \in Nat
  <2>1. (\A t \in A : v[t] \in Nat) /\ (\A t \in B \ A : v[t] \in Nat)
    OBVIOUS
  <2> QED  BY <1>1, <2>1, SumType
<1> QED  BY <1>2, <1>3

-----------------------------------------------------------------------------
(* The recursive function by which Within goes along a list.               *)
Keeps(f, s, S) ==
  f = [n \in 0..Len(s) |->
         IF n = 0 THEN <<>>
         ELSE IF s[n] \in S THEN Append(f[n - 1], s[n]) ELSE f[n - 1]]

Kept(s, S) == CHOOSE f : Keeps(f, s, S)

(* The function exists, and Within is its last value.                      *)
LEMMA KeptStep ==
  ASSUME NEW s, Len(s) \in Nat, NEW S
  PROVE  /\ Kept(s, S)[0] = <<>>
         /\ \A n \in 1..Len(s) :
              Kept(s, S)[n] = IF s[n] \in S THEN Append(Kept(s, S)[n - 1], s[n])
                              ELSE Kept(s, S)[n - 1]
         /\ Within(s, S) = Kept(s, S)[Len(s)]
<1> DEFINE N == Len(s)
           Part(f, m) == f = [n \in 0..m |->
                                IF n = 0 THEN <<>>
                                ELSE IF s[n] \in S THEN Append(f[n - 1], s[n]) ELSE f[n - 1]]
           M == {m \in 0..N : \E f : Part(f, m)}
<1>1. 0 \in M
  <2> DEFINE g == [n \in 0..0 |-> <<>>]
  <2>1. Part(g, 0)
    OBVIOUS
  <2> HIDE DEF g
  <2> QED  BY <2>1
<1>2. ASSUME NEW m \in 1..N, m - 1 \in M PROVE m \in M
  <2>1. PICK f : Part(f, m - 1)
    BY <1>2
  <2> DEFINE g == [n \in 0..m |->
                     IF n = m THEN IF s[m] \in S THEN Append(f[m - 1], s[m]) ELSE f[m - 1]
                     ELSE f[n]]
             h == [n \in 0..m |->
                     IF n = 0 THEN <<>>
                     ELSE IF s[n] \in S THEN Append(g[n - 1], s[n]) ELSE g[n - 1]]
  <2>2. ASSUME NEW n \in 0..m PROVE g[n] = h[n]
    <3>1. CASE n = m
      BY <1>2, <3>1
    <3>2. CASE n # m
      <4>1. n \in 0..(m - 1) /\ (n # 0 => n - 1 \in 0..m /\ n - 1 # m)
        BY <1>2, <3>2
      <4>2. f[n] = IF n = 0 THEN <<>>
                   ELSE IF s[n] \in S THEN Append(f[n - 1], s[n]) ELSE f[n - 1]
        BY <2>1, <4>1
      <4>3. n # 0 => g[n - 1] = f[n - 1]
        BY <4>1
      <4> QED  BY <3>2, <4>1, <4>2, <4>3
    <3> QED  BY <3>1, <3>2
  <2>3. Part(g, m)
    <3>1. g = h
      BY <2>2
    <3> QED  BY <3>1
  <2>4. \E f1 : Part(f1, m)
    <3> HIDE DEF g
    <3> QED  BY <2>3
  <2>5. m \in 0..N
    BY <1>2
  <2> QED  BY <2>4, <2>5
<1>3. \E f : Keeps(f, s, S)
  <2>1. N \in M
    <3>1. \A m \in 1..N : m - 1 \in M => m \in M
      BY <1>2
    <3>2. N \in Nat /\ N \in 0..N
      OBVIOUS
    <3> HIDE DEF M, N
    <3> QED  BY <1>1, <3>1, <3>2, UpTo
  <2> QED  BY <2>1 DEF Keeps
<1>4. Keeps(Kept(s, S), s, S)
  BY <1>3 DEF Kept
<1>5. Kept(s, S)[0] = <<>>
  BY <1>4 DEF Keeps
<1>6. ASSUME NEW n \in 1..N
      PROVE  Kept(s, S)[n] = IF s[n] \in S THEN Append(Kept(s, S)[n - 1], s[n])
                             ELSE Kept(s, S)[n - 1]
  <2>1. n \in 0..N /\ n # 0
    OBVIOUS
  <2> QED  BY <1>4, <2>1 DEF Keeps
<1>7. Within(s, S) = Kept(s, S)[N]
  BY DEF Within, Kept, Keeps
<1> QED  BY <1>5, <1>6, <1>7

(* Lists that begin alike keep the same elements of their beginnings.      *)
LEMMA KeptAgree ==
  ASSUME NEW s, Len(s) \in Nat, NEW t, Len(t) \in Nat, NEW S,
         NEW m \in Nat, m <= Len(s), m <= Len(t), \A i \in 1..m : s[i] = t[i]
  PROVE  Kept(s, S)[m] = Kept(t, S)[m]
<1> DEFINE M == {n \in 0..m : Kept(s, S)[n] = Kept(t, S)[n]}
<1>1. 0 \in M
  BY KeptStep
<1>2. ASSUME NEW n \in 1..m, n - 1 \in M PROVE n \in M
  <2>1. n \in 1..Len(s) /\ n \in 1..Len(t)
    OBVIOUS
  <2>2. Kept(s, S)[n] = IF s[n] \in S THEN Append(Kept(s, S)[n - 1], s[n])
                        ELSE Kept(s, S)[n - 1]
    BY <2>1, KeptStep
  <2>3. Kept(t, S)[n] = IF t[n] \in S THEN Append(Kept(t, S)[n - 1], t[n])
                        ELSE Kept(t, S)[n - 1]
    BY <2>1, KeptStep
  <2> QED  BY <1>2, <2>2, <2>3
<1>3. m \in M
  <2>1. \A n \in 1..m : n - 1 \in M => n \in M
    BY <1>2
  <2>2. m \in 0..m
    OBVIOUS
  <2> HIDE DEF M
  <2> QED  BY <1>1, <2>1, <2>2, UpTo
<1> QED  BY <1>3

(* An element more at the end of the list is kept or not.                  *)
LEMMA WithinAppend ==
  ASSUME NEW T, NEW s \in Seq(T), NEW x \in T, NEW S
  PROVE  Within(Append(s, x), S) =
           IF x \in S THEN Append(Within(s, S), x) ELSE Within(s, S)
<1> DEFINE t == Append(s, x)
           N == Len(s)
<1>1. /\ Len(s) \in Nat /\ Len(t) = N + 1 /\ t[N + 1] = x
      /\ \A i \in 1..N : s[i] = t[i]
  BY LenProperties, AppendProperties
<1>2. Kept(s, S)[N] = Kept(t, S)[N]
  <2> HIDE DEF t
  <2> QED  BY <1>1, KeptAgree
<1>3. Within(s, S) = Kept(s, S)[N]
  BY <1>1, KeptStep
<1>4. Within(t, S) = Kept(t, S)[N + 1]
  <2> HIDE DEF t
  <2> QED  BY <1>1, KeptStep
<1>5. Kept(t, S)[N + 1] = IF t[N + 1] \in S THEN Append(Kept(t, S)[(N + 1) - 1], t[N + 1])
                          ELSE Kept(t, S)[(N + 1) - 1]
  <2>1. N + 1 \in 1..Len(t) /\ Len(t) \in Nat
    BY <1>1
  <2> HIDE DEF t, N
  <2> QED  BY <2>1, KeptStep
<1>6. (N + 1) - 1 = N
  BY <1>1
<1> HIDE DEF t, N
<1> QED  BY <1>1, <1>2, <1>3, <1>4, <1>5, <1>6 DEF t

(* Of an empty list nothing is kept.                                       *)
LEMMA WithinEmpty ==
  ASSUME NEW S
  PROVE  Within(<<>>, S) = <<>>
<1>1. Len(<<>>) = 0
  OBVIOUS
<1> QED  BY <1>1, KeptStep

(* The first n elements of a list.                                         *)
FirstOf(s, n) == {s[i] : i \in 1..n}

(* What is kept of the first n elements are those that are in the set.     *)
LEMMA KeptElements ==
  ASSUME NEW T, NEW s \in Seq(T), NEW S
  PROVE  \A n \in 0..Len(s) : /\ Kept(s, S)[n] \in Seq(T \cap S)
                              /\ Range(Kept(s, S)[n]) = FirstOf(s, n) \cap S
<1> DEFINE N == Len(s)
           M == {n \in 0..N : /\ Kept(s, S)[n] \in Seq(T \cap S)
                              /\ Range(Kept(s, S)[n]) = FirstOf(s, n) \cap S}
<1>1. N \in Nat /\ DOMAIN s = 1..N /\ \A n \in 1..N : s[n] \in T
  BY LenProperties, ElementOfSeq
<1>2. 0 \in M
  <2>1. Kept(s, S)[0] = <<>>
    BY <1>1, KeptStep
  <2>2. FirstOf(s, 0) = {} /\ Range(<<>>) = {} /\ <<>> \in Seq(T \cap S)
    BY DEF Range, FirstOf
  <2>3. Kept(s, S)[0] \in Seq(T \cap S)
    BY <2>1, <2>2
  <2>4. Range(Kept(s, S)[0]) = FirstOf(s, 0) \cap S
    BY <2>1, <2>2
  <2> QED  BY <1>1, <2>3, <2>4
<1>3. ASSUME NEW n \in 1..N, n - 1 \in M PROVE n \in M
  <2> DEFINE q == Kept(s, S)[n - 1]
             r == Kept(s, S)[n]
  <2>1. r = IF s[n] \in S THEN Append(q, s[n]) ELSE q
    BY <1>1, KeptStep
  <2>2. q \in Seq(T \cap S) /\ Range(q) = FirstOf(s, n - 1) \cap S /\ n \in 0..N
    BY <1>3
  <2>3. FirstOf(s, n) = FirstOf(s, n - 1) \cup {s[n]}
    <3>1. 1..n = (1..(n - 1)) \cup {n}
      BY <1>1
    <3> QED  BY <3>1 DEF FirstOf
  <2>4. r \in Seq(T \cap S) /\ Range(r) = FirstOf(s, n) \cap S
    <3> HIDE DEF q, r
    <3>1. CASE s[n] \in S
      <4>1. /\ r = Append(q, s[n]) /\ Len(q) \in Nat /\ r \in Seq(T \cap S)
            /\ Len(r) = Len(q) + 1 /\ r[Len(q) + 1] = s[n]
            /\ \A i \in 1..Len(q) : r[i] = q[i]
        BY <1>1, <2>1, <2>2, <3>1, LenProperties, AppendProperties
      <4>2. DOMAIN r = DOMAIN q \cup {Len(q) + 1} /\ DOMAIN q = 1..Len(q)
        BY <2>2, <4>1, LenProperties
      <4>3. Range(r) = Range(q) \cup {s[n]}
        BY <4>1, <4>2 DEF Range
      <4> QED  BY <2>2, <2>3, <3>1, <4>1, <4>3
    <3>2. CASE s[n] \notin S
      BY <2>1, <2>2, <2>3, <3>2
    <3> QED  BY <3>1, <3>2
  <2> QED  BY <2>2, <2>4
<1>4. \A n \in 0..N : n \in M
  <2>1. \A n \in 1..N : n - 1 \in M => n \in M
    BY <1>3
  <2> HIDE DEF M, N
  <2> QED  BY <1>1, <1>2, <2>1, UpTo
<1> QED  BY <1>4

(* What is kept are the elements of the list that are in the set.          *)
LEMMA WithinElements ==
  ASSUME NEW T, NEW s \in Seq(T), NEW S
  PROVE  /\ Within(s, S) \in Seq(T \cap S)
         /\ Range(Within(s, S)) = Range(s) \cap S
<1>1. Len(s) \in Nat /\ DOMAIN s = 1..Len(s)
  BY LenProperties
<1>2. Within(s, S) = Kept(s, S)[Len(s)]
  BY <1>1, KeptStep
<1>3. Range(s) = FirstOf(s, Len(s))
  BY <1>1 DEF Range, FirstOf
<1> QED  BY <1>1, <1>2, <1>3, KeptElements

(* Of a list without repetitions no more is kept, and none twice.          *)
LEMMA WithinInjective ==
  ASSUME NEW T, NEW s \in Seq(T), NEW S, IsInjective(s)
  PROVE  IsInjective(Within(s, S)) /\ Len(Within(s, S)) <= Len(s)
<1> DEFINE N == Len(s)
           M == {n \in 0..N : IsInjective(Kept(s, S)[n]) /\ Len(Kept(s, S)[n]) <= n}
<1>1. N \in Nat /\ DOMAIN s = 1..N /\ \A n \in 1..N : s[n] \in T
  BY LenProperties, ElementOfSeq
<1>2. 0 \in M
  <2>1. Kept(s, S)[0] = <<>>
    BY <1>1, KeptStep
  <2>2. IsInjective(<<>>) /\ Len(<<>>) = 0
    BY DEF IsInjective
  <2> QED  BY <1>1, <2>1, <2>2
<1>3. ASSUME NEW n \in 1..N, n - 1 \in M PROVE n \in M
  <2> DEFINE q == Kept(s, S)[n - 1]
             r == Kept(s, S)[n]
  <2>1. r = IF s[n] \in S THEN Append(q, s[n]) ELSE q
    BY <1>1, KeptStep
  <2>2. IsInjective(q) /\ Len(q) <= n - 1 /\ n \in 0..N /\ n - 1 \in 0..N
    BY <1>1, <1>3
  <2>3. q \in Seq(T \cap S) /\ Range(q) = FirstOf(s, n - 1) \cap S
    BY <2>2, KeptElements
  <2>4. s[n] \notin Range(q)
    <3>1. s[n] \notin FirstOf(s, n - 1)
      BY <1>1 DEF FirstOf, IsInjective
    <3> QED  BY <2>3, <3>1
  <2>5. IsInjective(r) /\ Len(r) <= n
    <3> HIDE DEF q, r
    <3>1. CASE s[n] \in S
      <4>1. /\ Len(q) \in Nat /\ DOMAIN q = 1..Len(q) /\ DOMAIN r = 1..(Len(q) + 1)
            /\ Len(r) = Len(q) + 1 /\ r[Len(q) + 1] = s[n]
            /\ \A i \in 1..Len(q) : r[i] = q[i]
        BY <1>1, <2>1, <2>3, <3>1, LenProperties, AppendProperties
      <4>2. \A i \in 1..Len(q) : q[i] # s[n]
        BY <2>4, <4>1 DEF Range
      <4> QED  BY <2>2, <4>1, <4>2 DEF IsInjective
    <3>2. CASE s[n] \notin S
      <4>1. Len(q) \in Nat
        BY <2>3, LenProperties
      <4> QED  BY <1>1, <2>1, <2>2, <3>2, <4>1
    <3> QED  BY <3>1, <3>2
  <2> QED  BY <2>2, <2>5
<1>4. N \in M
  <2>1. \A n \in 1..N : n - 1 \in M => n \in M
    BY <1>3
  <2>2. N \in 0..N
    BY <1>1
  <2> HIDE DEF M, N
  <2> QED  BY <1>1, <1>2, <2>1, <2>2, UpTo
<1>5. Within(s, S) = Kept(s, S)[N]
  BY <1>1, KeptStep
<1> QED  BY <1>4, <1>5

-----------------------------------------------------------------------------
(* A batch gives one image after another.                                  *)
LEMMA ImagesStep ==
  ASSUME NEW d, NEW b, Len(b) \in Nat, NEW now
  PROVE  LET im == Images(d, b, now)
         IN /\ im[0] = d
            /\ \A n \in 1..Len(b) : im[n] = ApplyOne(im[n - 1], b[n], now)
            /\ ApplyBatch(d, b, now) = im[Len(b)]
<1> DEFINE N == Len(b)
           Body(f) == [n \in 0..N |-> IF n = 0 THEN d ELSE ApplyOne(f[n - 1], b[n], now)]
           im == Images(d, b, now)
           Part(f, m) == f = [n \in 0..m |-> IF n = 0 THEN d ELSE ApplyOne(f[n - 1], b[n], now)]
           S == {m \in 0..N : \E f : Part(f, m)}
<1>1. im = CHOOSE f : f = Body(f)
  BY DEF Images
<1>2. 0 \in S
  <2> DEFINE g == [n \in 0..0 |-> d]
  <2>1. Part(g, 0)
    OBVIOUS
  <2> HIDE DEF g
  <2> QED  BY <2>1
<1>3. ASSUME NEW m \in 1..N, m - 1 \in S PROVE m \in S
  <2>1. PICK f : Part(f, m - 1)
    BY <1>3
  <2> DEFINE g == [n \in 0..m |-> IF n = m THEN ApplyOne(f[m - 1], b[m], now) ELSE f[n]]
             h == [n \in 0..m |-> IF n = 0 THEN d ELSE ApplyOne(g[n - 1], b[n], now)]
  <2>2. ASSUME NEW n \in 0..m PROVE g[n] = h[n]
    <3>1. CASE n = m
      BY <1>3, <3>1
    <3>2. CASE n # m
      <4>1. n \in 0..(m - 1) /\ (n # 0 => n - 1 \in 0..m /\ n - 1 # m)
        BY <1>3, <3>2
      <4>2. f[n] = IF n = 0 THEN d ELSE ApplyOne(f[n - 1], b[n], now)
        BY <2>1, <4>1
      <4>3. n # 0 => g[n - 1] = f[n - 1]
        BY <4>1
      <4> QED  BY <3>2, <4>1, <4>2, <4>3
    <3> QED  BY <3>1, <3>2
  <2>3. Part(g, m)
    <3>1. g = h
      BY <2>2
    <3> QED  BY <3>1
  <2> HIDE DEF g
  <2> QED  BY <2>3
<1>4. \E f : f = Body(f)
  <2>1. N \in S
    <3>1. \A m \in 1..N : m - 1 \in S => m \in S
      BY <1>3
    <3>2. N \in Nat /\ N \in 0..N
      OBVIOUS
    <3> HIDE DEF S, N
    <3> QED  BY <1>2, <3>1, <3>2, UpTo
  <2> QED  BY <2>1
<1>5. im = Body(im)
  BY <1>1, <1>4
<1> HIDE DEF im
<1>6. im[0] = d
  BY <1>5
<1>7. ASSUME NEW n \in 1..N PROVE im[n] = ApplyOne(im[n - 1], b[n], now)
  <2>1. n \in 0..N /\ n # 0
    OBVIOUS
  <2> QED  BY <1>5, <2>1
<1>8. ApplyBatch(d, b, now) = im[N]
  BY DEF ApplyBatch, im
<1> QED  BY <1>6, <1>7, <1>8 DEF im

-----------------------------------------------------------------------------
(* What no later event takes away from a transaction row: its identity, a  *)
(* contradiction once recorded and a time once known.                      *)
Sticky(r, q) ==
  /\ q.merchant_id = r.merchant_id /\ q.amount_minor = r.amount_minor
  /\ q.currency = r.currency
  /\ r.has_amount_mismatch = 1 => q.has_amount_mismatch = 1
  /\ r.has_merchant_mismatch = 1 => q.has_merchant_mismatch = 1
  /\ r.duplicate_event_count > 0 => q.duplicate_event_count > 0
  /\ \A c \in Columns : r.at[c] # NULL => q.at[c] # NULL

(* newer is what a request made of older.                                  *)
Extended(older, newer, now) ==
  /\ ContinuedBy(older, newer, now)
  /\ \A t \in DOMAIN older.transactions :
       /\ t \in DOMAIN newer.transactions
       /\ Sticky(older.transactions[t], newer.transactions[t])
  /\ DOMAIN older.merchants \subseteq DOMAIN newer.merchants

(* The merchants table holds the merchants the events name.                *)
MerchantsNamed(d) ==
  DOMAIN d.merchants = {d.events[i].payload.merchant_id : i \in DOMAIN d.events}

(* A database extends itself.                                              *)
LEMMA ExtendedReflexive ==
  ASSUME NEW d, NEW now
  PROVE  Extended(d, d, now)
  BY DEF Extended, ContinuedBy, Sticky

(* Extensions by one request add up.                                       *)
LEMMA ExtendedTransitive ==
  ASSUME NEW a, NEW b, NEW c, NEW now, Extended(a, b, now), Extended(b, c, now)
  PROVE  Extended(a, c, now)
<1>1. ContinuedBy(a, c, now)
  BY ContinuedTransitive DEF Extended
<1>2. ASSUME NEW t \in DOMAIN a.transactions
      PROVE  t \in DOMAIN c.transactions /\ Sticky(a.transactions[t], c.transactions[t])
  BY <1>2 DEF Extended, Sticky
<1> QED  BY <1>1, <1>2 DEF Extended

(* Folding an event into a row keeps its identity, its contradictions and  *)
(* its times.                                                              *)
LEMMA FoldSticky ==
  ASSUME NEW r \in TxnRow, NEW e \in EventIn, NEW now
  PROVE  Sticky(r, FoldTxn(r, e, now))
<1> DEFINE q == FoldTxn(r, e, now)
<1>1. /\ q.merchant_id = r.merchant_id /\ q.amount_minor = r.amount_minor
      /\ q.currency = r.currency /\ q.duplicate_event_count = r.duplicate_event_count
      /\ q.has_amount_mismatch =
           Flag(r.has_amount_mismatch, r.amount_minor, ToMinorUnits(e.amount))
      /\ q.has_merchant_mismatch = Flag(r.has_merchant_mismatch, r.merchant_id, e.merchant_id)
      /\ q.at = [c \in Columns |-> FoldTime(r.at[c], TimeParams(e)[c])]
  BY DEF FoldTxn, TxnRow
<1>2. ASSUME NEW c \in Columns, r.at[c] # NULL PROVE q.at[c] # NULL
  <2>1. r.at[c] \in Nat /\ TimeParams(e)[c] \in {e.timestamp, NULL} /\ e.timestamp \in Nat
    BY <1>2 DEF TxnRow, TimeParams, EventIn
  <2>2. FoldTime(r.at[c], NULL) \in Nat /\ FoldTime(r.at[c], e.timestamp) \in Nat
    BY <2>1, FoldTimeMin
  <2>3. q.at[c] \in Nat
    BY <1>1, <2>1, <2>2
  <2> QED  BY <2>3, NullAssumption
<1> HIDE DEF q
<1>3. Sticky(r, q)
  BY <1>1, <1>2 DEF Sticky, Flag
<1> QED  BY <1>3 DEF q

(* Storing a new event takes nothing from the database.                    *)
LEMMA ApplyNewExtends ==
  ASSUME NEW d, IsDb(d), NEW e \in EventIn, NEW now \in Nat
  PROVE  /\ Extended(d, ApplyNew(d, e, now), now)
         /\ MerchantsNamed(d) => MerchantsNamed(ApplyNew(d, e, now))
<1> DEFINE row == [payload |-> e, received_at |-> now]
           n == ApplyNew(d, e, now)
           k == Len(d.events) + 1
<1>1. /\ n.events = Append(d.events, row)
      /\ n.transactions = UpsertTransaction(d.transactions, e, now)
      /\ n.merchants = UpsertMerchant(d.merchants, e, now)
  BY DEF ApplyNew
<1>2. row \in EventRow /\ row.received_at = now /\ row.payload = e
  BY DEF EventRow
<1>3. /\ DOMAIN n.events = DOMAIN d.events \cup {k} /\ n.events[k] = row
      /\ \A i \in DOMAIN d.events : n.events[i] = d.events[i]
  BY <1>1, <1>2, Appended DEF IsDb
<1>4. ContinuedBy(d, n, now)
  <2> HIDE DEF n, row, k
  <2> QED  BY <1>2, <1>3 DEF ContinuedBy
<1>5. DOMAIN n.merchants = DOMAIN d.merchants \cup {e.merchant_id}
  <2>1. IsTable(d.merchants, Merchants, MerchantRow)
    BY DEF IsDb
  <2> QED  BY <1>1, <2>1, MerchantRegistered, ZenonT(60)
<1>6. ASSUME NEW t \in DOMAIN d.transactions
      PROVE  t \in DOMAIN n.transactions /\ Sticky(d.transactions[t], n.transactions[t])
  <2>1. d.transactions[t] \in TxnRow
    BY DEF IsDb, IsTable
  <2>2. /\ t \in DOMAIN n.transactions
        /\ n.transactions[t] = IF t = e.transaction_id
                               THEN FoldTxn(d.transactions[t], e, now) ELSE d.transactions[t]
    BY <1>1 DEF UpsertTransaction, Put
  <2>3. Sticky(d.transactions[t], FoldTxn(d.transactions[t], e, now))
    BY <2>1, FoldSticky
  <2>4. Sticky(d.transactions[t], d.transactions[t])
    BY DEF Sticky
  <2> QED  BY <2>2, <2>3, <2>4
<1> HIDE DEF n, row, k
<1>7. Extended(d, n, now)
  BY <1>4, <1>5, <1>6 DEF Extended
<1>8. MerchantsNamed(d) => MerchantsNamed(n)
  BY <1>2, <1>3, <1>5 DEF MerchantsNamed
<1> QED  BY <1>7, <1>8 DEF n

(* Absorbing a redelivery takes nothing from the database.                 *)
LEMMA ApplyReplayExtends ==
  ASSUME NEW d, GoodDb(d), NEW e \in EventIn, NEW now \in Nat,
         e.event_id \in Ids(d.events)
  PROVE  /\ Extended(d, ApplyReplay(d, e, now), now)
         /\ MerchantsNamed(d) => MerchantsNamed(ApplyReplay(d, e, now))
<1> DEFINE t0 == Existing(d.events, e.event_id).transaction_id
           n == ApplyReplay(d, e, now)
           k == d.transactions[t0].duplicate_event_count + 1
<1>1. IsDb(d) /\ KeysHold(d) /\ d.events \in Seq(EventRow)
  BY DEF GoodDb, IsDb
<1>2. t0 \in DOMAIN d.transactions
  BY <1>1, ExistingStored DEF KeysHold
<1>3. /\ n.events = d.events /\ n.merchants = d.merchants
      /\ n.transactions = BumpDuplicate(d.transactions, t0, now)
  BY <1>1 DEF ApplyReplay, IsDb
<1>4. \A t \in DOMAIN d.transactions : d.transactions[t] \in TxnRow
  BY <1>1, SMTT(30) DEF IsDb, IsTable
<1>5. /\ DOMAIN n.transactions = DOMAIN d.transactions
      /\ \A t \in DOMAIN d.transactions : t # t0 => n.transactions[t] = d.transactions[t]
      /\ n.transactions[t0] =
           [d.transactions[t0] EXCEPT !.duplicate_event_count = k, !.updated_at = now]
  BY <1>2, <1>3, <1>4 DEF BumpDuplicate, TxnRow
<1>6. k \in Nat /\ k > 0
  BY <1>2, <1>4 DEF TxnRow
<1> HIDE DEF n, k, t0
<1>7. Sticky(d.transactions[t0], n.transactions[t0])
  BY <1>2, <1>4, <1>5, <1>6 DEF Sticky, TxnRow
<1>8. ASSUME NEW t \in DOMAIN d.transactions
      PROVE  t \in DOMAIN n.transactions /\ Sticky(d.transactions[t], n.transactions[t])
  <2>1. Sticky(d.transactions[t], d.transactions[t])
    BY DEF Sticky
  <2> QED  BY <1>5, <1>7, <2>1
<1>9. Extended(d, n, now)
  BY <1>3, <1>8 DEF Extended, ContinuedBy
<1>10. MerchantsNamed(d) => MerchantsNamed(n)
  BY <1>3 DEF MerchantsNamed
<1> QED  BY <1>9, <1>10 DEF n

(* Either branch of the loop keeps a database in order and takes nothing   *)
(* from it.                                                                *)
LEMMA ApplyOneExtends ==
  ASSUME NEW d, GoodDb(d), NEW e \in EventIn, NEW now \in Nat
  PROVE  /\ GoodDb(ApplyOne(d, e, now))
         /\ Extended(d, ApplyOne(d, e, now), now)
         /\ MerchantsNamed(d) => MerchantsNamed(ApplyOne(d, e, now))
<1>1. IsDb(d)
  BY DEF GoodDb
<1>2. CASE e.event_id \in Ids(d.events)
  <2>1. ApplyOne(d, e, now) = ApplyReplay(d, e, now)
    BY <1>2 DEF ApplyOne
  <2> QED  BY <1>2, <2>1, ApplyReplayExtends, ApplyReplayGood
<1>3. CASE e.event_id \notin Ids(d.events)
  <2>1. ApplyOne(d, e, now) = ApplyNew(d, e, now)
    BY <1>3 DEF ApplyOne
  <2> QED  BY <1>1, <1>3, <2>1, ApplyNewExtends, ApplyNewGood
<1> QED  BY <1>2, <1>3

(* A whole batch on a database in order leaves one in order, with a longer *)
(* log and no row, contradiction or time lost, however long the batch is.  *)
THEOREM BatchExtends ==
  ASSUME NEW d, GoodDb(d), NEW b \in Seq(EventIn), NEW now \in Nat
  PROVE  /\ GoodDb(ApplyBatch(d, b, now))
         /\ Extended(d, ApplyBatch(d, b, now), now)
         /\ MerchantsNamed(d) => MerchantsNamed(ApplyBatch(d, b, now))
<1> DEFINE N == Len(b)
           im == Images(d, b, now)
           S == {n \in 0..N : /\ GoodDb(im[n]) /\ Extended(d, im[n], now)
                              /\ MerchantsNamed(d) => MerchantsNamed(im[n])}
<1>1. N \in Nat /\ \A n \in 1..N : b[n] \in EventIn
  BY LenProperties, ElementOfSeq
<1>2. /\ im[0] = d
      /\ \A n \in 1..N : im[n] = ApplyOne(im[n - 1], b[n], now)
      /\ ApplyBatch(d, b, now) = im[N]
  BY <1>1, ImagesStep
<1> HIDE DEF im
<1>3. 0 \in S
  BY <1>1, <1>2, ExtendedReflexive
<1>4. ASSUME NEW n \in 1..N, n - 1 \in S PROVE n \in S
  <2>1. /\ GoodDb(im[n - 1]) /\ Extended(d, im[n - 1], now)
        /\ MerchantsNamed(d) => MerchantsNamed(im[n - 1])
    BY <1>4
  <2>2. /\ GoodDb(im[n]) /\ Extended(im[n - 1], im[n], now)
        /\ MerchantsNamed(im[n - 1]) => MerchantsNamed(im[n])
    BY <1>1, <1>2, <2>1, ApplyOneExtends
  <2>3. Extended(d, im[n], now)
    BY <2>1, <2>2, ExtendedTransitive
  <2> QED  BY <2>1, <2>2, <2>3
<1>5. N \in S
  <2>1. \A n \in 1..N : n - 1 \in S => n \in S
    BY <1>4
  <2>2. N \in 0..N
    BY <1>1
  <2> HIDE DEF S, N
  <2> QED  BY <1>1, <1>3, <2>1, <2>2, UpTo
<1> QED  BY <1>2, <1>5

-----------------------------------------------------------------------------
(* The batch against the abstract log: which of its events are new, where  *)
(* they land, and whose duplicates are counted.                            *)
Redelivered(d, t) ==
  IF t \in DOMAIN d.transactions THEN d.transactions[t].duplicate_event_count ELSE 0

OwnerOf(d, id) == Existing(d.events, id).transaction_id

(* The positions of b that bring an id the log d does not have.            *)
NewIn(d, b) ==
  {i \in DOMAIN b :
     /\ b[i].event_id \notin Ids(d.events)
     /\ \A j \in DOMAIN b : j < i => b[j].event_id # b[i].event_id}

PartOf(F, m) == {i \in F : i <= m}

(* The stored event of an id is any row that has it.                       *)
LEMMA OwnerKnown ==
  ASSUME NEW d, GoodDb(d), NEW i \in DOMAIN d.events
  PROVE  OwnerOf(d, d.events[i].payload.event_id) = d.events[i].payload.transaction_id
<1> DEFINE id == d.events[i].payload.event_id
<1>1. d.events \in Seq(EventRow) /\ id \in Ids(d.events)
  BY DEF GoodDb, IsDb, Ids
<1>2. PICK k \in DOMAIN d.events : /\ Existing(d.events, id) = d.events[k].payload
                                   /\ d.events[k].payload.event_id = id
  BY <1>1, ExistingStored
<1>3. k = i
  BY <1>2 DEF GoodDb, KeysHold
<1> QED  BY <1>2, <1>3 DEF OwnerOf

(* A later database gives every id the owner an earlier one gave it.       *)
LEMMA OwnerLasts ==
  ASSUME NEW a, GoodDb(a), NEW b, GoodDb(b), NEW now, Extended(a, b, now),
         NEW id \in Ids(a.events)
  PROVE  OwnerOf(b, id) = OwnerOf(a, id) /\ id \in Ids(b.events)
<1>1. PICK i \in DOMAIN a.events : a.events[i].payload.event_id = id
  BY DEF Ids
<1>2. i \in DOMAIN b.events /\ b.events[i] = a.events[i]
  BY DEF Extended, ContinuedBy
<1> QED  BY <1>1, <1>2, OwnerKnown DEF Ids

(* A redelivery is counted once, for the owner of the stored event.        *)
LEMMA ReplayCounts ==
  ASSUME NEW d, GoodDb(d), NEW e \in EventIn, e.event_id \in Ids(d.events), NEW now \in Nat
  PROVE  /\ ApplyReplay(d, e, now).events = d.events
         /\ \A t : Redelivered(ApplyReplay(d, e, now), t) =
                     Redelivered(d, t) + (IF t = OwnerOf(d, e.event_id) THEN 1 ELSE 0)
         /\ \A t : Redelivered(d, t) \in Nat
<1> DEFINE o == OwnerOf(d, e.event_id)
           n == ApplyReplay(d, e, now)
<1>1. IsDb(d) /\ KeysHold(d) /\ d.events \in Seq(EventRow)
  BY DEF GoodDb, IsDb
<1>2. o \in DOMAIN d.transactions
  BY <1>1, ExistingStored DEF KeysHold, OwnerOf
<1>3. /\ n.events = d.events
      /\ n.transactions = BumpDuplicate(d.transactions, o, now)
  BY <1>1 DEF ApplyReplay, IsDb, OwnerOf
<1>4. \A t \in DOMAIN d.transactions : d.transactions[t] \in TxnRow
  BY <1>1 DEF IsDb, IsTable
<1>5. /\ DOMAIN n.transactions = DOMAIN d.transactions
      /\ \A t \in DOMAIN d.transactions : t # o => n.transactions[t] = d.transactions[t]
      /\ n.transactions[o].duplicate_event_count = d.transactions[o].duplicate_event_count + 1
  BY <1>2, <1>3, <1>4 DEF BumpDuplicate, TxnRow
<1>6. \A t \in DOMAIN d.transactions : d.transactions[t].duplicate_event_count \in Nat
  BY <1>4 DEF TxnRow
<1> HIDE DEF n, o
<1>7. \A t : Redelivered(n, t) = Redelivered(d, t) + (IF t = o THEN 1 ELSE 0)
  BY <1>2, <1>5, <1>6 DEF Redelivered
<1>8. \A t : Redelivered(d, t) \in Nat
  BY <1>6 DEF Redelivered
<1> QED  BY <1>3, <1>7, <1>8 DEF n, o

(* Storing a new event counts no redelivery.                               *)
LEMMA NewCounts ==
  ASSUME NEW d, IsDb(d), NEW e \in EventIn, NEW now \in Nat
  PROVE  \A t : Redelivered(ApplyNew(d, e, now), t) = Redelivered(d, t)
<1> DEFINE n == ApplyNew(d, e, now)
           k == e.transaction_id
<1>1. /\ DOMAIN n.transactions = DOMAIN d.transactions \cup {k}
      /\ \A t \in DOMAIN d.transactions : t # k => n.transactions[t] = d.transactions[t]
      /\ n.transactions[k] = IF k \in DOMAIN d.transactions
                             THEN FoldTxn(d.transactions[k], e, now) ELSE FreshTxn(e, now)
  BY DEF ApplyNew, UpsertTransaction, Put
<1>2. FreshTxn(e, now).duplicate_event_count = 0
  BY DEF FreshTxn
<1>3. k \in DOMAIN d.transactions =>
        FoldTxn(d.transactions[k], e, now).duplicate_event_count
          = d.transactions[k].duplicate_event_count
  <2> SUFFICES ASSUME k \in DOMAIN d.transactions
               PROVE  FoldTxn(d.transactions[k], e, now).duplicate_event_count
                        = d.transactions[k].duplicate_event_count
    OBVIOUS
  <2>1. d.transactions[k] \in TxnRow
    BY DEF IsDb, IsTable
  <2> QED  BY <2>1 DEF FoldTxn, TxnRow
<1> HIDE DEF n, k
<1>4. \A t : Redelivered(n, t) = Redelivered(d, t)
  BY <1>1, <1>2, <1>3 DEF Redelivered
<1> QED  BY <1>4 DEF n

(* The first 0 positions hold nothing of F, and all of them all of it.     *)
LEMMA PartOfEnds ==
  ASSUME NEW N \in Nat, NEW F \in SUBSET (1..N)
  PROVE  PartOf(F, 0) = {} /\ PartOf(F, N) = F
<1>1. \A i \in F : i \in Nat /\ ~ (i <= 0) /\ i <= N
  OBVIOUS
<1> QED  BY <1>1 DEF PartOf

(* One more position adds itself to the part of F, or nothing.             *)
LEMMA PartOfStep ==
  ASSUME NEW N \in Nat, NEW F \in SUBSET (1..N), NEW m \in 1..N
  PROVE  /\ IsFiniteSet(PartOf(F, m)) /\ Cardinality(PartOf(F, m)) \in Nat
         /\ IsFiniteSet(PartOf(F, m - 1)) /\ Cardinality(PartOf(F, m - 1)) \in Nat
         /\ m \in F => /\ PartOf(F, m) = PartOf(F, m - 1) \cup {m}
                       /\ Cardinality(PartOf(F, m)) = Cardinality(PartOf(F, m - 1)) + 1
         /\ m \notin F => PartOf(F, m) = PartOf(F, m - 1)
<1>1. IsFiniteSet(1..N)
  BY FS_Interval
<1>2. \A k : IsFiniteSet(PartOf(F, k)) /\ Cardinality(PartOf(F, k)) \in Nat
  <2> TAKE k
  <2>1. PartOf(F, k) \in SUBSET (1..N)
    BY DEF PartOf
  <2> QED  BY <1>1, <2>1, FS_Subset, FS_CardinalityType
<1>3. \A i \in F : /\ (i <= m - 1) <=> (i <= m /\ i # m)
                  /\ i = m => i <= m /\ ~ (i <= m - 1)
  <2>1. \A i \in F : i \in Int
    OBVIOUS
  <2>2. m \in Int
    OBVIOUS
  <2> QED  BY <2>1, <2>2
<1> DEFINE old == PartOf(F, m - 1)
           new == PartOf(F, m)
<1>4. \A i : i \in new <=> i \in F /\ i <= m
  BY DEF PartOf
<1>5. \A i : i \in old <=> i \in F /\ i <= m - 1
  BY DEF PartOf
<1> HIDE DEF old, new
<1>6. \A i : i \in new <=> i \in old \/ (i = m /\ m \in F)
  <2> TAKE i
  <2>1. CASE i \in F
    <3>1. (i <= m - 1) <=> (i <= m /\ i # m)
      BY <1>3, <2>1
    <3>2. i = m => i <= m
      BY <1>3, <2>1
    <3> QED  BY <1>4, <1>5, <2>1, <3>1, <3>2
  <2>2. CASE i \notin F
    BY <1>4, <1>5, <2>2
  <2> QED  BY <2>1, <2>2
<1>7. m \in F => new = old \cup {m}
  BY <1>6
<1>8. m \notin F => new = old
  BY <1>6
<1>9. m \notin PartOf(F, m - 1)
  BY <1>3 DEF PartOf
<1>10. Cardinality(PartOf(F, m - 1) \cup {m}) = Cardinality(PartOf(F, m - 1)) + 1
  BY <1>2, <1>9, FS_AddElement
<1> QED  BY <1>2, <1>7, <1>8, <1>10 DEF old, new

(* The positions up to m whose event is a redelivery to t, in the log of x *)
(* that has them all.                                                      *)
Absorbed(d, b, x, m, t) == {i \in (1..m) \ NewIn(d, b) : OwnerOf(x, b[i].event_id) = t}

(* What the log d has become when it has taken m events of b: x.           *)
Reached(d, b, now, x, m) ==
  LET F == NewIn(d, b)
      Place(i) == Len(d.events) + Cardinality(PartOf(F, i))
  IN /\ GoodDb(x) /\ Extended(d, x, now)
     /\ Len(x.events) = Place(m)
     /\ Ids(x.events) = Ids(d.events) \cup {b[i].event_id : i \in 1..m}
     /\ \A i \in PartOf(F, m) : Place(i) \in DOMAIN x.events /\ x.events[Place(i)].payload = b[i]
     /\ \A k \in 1..Cardinality(PartOf(F, m)) :
          \E i \in PartOf(F, m) : Cardinality(PartOf(F, i)) = k
     /\ \A t : Redelivered(x, t) = Redelivered(d, t) + Cardinality(Absorbed(d, b, x, m, t))

(* Before its first event a batch has reached the database it found.       *)
LEMMA ReachedNothing ==
  ASSUME NEW d, GoodDb(d), NEW b \in Seq(EventIn), NEW now
  PROVE  Reached(d, b, now, d, 0)
<1> DEFINE F == NewIn(d, b)
<1>1. Len(b) \in Nat /\ DOMAIN b = 1..Len(b) /\ F \in SUBSET (1..Len(b))
  BY LenProperties DEF NewIn
<1>2. PartOf(F, 0) = {} /\ Cardinality(PartOf(F, 0)) = 0
  BY <1>1, PartOfEnds, FS_EmptySet
<1>3. Len(d.events) \in Nat
  BY LenProperties DEF GoodDb, IsDb
<1>4. \A t : Absorbed(d, b, d, 0, t) = {} /\ Cardinality(Absorbed(d, b, d, 0, t)) = 0
  BY FS_EmptySet DEF Absorbed
<1>5. \A t : Redelivered(d, t) \in Nat
  BY DEF Redelivered, GoodDb, IsDb, IsTable, TxnRow
<1>6. Extended(d, d, now)
  BY ExtendedReflexive
<1> HIDE DEF F
<1>7. /\ Len(d.events) = Len(d.events) + Cardinality(PartOf(F, 0))
      /\ \A t : Redelivered(d, t) = Redelivered(d, t) + Cardinality(Absorbed(d, b, d, 0, t))
  BY <1>2, <1>3, <1>4, <1>5
<1>8. Ids(d.events) = Ids(d.events) \cup {b[i].event_id : i \in 1..0}
  OBVIOUS
<1>9. 1..Cardinality(PartOf(F, 0)) = {}
  BY <1>2
<1> QED  BY <1>2, <1>6, <1>7, <1>8, <1>9 DEF Reached, F

(* Whether the loop finds the id decides whether the position is new.      *)
LEMMA FoundOrNew ==
  ASSUME NEW d, NEW b \in Seq(EventIn), NEW m \in 1..Len(b), NEW ids,
         ids = Ids(d.events) \cup {b[i].event_id : i \in 1..(m - 1)}
  PROVE  m \in NewIn(d, b) <=> b[m].event_id \notin ids
<1>1. Len(b) \in Nat /\ DOMAIN b = 1..Len(b)
  BY LenProperties
<1>2. \A j \in DOMAIN b : j < m <=> j \in 1..(m - 1)
  BY <1>1
<1>3. 1..(m - 1) \subseteq DOMAIN b
  BY <1>1
<1> QED  BY <1>1, <1>2, <1>3 DEF NewIn

(* A redelivery within a batch moves it one event on.                      *)
LEMMA ReachedReplay ==
  ASSUME NEW d, NEW b \in Seq(EventIn), NEW now \in Nat, NEW m \in 1..Len(b),
         NEW x, Reached(d, b, now, x, m - 1), b[m].event_id \in Ids(x.events), GoodDb(d)
  PROVE  Reached(d, b, now, ApplyReplay(x, b[m], now), m)
<1> DEFINE F == NewIn(d, b)
           e == b[m]
           n == ApplyReplay(x, e, now)
<1>1. Len(b) \in Nat /\ DOMAIN b = 1..Len(b) /\ e \in EventIn /\ F \in SUBSET (1..Len(b))
  BY LenProperties, ElementOfSeq DEF NewIn
<1>2. /\ GoodDb(x) /\ Extended(d, x, now)
      /\ Ids(x.events) = Ids(d.events) \cup {b[i].event_id : i \in 1..(m - 1)}
  BY DEF Reached
<1>3. m \notin F
  BY <1>2, FoundOrNew
<1>4. PartOf(F, m) = PartOf(F, m - 1)
  <2> DEFINE N == Len(b)
  <2>1. N \in Nat /\ F \in SUBSET (1..N) /\ m \in 1..N
    BY <1>1
  <2> HIDE DEF F, N
  <2> QED  BY <1>3, <2>1, PartOfStep, SMTT(30)
<1>5. /\ n.events = x.events
      /\ \A t : Redelivered(n, t) = Redelivered(x, t) + (IF t = OwnerOf(x, e.event_id) THEN 1 ELSE 0)
      /\ GoodDb(n) /\ Extended(x, n, now)
  BY <1>1, <1>2, ReplayCounts, ApplyReplayGood, ApplyReplayExtends
<1>6. Extended(d, n, now)
  BY <1>2, <1>5, ExtendedTransitive
<1>7. 1..m = 1..(m - 1) \cup {m}
  BY <1>1
<1>8. Ids(n.events) = Ids(d.events) \cup {b[i].event_id : i \in 1..m}
  BY <1>2, <1>5, <1>7
<1>9. ASSUME NEW t
      PROVE  Redelivered(n, t) = Redelivered(d, t) + Cardinality(Absorbed(d, b, n, m, t))
  <2> DEFINE A == Absorbed(d, b, x, m - 1, t)
             B == Absorbed(d, b, n, m, t)
  <2>1. \A id : OwnerOf(n, id) = OwnerOf(x, id)
    BY <1>5 DEF OwnerOf
  <2>2. IsFiniteSet(A) /\ Cardinality(A) \in Nat
    <3>1. IsFiniteSet(1..(m - 1)) /\ A \in SUBSET (1..(m - 1))
      BY <1>1, FS_Interval DEF Absorbed
    <3> QED  BY <3>1, FS_Subset, FS_CardinalityType
  <2>3. m \notin A
    BY <1>1 DEF Absorbed
  <2>4. B = IF OwnerOf(x, e.event_id) = t THEN A \cup {m} ELSE A
    BY <1>3, <1>7, <2>1 DEF Absorbed
  <2>5. Redelivered(x, t) = Redelivered(d, t) + Cardinality(A)
    BY DEF Reached
  <2>6. Redelivered(d, t) \in Nat
    BY DEF Redelivered, GoodDb, IsDb, IsTable, TxnRow
  <2> HIDE DEF A, B, n
  <2>7. Cardinality(B) = Cardinality(A) + (IF t = OwnerOf(x, e.event_id) THEN 1 ELSE 0)
    <3>1. CASE OwnerOf(x, e.event_id) = t
      <4>1. Cardinality(A \cup {m}) = Cardinality(A) + 1
        BY <2>2, <2>3, FS_AddElement
      <4> QED  BY <2>4, <3>1, <4>1
    <3>2. CASE OwnerOf(x, e.event_id) # t
      BY <2>2, <2>4, <3>2
    <3> QED  BY <3>1, <3>2
  <2>8. Redelivered(n, t) = Redelivered(d, t) + Cardinality(B)
    BY <1>5, <2>2, <2>5, <2>6, <2>7
  <2> QED  BY <2>8 DEF B
<1> HIDE DEF n, e, F
<1> QED  BY <1>4, <1>5, <1>6, <1>8, <1>9 DEF Reached, F, e, n

(* A new event within a batch moves it one event on.                       *)
LEMMA ReachedNew ==
  ASSUME NEW d, NEW b \in Seq(EventIn), NEW now \in Nat, NEW m \in 1..Len(b),
         NEW x, Reached(d, b, now, x, m - 1), b[m].event_id \notin Ids(x.events), GoodDb(d)
  PROVE  Reached(d, b, now, ApplyNew(x, b[m], now), m)
<1> DEFINE F == NewIn(d, b)
           e == b[m]
           n == ApplyNew(x, e, now)
           row == [payload |-> e, received_at |-> now]
           L == Len(d.events)
           c == Cardinality(PartOf(F, m - 1))
<1>1. Len(b) \in Nat /\ DOMAIN b = 1..Len(b) /\ e \in EventIn /\ F \in SUBSET (1..Len(b))
  BY LenProperties, ElementOfSeq DEF NewIn
<1>2. /\ GoodDb(x) /\ Extended(d, x, now) /\ Len(x.events) = L + c
      /\ Ids(x.events) = Ids(d.events) \cup {b[i].event_id : i \in 1..(m - 1)}
  BY DEF Reached
<1>3. m \in F
  BY <1>2, FoundOrNew
<1>4. /\ PartOf(F, m) = PartOf(F, m - 1) \cup {m}
      /\ Cardinality(PartOf(F, m)) = c + 1 /\ c \in Nat
  <2> DEFINE N == Len(b)
  <2>1. N \in Nat /\ F \in SUBSET (1..N) /\ m \in 1..N
    BY <1>1
  <2> HIDE DEF F, N
  <2>2. PartOf(F, m) = PartOf(F, m - 1) \cup {m}
    BY <1>3, <2>1, PartOfStep
  <2>3. Cardinality(PartOf(F, m)) = Cardinality(PartOf(F, m - 1)) + 1
    <3>1. IsFiniteSet(PartOf(F, m - 1))
      BY <2>1, PartOfStep
    <3>2. m \notin PartOf(F, m - 1)
      BY <2>1 DEF PartOf
    <3> QED  BY <2>2, <3>1, <3>2, FS_AddElement
  <2>4. Cardinality(PartOf(F, m - 1)) \in Nat
    BY <2>1, PartOfStep
  <2> QED  BY <2>2, <2>3, <2>4
<1>5. x.events \in Seq(EventRow) /\ row \in EventRow /\ IsDb(x)
  BY <1>1, <1>2 DEF GoodDb, IsDb, EventRow
<1>6. GoodDb(n) /\ Extended(x, n, now) /\ n.events = Append(x.events, row)
  <2>1. n.events = Append(x.events, row)
    BY DEF ApplyNew
  <2> QED  BY <1>1, <1>2, <1>5, <2>1, ApplyNewGood, ApplyNewExtends
<1>7. Extended(d, n, now)
  BY <1>2, <1>6, ExtendedTransitive
<1>8. /\ Len(n.events) = Len(x.events) + 1 /\ Len(x.events) \in Nat
      /\ DOMAIN n.events = DOMAIN x.events \cup {Len(x.events) + 1}
      /\ n.events[Len(x.events) + 1] = row
      /\ \A i \in DOMAIN x.events : n.events[i] = x.events[i]
  BY <1>5, <1>6, Appended, SMTT(30)
<1>9. 1..m = 1..(m - 1) \cup {m}
  BY <1>1
<1>10. L \in Nat
  BY LenProperties DEF GoodDb, IsDb
<1>11. Ids(n.events) = Ids(d.events) \cup {b[i].event_id : i \in 1..m}
  <2>1. Ids(n.events) = Ids(x.events) \cup {e.event_id}
    BY <1>5, <1>6, EventsOfAppend
  <2> QED  BY <1>2, <1>9, <2>1
<1>12. ASSUME NEW i \in PartOf(F, m)
       PROVE  /\ L + Cardinality(PartOf(F, i)) \in DOMAIN n.events
              /\ n.events[L + Cardinality(PartOf(F, i))].payload = b[i]
  <2>1. CASE i = m
    <3>1. L + Cardinality(PartOf(F, m)) = Len(x.events) + 1
      <4> HIDE DEF F, L, c
      <4> QED  BY <1>2, <1>4, <1>10
    <3>2. row.payload = e
      OBVIOUS
    <3> HIDE DEF F, L, n, row
    <3> QED  BY <1>8, <2>1, <3>1, <3>2
  <2>2. CASE i # m
    <3>1. i \in PartOf(F, m - 1)
      BY <1>4, <2>2
    <3>2. /\ L + Cardinality(PartOf(F, i)) \in DOMAIN x.events
          /\ x.events[L + Cardinality(PartOf(F, i))].payload = b[i]
      BY <3>1 DEF Reached
    <3> HIDE DEF F, L, n, row
    <3> QED  BY <1>8, <3>2
  <2> QED  BY <2>1, <2>2
<1>13. ASSUME NEW k \in 1..Cardinality(PartOf(F, m))
       PROVE  \E i \in PartOf(F, m) : Cardinality(PartOf(F, i)) = k
  <2>1. CASE k = c + 1
    BY <1>4, <2>1
  <2>2. CASE k # c + 1
    <3>1. k \in 1..c
      <4> HIDE DEF F, c
      <4> QED  BY <1>4, <2>2
    <3>2. \E i \in PartOf(F, m - 1) : Cardinality(PartOf(F, i)) = k
      BY <3>1 DEF Reached
    <3> QED  BY <1>4, <3>2
  <2> QED  BY <2>1, <2>2
<1>14. ASSUME NEW t
       PROVE  Redelivered(n, t) = Redelivered(d, t) + Cardinality(Absorbed(d, b, n, m, t))
  <2>1. Redelivered(n, t) = Redelivered(x, t)
    BY <1>1, <1>5, NewCounts
  <2>2. Redelivered(x, t) = Redelivered(d, t) + Cardinality(Absorbed(d, b, x, m - 1, t))
    BY DEF Reached
  <2>3. \A i \in 1..(m - 1) : OwnerOf(n, b[i].event_id) = OwnerOf(x, b[i].event_id)
    <3> TAKE i \in 1..(m - 1)
    <3>1. b[i].event_id \in Ids(x.events)
      BY <1>2
    <3> HIDE DEF n
    <3> QED  BY <1>2, <1>6, <3>1, OwnerLasts
  <2>4. Absorbed(d, b, n, m, t) = Absorbed(d, b, x, m - 1, t)
    <3> HIDE DEF n
    <3> QED  BY <1>3, <1>9, <2>3 DEF Absorbed
  <2> QED  BY <2>1, <2>2, <2>4
<1>15. Len(n.events) = L + Cardinality(PartOf(F, m))
  BY <1>2, <1>4, <1>8, <1>10
<1> HIDE DEF n, e, F, L, c
<1> QED  BY <1>6, <1>7, <1>11, <1>12, <1>13, <1>14, <1>15 DEF Reached, F, L, e, n

(* A batch on a database in order, as the abstract log takes it: the new   *)
(* events follow the stored ones in batch order, and every other event     *)
(* counts as a redelivery to the owner of the stored one.                  *)
THEOREM BatchAccepted ==
  ASSUME NEW d, GoodDb(d), NEW b \in Seq(EventIn), NEW now \in Nat
  PROVE  LET n == ApplyBatch(d, b, now)
             F == NewIn(d, b)
             Place(i) == Len(d.events) + Cardinality(PartOf(F, i))
         IN /\ GoodDb(n) /\ Extended(d, n, now)
            /\ Len(n.events) = Len(d.events) + Cardinality(F)
            /\ \A i \in DOMAIN b : b[i].event_id \in Ids(n.events)
            /\ \A i \in F : Place(i) \in DOMAIN n.events /\ n.events[Place(i)].payload = b[i]
            /\ \A k \in 1..Cardinality(F) : \E i \in F : Cardinality(PartOf(F, i)) = k
            /\ \A t : Redelivered(n, t) = Redelivered(d, t)
                     + Cardinality({i \in DOMAIN b \ F : OwnerOf(n, b[i].event_id) = t})
<1> DEFINE N == Len(b)
           im == Images(d, b, now)
           n == ApplyBatch(d, b, now)
           F == NewIn(d, b)
           S == {m \in 0..N : Reached(d, b, now, im[m], m)}
<1>1. N \in Nat /\ DOMAIN b = 1..N /\ F \in SUBSET (1..N) /\ \A m \in 1..N : b[m] \in EventIn
  BY LenProperties, ElementOfSeq DEF NewIn
<1>2. /\ im[0] = d
      /\ \A m \in 1..N : im[m] = ApplyOne(im[m - 1], b[m], now)
      /\ n = im[N]
  BY <1>1, ImagesStep
<1> HIDE DEF im, n
<1>3. 0 \in S
  BY <1>1, <1>2, ReachedNothing
<1>4. ASSUME NEW m \in 1..N, m - 1 \in S PROVE m \in S
  <2>1. Reached(d, b, now, im[m - 1], m - 1)
    BY <1>4
  <2>2. im[m] = IF b[m].event_id \in Ids(im[m - 1].events)
                THEN ApplyReplay(im[m - 1], b[m], now) ELSE ApplyNew(im[m - 1], b[m], now)
    BY <1>2 DEF ApplyOne
  <2>3. Reached(d, b, now, im[m], m)
    BY <2>1, <2>2, ReachedReplay, ReachedNew
  <2> QED  BY <2>3
<1>5. Reached(d, b, now, n, N)
  <2>1. \A m \in 1..N : m - 1 \in S => m \in S
    BY <1>4
  <2>2. N \in 0..N
    BY <1>1
  <2>3. N \in S
    <3> HIDE DEF S, N
    <3> QED  BY <1>1, <1>3, <2>1, <2>2, UpTo
  <2> QED  BY <1>2, <2>3
<1>6. PartOf(F, N) = F
  <2> HIDE DEF N, F
  <2> QED  BY <1>1, PartOfEnds
<1>7. \A t : Absorbed(d, b, n, N, t) = {i \in DOMAIN b \ F : OwnerOf(n, b[i].event_id) = t}
  BY <1>1 DEF Absorbed
<1>8. \A i \in DOMAIN b : b[i].event_id \in Ids(n.events)
  BY <1>1, <1>5 DEF Reached
<1> QED  BY <1>5, <1>6, <1>7, <1>8 DEF Reached, n, N, F

-----------------------------------------------------------------------------
(* The log as the abstract module sees it has the length of the table.     *)
LEMMA PayloadsOf ==
  ASSUME NEW d, GoodDb(d)
  PROVE  /\ DOMAIN Payloads(d) = 1..Len(d.events) /\ Len(d.events) \in Nat
         /\ Len(Payloads(d)) = Len(d.events)
         /\ \A i \in DOMAIN d.events : Payloads(d)[i] = d.events[i].payload
         /\ DOMAIN d.events = 1..Len(d.events)
<1>1. DOMAIN d.events = 1..Len(d.events) /\ Len(d.events) \in Nat
  BY LenProperties DEF GoodDb, IsDb
<1>2. DOMAIN Payloads(d) = 1..Len(d.events)
  BY <1>1 DEF Payloads
<1>3. Len(Payloads(d)) = Len(d.events)
  BY <1>1, <1>2 DEF Payloads
<1> QED  BY <1>1, <1>2, <1>3 DEF Payloads

(* The positions of b whose ids are not in the log l and not earlier in b, *)
(* the m-th of them, and the transaction that owns an id: Fresh, NthFresh  *)
(* and OwnerIn of EventLog.tla, for any log.                               *)
FirstIn(l, b) ==
  {i \in DOMAIN b :
     /\ ~ \E j \in DOMAIN l : l[j].event_id = b[i].event_id
     /\ \A j \in DOMAIN b : j < i => b[j].event_id # b[i].event_id}
FirstAt(l, b, m) ==
  CHOOSE i \in FirstIn(l, b) : Cardinality({j \in FirstIn(l, b) : j <= i}) = m
OwnerInLog(l, id) == l[CHOOSE i \in DOMAIN l : l[i].event_id = id].transaction_id

(* The abstract log's owner of an id is the owner of the stored event.     *)
LEMMA OwnerAgrees ==
  ASSUME NEW d, GoodDb(d), NEW id \in Ids(d.events)
  PROVE  OwnerInLog(Payloads(d), id) = OwnerOf(d, id)
<1> DEFINE l == Payloads(d)
           k == CHOOSE i \in DOMAIN l : l[i].event_id = id
<1>1. \E i \in DOMAIN l : l[i].event_id = id
  BY PayloadsOf DEF Ids
<1>2. k \in DOMAIN l /\ l[k].event_id = id
  BY <1>1
<1> HIDE DEF k, l
<1>3. k \in DOMAIN d.events /\ l[k] = d.events[k].payload
  BY <1>2, PayloadsOf DEF l
<1>4. OwnerOf(d, id) = d.events[k].payload.transaction_id
  BY <1>2, <1>3, OwnerKnown
<1> QED  BY <1>3, <1>4 DEF k, l, OwnerInLog

(* A batch on a database in order does to its log what EventLog.tla says   *)
(* Accept does, function by function.                                      *)
LEMMA LogTakesBatch ==
  ASSUME NEW d, GoodDb(d), NEW b \in Seq(EventIn), NEW now \in Nat,
         NEW n, n = ApplyBatch(d, b, now)
  PROVE  LET G == FirstIn(Payloads(d), b)
             M == Len(Payloads(d))
         IN /\ Payloads(n) = [k \in 1..(M + Cardinality(G)) |->
                 IF k <= M THEN Payloads(d)[k] ELSE b[FirstAt(Payloads(d), b, k - M)]]
            /\ \A t : Redelivered(n, t) = Redelivered(d, t)
                 + Cardinality({i \in DOMAIN b \ G : OwnerInLog(Payloads(n), b[i].event_id) = t})
<1> DEFINE F == NewIn(d, b)
           L == Len(d.events)
           Place(i) == L + Cardinality(PartOf(F, i))
           old == Payloads(d)
           new == Payloads(n)
           C == Cardinality(F)
           Others(t) == {i \in DOMAIN b \ F : OwnerOf(n, b[i].event_id) = t}
<1>1. /\ GoodDb(n) /\ Extended(d, n, now)
      /\ Len(n.events) = L + C
      /\ \A i \in DOMAIN b : b[i].event_id \in Ids(n.events)
      /\ \A i \in F : Place(i) \in DOMAIN n.events /\ n.events[Place(i)].payload = b[i]
      /\ \A k \in 1..C : \E i \in F : Cardinality(PartOf(F, i)) = k
      /\ \A t : Redelivered(n, t) = Redelivered(d, t) + Cardinality(Others(t))
  BY BatchAccepted
<1>2. /\ DOMAIN old = 1..L /\ Len(old) = L /\ L \in Nat /\ DOMAIN d.events = 1..L
      /\ \A i \in DOMAIN d.events : old[i] = d.events[i].payload
      /\ DOMAIN new = 1..Len(n.events) /\ Len(n.events) \in Nat
      /\ \A i \in DOMAIN n.events : new[i] = n.events[i].payload
      /\ DOMAIN n.events = 1..Len(n.events)
  BY <1>1, PayloadsOf
<1>3. FirstIn(old, b) = F
  BY <1>2 DEF FirstIn, NewIn, Ids, Payloads
<1>4. C \in Nat
  <2>1. Len(b) \in Nat /\ DOMAIN b = 1..Len(b) /\ IsFiniteSet(1..Len(b))
    BY LenProperties, FS_Interval
  <2>2. F \in SUBSET (1..Len(b))
    BY <2>1 DEF NewIn
  <2> HIDE DEF F
  <2> QED  BY <2>1, <2>2, FS_Subset, FS_CardinalityType
<1> HIDE DEF L, old, new, C, F
<1>5. ASSUME NEW k \in 1..(L + C)
      PROVE  new[k] = IF k <= L THEN old[k] ELSE b[FirstAt(old, b, k - L)]
  <2>1. k \in DOMAIN n.events /\ k \in Nat /\ k >= 1
    BY <1>1, <1>2, <1>4
  <2>2. CASE k <= L
    <3>1. k \in DOMAIN d.events
      BY <1>2, <2>1, <2>2
    <3>2. n.events[k] = d.events[k]
      BY <1>1, <3>1 DEF Extended, ContinuedBy
    <3> QED  BY <1>2, <2>1, <2>2, <3>1, <3>2
  <2>3. CASE ~ (k <= L)
    <3> DEFINE i == FirstAt(old, b, k - L)
    <3>1. k - L \in 1..C
      BY <1>2, <1>4, <2>3
    <3>2. \E j \in FirstIn(old, b) :
            Cardinality({m \in FirstIn(old, b) : m <= j}) = k - L
      BY <1>1, <1>3, <3>1 DEF PartOf
    <3>3. /\ i \in FirstIn(old, b)
          /\ Cardinality({m \in FirstIn(old, b) : m <= i}) = k - L
      BY <3>2 DEF FirstAt
    <3> HIDE DEF i
    <3>4. i \in F /\ Cardinality(PartOf(F, i)) = k - L
      BY <1>3, <3>3 DEF PartOf
    <3>5. Place(i) = k
      BY <1>2, <2>1, <3>4
    <3>6. n.events[k].payload = b[i]
      BY <1>1, <3>4, <3>5
    <3> QED  BY <1>2, <2>1, <2>3, <3>6 DEF i
  <2> QED  BY <2>2, <2>3
<1>6. new = [k \in 1..(L + C) |-> IF k <= L THEN old[k] ELSE b[FirstAt(old, b, k - L)]]
  <2> DEFINE G == [k \in 1..(L + C) |-> IF k <= L THEN old[k] ELSE b[FirstAt(old, b, k - L)]]
  <2>1. DOMAIN new = 1..(L + C)
    BY <1>1, <1>2
  <2>2. \A k \in 1..(L + C) : new[k] = G[k]
    BY <1>5
  <2>3. new = [k \in DOMAIN new |-> new[k]]
    BY DEF new, Payloads
  <2> QED  BY <2>1, <2>2, <2>3
<1>7. \A i \in DOMAIN b : OwnerInLog(new, b[i].event_id) = OwnerOf(n, b[i].event_id)
  BY <1>1, OwnerAgrees DEF new
<1>8. \A t : {i \in DOMAIN b \ F : OwnerInLog(new, b[i].event_id) = t} = Others(t)
  BY <1>7
<1>9. Len(old) = L /\ C = Cardinality(FirstIn(old, b))
  BY <1>2, <1>3 DEF C
<1> HIDE DEF Others
<1>10. ASSUME NEW t
       PROVE  Redelivered(n, t) = Redelivered(d, t)
           + Cardinality({i \in DOMAIN b \ F : OwnerInLog(new, b[i].event_id) = t})
  <2>1. Redelivered(n, t) = Redelivered(d, t) + Cardinality(Others(t))
    BY <1>1
  <2> QED  BY <1>8, <2>1
<1> QED
  BY <1>3, <1>6, <1>9, <1>10 DEF old, new

(* A batch without events changes nothing.                                 *)
LEMMA EmptyBatch == \A d, now : ApplyBatch(d, <<>>, now) = d
<1> SUFFICES ASSUME NEW d, NEW now PROVE ApplyBatch(d, <<>>, now) = d
  OBVIOUS
<1>1. Len(<<>>) = 0
  BY EmptySeq
<1>2. Images(d, <<>>, now)[0] = d
  BY <1>1, ImagesStep
<1> QED  BY <1>1, <1>2 DEF ApplyBatch
=============================================================================
