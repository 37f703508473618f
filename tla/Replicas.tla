------------------------------ MODULE Replicas ------------------------------
(***************************************************************************)
(* The order-independence schema.sql claims of the projection, as a system *)
(* of its own: several databases are fed the same upstream events, each in *)
(* an order of its own and with redeliveries, by the two branches of the   *)
(* ingest loop.  (A restored backup replayed from the feed, a backfill and *)
(* a late settlement file are such databases.)                             *)
(***************************************************************************)
EXTENDS Ledger

CONSTANTS
  Replicas,    (* the databases compared                                   *)
  Feed,        (* the upstream events, one payload per event_id            *)
  MaxReplays   (* bound: redeliveries per database                         *)

ASSUME FeedAssumption ==
  /\ Feed \subseteq {e \in EventIn : Valid(e)}
  /\ \A e, f \in Feed : e.event_id = f.event_id => e = f

VARIABLES
  dbs,      (* dbs[r]: the database of replica r                           *)
  replayed  (* replayed[r]: redeliveries r has absorbed                    *)

vars == <<dbs, replayed>>

Init ==
  /\ dbs = [r \in Replicas |-> EmptyDb]
  /\ replayed = [r \in Replicas |-> 0]

(* The clock of replica r: one tick per delivery.                          *)
Now(r) == Len(dbs[r].events) + replayed[r] + 1

Store(r, e) ==
  /\ e.event_id \notin Ids(dbs[r].events)
  /\ dbs' = [dbs EXCEPT ![r] = ApplyNew(@, e, Now(r))]
  /\ UNCHANGED replayed

Absorb(r, e) ==
  /\ e.event_id \in Ids(dbs[r].events)
  /\ replayed[r] < MaxReplays
  /\ dbs' = [dbs EXCEPT ![r] = ApplyReplay(@, e, Now(r))]
  /\ replayed' = [replayed EXCEPT ![r] = @ + 1]

Next == \E r \in Replicas, e \in Feed : Store(r, e) \/ Absorb(r, e)

Spec == Init /\ [][Next]_vars

-----------------------------------------------------------------------------
(* Two replicas that hold the same events of transaction t.                *)
Agree(p, q, t) ==
  /\ t \in DOMAIN dbs[p].transactions
  /\ EventsOf(dbs[p].events, t) = EventsOf(dbs[q].events, t)

(* Databases that hold the same events of a transaction give it the same   *)
(* timestamps, bounds, event count, statuses and contradiction flags,      *)
(* whatever the order and number of deliveries (schema.sql:14-19 for the   *)
(* columns folded by _UPSERT_TRANSACTION).                                 *)
LifecycleConverges ==
  \A p, q \in Replicas : \A t \in Txns :
    Agree(p, q, t) =>
      LET a == dbs[p].transactions[t]
          b == dbs[q].transactions[t]
      IN /\ a.at = b.at
         /\ a.first_event_at = b.first_event_at
         /\ a.last_event_at = b.last_event_at
         /\ a.event_count = b.event_count
         /\ a.has_amount_mismatch = b.has_amount_mismatch
         /\ a.has_merchant_mismatch = b.has_merchant_mismatch
         /\ <<Status(a), PaymentStatus(a), SettlementStatus(a)>> =
              <<Status(b), PaymentStatus(b), SettlementStatus(b)>>

(* Unflagged rows converge completely but for the currency: when no two    *)
(* events disagree, the first arrival cannot matter.                       *)
UnflaggedRowsConverge ==
  \A p, q \in Replicas : \A t \in Txns :
    Agree(p, q, t) =>
      LET a == dbs[p].transactions[t]
          b == dbs[q].transactions[t]
      IN /\ a.has_amount_mismatch = 0 => a.amount_minor = b.amount_minor
         /\ a.has_merchant_mismatch = 0 => a.merchant_id = b.merchant_id

=============================================================================
