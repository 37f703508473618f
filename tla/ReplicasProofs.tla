--------------------------- MODULE ReplicasProofs ---------------------------
(***************************************************************************)
(* Order independence for any feed, any number of databases and any bound  *)
(* on redeliveries: every replica's database stays in order, and a row in  *)
(* order is determined by the set of its events (LedgerProofs).            *)
(***************************************************************************)
EXTENDS Replicas, LedgerProofs

RInv == /\ dbs = [r \in Replicas |-> dbs[r]]
        /\ replayed \in [Replicas -> Nat]
        /\ \A r \in Replicas : GoodDb(dbs[r])

(* Empty replicas are in order.                                            *)
LEMMA InitRInv == Init => RInv
  BY EmptyDbGood DEF Init, RInv

(* A delivery changes one replica, by one branch of the ingest loop.       *)
LEMMA NextRInv == RInv /\ [Next]_vars => RInv'
<1> SUFFICES ASSUME RInv, [Next]_vars PROVE RInv'
  OBVIOUS
<1>1. ASSUME NEW r \in Replicas, NEW e \in Feed, Store(r, e) \/ Absorb(r, e)
      PROVE  RInv'
  <2> DEFINE now == Now(r)
  <2>1. e \in EventIn
    BY FeedAssumption
  <2>2. now \in Nat
    <3>1. dbs[r].events \in Seq(EventRow) /\ replayed[r] \in Nat
      BY DEF RInv, GoodDb, IsDb
    <3>2. Len(dbs[r].events) \in Nat
      BY <3>1, LenProperties
    <3> QED  BY <3>1, <3>2 DEF Now
  <2> HIDE DEF now
  <2>3. CASE Store(r, e)
    <3>1. dbs' = [dbs EXCEPT ![r] = ApplyNew(dbs[r], e, now)] /\ replayed' = replayed
      BY <2>3 DEF Store, now
    <3>2. GoodDb(ApplyNew(dbs[r], e, now))
      BY <2>1, <2>2, <2>3, ApplyNewGood DEF Store, RInv
    <3> QED  BY <3>1, <3>2 DEF RInv
  <2>4. CASE Absorb(r, e)
    <3>1. /\ dbs' = [dbs EXCEPT ![r] = ApplyReplay(dbs[r], e, now)]
          /\ replayed' = [replayed EXCEPT ![r] = replayed[r] + 1]
      BY <2>4 DEF Absorb, now
    <3>2. GoodDb(ApplyReplay(dbs[r], e, now))
      BY <2>1, <2>2, <2>4, ApplyReplayGood DEF Absorb, RInv
    <3> QED  BY <3>1, <3>2 DEF RInv
  <2> QED  BY <1>1, <2>3, <2>4
<1>2. CASE UNCHANGED vars
  BY <1>2 DEF RInv, vars
<1> QED  BY <1>1, <1>2 DEF Next

(* Every replica is in order, whatever has been delivered to it.           *)
THEOREM ReplicasInvariance == Spec => []RInv
  BY InitRInv, NextRInv, PTL DEF Spec

-----------------------------------------------------------------------------
(* Replicas holding the same events of a transaction agree on its row: the *)
(* lifecycle, and amount and merchant wherever no flag is raised.          *)
LEMMA ReplicasAgree ==
  ASSUME RInv, NEW p \in Replicas, NEW q \in Replicas, NEW t \in Txns, Agree(p, q, t)
  PROVE  LET a == dbs[p].transactions[t]
             b == dbs[q].transactions[t]
         IN /\ a.at = b.at
            /\ a.first_event_at = b.first_event_at
            /\ a.last_event_at = b.last_event_at
            /\ a.event_count = b.event_count
            /\ a.has_amount_mismatch = b.has_amount_mismatch
            /\ a.has_merchant_mismatch = b.has_merchant_mismatch
            /\ <<Status(a), PaymentStatus(a), SettlementStatus(a)>> =
                 <<Status(b), PaymentStatus(b), SettlementStatus(b)>>
            /\ a.has_amount_mismatch = 0 => a.amount_minor = b.amount_minor
            /\ a.has_merchant_mismatch = 0 => a.merchant_id = b.merchant_id
<1>1. /\ GoodDb(dbs[p]) /\ GoodDb(dbs[q])
      /\ t \in DOMAIN dbs[p].transactions
      /\ EventsOf(dbs[p].events, t) = EventsOf(dbs[q].events, t)
  BY DEF RInv, Agree
<1> DEFINE x == dbs[p]
           y == dbs[q]
<1>2. GoodDb(x) /\ GoodDb(y) /\ t \in DOMAIN x.transactions
      /\ EventsOf(x.events, t) = EventsOf(y.events, t)
  BY <1>1
<1> HIDE DEF x, y
<1>3. LET r == x.transactions[t]
          s == y.transactions[t]
      IN /\ r.at = s.at
         /\ r.first_event_at = s.first_event_at
         /\ r.last_event_at = s.last_event_at
         /\ r.event_count = s.event_count
         /\ Status(r) = Status(s)
         /\ PaymentStatus(r) = PaymentStatus(s)
         /\ SettlementStatus(r) = SettlementStatus(s)
         /\ r.has_amount_mismatch = s.has_amount_mismatch
         /\ r.has_merchant_mismatch = s.has_merchant_mismatch
         /\ r.has_amount_mismatch = 0 => r.amount_minor = s.amount_minor
         /\ r.has_merchant_mismatch = 0 => r.merchant_id = s.merchant_id
  BY <1>2, Convergence
<1> QED  BY <1>3 DEF x, y

(* Same events, same timestamps, count, flags and statuses, in whatever    *)
(* order and however often they were delivered.                            *)
THEOREM LifecycleConvergence == Spec => []LifecycleConverges
<1>1. RInv => LifecycleConverges
  BY ReplicasAgree DEF LifecycleConverges
<1> QED  BY <1>1, ReplicasInvariance, PTL

(* Where no flag is raised the first arrival cannot matter.                *)
THEOREM UnflaggedConvergence == Spec => []UnflaggedRowsConverge
<1>1. RInv => UnflaggedRowsConverge
  BY ReplicasAgree DEF UnflaggedRowsConverge
<1> QED  BY <1>1, ReplicasInvariance, PTL
=============================================================================
