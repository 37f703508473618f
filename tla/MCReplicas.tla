----------------------------- MODULE MCReplicas -----------------------------
(***************************************************************************)
(* Small instance of Replicas: one contradictory and one clean transaction.*)
(***************************************************************************)
EXTENDS Replicas, TLC

MCEventIds == {"e1", "e2", "e3", "e4"}
MCTxns == {"t1", "t2"}
MCMerchants == {"m1", "m2"}
MCNames == {"Acme"}
MCCurrencies == {"INR", "USD"}

Event(id, type, t, m, amount, currency, ts) ==
  [event_id |-> id, event_type |-> type, transaction_id |-> t, merchant_id |-> m,
   merchant_name |-> "Acme", amount |-> amount, currency |-> currency, timestamp |-> ts]

(* t1: two processings, the later one of another amount and currency, and  *)
(* a failure under another merchant; t2: one event that rounds half up.    *)
MCFeed ==
  {Event("e1", "payment_processed", "t1", "m1", 1000, "INR", 3),
   Event("e2", "payment_processed", "t1", "m1", 1005, "USD", 2),
   Event("e3", "payment_failed", "t1", "m2", 1004, "INR", 2),
   Event("e4", "settled", "t2", "m2", 1004, "INR", 5)}

Symmetry == Permutations(Replicas)
=============================================================================
