------------------------- MODULE MCSharedConnection -------------------------
(***************************************************************************)
(* Small instance of SharedConnection: threads that meet on the same       *)
(* transaction and event ids, with a duplicate inside a batch and a        *)
(* contradiction on merchant and amount.                                   *)
(***************************************************************************)
EXTENDS SharedConnection

MCEventIds == {"e1", "e2", "e3"}
MCTxns == {"t1", "t2"}
MCMerchants == {"m1", "m2"}
MCNames == {"Acme"}
MCCurrencies == {"INR"}

Event(id, type, t, m, amount, ts) ==
  [event_id |-> id, event_type |-> type, transaction_id |-> t, merchant_id |-> m,
   merchant_name |-> "Acme", amount |-> amount, currency |-> "INR", timestamp |-> ts]

MCBatches ==
  {<<Event("e1", "payment_initiated", "t1", "m1", 1000, 2),
     Event("e2", "settled", "t1", "m1", 1000, 3)>>,
   <<Event("e2", "settled", "t2", "m1", 1000, 3),
     Event("e3", "payment_failed", "t1", "m2", 2000, 1)>>,
   <<Event("e3", "payment_failed", "t1", "m2", 2000, 1),
     Event("e3", "payment_failed", "t2", "m2", 2000, 1)>>}
=============================================================================
