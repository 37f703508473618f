------------------------------- MODULE MCBoot -------------------------------
(***************************************************************************)
(* Small instances of Boot: a five-record sample file with an invalid      *)
(* record, a duplicate and a contradiction, loaded two records at a time.  *)
(***************************************************************************)
EXTENDS Boot

MCEventIds == {"e1", "e2", "e3", "p1"}
MCTxns == {"t1", "t2"}
MCMerchants == {"m1", "m2"}
MCNames == {"Acme"}
MCCurrencies == {"INR"}

Event(id, type, t, m, amount, ts) ==
  [event_id |-> id, event_type |-> type, transaction_id |-> t, merchant_id |-> m,
   merchant_name |-> "Acme", amount |-> amount, currency |-> "INR", timestamp |-> ts]

(* The second record rounds to zero and is rejected.  e2 is in the file    *)
(* twice; e3 comes late and contradicts e1.                                *)
MCSeedFile ==
  <<Event("e1", "payment_initiated", "t1", "m1", 1000, 2),
    Event("p1", "settled", "t2", "m1", 4, 2),
    Event("e2", "payment_initiated", "t2", "m1", 500, 1),
    Event("e3", "payment_failed", "t1", "m2", 1010, 1),
    Event("e2", "payment_initiated", "t2", "m1", 500, 1)>>

(* A client settles a transaction of the file.                             *)
MCPosts == {<<Event("p1", "settled", "t1", "m1", 1000, 3)>>}
=============================================================================
