----------------------------- MODULE MCReaders -----------------------------
(***************************************************************************)
(* Small instance of Readers: batches that insert, settle, fail, contradict*)
(* and replay, and one request of every kind in between.                   *)
(***************************************************************************)
EXTENDS Readers

MCEventIds == {"e1", "e2", "e3", "e4", "e5", "e6"}
MCTxns == {"t1", "t2"}
MCMerchants == {"m1", "m2"}
MCNames == {"Acme"}
MCCurrencies == {"INR"}

Event(id, type, t, m, amount, ts) ==
  [event_id |-> id, event_type |-> type, transaction_id |-> t, merchant_id |-> m,
   merchant_name |-> "Acme", amount |-> amount, currency |-> "INR", timestamp |-> ts]

MCBatches ==
  {<<Event("e1", "payment_initiated", "t1", "m1", 1000, 1),
     Event("e2", "payment_processed", "t1", "m1", 1006, 2)>>,
   <<Event("e3", "settled", "t1", "m1", 1000, 3)>>,
   <<Event("e4", "payment_failed", "t1", "m2", 1000, 1)>>,
   <<Event("e5", "payment_initiated", "t2", "m2", 2000, 0)>>,
   <<Event("e6", "payment_failed", "t2", "m2", 2000, 1)>>}

MCCutoffs == {0, 2, 3}
MCFilters == {NoFilter, [NoFilter EXCEPT !.merchant_id = {"m1"}, !.max_amount = 100]}
MCTypeSets == {DefaultTypes, {"AMOUNT_MISMATCH", "DUPLICATE_EVENTS"}}
(* One dimension, none, two, and two refused.                              *)
MCGroupBys == {<<>>, <<"status">>, <<"merchant", "date">>, <<"currency", "merchant">>,
               <<"date", "date">>, <<"region">>}

(* A page with room for everything, a full first page, a last page.        *)
MCCuts == {[limit |-> 3, offset |-> 0], [limit |-> 1, offset |-> 0], [limit |-> 1, offset |-> 1]}

(* The disagreements need one kind of filter only.                         *)
OneFilter == {NoFilter}
=============================================================================
