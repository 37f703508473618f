------------------------------ MODULE MCIngest ------------------------------
(***************************************************************************)
(* Small instances of Ingest: the request bodies and the model constants.  *)
(***************************************************************************)
EXTENDS Ingest

MCEventIds == {"e1", "e2", "e3", "e4"}
MCTxns == {"t1", "t2"}
MCMerchants == {"m1", "m2"}
MCNames == {"Acme", "Acme Ltd", ""}
MCCurrencies == {"INR", "USD"}

Event(id, type, t, m, name, amount, currency, ts) ==
  [event_id |-> id, event_type |-> type, transaction_id |-> t, merchant_id |-> m,
   merchant_name |-> name, amount |-> amount, currency |-> currency, timestamp |-> ts]

Initiated == Event("e1", "payment_initiated", "t1", "m1", "Acme", 1000, "INR", 2)
Processed == Event("e2", "payment_processed", "t1", "m1", "Acme Ltd", 1000, "INR", 3)
(* The same key redelivered for another transaction and amount.            *)
Processed2 == [Processed EXCEPT !.transaction_id = "t2", !.amount = 1005]
(* A second, earlier processing under another key, rounding to 1000.       *)
Earlier == Event("e4", "payment_processed", "t1", "m1", NULL, 1004, "INR", 1)
(* A late failure that contradicts merchant and amount, without a name.    *)
Failed == Event("e3", "payment_failed", "t1", "m2", NULL, 2000, "INR", 1)
Settled == Event("e4", "settled", "t2", "m2", "", 500, "USD", 4)

(* An amount that is positive as sent and zero in minor units.             *)
Tiny == [Settled EXCEPT !.amount = 4]

(* In order, out of order, replay under another transaction, a duplicate   *)
(* inside one batch, an oversized batch, and one invalid event of two.     *)
MCBatches ==
  {<<Initiated, Processed>>, <<Processed2, Failed>>, <<Settled, Settled>>,
   <<Earlier, Initiated>>, <<Initiated, Initiated, Initiated>>, <<Settled, Tiny>>}

(* The disagreement with the documents: a named merchant, then an event    *)
(* without the name.                                                       *)
DocBatches == {<<Initiated>>, <<[Failed EXCEPT !.merchant_id = "m1"]>>}

(***************************************************************************)
(* What the documents say and the code does not do.                        *)
(***************************************************************************)

(* README.md:544: "The latest `merchant_name` wins": a merchant some event *)
(* named carries the name of the latest stored event that named it.        *)
LatestNameWins ==
  \A m \in DOMAIN db.merchants :
    LET naming == {i \in DOMAIN db.events :
                     /\ db.events[i].payload.merchant_id = m
                     /\ db.events[i].payload.merchant_name \notin {NULL, ""}}
    IN \A i \in naming :
         (\A j \in naming : j <= i) =>
           db.merchants[m].merchant_name = db.events[i].payload.merchant_name

=============================================================================
