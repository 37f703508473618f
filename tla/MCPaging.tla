------------------------------ MODULE MCPaging ------------------------------
(***************************************************************************)
(* Small instance of Paging: four transactions that share sort keys, of    *)
(* different severities, and batches that insert and move rows.            *)
(***************************************************************************)
EXTENDS Paging

MCEventIds == {"e1", "e2", "e3", "e4", "e5"}
MCTxns == {"t1", "t2", "t3", "t4"}
MCMerchants == {"m1", "m2", "m3"}
MCNames == {"Acme"}
MCCurrencies == {"INR"}
MCTextOrder ==
  [x \in MCEventIds \cup MCTxns \cup MCMerchants \cup
         {"failed", "initiated", "processed", "settled", "INR"} |->
     CASE x \in {"e1", "t1", "m1", "failed"}    -> 1
       [] x \in {"e2", "t2", "m2", "initiated"} -> 2
       [] x \in {"e3", "t3", "m3", "processed"} -> 3
       [] x \in {"e4", "t4", "settled"}         -> 4
       [] OTHER                                 -> 5]

Event(id, type, t, m, ts) ==
  [event_id |-> id, event_type |-> type, transaction_id |-> t, merchant_id |-> m,
   merchant_name |-> "Acme", amount |-> 1000, currency |-> "INR", timestamp |-> ts]

(* t2 and t3 tie on status and time; e4 settles t2 and e5 arrives in front *)
(* of every other transaction id and of every other merchant.              *)
MCBatches ==
  {<<Event("e2", "payment_initiated", "t2", "m2", 2),
     Event("e3", "payment_initiated", "t3", "m3", 2)>>,
   <<Event("e4", "settled", "t2", "m2", 3)>>,
   <<Event("e5", "payment_initiated", "t1", "m1", 1),
     Event("e1", "payment_processed", "t4", "m2", 1)>>}

Walk(list, filter, sort_by, order, severity, limit) ==
  [list |-> list, filter |-> filter, sort_by |-> sort_by, order |-> order,
   severity |-> severity, limit |-> limit, types |-> DefaultTypes, cutoff |-> 3,
   as_of |-> NULL, stale_after |-> 1, group_by |-> <<>>]

GroupWalk(group_by, limit) ==
  [Walk("groups", NoFilter, "none", "asc", NULL, limit) EXCEPT !.group_by = group_by]

MCEventFilters ==
  {NoEventFilter, [NoEventFilter EXCEPT !.merchant_id = "m2"],
   [NoEventFilter EXCEPT !.date_from = 1, !.date_to = 2, !.event_type = "payment_initiated"]}

MCWalks ==
  {Walk("transactions", NoFilter, s, o, NULL, 1) :
     s \in {"transaction_id", "status", "settled_at", "merchant_id"}, o \in {"asc", "desc"}}
  \cup {Walk("transactions", f, "amount", "asc", NULL, n) :
          f \in {NoFilter, [NoFilter EXCEPT !.merchant_id = {"m2", "m3"}]}, n \in {1, 2}}
  \cup {Walk("events", f, "none", "desc", NULL, n) : f \in MCEventFilters, n \in {1, 2}}
  \cup {[Walk("discrepancies", NoFilter, s, "desc", v, 1) EXCEPT !.as_of = a] :
          s \in {"severity", "age"}, v \in {NULL, 2}, a \in {NULL, 4}}
  \cup {GroupWalk(g, n) : g \in {<<"merchant">>, <<"currency", "merchant">>,
                                 <<"date", "status">>}, n \in {1, 2}}
=============================================================================
