------------------------------ MODULE EventLog ------------------------------
(***************************************************************************)
(* What POST /events promises, without a database, a lock or a request in  *)
(* flight: an append-only log holding each event_id once, and for every    *)
(* transaction the number of redeliveries it has absorbed.  A batch takes  *)
(* effect in one step or not at all.  Ingest.tla implements this module.   *)
(***************************************************************************)
EXTENDS Naturals, Sequences, FiniteSets

CONSTANTS
  Txns,     (* transaction ids                                             *)
  Batches   (* the batches a client may submit: sequences of events        *)

VARIABLES
  log,      (* the stored events in the order they were accepted           *)
  replays   (* redeliveries absorbed, per transaction                      *)

vars == <<log, replays>>

Init ==
  /\ log = <<>>
  /\ replays = [t \in Txns |-> 0]

Known(id) == \E i \in DOMAIN log : log[i].event_id = id

(* The positions of batch b that carry an id for the first time.           *)
Fresh(b) ==
  {i \in DOMAIN b :
     /\ ~ Known(b[i].event_id)
     /\ \A j \in DOMAIN b : j < i => b[j].event_id # b[i].event_id}

(* The n-th fresh position of b, counting from 1.                          *)
NthFresh(b, n) ==
  CHOOSE i \in Fresh(b) : Cardinality({j \in Fresh(b) : j <= i}) = n

(* The transaction that owns event id in the log l.                        *)
OwnerIn(l, id) == l[CHOOSE i \in DOMAIN l : l[i].event_id = id].transaction_id

(* The whole batch at once: its fresh events join the log in batch order,  *)
(* every other event counts as a redelivery to the transaction that owns   *)
(* the stored event of that id, whatever transaction the redelivery names. *)
Accept(b) ==
  /\ log' = [n \in 1..(Len(log) + Cardinality(Fresh(b))) |->
               IF n <= Len(log) THEN log[n] ELSE b[NthFresh(b, n - Len(log))]]
  /\ replays' = [t \in Txns |->
       replays[t] + Cardinality({i \in DOMAIN b \ Fresh(b) :
                                   OwnerIn(log', b[i].event_id) = t})]

Next == \E b \in Batches : Accept(b)

Spec == Init /\ [][Next]_vars
=============================================================================
