------------------------------- MODULE Batch -------------------------------
(***************************************************************************)
(* A whole POST /events batch as one step on the database, the form in     *)
(* which the modules about readers and about start-up use it.  Ingest.tla  *)
(* shows that it is the only change of the database another connection     *)
(* can see (CommitsAreBatches).                                            *)
(***************************************************************************)
EXTENDS Ledger

ApplyOne(db, e, now) ==
  IF e.event_id \in Ids(db.events) THEN ApplyReplay(db, e, now) ELSE ApplyNew(db, e, now)

(* The database after each number of events of b, from none to all.        *)
Images(db, b, now) ==
  LET after[n \in 0..Len(b)] ==
        IF n = 0 THEN db ELSE ApplyOne(after[n - 1], b[n], now)
  IN after

ApplyBatch(db, b, now) == Images(db, b, now)[Len(b)]

(* The events stored, in order.                                            *)
Payloads(db) == [i \in DOMAIN db.events |-> db.events[i].payload]
=============================================================================
