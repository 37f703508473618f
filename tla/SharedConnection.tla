-------------------------- MODULE SharedConnection --------------------------
(***************************************************************************)
(* POST /events when DATABASE_PATH is ":memory:": every pool thread is     *)
(* given the one connection of db.py connect.  SQLite runs its statements  *)
(* one at a time in any interleaving of the threads, and a transaction     *)
(* belongs to the connection, not to the thread that began it.  There is   *)
(* no lock to wait for, readers see the rows of the open transaction, and  *)
(* each statement of a batch is a step of its own.                         *)
(***************************************************************************)
EXTENDS Ledger

CONSTANTS
  Workers,   (* pool threads                                               *)
  Batches,   (* request bodies, already validated and of accepted size     *)
  MaxSends   (* bound: requests in a behaviour                             *)

ASSUME SharedAssumption ==
  /\ Batches \subseteq Seq({e \in EventIn : Valid(e)}) \ {<<>>}
  /\ MaxSends \in Nat

VARIABLES
  image,    (* what the connection reads and writes                        *)
  undo,     (* <<what a ROLLBACK restores>>; <<>> when no transaction is   *)
            (* open                                                        *)
  req,      (* req[w]: the request thread w is serving                     *)
  sends,    (* requests so far; also the clock                             *)
  failed    (* history: clock values of requests answered 500              *)

vars == <<image, undo, req, sends, failed>>

(* What would be left if the open transaction were rolled back.            *)
Committed == IF undo = <<>> THEN image ELSE undo[1]

-----------------------------------------------------------------------------
NoRequest == [stage |-> "idle", batch |-> <<>>, done |-> 0, now |-> 0, existing |-> NULL]

Init ==
  /\ image = EmptyDb /\ undo = <<>>
  /\ req = [w \in Workers |-> NoRequest]
  /\ sends = 0 /\ failed = {}

Current(w) == req[w].batch[req[w].done + 1]

Receive(w, b) ==
  /\ req[w].stage = "idle"
  /\ sends < MaxSends
  /\ sends' = sends + 1
  /\ req' = [req EXCEPT ![w] =
       [NoRequest EXCEPT !.stage = "begin", !.batch = b, !.now = sends + 1]]
  /\ UNCHANGED <<image, undo, failed>>

BeginImmediate(w) ==
  /\ req[w].stage = "begin"
  /\ undo = <<>>
  /\ undo' = <<image>>
  /\ req' = [req EXCEPT ![w].stage = "lookup"]
  /\ UNCHANGED <<image, sends, failed>>

(* The thread leaves ingest_events by an exception: status 500.            *)
Fails(w) ==
  /\ req' = [req EXCEPT ![w] = NoRequest]
  /\ failed' = failed \cup {req[w].now}
  /\ UNCHANGED sends

(* ROLLBACK on the connection, which raises when no transaction is open.   *)
RollBack ==
  /\ image' = Committed
  /\ undo' = <<>>

(* Fault variant: BEGIN moved into the try block.                          *)
BeginFails_InsideTry(w) ==
  /\ req[w].stage = "begin"
  /\ undo # <<>>
  /\ RollBack
  /\ Fails(w)

(* "cannot start a transaction within a transaction": BEGIN comes before   *)
(* the try block, so nothing is rolled back.                               *)
BeginFails(w) ==
  /\ req[w].stage = "begin"
  /\ undo # <<>>
  /\ Fails(w)
  /\ UNCHANGED <<image, undo>>

(* Any later statement, COMMIT included, raises.                           *)
StatementFails(w) ==
  /\ req[w].stage \in {"lookup", "bump", "merchant", "transaction", "event", "commit"}
  /\ RollBack
  /\ Fails(w)

Lookup(w) ==
  /\ req[w].stage = "lookup"
  /\ LET id == Current(w).event_id
     IN req' = [req EXCEPT
          ![w].stage = IF id \in Ids(image.events) THEN "bump" ELSE "merchant",
          ![w].existing = IF id \in Ids(image.events) THEN Existing(image.events, id) ELSE NULL]
  /\ UNCHANGED <<image, undo, sends, failed>>

(* On to the next event of the loop, or out of it.                         *)
NextEvent(q) ==
  [q EXCEPT !.done = @ + 1, !.existing = NULL,
            !.stage = IF q.done + 1 < Len(q.batch) THEN "lookup" ELSE "commit"]

BumpDuplicateCount(w) ==
  /\ req[w].stage = "bump"
  /\ LET t == req[w].existing.transaction_id
     IN image' = IF t \in DOMAIN image.transactions
                 THEN [image EXCEPT !.transactions = BumpDuplicate(@, t, req[w].now)]
                 ELSE image
  /\ req' = [req EXCEPT ![w] = NextEvent(@)]
  /\ UNCHANGED <<undo, sends, failed>>

(* Fault variant: the transaction upsert is skipped, and the event follows *)
(* its merchant with no row to refer to.                                   *)
Following_TransactionFirst ==
  [lookup |-> "transaction", transaction |-> "merchant", merchant |-> "event"]

(* The statement after an upsert.                                          *)
Following == [merchant |-> "transaction", transaction |-> "event"]

UpsertMerchantRow(w) ==
  /\ req[w].stage = "merchant"
  /\ image' = [image EXCEPT !.merchants = UpsertMerchant(@, Current(w), req[w].now)]
  /\ req' = [req EXCEPT ![w].stage = Following["merchant"]]
  /\ UNCHANGED <<undo, sends, failed>>

(* No two rows share a key, and every reference resolves.                  *)
MerchantKnown(w) == Current(w).merchant_id \in DOMAIN image.merchants
EventAcceptable(w) ==
  /\ Current(w).event_id \notin Ids(image.events)
  /\ Current(w).transaction_id \in DOMAIN image.transactions

UpsertTransactionRow(w) ==
  /\ req[w].stage = "transaction"
  /\ MerchantKnown(w)
  /\ image' = [image EXCEPT !.transactions = UpsertTransaction(@, Current(w), req[w].now)]
  /\ req' = [req EXCEPT ![w].stage = Following["transaction"]]
  /\ UNCHANGED <<undo, sends, failed>>

InsertEvent(w) ==
  /\ req[w].stage = "event"
  /\ EventAcceptable(w)
  /\ image' = [image EXCEPT !.events =
                 Append(@, [payload |-> Current(w), received_at |-> req[w].now])]
  /\ req' = [req EXCEPT ![w] = NextEvent(@)]
  /\ UNCHANGED <<undo, sends, failed>>

Commit(w) ==
  /\ req[w].stage = "commit"
  /\ undo # <<>>
  /\ undo' = <<>>
  /\ req' = [req EXCEPT ![w] = NoRequest]
  /\ UNCHANGED <<image, sends, failed>>

Next ==
  \/ \E w \in Workers, b \in Batches : Receive(w, b)
  \/ \E w \in Workers :
       \/ BeginImmediate(w) \/ BeginFails(w)
       \/ Lookup(w) \/ BumpDuplicateCount(w)
       \/ UpsertMerchantRow(w) \/ UpsertTransactionRow(w) \/ InsertEvent(w)
       \/ Commit(w) \/ StatementFails(w)

Spec == Init /\ [][Next]_vars

-----------------------------------------------------------------------------
(* No statement is ever stopped by a PRIMARY KEY or FOREIGN KEY, at the    *)
(* very moment it runs: the order of the three upserts in ingest_events,   *)
(* and nobody else's rollback in between (schema.sql's constraints).       *)
ConstraintsNeverBite ==
  \A w \in Workers :
    /\ req[w].stage = "transaction" => MerchantKnown(w)
    /\ req[w].stage = "event" => EventAcceptable(w)

(* Transactions whose event is being stored right now.                     *)
BeingStored ==
  {Current(w).transaction_id : w \in {v \in Workers : req[v].stage = "event"}}

(* A reader of the shared connection sees uncommitted rows, but never a    *)
(* row that its events do not explain, except the one whose event the      *)
(* next statement inserts (the upsert comes before the event it folds).    *)
DirtyReadsExplained ==
  \A t \in Txns \ BeingStored :
    LET E == EventsOf(image.events, t)
    IN /\ t \in DOMAIN image.transactions <=> E # {}
       /\ E # {} => /\ LifecycleOf(image.transactions[t], E)
                    /\ IdentityOf(image.transactions[t], E)

(* A request answered 500 leaves nothing of its own behind, whoever else   *)
(* used the connection meanwhile (BEGIN IMMEDIATE outside the try).        *)
FailuresLeaveNothing == Stamps(image) \cap failed = {}

(* What is committed still takes batches whole and in one step, each event *)
(* id once: the abstract log holds without a write lock to wait for.       *)
Promise == INSTANCE EventLog WITH
  log <- [i \in DOMAIN Committed.events |-> Committed.events[i].payload],
  replays <- [t \in Txns |-> IF t \in DOMAIN Committed.transactions
                             THEN Committed.transactions[t].duplicate_event_count ELSE 0]

SharedImplementsEventLog == Promise!Spec
=============================================================================
