------------------------------- MODULE Ingest -------------------------------
(***************************************************************************)
(* POST /events: routers/events.py post_events over app/ingest.py          *)
(* ingest_events, with the requests the thread pool serves concurrently.   *)
(*                                                                         *)
(* Each request runs on its own SQLite connection (db.py get_db) against   *)
(* one WAL database file.  `db' is the committed database; BEGIN IMMEDIATE *)
(* admits one writer, whose uncommitted image is `draft'.  A process crash *)
(* loses the draft and every request in flight and keeps db.               *)
(***************************************************************************)
EXTENDS Batch

CONSTANTS
  Workers,     (* pool threads that may serve POST /events at once         *)
  Batches,     (* request bodies clients send: sequences of events         *)
  MaxBatch,    (* settings.max_batch_size                                  *)
  MaxSends,    (* bound: requests in a behaviour                           *)
  MaxCrashes   (* bound: process crashes in a behaviour                    *)

ASSUME BatchesAssumption == Batches \subseteq Seq(EventIn)
ASSUME WorkersAssumption == NULL \notin Workers
ASSUME BoundsAssumption == {MaxBatch, MaxSends, MaxCrashes} \subseteq Nat

VARIABLES
  db,       (* the committed database                                      *)
  draft,    (* the lock holder's view; db when nobody holds the lock       *)
  lock,     (* the worker inside BEGIN IMMEDIATE ... COMMIT, or NULL       *)
  req,      (* req[w]: the request worker w is serving                     *)
  sends,    (* requests so far; also the clock now_ts() reads              *)
  replies,  (* history: the responses clients have received                *)
  crashes   (* process crashes so far                                      *)

vars == <<db, draft, lock, req, sends, replies, crashes>>

-----------------------------------------------------------------------------
Result == [event_id: EventIds, transaction_id: Txns,
           status: {"created", "duplicate"}, payload_conflict: BOOLEAN]

Stages == {"idle", "begin", "apply", "respond"}

Codes == {0, 200, 201, 413, 422, 500}

(* A worker's locals: the body, the clock value read on entry, the results *)
(* so far (so the next event is at Len(results) + 1) and the status code.  *)
Request == [stage: Stages, batch: Batches \cup {<<>>}, now: Nat,
            results: Seq(Result), code: Codes]

NoRequest == [stage |-> "idle", batch |-> <<>>, now |-> 0,
              results |-> <<>>, code |-> 0]

Init ==
  /\ db = EmptyDb /\ draft = EmptyDb /\ lock = NULL
  /\ req = [w \in Workers |-> NoRequest]
  /\ sends = 0 /\ replies = {} /\ crashes = 0

-----------------------------------------------------------------------------
(* One event that does not validate refuses the whole body, before its     *)
(* size is looked at and before any SQL; an accepted request reads its     *)
(* clock before it asks for the write lock.                                *)
Refusal(b) ==
  IF b = <<>> \/ \E i \in DOMAIN b : ~ Valid(b[i]) THEN 422
  ELSE IF Len(b) > MaxBatch THEN 413 ELSE 0

Receive(w, b) ==
  /\ req[w].stage = "idle"
  /\ sends < MaxSends
  /\ sends' = sends + 1
  /\ req' = [req EXCEPT ![w] =
       [stage |-> IF Refusal(b) = 0 THEN "begin" ELSE "respond", batch |-> b,
        now |-> sends + 1, results |-> <<>>, code |-> Refusal(b)]]
  /\ UNCHANGED <<db, draft, lock, replies, crashes>>

BeginImmediate(w) ==
  /\ req[w].stage = "begin"
  /\ lock = NULL
  /\ lock' = w
  /\ draft' = db
  /\ req' = [req EXCEPT ![w].stage = "apply"]
  /\ UNCHANGED <<db, sends, replies, crashes>>

(* The request is over but for sending its answer.                         *)
Answered(q, code) == [q EXCEPT !.stage = "respond", !.code = code]

(* busy_timeout expires: "database is locked" is an unhandled error, 500.  *)
BusyTimeout(w) ==
  /\ req[w].stage = "begin"
  /\ lock # NULL
  /\ req' = [req EXCEPT ![w] = Answered(@, 500)]
  /\ UNCHANGED <<db, draft, lock, sends, replies, crashes>>

Applying(w) == req[w].stage = "apply" /\ lock = w

MoreEvents(w) == Len(req[w].results) < Len(req[w].batch)

NextEvent(w) == req[w].batch[Len(req[w].results) + 1]

(* Fault variant: the lookup made on a snapshot from before the batch.     *)
StoredAlready_Stale(id) == id \in Ids(db.events)

(* _SELECT_EXISTING_EVENT runs inside the transaction.                     *)
StoredAlready(id) == id \in Ids(draft.events)

StoreEvent(w) ==
  /\ Applying(w) /\ MoreEvents(w)
  /\ LET e == NextEvent(w)
     IN /\ ~ StoredAlready(e.event_id)
        /\ draft' = ApplyNew(draft, e, req[w].now)
        /\ req' = [req EXCEPT ![w].results = Append(@,
             [event_id |-> e.event_id, transaction_id |-> e.transaction_id,
              status |-> "created", payload_conflict |-> FALSE])]
  /\ UNCHANGED <<db, lock, sends, replies, crashes>>

AbsorbReplay(w) ==
  /\ Applying(w) /\ MoreEvents(w)
  /\ LET e == NextEvent(w)
         existing == Existing(draft.events, e.event_id)
     IN /\ StoredAlready(e.event_id)
        /\ draft' = ApplyReplay(draft, e, req[w].now)
        /\ req' = [req EXCEPT ![w].results = Append(@,
             [event_id |-> e.event_id, transaction_id |-> existing.transaction_id,
              status |-> "duplicate",
              payload_conflict |-> PayloadDiffers(existing, e)])]
  /\ UNCHANGED <<db, lock, sends, replies, crashes>>

-----------------------------------------------------------------------------
Created(results) == {i \in DOMAIN results : results[i].status = "created"}

(* Fault variant: replays counted as affecting their transaction.          *)
Affected_All(results) == {results[i].transaction_id : i \in DOMAIN results}

Affected(results) == {results[i].transaction_id : i \in Created(results)}

Commit(w) ==
  /\ Applying(w) /\ ~ MoreEvents(w)
  /\ db' = draft
  /\ lock' = NULL
  /\ req' = [req EXCEPT ![w] =
               Answered(@, IF Created(@.results) # {} THEN 201 ELSE 200)]
  /\ UNCHANGED <<draft, sends, replies, crashes>>

(* Fault variants: an error handler that commits what was applied so far,  *)
(* and one that forgets to end the transaction, on a connection that stays *)
(* open.  (get_db closes its connection after the request, which would free*)
(* the lock on a file; a pool of connections would not.)                   *)
Rollback_Commits(w) ==
  /\ Applying(w)
  /\ db' = draft
  /\ lock' = NULL
  /\ req' = [req EXCEPT ![w] = Answered(@, 500)]
  /\ UNCHANGED <<draft, sends, replies, crashes>>

Rollback_Leaks(w) ==
  /\ Applying(w)
  /\ req' = [req EXCEPT ![w] = Answered(@, 500)]
  /\ UNCHANGED <<db, draft, lock, sends, replies, crashes>>

(* Any statement of the loop, or COMMIT itself, raises.                    *)
Rollback(w) ==
  /\ Applying(w)
  /\ draft' = db
  /\ lock' = NULL
  /\ req' = [req EXCEPT ![w] = Answered(@, 500)]
  /\ UNCHANGED <<db, sends, replies, crashes>>

(* The body post_events returns, or the error envelope.                    *)
Reply(q) ==
  LET ok == q.code \in {200, 201}
  IN [now |-> q.now, batch |-> q.batch, code |-> q.code,
      results |-> IF ok THEN q.results ELSE <<>>,
      created |-> IF ok THEN Cardinality(Created(q.results)) ELSE 0,
      transactions_affected |-> IF ok THEN Cardinality(Affected(q.results)) ELSE 0]

Respond(w) ==
  /\ req[w].stage = "respond"
  /\ replies' = replies \cup {Reply(req[w])}
  /\ req' = [req EXCEPT ![w] = NoRequest]
  /\ UNCHANGED <<db, draft, lock, sends, crashes>>

(* The client has gone: the answer reaches nobody.                         *)
LoseReply(w) ==
  /\ req[w].stage = "respond"
  /\ req' = [req EXCEPT ![w] = NoRequest]
  /\ UNCHANGED <<db, draft, lock, sends, replies, crashes>>

Crash ==
  /\ crashes < MaxCrashes
  /\ crashes' = crashes + 1
  /\ draft' = db
  /\ lock' = NULL
  /\ req' = [w \in Workers |-> NoRequest]
  /\ UNCHANGED <<db, sends, replies>>

Step(w) ==
  \/ BeginImmediate(w) \/ BusyTimeout(w)
  \/ StoreEvent(w) \/ AbsorbReplay(w)
  \/ Commit(w) \/ Rollback(w)
  \/ Respond(w) \/ LoseReply(w)

Next ==
  \/ \E w \in Workers, b \in Batches : Receive(w, b)
  \/ \E w \in Workers : Step(w)
  \/ Crash

(* A pool thread keeps running: at every stage it has a step to take, the  *)
(* busy handler included, which ends by its timeout.                       *)
Fairness == \A w \in Workers : WF_vars(Step(w))

Spec == Init /\ [][Next]_vars /\ Fairness

-----------------------------------------------------------------------------
(* Type invariant: every table row, request and counter has its shape.     *)
TypeOK ==
  /\ IsDb(db) /\ IsDb(draft)
  /\ lock \in Workers \cup {NULL}
  /\ req \in [Workers -> Request]
  /\ sends \in Nat /\ crashes \in Nat

(* The projection is, at every moment and for the writer as well as the    *)
(* readers, the one the event log determines: first time per event type,   *)
(* first and last time, event count and contradiction flags, in whatever   *)
(* order and however often the events arrived (_UPSERT_TRANSACTION).       *)
ProjectionReflectsLog == ProjectionOfLog(db) /\ ProjectionOfLog(draft)

(* No request ever meets a PRIMARY KEY or FOREIGN KEY error: the lookup    *)
(* keeps event ids unique, and each upsert leaves the row the next         *)
(* statement references (ingest_events' loop, schema.sql's constraints).   *)
KeysNeverBite == KeysHold(db) /\ KeysHold(draft)

(* The rows a request inserted and their transactions, and what a result   *)
(* may say of event e.                                                     *)
Mine(d, now) == {j \in DOMAIN d.events : d.events[j].received_at = now}

Touches(d, now) == {d.events[j].payload.transaction_id : j \in Mine(d, now)}

ResultHolds(d, now, x, e) ==
  \E j \in DOMAIN d.events :
    LET s == d.events[j].payload
    IN /\ x.event_id = s.event_id /\ s.event_id = e.event_id
       /\ x.transaction_id = s.transaction_id
       /\ x.status = "created" => j \in Mine(d, now) /\ s = e
       /\ x.payload_conflict => s # e
       /\ x.status = "duplicate" /\ ~ x.payload_conflict =>
            /\ s.event_type = e.event_type
            /\ s.timestamp = e.timestamp
            /\ s.currency = e.currency
            /\ ToMinorUnits(s.amount) = ToMinorUnits(e.amount)

AnswerHolds(d, r) ==
  /\ Len(r.results) = Len(r.batch)
  /\ \A i \in DOMAIN r.results : ResultHolds(d, r.now, r.results[i], r.batch[i])
  /\ r.created = Cardinality(Mine(d, r.now))
  /\ r.transactions_affected = Cardinality(Touches(d, r.now))
  /\ r.code = 201 <=> Mine(d, r.now) # {}

(* An answer a client holds stays true of the database: every result names *)
(* a stored event and the transaction that owns it, "created" means this   *)
(* very request stored this very payload, an unflagged duplicate agrees    *)
(* with the stored event on money, time and type, and the counts are those *)
(* of the rows this request inserted (post_events' response).              *)
RepliesTruthful ==
  \A r \in {x \in replies : x.code \in {200, 201}} : AnswerHolds(db, r)

(* A request answered with an error left nothing behind: no event, no      *)
(* touched transaction or merchant row (ROLLBACK of the whole batch, and   *)
(* BEGIN IMMEDIATE outside the try).                                       *)
ErrorMeansNothingStored ==
  \A r \in {x \in replies : x.code >= 400} : r.now \notin Stamps(db)

Rank == [initiated |-> 0, processed |-> 1, settled |-> 2, failed |-> 3]

Onward == [initiated |-> {"initiated", "processed", "failed", "conflicted"},
           processed |-> {"processed", "conflicted"},
           failed |-> {"failed", "conflicted"},
           conflicted |-> {"conflicted"}]

(* What a reader of the newer database sees of the older one.              *)
OnlyForward(older, newer) ==
  \A t \in DOMAIN older.transactions :
    /\ t \in DOMAIN newer.transactions
    /\ LET old == older.transactions[t]
           new == newer.transactions[t]
       IN /\ Rank[Status(old)] <= Rank[Status(new)]
          /\ SettlementStatus(old) = "settled" => SettlementStatus(new) = "settled"
          /\ PaymentStatus(new) \in Onward[PaymentStatus(old)]

(* A transaction a reader has seen never vanishes, never moves back in the *)
(* status order and never un-settles, whatever arrives late (the generated *)
(* columns over the MIN fold).                                             *)
StatusNeverRegresses == [][OnlyForward(db, db')]_vars

(* The committed database moves by whole batches only: each change of it   *)
(* is the batch of one request that is then answered 200 or 201, applied   *)
(* as Batch.tla applies it, clock included (ingest_events between BEGIN    *)
(* IMMEDIATE and COMMIT; CommitBatch of Readers and Paging, Post of Boot). *)
CommitsAreBatches ==
  [][\/ db' = db
     \/ \E w \in Workers : /\ req'[w].stage = "respond" /\ req'[w].code \in {200, 201}
                           /\ db' = ApplyBatch(db, req[w].batch, req[w].now)]_vars

(* Every request ends and lets go of the write lock: no order of waiting   *)
(* writers, errors, lost answers and crashes leaves the database locked.   *)
NoRequestHangs ==
  \A w \in Workers :
    (req[w].stage # "idle" \/ lock = w) ~> (req[w].stage = "idle" /\ lock # w)

(* The committed database implements the abstract log: whole batches, each *)
(* event_id once, redeliveries counted where the stored event belongs.     *)
Promise == INSTANCE EventLog WITH
  log <- [i \in DOMAIN db.events |-> db.events[i].payload],
  replays <- [t \in Txns |-> IF t \in DOMAIN db.transactions
                             THEN db.transactions[t].duplicate_event_count ELSE 0]

ImplementsEventLog == Promise!Spec
=============================================================================
