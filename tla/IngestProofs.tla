---------------------------- MODULE IngestProofs ----------------------------
(***************************************************************************)
(* Safety of POST /events for any number of workers, any set of request    *)
(* bodies and any bounds, by four inductive invariants, each a part of the *)
(* next:                                                                   *)
(*   IInv  both images of the database are in order: types, keys, the      *)
(*         projection, and statuses that never move back;                  *)
(*   EInv  who has the lock and whose clock values are on which rows: an   *)
(*         error answer leaves nothing stored;                             *)
(*   AInv  what the results of a request in progress say of the draft: an  *)
(*         answer stays true of the database;                              *)
(*   BInv  the draft is the image after as many events as the lock holder  *)
(*         has results: commits are whole batches, and Ingest implements   *)
(*         EventLog.                                                       *)
(***************************************************************************)
EXTENDS Ingest, LedgerProofs

(* Both images of the database are in order, and the lock holder's only    *)
(* adds to the committed one.  Nothing about the lock itself is needed:    *)
(* every step starts a draft from db, extends the draft, discards it or    *)
(* publishes it.                                                           *)
IInv == /\ TypeOK
        /\ GoodDb(db) /\ GoodDb(draft)
        /\ KeepsTimes(db, draft)

-----------------------------------------------------------------------------
(* A database keeps its own times.                                         *)
LEMMA KeepsTimesReflexive ==
  ASSUME NEW d
  PROVE  KeepsTimes(d, d)
  BY DEF KeepsTimes

(* What two steps keep in turn is kept by both together.                   *)
LEMMA KeepsTimesTransitive ==
  ASSUME NEW a, NEW b, NEW c, KeepsTimes(a, b), KeepsTimes(b, c)
  PROVE  KeepsTimes(a, c)
  BY DEF KeepsTimes

(* The next event of a request in progress is a validated event.           *)
LEMMA NextEventType ==
  ASSUME TypeOK, NEW w \in Workers, Applying(w), MoreEvents(w)
  PROVE  NextEvent(w) \in EventIn
<1> DEFINE q == req[w]
<1>1. q \in Request /\ q.results \in Seq(Result)
  BY DEF TypeOK, Request
<1>2. q.batch \in Seq(EventIn)
  BY <1>1, BatchesAssumption, EmptySeq DEF Request
<1>3. Len(q.results) \in Nat /\ Len(q.batch) \in Nat
  BY <1>1, <1>2, LenProperties
<1>4. Len(q.results) + 1 \in 1..Len(q.batch)
  BY <1>3 DEF MoreEvents
<1>5. q.batch[Len(q.results) + 1] \in EventIn
  BY <1>2, <1>4, ElementOfSeq
<1> QED  BY <1>5 DEF NextEvent

(* A request that gains a well-typed result stays well typed.              *)
LEMMA ResultAppended ==
  ASSUME NEW q \in Request, NEW x \in Result
  PROVE  [q EXCEPT !.results = Append(q.results, x)] \in Request
<1>1. Append(q.results, x) \in Seq(Result)
  BY AppendProperties DEF Request
<1> QED  BY <1>1 DEF Request

(* An answered request has the type of a request.                          *)
LEMMA AnsweredType ==
  ASSUME NEW q \in Request, NEW c \in Codes
  PROVE  Answered(q, c) \in Request
  BY DEF Answered, Request, Stages

(* IInv holds of an empty database.                                        *)
LEMMA InitIInv == Init => IInv
<1> SUFFICES ASSUME Init PROVE IInv
  OBVIOUS
<1>1. NoRequest \in Request
  BY EmptySeq DEF NoRequest, Request, Stages, Codes
<1>2. GoodDb(db) /\ GoodDb(draft)
  BY EmptyDbGood DEF Init
<1>3. TypeOK
  BY <1>1, <1>2 DEF Init, TypeOK, GoodDb
<1>4. KeepsTimes(db, draft)
  BY KeepsTimesReflexive DEF Init
<1> QED  BY <1>2, <1>3, <1>4 DEF IInv

-----------------------------------------------------------------------------
(* One lemma per action that touches the database, then the step.          *)
LEMMA StoreEventIInv ==
  ASSUME IInv, NEW w \in Workers, StoreEvent(w)
  PROVE  IInv'
<1> DEFINE e == NextEvent(w)
           now == req[w].now
           x == [event_id |-> e.event_id, transaction_id |-> e.transaction_id,
                 status |-> "created", payload_conflict |-> FALSE]
<1>0. TypeOK /\ GoodDb(db) /\ GoodDb(draft) /\ KeepsTimes(db, draft)
  BY DEF IInv
<1>1. e \in EventIn /\ now \in Nat /\ req[w] \in Request
  BY <1>0, NextEventType DEF StoreEvent, TypeOK, Request
<1>2. /\ e.event_id \notin Ids(draft.events)
      /\ draft' = ApplyNew(draft, e, now)
      /\ req' = [req EXCEPT ![w].results = Append(req[w].results, x)]
      /\ UNCHANGED <<db, lock, sends, replies, crashes>>
  BY <1>0 DEF StoreEvent, StoredAlready, TypeOK
<1>3. x \in Result
  BY <1>1 DEF Result, EventIn
<1> HIDE DEF e, now, x
<1>4. GoodDb(draft')
  BY <1>0, <1>1, <1>2, ApplyNewGood
<1>5. KeepsTimes(draft, draft')
  BY <1>0, <1>1, <1>2, ApplyNewKeepsTimes DEF GoodDb
<1>6. KeepsTimes(db', draft')
  BY <1>0, <1>2, <1>5, KeepsTimesTransitive
<1>7. req' \in [Workers -> Request]
  <2>1. req' = [req EXCEPT ![w] = [req[w] EXCEPT !.results = Append(req[w].results, x)]]
    BY <1>2
  <2>2. [req[w] EXCEPT !.results = Append(req[w].results, x)] \in Request
    BY <1>1, <1>3, ResultAppended
  <2> QED  BY <1>0, <2>1, <2>2 DEF TypeOK
<1>8. TypeOK'
  BY <1>0, <1>2, <1>4, <1>7 DEF TypeOK, GoodDb
<1> QED  BY <1>0, <1>2, <1>4, <1>6, <1>8 DEF IInv

(* Absorbing a redelivery in the draft keeps it in order.                  *)
LEMMA AbsorbReplayIInv ==
  ASSUME IInv, NEW w \in Workers, AbsorbReplay(w)
  PROVE  IInv'
<1> DEFINE e == NextEvent(w)
           now == req[w].now
           existing == Existing(draft.events, e.event_id)
           x == [event_id |-> e.event_id, transaction_id |-> existing.transaction_id,
                 status |-> "duplicate", payload_conflict |-> PayloadDiffers(existing, e)]
<1>0. TypeOK /\ GoodDb(db) /\ GoodDb(draft) /\ KeepsTimes(db, draft)
  BY DEF IInv
<1>1. e \in EventIn /\ now \in Nat /\ req[w] \in Request
  BY <1>0, NextEventType DEF AbsorbReplay, TypeOK, Request
<1>2. /\ e.event_id \in Ids(draft.events)
      /\ draft' = ApplyReplay(draft, e, now)
      /\ req' = [req EXCEPT ![w].results = Append(req[w].results, x)]
      /\ UNCHANGED <<db, lock, sends, replies, crashes>>
  BY <1>0 DEF AbsorbReplay, StoredAlready, TypeOK
<1>3. existing \in EventIn
  BY <1>0, <1>2, ExistingStored DEF TypeOK, IsDb
<1>4. x \in Result
  <2>1. PayloadDiffers(existing, e) \in BOOLEAN
    BY DEF PayloadDiffers
  <2>2. existing.transaction_id \in Txns /\ e.event_id \in EventIds
    BY <1>1, <1>3 DEF EventIn
  <2> HIDE DEF existing, e
  <2> QED  BY <2>1, <2>2 DEF Result
<1> HIDE DEF e, now, x
<1>5. GoodDb(draft')
  BY <1>0, <1>1, <1>2, ApplyReplayGood
<1>6. KeepsTimes(draft, draft')
  BY <1>0, <1>1, <1>2, ApplyReplayKeepsTimes
<1>7. KeepsTimes(db', draft')
  BY <1>0, <1>2, <1>6, KeepsTimesTransitive
<1>8. req' \in [Workers -> Request]
  <2>1. req' = [req EXCEPT ![w] = [req[w] EXCEPT !.results = Append(req[w].results, x)]]
    BY <1>2
  <2>2. [req[w] EXCEPT !.results = Append(req[w].results, x)] \in Request
    BY <1>1, <1>4, ResultAppended
  <2> QED  BY <1>0, <2>1, <2>2 DEF TypeOK
<1>9. TypeOK'
  BY <1>0, <1>2, <1>5, <1>8 DEF TypeOK, GoodDb
<1> QED  BY <1>0, <1>2, <1>5, <1>7, <1>9 DEF IInv

(* The other actions move whole images about and never edit one.           *)
LEMMA NextIInv == IInv /\ [Next]_vars => IInv'
<1> SUFFICES ASSUME IInv, [Next]_vars PROVE IInv'
  OBVIOUS
<1>0. /\ TypeOK /\ GoodDb(db) /\ GoodDb(draft) /\ KeepsTimes(db, draft)
      /\ KeepsTimes(db, db) /\ KeepsTimes(draft, draft)
  BY KeepsTimesReflexive DEF IInv
<1>1. NoRequest \in Request
  BY EmptySeq DEF NoRequest, Request, Stages, Codes
<1>2. ASSUME NEW w \in Workers, NEW b \in Batches, Receive(w, b)
      PROVE  IInv'
  <2>1. UNCHANGED <<db, draft, lock, crashes>> /\ sends' = sends + 1
    BY <1>2 DEF Receive
  <2>2. Refusal(b) \in Codes
    BY DEF Refusal, Codes
  <2>3. [stage |-> IF Refusal(b) = 0 THEN "begin" ELSE "respond", batch |-> b,
         now |-> sends + 1, results |-> <<>>, code |-> Refusal(b)] \in Request
    BY <1>0, <2>2, EmptySeq DEF Request, Stages, TypeOK
  <2>4. req' \in [Workers -> Request]
    BY <1>0, <1>2, <2>3 DEF Receive, TypeOK
  <2>5. TypeOK'
    BY <1>0, <2>1, <2>4 DEF TypeOK
  <2> QED  BY <1>0, <2>1, <2>5 DEF IInv
<1>3. ASSUME NEW w \in Workers, BeginImmediate(w)
      PROVE  IInv'
  <2>1. UNCHANGED <<db, sends, crashes>> /\ draft' = db /\ lock' = w
    BY <1>3 DEF BeginImmediate
  <2>2. req' \in [Workers -> Request]
    BY <1>0, <1>3 DEF BeginImmediate, TypeOK, Request, Stages
  <2>3. TypeOK'
    BY <1>0, <2>1, <2>2 DEF TypeOK
  <2> QED  BY <1>0, <2>1, <2>3 DEF IInv
<1>4. ASSUME NEW w \in Workers, BusyTimeout(w)
      PROVE  IInv'
  <2>1. UNCHANGED <<db, draft, lock, sends, crashes>>
    BY <1>4 DEF BusyTimeout
  <2>2. req' \in [Workers -> Request]
    BY <1>0, <1>4, AnsweredType DEF BusyTimeout, TypeOK, Codes
  <2>3. TypeOK'
    BY <1>0, <2>1, <2>2 DEF TypeOK
  <2> QED  BY <1>0, <2>1, <2>3 DEF IInv
<1>5. ASSUME NEW w \in Workers, Commit(w)
      PROVE  IInv'
  <2>1. UNCHANGED <<draft, sends, crashes>> /\ db' = draft /\ lock' = NULL
    BY <1>5 DEF Commit
  <2>2. req' \in [Workers -> Request]
    BY <1>0, <1>5, AnsweredType DEF Commit, TypeOK, Codes
  <2>3. TypeOK'
    BY <1>0, <2>1, <2>2 DEF TypeOK
  <2> QED  BY <1>0, <2>1, <2>3 DEF IInv
<1>6. ASSUME NEW w \in Workers, Rollback(w)
      PROVE  IInv'
  <2>1. UNCHANGED <<db, sends, crashes>> /\ draft' = db /\ lock' = NULL
    BY <1>6 DEF Rollback
  <2>2. req' \in [Workers -> Request]
    BY <1>0, <1>6, AnsweredType DEF Rollback, TypeOK, Codes
  <2>3. TypeOK'
    BY <1>0, <2>1, <2>2 DEF TypeOK
  <2> QED  BY <1>0, <2>1, <2>3 DEF IInv
<1>7. ASSUME NEW w \in Workers, Respond(w) \/ LoseReply(w)
      PROVE  IInv'
  <2>1. UNCHANGED <<db, draft, lock, sends, crashes>> /\ req' = [req EXCEPT ![w] = NoRequest]
    BY <1>7 DEF Respond, LoseReply
  <2>2. TypeOK'
    BY <1>0, <1>1, <2>1 DEF TypeOK
  <2> QED  BY <1>0, <2>1, <2>2 DEF IInv
<1>8. ASSUME Crash
      PROVE  IInv'
  <2>1. /\ UNCHANGED <<db, sends>> /\ draft' = db /\ lock' = NULL
        /\ crashes' = crashes + 1 /\ req' = [w \in Workers |-> NoRequest]
    BY <1>8 DEF Crash
  <2>2. TypeOK'
    BY <1>0, <1>1, <2>1 DEF TypeOK
  <2> QED  BY <1>0, <2>1, <2>2 DEF IInv
<1>9. CASE UNCHANGED vars
  BY <1>0, <1>9 DEF IInv, TypeOK, vars
<1> QED
  BY <1>2, <1>3, <1>4, <1>5, <1>6, <1>7, <1>8, <1>9, StoreEventIInv, AbsorbReplayIInv
     DEF Next, Step

(* Both databases are in order, and the draft keeps the times of the       *)
(* committed one, in every state.                                          *)
THEOREM Invariance == Spec => []IInv
  BY InitIInv, NextIInv, PTL DEF Spec

-----------------------------------------------------------------------------
(* Every variable keeps its type, whatever the workers, bodies and bounds. *)
THEOREM TypeCorrect == Spec => []TypeOK
<1>1. IInv => TypeOK
  BY DEF IInv
<1> QED  BY <1>1, Invariance, PTL

(* At all times the projection, committed and in progress, is the one the  *)
(* event log determines.                                                   *)
THEOREM ProjectionCorrect == Spec => []ProjectionReflectsLog
<1>1. IInv => ProjectionReflectsLog
  BY DEF IInv, GoodDb, ProjectionReflectsLog
<1> QED  BY <1>1, Invariance, PTL

(* No statement of the ingest loop can meet a key constraint.              *)
THEOREM KeysCorrect == Spec => []KeysNeverBite
<1>1. IInv => KeysNeverBite
  BY DEF IInv, GoodDb, KeysNeverBite
<1> QED  BY <1>1, Invariance, PTL

(* If no time is cleared, no status moves back.                            *)
LEMMA KeptTimesGoForward ==
  ASSUME NEW older, NEW newer, KeepsTimes(older, newer)
  PROVE  OnlyForward(older, newer)
<1> SUFFICES ASSUME NEW t \in DOMAIN older.transactions
             PROVE  LET old == older.transactions[t]
                        new == newer.transactions[t]
                    IN /\ t \in DOMAIN newer.transactions
                       /\ Rank[Status(old)] <= Rank[Status(new)]
                       /\ SettlementStatus(old) = "settled" =>
                            SettlementStatus(new) = "settled"
                       /\ PaymentStatus(new) \in Onward[PaymentStatus(old)]
  BY DEF OnlyForward
<1> DEFINE old == older.transactions[t]
           new == newer.transactions[t]
<1>1. /\ t \in DOMAIN newer.transactions
      /\ old.at["processed_at"] # NULL => new.at["processed_at"] # NULL
      /\ old.at["failed_at"] # NULL => new.at["failed_at"] # NULL
      /\ old.at["settled_at"] # NULL => new.at["settled_at"] # NULL
  BY DEF KeepsTimes, Columns
<1> HIDE DEF old, new
<1>2. Rank[Status(old)] <= Rank[Status(new)]
  BY <1>1 DEF Rank, Status
<1>3. SettlementStatus(old) = "settled" => SettlementStatus(new) = "settled"
  BY <1>1 DEF SettlementStatus
<1>4. PaymentStatus(new) \in Onward[PaymentStatus(old)]
  BY <1>1 DEF PaymentStatus, Onward
<1> QED  BY <1>1, <1>2, <1>3, <1>4 DEF old, new

(* Only COMMIT changes what readers see, and it publishes a draft that     *)
(* kept every timestamp: no status ever moves back.                        *)
THEOREM StatusForward == Spec => StatusNeverRegresses
<1>1. IInv /\ [Next]_vars => [OnlyForward(db, db')]_vars
  <2> SUFFICES ASSUME IInv, Next PROVE OnlyForward(db, db')
    BY DEF vars
  <2>1. db' = db \/ db' = draft
    BY DEF Next, Step, Receive, BeginImmediate, BusyTimeout, StoreEvent, AbsorbReplay,
           Commit, Rollback, Respond, LoseReply, Crash
  <2>2. KeepsTimes(db, db')
    BY <2>1, KeepsTimesReflexive DEF IInv
  <2> QED  BY <2>2, KeptTimesGoForward
<1> QED  BY <1>1, Invariance, PTL DEF Spec, StatusNeverRegresses

-----------------------------------------------------------------------------
(* What the answers rest on.  First, who holds the lock and whose clock    *)
(* value is whose.                                                         *)
LockHeld ==
  /\ \A w \in Workers : req[w].stage = "apply" <=> lock = w
  /\ lock = NULL => draft = db

Active(w) == req[w].stage # "idle"

OwnClock ==
  /\ \A w \in Workers : Active(w) => req[w].now \in 0..sends
  /\ \A v, w \in Workers : Active(v) /\ Active(w) /\ req[v].now = req[w].now => v = w
  /\ \A r \in replies : /\ r.now \in 0..sends
                        /\ \A w \in Workers : Active(w) => req[w].now # r.now

(* Requests that have committed nothing, and never will under this number. *)
Unstored(w) == \/ req[w].stage \in {"begin", "apply"}
               \/ req[w].stage = "respond" /\ req[w].code >= 400

(* What is committed carries no stamp of an error; the draft adds at most  *)
(* the stamp of the request that writes it.                                *)
StampsKnown ==
  /\ Stamps(db) \subseteq 0..sends
  /\ \A w \in Workers : Unstored(w) => req[w].now \notin Stamps(db)
  /\ \A w \in Workers : lock = w => Stamps(draft) \subseteq Stamps(db) \cup {req[w].now}
  /\ ErrorMeansNothingStored

EInv == IInv /\ LockHeld /\ OwnClock /\ StampsKnown

(* Before the first request nothing is stamped and nothing answered.       *)
LEMMA InitEInv == Init => EInv
<1> SUFFICES ASSUME Init PROVE EInv
  OBVIOUS
<1>1. /\ db = EmptyDb /\ draft = EmptyDb /\ lock = NULL /\ sends = 0 /\ replies = {}
      /\ \A w \in Workers : req[w].stage = "idle" /\ w # lock
  BY WorkersAssumption DEF Init, NoRequest
<1>2. Stamps(EmptyDb) = {}
  BY DEF Stamps, EmptyDb
<1>3. IInv
  BY InitIInv
<1>4. LockHeld /\ OwnClock
  BY <1>1 DEF LockHeld, OwnClock, Active
<1>5. StampsKnown
  BY <1>1, <1>2 DEF StampsKnown, ErrorMeansNothingStored, Unstored
<1> QED  BY <1>3, <1>4, <1>5 DEF EInv

(* What every step may use.                                                *)
LEMMA EInvTypes ==
  ASSUME EInv
  PROVE  /\ req \in [Workers -> Request] /\ sends \in Nat
         /\ \A w \in Workers : req[w] \in Request /\ req[w].now \in Nat /\ w # NULL
         /\ IsDb(db) /\ IsDb(draft) /\ GoodDb(draft)
  BY WorkersAssumption DEF EInv, IInv, TypeOK, Request

(* A new request has a clock value that is nobody else's and on no row.    *)
LEMMA ReceiveEInv ==
  ASSUME EInv, IInv', NEW w \in Workers, NEW b \in Batches, Receive(w, b)
  PROVE  EInv'
<1> DEFINE q == [stage |-> IF Refusal(b) = 0 THEN "begin" ELSE "respond", batch |-> b,
                 now |-> sends + 1, results |-> <<>>, code |-> Refusal(b)]
<1>0. LockHeld /\ OwnClock /\ StampsKnown /\ req[w].stage = "idle"
  BY DEF EInv, Receive
<1>1. /\ UNCHANGED <<db, draft, lock, replies>> /\ sends' = sends + 1 /\ sends \in Nat
      /\ req'[w] = q /\ \A v \in Workers : v # w => req'[v] = req[v]
  BY EInvTypes DEF Receive
<1>2. q.stage \in {"begin", "respond"} /\ q.now = sends + 1
  OBVIOUS
<1> HIDE DEF q
<1>3. \A v \in Workers : req[v].now \in Nat
  BY EInvTypes
<1>4. LockHeld'
  BY <1>0, <1>1, <1>2 DEF LockHeld
<1>5. OwnClock'
  <2>1. \A v \in Workers : v # w /\ Active(v)' => req'[v].now \in 0..sends
    BY <1>0, <1>1 DEF OwnClock, Active
  <2>2. \A r \in replies : r.now \in 0..sends
    BY <1>0 DEF OwnClock
  <2>3. \A v \in Workers : Active(v)' => req'[v].now \in 0..sends'
    BY <1>1, <1>2, <1>3, <2>1
  <2>4. ASSUME NEW u \in Workers, NEW v \in Workers, Active(u)', Active(v)',
               req'[u].now = req'[v].now
        PROVE  u = v
    <3>1. CASE u = w \/ v = w
      BY <1>1, <1>2, <1>3, <2>1, <2>4, <3>1
    <3>2. CASE u # w /\ v # w
      BY <1>0, <1>1, <2>4, <3>2 DEF OwnClock, Active
    <3> QED  BY <3>1, <3>2
  <2>5. ASSUME NEW r \in replies
        PROVE  r.now \in 0..sends' /\ \A v \in Workers : Active(v)' => req'[v].now # r.now
    <3>1. r.now \in 0..sends' /\ r.now # sends + 1
      BY <1>1, <1>0, <2>2 DEF OwnClock
    <3>2. \A v \in Workers : v # w /\ Active(v)' => req'[v].now # r.now
      BY <1>0, <1>1 DEF OwnClock, Active
    <3> QED  BY <1>1, <1>2, <3>1, <3>2
  <2> QED  BY <1>1, <2>3, <2>4, <2>5 DEF OwnClock
<1>6. StampsKnown'
  <2>1. Stamps(db) \subseteq 0..sends /\ 0..sends \subseteq 0..sends'
    BY <1>0, <1>1 DEF StampsKnown
  <2>2. \A v \in Workers : Unstored(v)' => req'[v].now \notin Stamps(db)
    BY <1>0, <1>1, <1>2, <2>1 DEF StampsKnown, Unstored
  <2>3. lock # w
    BY <1>0 DEF LockHeld
  <2> QED  BY <1>0, <1>1, <2>1, <2>2, <2>3 DEF StampsKnown, ErrorMeansNothingStored
<1> QED  BY <1>4, <1>5, <1>6 DEF EInv

(* A request in flight that changes nothing but its progress.              *)
LEMMA ClockKept ==
  ASSUME OwnClock, NEW w \in Workers, Active(w), req'[w].now = req[w].now,
         \A v \in Workers : v # w => req'[v] = req[v], UNCHANGED <<sends, replies>>
  PROVE  OwnClock'
<1>1. \A v \in Workers : Active(v)' => Active(v) /\ req'[v].now = req[v].now
  BY DEF Active
<1> QED  BY <1>1 DEF OwnClock

(* The draft of a worker that enters BEGIN IMMEDIATE is the committed      *)
(* database, without a mark of its own.                                    *)
LEMMA BeginEInv ==
  ASSUME EInv, IInv', NEW w \in Workers, BeginImmediate(w)
  PROVE  EInv'
<1>0. LockHeld /\ OwnClock /\ StampsKnown /\ w # NULL /\ req[w].stage = "begin"
  BY EInvTypes DEF EInv, BeginImmediate
<1>1. /\ UNCHANGED <<db, sends, replies>> /\ draft' = db /\ lock = NULL /\ lock' = w
      /\ req'[w] = [req[w] EXCEPT !.stage = "apply"]
      /\ \A v \in Workers : v # w => req'[v] = req[v]
  BY EInvTypes DEF BeginImmediate
<1>2. req'[w].stage = "apply" /\ req'[w].now = req[w].now
  BY <1>1, EInvTypes DEF Request
<1>3. LockHeld'
  BY <1>0, <1>1, <1>2, EInvTypes DEF LockHeld
<1>4. OwnClock'
  BY <1>0, <1>1, <1>2, ClockKept DEF Active
<1>5. StampsKnown'
  <2>1. \A v \in Workers : Unstored(v)' => Unstored(v) /\ req'[v].now = req[v].now
    BY <1>0, <1>1, <1>2 DEF Unstored
  <2> QED  BY <1>0, <1>1, <2>1 DEF StampsKnown, ErrorMeansNothingStored
<1> QED  BY <1>3, <1>4, <1>5 DEF EInv

(* A request that never got the lock has left no mark.                     *)
LEMMA BusyTimeoutEInv ==
  ASSUME EInv, IInv', NEW w \in Workers, BusyTimeout(w)
  PROVE  EInv'
<1>0. LockHeld /\ OwnClock /\ StampsKnown /\ req[w].stage = "begin"
  BY DEF EInv, BusyTimeout
<1>1. /\ UNCHANGED <<db, draft, lock, sends, replies>>
      /\ req'[w] = Answered(req[w], 500) /\ \A v \in Workers : v # w => req'[v] = req[v]
  BY EInvTypes DEF BusyTimeout
<1>2. req'[w].stage = "respond" /\ req'[w].now = req[w].now
  BY <1>1, EInvTypes DEF Request, Answered
<1>3. LockHeld'
  BY <1>0, <1>1, <1>2 DEF LockHeld
<1>4. OwnClock'
  BY <1>0, <1>1, <1>2, ClockKept DEF Active
<1>5. StampsKnown'
  <2>1. \A v \in Workers : Unstored(v)' => Unstored(v) /\ req'[v].now = req[v].now
    BY <1>0, <1>1, <1>2 DEF Unstored
  <2>2. \A v \in Workers : req'[v].now = req[v].now
    BY <1>1, <1>2
  <2> QED  BY <1>0, <1>1, <2>1, <2>2 DEF StampsKnown, ErrorMeansNothingStored
<1> QED  BY <1>3, <1>4, <1>5 DEF EInv

(* Both branches of the loop: the draft gains the holder's stamp.          *)
LEMMA LoopEInv ==
  ASSUME EInv, IInv', NEW w \in Workers, NEW x, Applying(w),
         Stamps(draft') \subseteq Stamps(draft) \cup {req[w].now},
         req' = [req EXCEPT ![w].results = Append(@, x)],
         UNCHANGED <<db, lock, sends, replies>>
  PROVE  EInv'
<1>0. LockHeld /\ OwnClock /\ StampsKnown /\ req[w].stage = "apply" /\ lock = w
  BY DEF EInv, Applying
<1>1. /\ req'[w] = [req[w] EXCEPT !.results = Append(req[w].results, x)]
      /\ \A v \in Workers : v # w => req'[v] = req[v]
  BY EInvTypes
<1>2. req'[w].stage = "apply" /\ req'[w].now = req[w].now
  BY <1>0, <1>1, EInvTypes DEF Request
<1>3. LockHeld'
  BY <1>0, <1>1, <1>2, EInvTypes DEF LockHeld
<1>4. OwnClock'
  BY <1>0, <1>1, <1>2, ClockKept DEF Active
<1>5. StampsKnown'
  <2>1. \A v \in Workers : Unstored(v)' => Unstored(v) /\ req'[v].now = req[v].now
    BY <1>0, <1>1, <1>2 DEF Unstored
  <2>2. Stamps(draft') \subseteq Stamps(db) \cup {req[w].now}
    BY <1>0 DEF StampsKnown
  <2> QED  BY <1>0, <1>1, <1>2, <2>1, <2>2 DEF StampsKnown, ErrorMeansNothingStored
<1> QED  BY <1>3, <1>4, <1>5 DEF EInv

(* A stored event marks the draft, with its own request's clock only.      *)
LEMMA StoreEventEInv ==
  ASSUME EInv, IInv', NEW w \in Workers, StoreEvent(w)
  PROVE  EInv'
<1> DEFINE e == NextEvent(w)
           x == [event_id |-> e.event_id, transaction_id |-> e.transaction_id,
                 status |-> "created", payload_conflict |-> FALSE]
<1>1. /\ Applying(w) /\ draft' = ApplyNew(draft, e, req[w].now)
      /\ req' = [req EXCEPT ![w].results = Append(@, x)]
      /\ UNCHANGED <<db, lock, sends, replies>>
  BY DEF StoreEvent
<1>2. e \in EventIn
  BY NextEventType DEF EInv, IInv, StoreEvent
<1> HIDE DEF e, x
<1>3. Stamps(draft') \subseteq Stamps(draft) \cup {req[w].now}
  BY <1>1, <1>2, EInvTypes, ApplyNewStamps
<1> QED  BY <1>1, <1>3, LoopEInv

(* A counted redelivery marks the draft, with its own request's clock      *)
(* only.                                                                   *)
LEMMA AbsorbReplayEInv ==
  ASSUME EInv, IInv', NEW w \in Workers, AbsorbReplay(w)
  PROVE  EInv'
<1> DEFINE e == NextEvent(w)
           existing == Existing(draft.events, e.event_id)
           x == [event_id |-> e.event_id, transaction_id |-> existing.transaction_id,
                 status |-> "duplicate", payload_conflict |-> PayloadDiffers(existing, e)]
<1>1. /\ Applying(w) /\ draft' = ApplyReplay(draft, e, req[w].now)
      /\ e.event_id \in Ids(draft.events)
      /\ req' = [req EXCEPT ![w].results = Append(@, x)]
      /\ UNCHANGED <<db, lock, sends, replies>>
  BY DEF AbsorbReplay, StoredAlready
<1>2. e \in EventIn
  BY NextEventType DEF EInv, IInv, AbsorbReplay
<1> HIDE DEF e, x
<1>3. Stamps(draft') \subseteq Stamps(draft) \cup {req[w].now}
  BY <1>1, <1>2, EInvTypes, ApplyReplayStamps
<1> QED  BY <1>1, <1>3, LoopEInv

(* What a commit publishes is marked by a request that ends in 200 or 201. *)
LEMMA CommitEInv ==
  ASSUME EInv, IInv', NEW w \in Workers, Commit(w)
  PROVE  EInv'
<1>0. LockHeld /\ OwnClock /\ StampsKnown /\ req[w].stage = "apply" /\ lock = w
  BY DEF EInv, Commit, Applying
<1>1. /\ UNCHANGED <<draft, sends, replies>> /\ db' = draft /\ lock' = NULL
      /\ req'[w] = Answered(req[w], IF Created(req[w].results) # {} THEN 201 ELSE 200)
      /\ \A v \in Workers : v # w => req'[v] = req[v]
  BY EInvTypes DEF Commit
<1>2. /\ req'[w].stage = "respond" /\ req'[w].now = req[w].now
      /\ req'[w].code \in {200, 201}
  BY <1>1, EInvTypes DEF Request, Answered
<1>3. LockHeld'
  BY <1>0, <1>1, <1>2, EInvTypes DEF LockHeld
<1>4. OwnClock'
  BY <1>0, <1>1, <1>2, ClockKept DEF Active
<1>5. StampsKnown'
  <2>1. \A v \in Workers : Unstored(v)' => v # w /\ Unstored(v) /\ req'[v] = req[v]
    BY <1>1, <1>2 DEF Unstored
  <2>2. \A v \in Workers : Unstored(v)' => req'[v].now # req[w].now
    BY <1>0, <2>1 DEF OwnClock, Active, Unstored
  <2>3. Stamps(draft) \subseteq Stamps(db) \cup {req[w].now}
    BY <1>0 DEF StampsKnown
  <2>4. req[w].now \in 0..sends
    BY <1>0 DEF OwnClock, Active
  <2>5. \A r \in replies : r.now # req[w].now
    BY <1>0 DEF OwnClock, Active
  <2>6. lock' = NULL /\ \A v \in Workers : lock' # v
    BY <1>1, EInvTypes
  <2>7. Stamps(db)' \subseteq 0..sends'
    BY <1>0, <1>1, <2>3, <2>4 DEF StampsKnown
  <2>8. \A v \in Workers : Unstored(v)' => req'[v].now \notin Stamps(db)'
    BY <1>0, <1>1, <2>1, <2>2, <2>3 DEF StampsKnown
  <2>9. ErrorMeansNothingStored'
    BY <1>0, <1>1, <2>3, <2>5 DEF StampsKnown, ErrorMeansNothingStored
  <2> QED  BY <2>6, <2>7, <2>8, <2>9 DEF StampsKnown
<1> QED  BY <1>3, <1>4, <1>5 DEF EInv

(* A request that is rolled back leaves no mark.                           *)
LEMMA RollbackEInv ==
  ASSUME EInv, IInv', NEW w \in Workers, Rollback(w)
  PROVE  EInv'
<1>0. LockHeld /\ OwnClock /\ StampsKnown /\ req[w].stage = "apply" /\ lock = w
  BY DEF EInv, Rollback, Applying
<1>1. /\ UNCHANGED <<db, sends, replies>> /\ draft' = db /\ lock' = NULL
      /\ req'[w] = Answered(req[w], 500) /\ \A v \in Workers : v # w => req'[v] = req[v]
      /\ \A v \in Workers : lock' # v
  BY EInvTypes DEF Rollback
<1>2. req'[w].stage = "respond" /\ req'[w].now = req[w].now
  BY <1>1, EInvTypes DEF Request, Answered
<1>3. LockHeld'
  BY <1>0, <1>1, <1>2, EInvTypes DEF LockHeld
<1>4. OwnClock'
  BY <1>0, <1>1, <1>2, ClockKept DEF Active
<1>5. StampsKnown'
  <2>1. \A v \in Workers : Unstored(v)' => Unstored(v) /\ req'[v].now = req[v].now
    BY <1>0, <1>1, <1>2 DEF Unstored
  <2> QED  BY <1>0, <1>1, <2>1 DEF StampsKnown, ErrorMeansNothingStored
<1> QED  BY <1>3, <1>4, <1>5 DEF EInv

(* An error answer that is sent or lost belongs to no mark.                *)
LEMMA AnswerEInv ==
  ASSUME EInv, IInv', NEW w \in Workers, Respond(w) \/ LoseReply(w)
  PROVE  EInv'
<1>0. LockHeld /\ OwnClock /\ StampsKnown /\ req[w].stage = "respond"
  BY DEF EInv, Respond, LoseReply
<1>1. /\ UNCHANGED <<db, draft, lock, sends>>
      /\ replies' \subseteq replies \cup {Reply(req[w])}
      /\ req'[w] = NoRequest /\ \A v \in Workers : v # w => req'[v] = req[v]
  BY EInvTypes DEF Respond, LoseReply
<1>2. req'[w].stage = "idle"
  BY <1>1 DEF NoRequest
<1>3. Reply(req[w]).now = req[w].now /\ Reply(req[w]).code = req[w].code
  BY DEF Reply
<1>4. LockHeld'
  BY <1>0, <1>1, <1>2 DEF LockHeld
<1>5. OwnClock'
  <2>1. \A v \in Workers : Active(v)' => v # w /\ Active(v) /\ req'[v] = req[v]
    BY <1>1, <1>2 DEF Active
  <2>2. req[w].now \in 0..sends /\ \A v \in Workers : v # w /\ Active(v) => req[v].now # req[w].now
    BY <1>0 DEF OwnClock, Active
  <2>3. ASSUME NEW r \in replies'
        PROVE  r.now \in 0..sends' /\ \A v \in Workers : Active(v)' => req'[v].now # r.now
    <3>1. CASE r \in replies
      BY <1>0, <1>1, <2>1, <3>1 DEF OwnClock
    <3>2. CASE r = Reply(req[w])
      BY <1>1, <1>3, <2>1, <2>2, <3>2
    <3> QED  BY <1>1, <3>1, <3>2
  <2>4. \A v \in Workers : Active(v)' => req'[v].now \in 0..sends'
    BY <1>0, <1>1, <2>1 DEF OwnClock
  <2>5. \A u, v \in Workers : Active(u)' /\ Active(v)' /\ req'[u].now = req'[v].now => u = v
    BY <1>0, <2>1 DEF OwnClock
  <2> QED  BY <2>3, <2>4, <2>5 DEF OwnClock
<1>6. StampsKnown'
  <2>1. \A v \in Workers : Unstored(v)' => Unstored(v) /\ req'[v] = req[v]
    BY <1>1, <1>2 DEF Unstored
  <2>2. lock # w
    BY <1>0 DEF LockHeld
  <2>3. ErrorMeansNothingStored'
    <3> SUFFICES ASSUME NEW r \in replies', r.code >= 400 PROVE r.now \notin Stamps(db)'
      BY DEF ErrorMeansNothingStored
    <3>1. CASE r \in replies
      BY <1>0, <1>1, <3>1 DEF StampsKnown, ErrorMeansNothingStored
    <3>2. CASE r = Reply(req[w])
      BY <1>0, <1>1, <1>3, <3>2 DEF StampsKnown, Unstored
    <3> QED  BY <1>1, <3>1, <3>2
  <2>4. \A v \in Workers : lock' = v => req'[v] = req[v]
    BY <1>1, <2>2
  <2> QED  BY <1>0, <1>1, <2>1, <2>3, <2>4 DEF StampsKnown
<1> QED  BY <1>4, <1>5, <1>6 DEF EInv

(* A crash leaves no mark of the requests it ends.                         *)
LEMMA CrashEInv ==
  ASSUME EInv, IInv', Crash
  PROVE  EInv'
<1>0. LockHeld /\ OwnClock /\ StampsKnown
  BY DEF EInv
<1>1. /\ UNCHANGED <<db, sends, replies>> /\ draft' = db /\ lock' = NULL
      /\ \A v \in Workers : req'[v].stage = "idle" /\ lock' # v
  BY EInvTypes DEF Crash, NoRequest
<1>2. LockHeld'
  BY <1>1 DEF LockHeld
<1>3. OwnClock'
  BY <1>0, <1>1 DEF OwnClock, Active
<1>4. StampsKnown'
  BY <1>0, <1>1 DEF StampsKnown, ErrorMeansNothingStored, Unstored
<1> QED  BY <1>2, <1>3, <1>4 DEF EInv

(* Every step keeps EInv.                                                  *)
LEMMA NextEInv == EInv /\ [Next]_vars => EInv'
<1> SUFFICES ASSUME EInv, [Next]_vars PROVE EInv'
  OBVIOUS
<1>0. IInv'
  BY NextIInv DEF EInv
<1>1. ASSUME NEW w \in Workers, Step(w) PROVE EInv'
  BY <1>0, <1>1, BeginEInv, BusyTimeoutEInv, StoreEventEInv, AbsorbReplayEInv, CommitEInv,
     RollbackEInv, AnswerEInv DEF Step
<1>2. CASE UNCHANGED vars
  BY <1>0, <1>2 DEF vars, EInv, LockHeld, OwnClock, StampsKnown, ErrorMeansNothingStored,
                    Active, Unstored
<1> QED  BY <1>0, <1>1, <1>2, ReceiveEInv, CrashEInv DEF Next

(* For any workers, bodies and bounds: a request answered with an error    *)
(* left nothing in the database, neither then nor later (ROLLBACK of the   *)
(* whole batch, and BEGIN IMMEDIATE before the try block).                 *)
THEOREM ErrorsStoreNothing == Spec => []ErrorMeansNothingStored
<1>1. EInv => ErrorMeansNothingStored
  BY DEF EInv, StampsKnown
<1> QED  BY <1>1, InitEInv, NextEInv, PTL DEF Spec

-----------------------------------------------------------------------------
(* Second, what the results so far say of the image they were made on.     *)
ResultsHold(d, q) ==
  /\ \A i \in DOMAIN q.results : ResultHolds(d, q.now, q.results[i], q.batch[i])
  /\ Cardinality(Created(q.results)) = Cardinality(Mine(d, q.now))
  /\ Affected(q.results) = Touches(d, q.now)

Succeeded(w) == req[w].stage = "respond" /\ req[w].code \in {200, 201}

ResultsKnown ==
  /\ \A w \in Workers : req[w].stage = "begin" => req[w].results = <<>>
  /\ \A w \in Workers :
       lock = w => /\ ContinuedBy(db, draft, req[w].now)
                   /\ ResultsHold(draft, req[w])
                   /\ Len(req[w].results) <= Len(req[w].batch)
  /\ \A w \in Workers :
       Succeeded(w) => /\ ResultsHold(db, req[w])
                       /\ Len(req[w].results) = Len(req[w].batch)
                       /\ (req[w].code = 201) <=> (Mine(db, req[w].now) # {})
  /\ RepliesTruthful

AInv == EInv /\ ResultsKnown

(* A result stays true when the log goes on.                               *)
LEMMA ResultLasts ==
  ASSUME NEW older, NEW newer, NEW other, ContinuedBy(older, newer, other),
         NEW now, NEW x, NEW e, ResultHolds(older, now, x, e)
  PROVE  ResultHolds(newer, now, x, e)
<1> DEFINE Fits(d, j) ==
             LET s == d.events[j].payload
             IN /\ x.event_id = s.event_id /\ s.event_id = e.event_id
                /\ x.transaction_id = s.transaction_id
                /\ x.status = "created" => j \in Mine(d, now) /\ s = e
                /\ x.payload_conflict => s # e
                /\ x.status = "duplicate" /\ ~ x.payload_conflict =>
                     /\ s.event_type = e.event_type
                     /\ s.timestamp = e.timestamp
                     /\ s.currency = e.currency
                     /\ ToMinorUnits(s.amount) = ToMinorUnits(e.amount)
<1>1. PICK j \in DOMAIN older.events : Fits(older, j)
  BY DEF ResultHolds
<1>2. j \in DOMAIN newer.events /\ newer.events[j] = older.events[j]
  BY DEF ContinuedBy
<1>3. j \in Mine(older, now) => j \in Mine(newer, now)
  BY <1>2 DEF Mine
<1>4. Fits(newer, j)
  BY <1>1, <1>2, <1>3
<1> QED  BY <1>2, <1>4 DEF ResultHolds

(* Nobody else's rows change what a request has done.                      *)
LEMMA MineLasts ==
  ASSUME NEW older, NEW newer, NEW other, ContinuedBy(older, newer, other),
         NEW now, now # other
  PROVE  Mine(newer, now) = Mine(older, now) /\ Touches(newer, now) = Touches(older, now)
<1>1. Mine(newer, now) = Mine(older, now)
  BY DEF ContinuedBy, Mine
<1>2. \A j \in Mine(older, now) : newer.events[j] = older.events[j]
  BY DEF ContinuedBy, Mine
<1> QED  BY <1>1, <1>2 DEF Touches

(* Results that hold of a database hold of what other requests make of it. *)
LEMMA ResultsLast ==
  ASSUME NEW older, NEW newer, NEW other, ContinuedBy(older, newer, other),
         NEW q, q.now # other, ResultsHold(older, q)
  PROVE  ResultsHold(newer, q)
<1>1. \A i \in DOMAIN q.results : ResultHolds(newer, q.now, q.results[i], q.batch[i])
  BY ResultLasts DEF ResultsHold
<1>2. Mine(newer, q.now) = Mine(older, q.now) /\ Touches(newer, q.now) = Touches(older, q.now)
  BY MineLasts
<1> QED  BY <1>1, <1>2 DEF ResultsHold

(* The new event joins both the log and the results.                       *)
LEMMA CreatedGrows ==
  ASSUME NEW rs \in Seq(Result), NEW x \in Result
  PROVE  LET new == Append(rs, x)
         IN /\ Created(new) = IF x.status = "created"
                              THEN Created(rs) \cup {Len(rs) + 1} ELSE Created(rs)
            /\ Affected(new) = IF x.status = "created"
                               THEN Affected(rs) \cup {x.transaction_id} ELSE Affected(rs)
            /\ IsFiniteSet(Created(rs)) /\ Len(rs) + 1 \notin Created(rs)
<1> DEFINE new == Append(rs, x)
           n == Len(rs) + 1
<1>1. /\ n \notin DOMAIN rs /\ IsFiniteSet(DOMAIN rs) /\ DOMAIN new = DOMAIN rs \cup {n}
      /\ new[n] = x /\ \A i \in DOMAIN rs : new[i] = rs[i]
  BY Appended
<1> HIDE DEF new, n
<1>2. Created(rs) \subseteq DOMAIN rs
  BY DEF Created
<1>3. Created(new) = IF x.status = "created" THEN Created(rs) \cup {n} ELSE Created(rs)
  BY <1>1 DEF Created
<1>4. Affected(new) = IF x.status = "created"
                      THEN Affected(rs) \cup {x.transaction_id} ELSE Affected(rs)
  <2>1. \A i \in Created(rs) : new[i].transaction_id = rs[i].transaction_id
    BY <1>1, <1>2
  <2> QED  BY <1>1, <1>3, <2>1 DEF Affected
<1>5. IsFiniteSet(Created(rs)) /\ n \notin Created(rs)
  BY <1>1, <1>2, FS_Subset
<1> QED  BY <1>3, <1>4, <1>5 DEF new, n

(* The rows of a request after it has inserted one more.                   *)
LEMMA MineGrows ==
  ASSUME NEW d, d.events \in Seq(EventRow), NEW row \in EventRow,
         NEW n, n.events = Append(d.events, row)
  PROVE  LET k == Len(d.events) + 1
             now == row.received_at
         IN /\ ContinuedBy(d, n, now)
            /\ Mine(n, now) = Mine(d, now) \cup {k}
            /\ Touches(n, now) = Touches(d, now) \cup {row.payload.transaction_id}
            /\ IsFiniteSet(Mine(d, now)) /\ k \notin Mine(d, now)
            /\ n.events[k] = row
<1> DEFINE k == Len(d.events) + 1
           now == row.received_at
<1>1. /\ k \notin DOMAIN d.events /\ IsFiniteSet(DOMAIN d.events)
      /\ DOMAIN n.events = DOMAIN d.events \cup {k}
      /\ n.events[k] = row /\ \A i \in DOMAIN d.events : n.events[i] = d.events[i]
  BY Appended
<1> HIDE DEF k
<1>2. ContinuedBy(d, n, now)
  BY <1>1 DEF ContinuedBy
<1>3. Mine(d, now) \subseteq DOMAIN d.events /\ Mine(n, now) = Mine(d, now) \cup {k}
  BY <1>1 DEF Mine
<1>4. Touches(n, now) = Touches(d, now) \cup {row.payload.transaction_id}
  <2>1. \A i \in Mine(d, now) : n.events[i] = d.events[i]
    BY <1>1, <1>3
  <2> QED  BY <1>1, <1>3, <2>1 DEF Touches
<1>5. IsFiniteSet(Mine(d, now)) /\ k \notin Mine(d, now)
  BY <1>1, <1>3, FS_Subset
<1> QED  BY <1>1, <1>2, <1>3, <1>4, <1>5 DEF k

(* ResultsHold looks at three fields only.                                 *)
LEMMA ResultsHoldSame ==
  ASSUME NEW d, NEW q, NEW p, p.results = q.results, p.batch = q.batch, p.now = q.now
  PROVE  ResultsHold(d, p) <=> ResultsHold(d, q)
  BY DEF ResultsHold

(* At the start there are no results and no answers.                       *)
LEMMA InitAInv == Init => AInv
<1> SUFFICES ASSUME Init PROVE AInv
  OBVIOUS
<1>1. /\ replies = {} /\ lock = NULL
      /\ \A w \in Workers : req[w].stage = "idle" /\ w # lock
  BY WorkersAssumption DEF Init, NoRequest
<1>2. ResultsKnown
  BY <1>1 DEF ResultsKnown, Succeeded, RepliesTruthful
<1> QED  BY <1>2, InitEInv DEF AInv

(* Steps that leave the database, its draft and the answers as they are.   *)
LEMMA QuietResults ==
  ASSUME AInv, UNCHANGED <<db, draft, lock, replies>>,
         \A v \in Workers : \/ req'[v] = req[v]
                            \/ lock # v /\ ~ Succeeded(v)' /\ req'[v].stage # "begin"
                            \/ lock # v /\ ~ Succeeded(v)' /\ req'[v].results = <<>>
  PROVE  ResultsKnown'
<1>1. ResultsKnown
  BY DEF AInv
<1>2. RepliesTruthful'
  BY <1>1 DEF ResultsKnown, RepliesTruthful
<1>3. ASSUME NEW v \in Workers, req'[v].stage = "begin" PROVE req'[v].results = <<>>
  BY <1>1, <1>3 DEF ResultsKnown
<1>4. ASSUME NEW v \in Workers, lock' = v
      PROVE  /\ ContinuedBy(db', draft', req'[v].now) /\ ResultsHold(draft', req'[v])
             /\ Len(req'[v].results) <= Len(req'[v].batch)
  BY <1>1, <1>4 DEF ResultsKnown
<1>5. ASSUME NEW v \in Workers, Succeeded(v)'
      PROVE  /\ ResultsHold(db', req'[v]) /\ Len(req'[v].results) = Len(req'[v].batch)
             /\ (req'[v].code = 201) <=> (Mine(db', req'[v].now) # {})
  BY <1>1, <1>5, SMTT(30) DEF ResultsKnown, Succeeded
<1> QED  BY <1>2, <1>3, <1>4, <1>5 DEF ResultsKnown

(* A new request has no results yet.                                       *)
LEMMA ReceiveResults ==
  ASSUME AInv, NEW w \in Workers, NEW b \in Batches, Receive(w, b)
  PROVE  ResultsKnown'
<1>1. /\ UNCHANGED <<db, draft, lock, replies>> /\ req[w].stage = "idle"
      /\ req'[w] = [stage |-> IF Refusal(b) = 0 THEN "begin" ELSE "respond", batch |-> b,
                    now |-> sends + 1, results |-> <<>>, code |-> Refusal(b)]
      /\ \A v \in Workers : v # w => req'[v] = req[v]
  BY EInvTypes DEF Receive, AInv
<1>2. req'[w].results = <<>> /\ req'[w].code \notin {200, 201}
  BY <1>1 DEF Refusal
<1>3. lock # w
  BY <1>1 DEF AInv, EInv, LockHeld
<1> QED  BY <1>1, <1>2, <1>3, QuietResults DEF Succeeded

(* A request that times out promises nothing.                              *)
LEMMA BusyTimeoutResults ==
  ASSUME AInv, NEW w \in Workers, BusyTimeout(w)
  PROVE  ResultsKnown'
<1>1. /\ UNCHANGED <<db, draft, lock, replies>> /\ req[w].stage = "begin"
      /\ req'[w] = Answered(req[w], 500)
      /\ \A v \in Workers : v # w => req'[v] = req[v]
  BY EInvTypes DEF BusyTimeout, AInv
<1>2. req'[w].code = 500 /\ req'[w].stage = "respond"
  BY <1>1, EInvTypes DEF AInv, Answered, Request
<1>3. lock # w
  BY <1>1 DEF AInv, EInv, LockHeld
<1> QED  BY <1>1, <1>2, <1>3, QuietResults DEF Succeeded

(* Results of nobody change when the lock holder is undone.                *)
LEMMA LosesLock ==
  ASSUME AInv, UNCHANGED <<db, replies>>, draft' = db, lock' = NULL,
         \A v \in Workers : \/ req'[v] = req[v]
                            \/ ~ Succeeded(v)' /\ req'[v].stage # "begin"
  PROVE  ResultsKnown'
<1>1. \A v \in Workers : lock' # v
  BY EInvTypes DEF AInv
<1>2. ResultsKnown
  BY DEF AInv
<1>3. RepliesTruthful'
  BY <1>2 DEF ResultsKnown, RepliesTruthful
<1>4. ASSUME NEW v \in Workers, req'[v].stage = "begin" PROVE req'[v].results = <<>>
  BY <1>2, <1>4 DEF ResultsKnown
<1>5. ASSUME NEW v \in Workers, Succeeded(v)'
      PROVE  /\ ResultsHold(db', req'[v]) /\ Len(req'[v].results) = Len(req'[v].batch)
             /\ (req'[v].code = 201) <=> (Mine(db', req'[v].now) # {})
  BY <1>2, <1>5 DEF ResultsKnown, Succeeded
<1> QED  BY <1>1, <1>3, <1>4, <1>5 DEF ResultsKnown

(* The results of a request that is rolled back promise nothing.           *)
LEMMA RollbackResults ==
  ASSUME AInv, NEW w \in Workers, Rollback(w)
  PROVE  ResultsKnown'
<1>1. /\ UNCHANGED <<db, replies>> /\ draft' = db /\ lock' = NULL
      /\ req'[w] = Answered(req[w], 500)
      /\ \A v \in Workers : v # w => req'[v] = req[v]
  BY EInvTypes DEF Rollback, AInv
<1>2. req'[w].code = 500 /\ req'[w].stage = "respond"
  BY <1>1, EInvTypes DEF AInv, Answered, Request
<1> QED  BY <1>1, <1>2, LosesLock DEF Succeeded

(* The results of the requests a crash ends promise nothing.               *)
LEMMA CrashResults ==
  ASSUME AInv, Crash
  PROVE  ResultsKnown'
<1>1. /\ UNCHANGED <<db, replies>> /\ draft' = db /\ lock' = NULL
      /\ \A v \in Workers : req'[v].stage = "idle"
  BY DEF Crash, NoRequest
<1> QED  BY <1>1, LosesLock DEF Succeeded

(* A request begins with nothing stored and nothing to say.                *)
LEMMA BeginResults ==
  ASSUME AInv, NEW w \in Workers, BeginImmediate(w)
  PROVE  ResultsKnown'
<1>1. /\ UNCHANGED <<db, replies>> /\ req[w].stage = "begin" /\ lock = NULL
      /\ draft' = db /\ lock' = w
      /\ req'[w] = [req[w] EXCEPT !.stage = "apply"]
      /\ \A v \in Workers : v # w => req'[v] = req[v]
  BY EInvTypes DEF BeginImmediate, AInv
<1>2. /\ req'[w].stage = "apply" /\ req'[w].results = <<>>
      /\ req'[w].batch = req[w].batch /\ req'[w].now = req[w].now
  BY <1>1, EInvTypes DEF AInv, Request, ResultsKnown
<1>3. req[w].now \notin Stamps(db)
  BY <1>1 DEF AInv, EInv, StampsKnown, Unstored
<1>4. Mine(db, req[w].now) = {} /\ Touches(db, req[w].now) = {}
  BY <1>3 DEF Mine, Stamps, Touches
<1>5. DOMAIN <<>> = {}
  BY EmptySeq
<1>6. Created(<<>>) = {} /\ Affected(<<>>) = {}
  BY <1>5 DEF Created, Affected
<1>7. ResultsHold(db, req'[w])
  BY <1>2, <1>4, <1>5, <1>6 DEF ResultsHold
<1>8. ContinuedBy(db, db, req'[w].now)
  BY DEF ContinuedBy
<1>9. Len(req'[w].results) <= Len(req'[w].batch)
  <2>1. Len(req[w].batch) \in Nat
    BY EInvTypes, BatchesAssumption, EmptySeq, LenProperties DEF AInv, Request
  <2> QED  BY <1>2, <2>1, EmptySeq
<1>10. ResultsKnown
  BY DEF AInv
<1>11. RepliesTruthful'
  BY <1>1, <1>10 DEF ResultsKnown, RepliesTruthful
<1>12. ASSUME NEW v \in Workers, req'[v].stage = "begin" PROVE req'[v].results = <<>>
  <2>1. v # w
    BY <1>2, <1>12
  <2>2. req'[v] = req[v]
    BY <1>1, <2>1
  <2> QED  BY <1>10, <1>12, <2>2 DEF ResultsKnown
<1>13. ASSUME NEW v \in Workers, lock' = v
       PROVE  /\ ContinuedBy(db', draft', req'[v].now) /\ ResultsHold(draft', req'[v])
              /\ Len(req'[v].results) <= Len(req'[v].batch)
  BY <1>1, <1>7, <1>8, <1>9, <1>13
<1>14. ASSUME NEW v \in Workers, Succeeded(v)'
       PROVE  /\ ResultsHold(db', req'[v]) /\ Len(req'[v].results) = Len(req'[v].batch)
              /\ (req'[v].code = 201) <=> (Mine(db', req'[v].now) # {})
  <2>1. v # w
    BY <1>2, <1>14 DEF Succeeded
  <2>2. req'[v] = req[v] /\ db' = db
    BY <1>1, <2>1
  <2>3. Succeeded(v)
    BY <1>14, <2>2 DEF Succeeded
  <2>4. /\ ResultsHold(db, req[v]) /\ Len(req[v].results) = Len(req[v].batch)
        /\ (req[v].code = 201) <=> (Mine(db, req[v].now) # {})
    BY <1>10, <2>3 DEF ResultsKnown
  <2> QED  BY <2>2, <2>4
<1> QED  BY <1>11, <1>12, <1>13, <1>14, ZenonT(60) DEF ResultsKnown

(* What the two branches of the loop add to the draft and to the results.  *)
LEMMA StoreEventGrows ==
  ASSUME AInv, NEW w \in Workers, StoreEvent(w)
  PROVE  /\ ContinuedBy(draft, draft', req[w].now)
         /\ ResultsHold(draft', req'[w])
<1> DEFINE q == req[w]
           e == NextEvent(w)
           row == [payload |-> e, received_at |-> q.now]
           x == [event_id |-> e.event_id, transaction_id |-> e.transaction_id,
                 status |-> "created", payload_conflict |-> FALSE]
           k == Len(draft.events) + 1
           n == Len(q.results) + 1
<1>1. /\ Applying(w) /\ draft' = ApplyNew(draft, e, q.now)
      /\ req'[w] = [q EXCEPT !.results = Append(q.results, x)]
  BY EInvTypes DEF StoreEvent, AInv
<1>2. e \in EventIn
  BY NextEventType DEF AInv, EInv, IInv, StoreEvent
<1>3. /\ q \in Request /\ q.now \in Nat /\ q.results \in Seq(Result)
      /\ draft.events \in Seq(EventRow)
  BY EInvTypes DEF AInv, Request, IsDb
<1>4. /\ req'[w].results = Append(q.results, x)
      /\ req'[w].batch = q.batch /\ req'[w].now = q.now
  BY <1>1, <1>3 DEF Request
<1>5. x \in Result /\ x.status = "created" /\ x.transaction_id = row.payload.transaction_id
  BY <1>2 DEF Result, EventIn
<1>6. row \in EventRow /\ row.received_at = q.now /\ row.payload = e
  BY <1>2, <1>3 DEF EventRow
<1>7. draft'.events = Append(draft.events, row)
  BY <1>1 DEF ApplyNew
<1>8. e = q.batch[n]
  BY DEF NextEvent
<1>9. ResultsHold(draft, q)
  BY <1>1 DEF AInv, ResultsKnown, Applying
<1>10. ~ x.payload_conflict /\ x.event_id = e.event_id
  OBVIOUS
<1> HIDE DEF q, e, row, x
<1>11. /\ ContinuedBy(draft, draft', q.now)
       /\ Mine(draft', q.now) = Mine(draft, q.now) \cup {k}
       /\ Touches(draft', q.now) = Touches(draft, q.now) \cup {row.payload.transaction_id}
       /\ IsFiniteSet(Mine(draft, q.now)) /\ k \notin Mine(draft, q.now)
       /\ draft'.events[k] = row
  <2>1. draft.events \in Seq(EventRow)
    BY <1>3
  <2>2. row \in EventRow
    BY <1>6
  <2> HIDE DEF n
  <2>3. /\ ContinuedBy(draft, draft', row.received_at)
        /\ Mine(draft', row.received_at) = Mine(draft, row.received_at) \cup {k}
        /\ Touches(draft', row.received_at) =
             Touches(draft, row.received_at) \cup {row.payload.transaction_id}
        /\ IsFiniteSet(Mine(draft, row.received_at)) /\ k \notin Mine(draft, row.received_at)
        /\ draft'.events[k] = row
    BY <2>1, <2>2, <1>7, MineGrows
  <2> QED  BY <1>6, <2>3
<1>12. /\ Created(req'[w].results) = Created(q.results) \cup {n}
       /\ Affected(req'[w].results) = Affected(q.results) \cup {x.transaction_id}
       /\ IsFiniteSet(Created(q.results)) /\ n \notin Created(q.results)
  BY <1>3, <1>4, <1>5, CreatedGrows
<1>13. Cardinality(Created(req'[w].results)) = Cardinality(Mine(draft', q.now))
  <2> HIDE DEF k, n
  <2>1. Cardinality(Created(req'[w].results)) = Cardinality(Created(q.results)) + 1
    BY <1>12, FS_AddElement
  <2>2. Cardinality(Mine(draft', q.now)) = Cardinality(Mine(draft, q.now)) + 1
    BY <1>11, FS_AddElement
  <2> QED  BY <1>9, <2>1, <2>2 DEF ResultsHold
<1>14. Affected(req'[w].results) = Touches(draft', q.now)
  BY <1>5, <1>9, <1>11, <1>12 DEF ResultsHold
<1>15. ASSUME NEW i \in DOMAIN req'[w].results
       PROVE  ResultHolds(draft', q.now, req'[w].results[i], q.batch[i])
  <2>1. /\ DOMAIN req'[w].results = DOMAIN q.results \cup {n}
        /\ req'[w].results[n] = x
        /\ \A l \in DOMAIN q.results : req'[w].results[l] = q.results[l]
    BY <1>3, <1>4, <1>5, Appended
  <2>2. CASE i \in DOMAIN q.results
    <3>1. ResultHolds(draft, q.now, q.results[i], q.batch[i])
      BY <1>9, <2>2 DEF ResultsHold
    <3>2. ResultHolds(draft', q.now, q.results[i], q.batch[i])
      BY <1>11, <3>1, ResultLasts
    <3> QED  BY <2>1, <2>2, <3>2
  <2>3. CASE i = n
    <3>1. k \in DOMAIN draft'.events /\ k \in Mine(draft', q.now)
      BY <1>11 DEF Mine
    <3>2. draft'.events[k].payload = e
      BY <1>6, <1>11
    <3>3. ResultHolds(draft', q.now, x, e)
      BY <1>5, <1>6, <1>10, <3>1, <3>2 DEF ResultHolds
    <3> QED  BY <1>8, <2>1, <2>3, <3>3
  <2> QED  BY <2>1, <2>2, <2>3
<1>16. ResultsHold(draft', req'[w])
  BY <1>4, <1>13, <1>14, <1>15 DEF ResultsHold
<1> QED  BY <1>11, <1>16 DEF q

(* The result for a redelivery holds of the draft, next to the earlier     *)
(* ones.                                                                   *)
LEMMA AbsorbReplayGrows ==
  ASSUME AInv, NEW w \in Workers, AbsorbReplay(w)
  PROVE  /\ ContinuedBy(draft, draft', req[w].now)
         /\ ResultsHold(draft', req'[w])
<1> DEFINE q == req[w]
           e == NextEvent(w)
           existing == Existing(draft.events, e.event_id)
           x == [event_id |-> e.event_id, transaction_id |-> existing.transaction_id,
                 status |-> "duplicate", payload_conflict |-> PayloadDiffers(existing, e)]
           n == Len(q.results) + 1
<1>1. /\ Applying(w) /\ draft' = ApplyReplay(draft, e, q.now)
      /\ e.event_id \in Ids(draft.events)
      /\ req'[w] = [q EXCEPT !.results = Append(q.results, x)]
  BY EInvTypes DEF AbsorbReplay, StoredAlready, AInv
<1>2. e \in EventIn
  BY NextEventType DEF AInv, EInv, IInv, AbsorbReplay
<1>3. /\ q \in Request /\ q.now \in Nat /\ q.results \in Seq(Result)
      /\ draft.events \in Seq(EventRow)
  BY EInvTypes DEF AInv, Request, IsDb
<1>4. /\ req'[w].results = Append(q.results, x)
      /\ req'[w].batch = q.batch /\ req'[w].now = q.now
  BY <1>1, <1>3 DEF Request
<1>5. PICK j \in DOMAIN draft.events :
        /\ draft.events[j].payload = existing /\ existing.event_id = e.event_id
        /\ existing \in EventIn
  BY <1>1, <1>3, ExistingStored
<1>6. x \in Result /\ x.status = "duplicate" /\ x.event_id = existing.event_id
  <2>1. PayloadDiffers(existing, e) \in BOOLEAN
    BY DEF PayloadDiffers
  <2>2. existing.transaction_id \in Txns /\ e.event_id \in EventIds
    BY <1>2, <1>5 DEF EventIn
  <2> HIDE DEF existing, e
  <2> QED  BY <1>5, <2>1, <2>2 DEF Result
<1>7. draft'.events = draft.events
  <2>1. IsDb(draft)
    BY EInvTypes DEF AInv
  <2> QED  BY <1>1, <2>1 DEF ApplyReplay, IsDb
<1>8. e = q.batch[n]
  BY DEF NextEvent
<1>9. ResultsHold(draft, q)
  BY <1>1 DEF AInv, ResultsKnown, Applying
<1>10. x.transaction_id = existing.transaction_id
       /\ (x.payload_conflict <=> PayloadDiffers(existing, e))
  OBVIOUS
<1> HIDE DEF q, e, existing, x
<1>11. /\ ContinuedBy(draft, draft', q.now)
       /\ Mine(draft', q.now) = Mine(draft, q.now)
       /\ Touches(draft', q.now) = Touches(draft, q.now)
  BY <1>7 DEF ContinuedBy, Mine, Touches
<1>12. /\ Created(req'[w].results) = Created(q.results)
       /\ Affected(req'[w].results) = Affected(q.results)
  BY <1>3, <1>4, <1>6, CreatedGrows
<1>15. ASSUME NEW i \in DOMAIN req'[w].results
       PROVE  ResultHolds(draft', q.now, req'[w].results[i], q.batch[i])
  <2>1. /\ DOMAIN req'[w].results = DOMAIN q.results \cup {n}
        /\ req'[w].results[n] = x
        /\ \A l \in DOMAIN q.results : req'[w].results[l] = q.results[l]
    BY <1>3, <1>4, <1>6, Appended
  <2>2. CASE i \in DOMAIN q.results
    <3>1. ResultHolds(draft, q.now, q.results[i], q.batch[i])
      BY <1>9, <2>2 DEF ResultsHold
    <3>2. ResultHolds(draft', q.now, q.results[i], q.batch[i])
      BY <1>11, <3>1, ResultLasts
    <3> QED  BY <2>1, <2>2, <3>2
  <2>3. CASE i = n
    <3>1. j \in DOMAIN draft'.events /\ draft'.events[j].payload = existing
      BY <1>5, <1>7
    <3>2. /\ x.payload_conflict => existing # e
          /\ ~ x.payload_conflict =>
               /\ existing.event_type = e.event_type
               /\ existing.timestamp = e.timestamp
               /\ existing.currency = e.currency
               /\ ToMinorUnits(existing.amount) = ToMinorUnits(e.amount)
      BY <1>10 DEF PayloadDiffers
    <3>3. ResultHolds(draft', q.now, x, e)
      BY <1>5, <1>6, <1>10, <3>1, <3>2 DEF ResultHolds
    <3> QED  BY <1>8, <2>1, <2>3, <3>3
  <2> QED  BY <2>1, <2>2, <2>3
<1>16. ResultsHold(draft', req'[w])
  BY <1>4, <1>9, <1>11, <1>12, <1>15 DEF ResultsHold
<1> QED  BY <1>11, <1>16 DEF q

(* Only finitely many results say "created".                               *)
LEMMA FiniteResults ==
  ASSUME NEW rs \in Seq(Result)
  PROVE  IsFiniteSet(Created(rs))
<1>1. Len(rs) \in Nat /\ DOMAIN rs = 1..Len(rs)
  BY LenProperties
<1>2. Created(rs) \subseteq 1..Len(rs)
  BY <1>1 DEF Created
<1>3. IsFiniteSet(1..Len(rs))
  BY <1>1, FS_Interval
<1> QED  BY <1>2, <1>3, FS_Subset

(* A request has inserted finitely many rows.                              *)
LEMMA FiniteMine ==
  ASSUME NEW d, IsDb(d), NEW now
  PROVE  IsFiniteSet(Mine(d, now))
<1>1. d.events \in Seq(EventRow)
  BY DEF IsDb
<1>2. Len(d.events) \in Nat /\ DOMAIN d.events = 1..Len(d.events)
  BY <1>1, LenProperties
<1>3. Mine(d, now) \subseteq 1..Len(d.events)
  BY <1>2 DEF Mine
<1>4. IsFiniteSet(1..Len(d.events))
  BY <1>2, FS_Interval
<1> QED  BY <1>3, <1>4, FS_Subset

(* One more event dealt with: only the request's own part of the invariant *)
(* has anything new to say.                                                *)
LEMMA LoopResults ==
  ASSUME AInv, NEW w \in Workers, Applying(w), MoreEvents(w),
         UNCHANGED <<db, lock, replies>>,
         NEW x \in Result, req' = [req EXCEPT ![w].results = Append(@, x)],
         ContinuedBy(draft, draft', req[w].now), ResultsHold(draft', req'[w])
  PROVE  ResultsKnown'
<1>1. /\ ResultsKnown /\ lock = w /\ req[w].stage = "apply" /\ req[w] \in Request
      /\ \A v \in Workers : v # w => req'[v] = req[v]
      /\ req'[w] = [req[w] EXCEPT !.results = Append(req[w].results, x)]
  BY EInvTypes DEF AInv, Applying
<1>2. /\ req'[w].stage = "apply" /\ req'[w].now = req[w].now
      /\ req'[w].batch = req[w].batch /\ req'[w].results = Append(req[w].results, x)
  BY <1>1 DEF Request
<1>3. Len(req'[w].results) <= Len(req'[w].batch)
  <2>1. Len(req[w].batch) \in Nat
    BY <1>1, BatchesAssumption, EmptySeq, LenProperties DEF Request
  <2>2. Len(req'[w].results) = Len(req[w].results) + 1 /\ Len(req[w].results) \in Nat
    BY <1>1, <1>2, AppendProperties, LenProperties DEF Request
  <2> QED  BY <1>2, <2>1, <2>2 DEF MoreEvents
<1>4. ContinuedBy(db, draft', req'[w].now)
  BY <1>1, <1>2, ContinuedTransitive DEF ResultsKnown
<1>5. RepliesTruthful'
  BY <1>1 DEF ResultsKnown, RepliesTruthful
<1>6. ASSUME NEW v \in Workers, req'[v].stage = "begin" PROVE req'[v].results = <<>>
  <2>1. req'[v] = req[v]
    BY <1>1, <1>2, <1>6
  <2> QED  BY <1>1, <1>6, <2>1 DEF ResultsKnown
<1>7. ASSUME NEW v \in Workers, lock' = v
      PROVE  /\ ContinuedBy(db', draft', req'[v].now) /\ ResultsHold(draft', req'[v])
             /\ Len(req'[v].results) <= Len(req'[v].batch)
  BY <1>1, <1>3, <1>4, <1>7
<1>8. ASSUME NEW v \in Workers, Succeeded(v)'
      PROVE  /\ ResultsHold(db', req'[v]) /\ Len(req'[v].results) = Len(req'[v].batch)
             /\ (req'[v].code = 201) <=> (Mine(db', req'[v].now) # {})
  <2>1. req'[v] = req[v] /\ db' = db
    BY <1>1, <1>2, <1>8 DEF Succeeded
  <2> QED  BY <1>1, <1>8, <2>1, SMTT(30) DEF ResultsKnown, Succeeded
<1> QED  BY <1>5, <1>6, <1>7, <1>8 DEF ResultsKnown

(* The result for a new event is counted as the row is.                    *)
LEMMA StoreEventResults ==
  ASSUME AInv, NEW w \in Workers, StoreEvent(w)
  PROVE  ResultsKnown'
<1> DEFINE e == NextEvent(w)
           x == [event_id |-> e.event_id, transaction_id |-> e.transaction_id,
                 status |-> "created", payload_conflict |-> FALSE]
<1>1. /\ Applying(w) /\ MoreEvents(w) /\ UNCHANGED <<db, lock, replies>>
      /\ req' = [req EXCEPT ![w].results = Append(@, x)]
  BY DEF StoreEvent
<1>2. e \in EventIn
  BY NextEventType DEF AInv, EInv, IInv, StoreEvent
<1>3. x \in Result
  BY <1>2 DEF Result, EventIn
<1>4. ContinuedBy(draft, draft', req[w].now) /\ ResultsHold(draft', req'[w])
  BY StoreEventGrows
<1> HIDE DEF x
<1> QED  BY <1>1, <1>3, <1>4, LoopResults

(* The result for a redelivery is counted nowhere, as it inserts no row.   *)
LEMMA AbsorbReplayResults ==
  ASSUME AInv, NEW w \in Workers, AbsorbReplay(w)
  PROVE  ResultsKnown'
<1> DEFINE e == NextEvent(w)
           existing == Existing(draft.events, e.event_id)
           x == [event_id |-> e.event_id, transaction_id |-> existing.transaction_id,
                 status |-> "duplicate", payload_conflict |-> PayloadDiffers(existing, e)]
<1>1. /\ Applying(w) /\ MoreEvents(w) /\ UNCHANGED <<db, lock, replies>>
      /\ e.event_id \in Ids(draft.events)
      /\ req' = [req EXCEPT ![w].results = Append(@, x)]
  BY DEF AbsorbReplay, StoredAlready
<1>2. e \in EventIn
  BY NextEventType DEF AInv, EInv, IInv, AbsorbReplay
<1>3. x \in Result
  <2>1. existing \in EventIn
    BY <1>1, EInvTypes, ExistingStored DEF AInv, IsDb
  <2>2. PayloadDiffers(existing, e) \in BOOLEAN
    BY DEF PayloadDiffers
  <2>3. existing.transaction_id \in Txns /\ e.event_id \in EventIds
    BY <1>2, <2>1 DEF EventIn
  <2> HIDE DEF existing, e
  <2> QED  BY <2>2, <2>3 DEF Result
<1>4. ContinuedBy(draft, draft', req[w].now) /\ ResultsHold(draft', req'[w])
  BY AbsorbReplayGrows
<1> HIDE DEF x
<1> QED  BY <1>1, <1>3, <1>4, LoopResults

(* COMMIT publishes the rows of one request; what every other request said *)
(* stays true, its own results become so.                                  *)
LEMMA CommitResults ==
  ASSUME AInv, NEW w \in Workers, Commit(w)
  PROVE  ResultsKnown'
<1> DEFINE q == req[w]
           code == IF Created(q.results) # {} THEN 201 ELSE 200
<1>1. /\ ResultsKnown /\ OwnClock /\ lock = w /\ q.stage = "apply" /\ q \in Request
      /\ ~ MoreEvents(w)
      /\ db' = draft /\ draft' = draft /\ lock' = NULL /\ replies' = replies
      /\ \A v \in Workers : lock' # v /\ (v # w => req'[v] = req[v])
      /\ req'[w] = Answered(q, code)
  BY EInvTypes DEF AInv, EInv, Applying, Commit
<1>2. /\ req'[w].stage = "respond" /\ req'[w].now = q.now /\ req'[w].code = code
      /\ req'[w].batch = q.batch /\ req'[w].results = q.results
  BY <1>1 DEF Request, Answered
<1>3. /\ ContinuedBy(db, draft, q.now) /\ ResultsHold(draft, q)
      /\ Len(q.results) <= Len(q.batch)
  BY <1>1 DEF ResultsKnown
<1> HIDE DEF code
<1>4. ASSUME NEW r \in replies, r.code \in {200, 201} PROVE AnswerHolds(db', r)
  <2>1. AnswerHolds(db, r)
    BY <1>1, <1>4 DEF ResultsKnown, RepliesTruthful
  <2>2. r.now # q.now
    BY <1>1 DEF OwnClock, Active
  <2>3. Mine(draft, r.now) = Mine(db, r.now) /\ Touches(draft, r.now) = Touches(db, r.now)
    BY <1>3, <2>2, MineLasts
  <2>4. \A i \in DOMAIN r.results : ResultHolds(draft, r.now, r.results[i], r.batch[i])
    BY <1>3, <2>1, ResultLasts DEF AnswerHolds
  <2> QED  BY <1>1, <2>1, <2>3, <2>4 DEF AnswerHolds
<1>5. RepliesTruthful'
  BY <1>1, <1>4 DEF RepliesTruthful
<1>6. ASSUME NEW v \in Workers, req'[v].stage = "begin" PROVE req'[v].results = <<>>
  <2>1. req'[v] = req[v]
    BY <1>1, <1>2, <1>6
  <2> QED  BY <1>1, <1>6, <2>1 DEF ResultsKnown
<1>7. /\ ResultsHold(db', req'[w]) /\ Len(req'[w].results) = Len(req'[w].batch)
      /\ (req'[w].code = 201) <=> (Mine(db', req'[w].now) # {})
  <2>1. ResultsHold(db', req'[w])
    BY <1>1, <1>2, <1>3, ResultsHoldSame
  <2>2. Len(q.results) = Len(q.batch)
    <3>1. Len(q.batch) \in Nat /\ Len(q.results) \in Nat
      BY <1>1, BatchesAssumption, EmptySeq, LenProperties DEF Request
    <3> QED  BY <1>1, <1>3, <3>1 DEF MoreEvents
  <2>3. Created(q.results) = {} <=> Mine(draft, q.now) = {}
    <3>1. Cardinality(Created(q.results)) = Cardinality(Mine(draft, q.now))
      BY <1>3 DEF ResultsHold
    <3>2. IsFiniteSet(Created(q.results))
      BY <1>1, FiniteResults DEF Request
    <3>3. IsFiniteSet(Mine(draft, q.now))
      BY EInvTypes, FiniteMine DEF AInv
    <3> QED  BY <3>1, <3>2, <3>3, FS_EmptySet
  <2> QED  BY <1>1, <1>2, <2>1, <2>2, <2>3, SMTT(30) DEF code
<1>8. ASSUME NEW v \in Workers, Succeeded(v)'
      PROVE  /\ ResultsHold(db', req'[v]) /\ Len(req'[v].results) = Len(req'[v].batch)
             /\ (req'[v].code = 201) <=> (Mine(db', req'[v].now) # {})
  <2>1. CASE v = w
    BY <1>7, <2>1
  <2>2. CASE v # w
    <3>1. req'[v] = req[v]
      BY <1>1, <2>2
    <3>2. Succeeded(v)
      BY <1>8, <3>1 DEF Succeeded
    <3>3. req[v].now # q.now
      BY <1>1, <2>2, <3>2 DEF OwnClock, Active, Succeeded
    <3>4. /\ ResultsHold(db, req[v]) /\ Len(req[v].results) = Len(req[v].batch)
          /\ (req[v].code = 201) <=> (Mine(db, req[v].now) # {})
      BY <1>1, <3>2 DEF ResultsKnown
    <3>5. ResultsHold(draft, req[v])
      BY <1>3, <3>3, <3>4, ResultsLast
    <3>6. Mine(draft, req[v].now) = Mine(db, req[v].now)
      BY <1>3, <3>3, MineLasts
    <3> QED  BY <1>1, <3>1, <3>4, <3>5, <3>6
  <2> QED  BY <2>1, <2>2
<1> QED  BY <1>1, <1>5, <1>6, <1>8 DEF ResultsKnown

(* The answer says what the request knows.                                 *)
LEMMA AnswerResults ==
  ASSUME AInv, NEW w \in Workers, Respond(w) \/ LoseReply(w)
  PROVE  ResultsKnown'
<1> DEFINE q == req[w]
<1>1. /\ ResultsKnown /\ q.stage = "respond" /\ UNCHANGED <<db, draft, lock>>
      /\ replies' \subseteq replies \cup {Reply(q)}
      /\ req'[w] = NoRequest /\ \A v \in Workers : v # w => req'[v] = req[v]
      /\ lock # w
  BY EInvTypes DEF AInv, EInv, LockHeld, Respond, LoseReply
<1>2. req'[w].stage = "idle"
  BY <1>1 DEF NoRequest
<1>3. ASSUME q.code \in {200, 201} PROVE AnswerHolds(db, Reply(q))
  <2>1. /\ Reply(q).now = q.now /\ Reply(q).batch = q.batch /\ Reply(q).code = q.code
        /\ Reply(q).results = q.results
        /\ Reply(q).created = Cardinality(Created(q.results))
        /\ Reply(q).transactions_affected = Cardinality(Affected(q.results))
    BY <1>3 DEF Reply
  <2>2. /\ ResultsHold(db, q) /\ Len(q.results) = Len(q.batch)
        /\ (q.code = 201) <=> (Mine(db, q.now) # {})
    BY <1>1, <1>3 DEF ResultsKnown, Succeeded
  <2> HIDE DEF q
  <2> QED  BY <2>1, <2>2 DEF AnswerHolds, ResultsHold
<1>4. Reply(q).code = q.code
  BY DEF Reply
<1>5. RepliesTruthful'
  BY <1>1, <1>3, <1>4 DEF ResultsKnown, RepliesTruthful
<1>6. ASSUME NEW v \in Workers, req'[v].stage # "idle"
      PROVE  v # w /\ req'[v] = req[v]
  BY <1>1, <1>2, <1>6
<1>7. ASSUME NEW v \in Workers, req'[v].stage = "begin" PROVE req'[v].results = <<>>
  BY <1>1, <1>6, <1>7 DEF ResultsKnown
<1>8. ASSUME NEW v \in Workers, lock' = v
      PROVE  /\ ContinuedBy(db', draft', req'[v].now) /\ ResultsHold(draft', req'[v])
             /\ Len(req'[v].results) <= Len(req'[v].batch)
  BY <1>1, <1>8 DEF ResultsKnown
<1>9. ASSUME NEW v \in Workers, Succeeded(v)'
      PROVE  /\ ResultsHold(db', req'[v]) /\ Len(req'[v].results) = Len(req'[v].batch)
             /\ (req'[v].code = 201) <=> (Mine(db', req'[v].now) # {})
  <2>1. req'[v] = req[v] /\ db' = db
    BY <1>1, <1>6, <1>9 DEF Succeeded
  <2> QED  BY <1>1, <1>9, <2>1 DEF ResultsKnown, Succeeded
<1> QED  BY <1>5, <1>7, <1>8, <1>9 DEF ResultsKnown

(* Every step keeps AInv.                                                  *)
LEMMA NextAInv == AInv /\ [Next]_vars => AInv'
<1> SUFFICES ASSUME AInv, [Next]_vars PROVE AInv'
  OBVIOUS
<1>0. EInv'
  BY NextEInv DEF AInv
<1>1. ASSUME NEW w \in Workers, Step(w) PROVE ResultsKnown'
  BY <1>1, BeginResults, BusyTimeoutResults, StoreEventResults, AbsorbReplayResults,
     CommitResults, RollbackResults, AnswerResults DEF Step
<1>2. ASSUME UNCHANGED vars PROVE ResultsKnown'
  <2>1. UNCHANGED <<db, draft, lock, replies>> /\ \A v \in Workers : req'[v] = req[v]
    BY <1>2 DEF vars
  <2> QED  BY <2>1, QuietResults
<1>3. ResultsKnown'
  BY <1>1, <1>2, ReceiveResults, CrashResults DEF Next
<1> QED  BY <1>0, <1>3 DEF AInv

(* For any workers, bodies and bounds: every answer of 200 or 201 is and   *)
(* stays true of the committed database, result by result and count by     *)
(* count (the response post_events builds after COMMIT).                   *)
THEOREM AnswersTruthful == Spec => []RepliesTruthful
<1>1. AInv => RepliesTruthful
  BY DEF AInv, ResultsKnown
<1> QED  BY <1>1, InitAInv, NextAInv, PTL DEF Spec

-----------------------------------------------------------------------------
(* Third, how far the lock holder has come with its batch.                 *)
DraftIsPrefix ==
  \A w \in Workers :
    lock = w => draft = Images(db, req[w].batch, req[w].now)[Len(req[w].results)]

BInv == AInv /\ DraftIsPrefix

(* A request's body and its results are sequences of events and results.   *)
LEMMA BatchLength ==
  ASSUME AInv, NEW w \in Workers
  PROVE  /\ req[w].batch \in Seq(EventIn) /\ Len(req[w].batch) \in Nat
         /\ Len(req[w].results) \in Nat
<1>1. req[w] \in Request
  BY EInvTypes DEF AInv
<1>2. req[w].batch \in Seq(EventIn) /\ req[w].results \in Seq(Result)
  BY <1>1, BatchesAssumption, EmptySeq DEF Request
<1> QED  BY <1>2, LenProperties

(* After one more event the draft is the image after one more event.       *)
LEMMA AdvancedPrefix ==
  ASSUME BInv, NEW w \in Workers, lock = w, MoreEvents(w),
         UNCHANGED <<db, lock>>, draft' = ApplyOne(draft, NextEvent(w), req[w].now),
         NEW x \in Result, req' = [req EXCEPT ![w].results = Append(@, x)]
  PROVE  DraftIsPrefix'
<1> DEFINE q == req[w]
           n == Len(q.results)
           im == Images(db, q.batch, q.now)
<1>1. q \in Request /\ n \in Nat /\ Len(q.batch) \in Nat
  BY BatchLength, EInvTypes DEF BInv, AInv
<1>2. req'[w] = [q EXCEPT !.results = Append(q.results, x)]
  BY EInvTypes DEF BInv, AInv
<1>3. /\ req'[w].batch = q.batch /\ req'[w].now = q.now
      /\ Len(req'[w].results) = n + 1
  BY <1>1, <1>2, AppendProperties DEF Request
<1>4. draft = im[n]
  BY DEF BInv, DraftIsPrefix
<1>5. n + 1 \in 1..Len(q.batch) /\ (n + 1) - 1 = n
  BY <1>1 DEF MoreEvents
<1>6. im[n + 1] = ApplyOne(im[(n + 1) - 1], q.batch[n + 1], q.now)
  <2>1. Len(q.batch) \in Nat
    BY <1>1
  <2>2. \A m \in 1..Len(q.batch) : im[m] = ApplyOne(im[m - 1], q.batch[m], q.now)
    BY <2>1, ImagesStep
  <2> HIDE DEF im, q, n
  <2> QED  BY <1>5, <2>2
<1>7. draft' = im[n + 1]
  BY <1>4, <1>5, <1>6 DEF NextEvent
<1> QED  BY <1>3, <1>7 DEF DraftIsPrefix

(* At the start nobody holds the lock, so no batch is in progress.         *)
LEMMA InitBInv == Init => BInv
<1> SUFFICES ASSUME Init PROVE BInv
  OBVIOUS
<1>1. \A w \in Workers : lock # w
  BY WorkersAssumption DEF Init
<1> QED  BY <1>1, InitAInv DEF BInv, DraftIsPrefix

(* Every step keeps BInv.                                                  *)
LEMMA NextBInv == BInv /\ [Next]_vars => BInv'
<1> SUFFICES ASSUME BInv, [Next]_vars PROVE BInv'
  OBVIOUS
<1>0. /\ AInv' /\ AInv /\ req \in [Workers -> Request] /\ DraftIsPrefix
      /\ \A w \in Workers : req[w] \in Request /\ w # NULL
      /\ LockHeld
  BY NextAInv, EInvTypes DEF BInv, AInv, EInv
<1>1. ASSUME NEW w \in Workers, NEW b \in Batches, Receive(w, b) PROVE DraftIsPrefix'
  <2>1. /\ UNCHANGED <<db, draft, lock>> /\ lock # w
        /\ \A v \in Workers : v # w => req'[v] = req[v]
    BY <1>0, <1>1 DEF Receive, LockHeld
  <2> QED  BY <1>0, <2>1 DEF DraftIsPrefix
<1>2. ASSUME NEW w \in Workers, BeginImmediate(w) PROVE DraftIsPrefix'
  <2>1. /\ db' = db /\ draft' = db /\ lock' = w /\ req[w].stage = "begin"
        /\ req'[w] = [req[w] EXCEPT !.stage = "apply"]
    BY <1>0, <1>2 DEF BeginImmediate
  <2>2. /\ req'[w].batch = req[w].batch /\ req'[w].now = req[w].now
        /\ req'[w].results = <<>>
    BY <1>0, <2>1 DEF Request, AInv, ResultsKnown
  <2>3. Images(db, req[w].batch, req[w].now)[0] = db
    <3>1. Len(req[w].batch) \in Nat
      BY <1>0, BatchLength
    <3> QED  BY <3>1, ImagesStep
  <2>4. Len(req'[w].results) = 0
    BY <2>2, EmptySeq
  <2> QED  BY <2>1, <2>2, <2>3, <2>4 DEF DraftIsPrefix
<1>3. ASSUME NEW w \in Workers, BusyTimeout(w) \/ Respond(w) \/ LoseReply(w)
      PROVE  DraftIsPrefix'
  <2>1. /\ UNCHANGED <<db, draft, lock>> /\ lock # w
        /\ \A v \in Workers : v # w => req'[v] = req[v]
    BY <1>0, <1>3 DEF BusyTimeout, Respond, LoseReply, LockHeld
  <2> QED  BY <1>0, <2>1 DEF DraftIsPrefix
<1>4. ASSUME NEW w \in Workers, StoreEvent(w) PROVE DraftIsPrefix'
  <2> DEFINE e == NextEvent(w)
             x == [event_id |-> e.event_id, transaction_id |-> e.transaction_id,
                   status |-> "created", payload_conflict |-> FALSE]
  <2>1. /\ lock = w /\ MoreEvents(w) /\ UNCHANGED <<db, lock>>
        /\ draft' = ApplyOne(draft, e, req[w].now)
        /\ req' = [req EXCEPT ![w].results = Append(@, x)]
    BY <1>4 DEF StoreEvent, Applying, StoredAlready, ApplyOne
  <2>2. e \in EventIn
    BY <1>0, <1>4, NextEventType DEF AInv, EInv, IInv, StoreEvent
  <2>3. x \in Result
    BY <2>2 DEF Result, EventIn
  <2> HIDE DEF x
  <2> QED  BY <2>1, <2>3, AdvancedPrefix
<1>5. ASSUME NEW w \in Workers, AbsorbReplay(w) PROVE DraftIsPrefix'
  <2> DEFINE e == NextEvent(w)
             existing == Existing(draft.events, e.event_id)
             x == [event_id |-> e.event_id, transaction_id |-> existing.transaction_id,
                   status |-> "duplicate", payload_conflict |-> PayloadDiffers(existing, e)]
  <2>1. /\ lock = w /\ MoreEvents(w) /\ UNCHANGED <<db, lock>>
        /\ e.event_id \in Ids(draft.events)
        /\ draft' = ApplyOne(draft, e, req[w].now)
        /\ req' = [req EXCEPT ![w].results = Append(@, x)]
    BY <1>5 DEF AbsorbReplay, Applying, StoredAlready, ApplyOne
  <2>2. e \in EventIn
    BY <1>0, <1>5, NextEventType DEF AInv, EInv, IInv, AbsorbReplay
  <2>3. existing \in EventIn
    BY <1>0, <2>1, EInvTypes, ExistingStored DEF AInv, IsDb
  <2>4. x \in Result
    <3>1. PayloadDiffers(existing, e) \in BOOLEAN
      BY DEF PayloadDiffers
    <3>2. existing.transaction_id \in Txns /\ e.event_id \in EventIds
      BY <2>2, <2>3 DEF EventIn
    <3> HIDE DEF existing, e
    <3> QED  BY <3>1, <3>2 DEF Result
  <2> HIDE DEF x
  <2> QED  BY <2>1, <2>4, AdvancedPrefix
<1>6. ASSUME lock' = NULL PROVE DraftIsPrefix'
  BY <1>0, <1>6 DEF DraftIsPrefix
<1>7. ASSUME NEW w \in Workers, Commit(w) \/ Rollback(w) PROVE DraftIsPrefix'
  BY <1>6, <1>7 DEF Commit, Rollback
<1>8. ASSUME Crash PROVE DraftIsPrefix'
  BY <1>6, <1>8 DEF Crash
<1>9. ASSUME UNCHANGED vars PROVE DraftIsPrefix'
  BY <1>0, <1>9 DEF DraftIsPrefix, vars
<1>10. DraftIsPrefix'
  BY <1>1, <1>2, <1>3, <1>4, <1>5, <1>7, <1>8, <1>9 DEF Next, Step
<1> QED  BY <1>0, <1>10 DEF BInv

(* What COMMIT publishes is the whole batch.                               *)
LEMMA CommittedBatch ==
  ASSUME BInv, NEW w \in Workers, Commit(w)
  PROVE  /\ req'[w].stage = "respond" /\ req'[w].code \in {200, 201}
         /\ db' = ApplyBatch(db, req[w].batch, req[w].now)
<1>1. /\ lock = w /\ ~ MoreEvents(w) /\ db' = draft /\ req[w] \in Request
      /\ req'[w] = Answered(req[w], IF Created(req[w].results) # {} THEN 201 ELSE 200)
  BY EInvTypes DEF BInv, AInv, Commit, Applying
<1>2. req'[w].stage = "respond" /\ req'[w].code \in {200, 201}
  BY <1>1 DEF Answered, Request
<1>3. Len(req[w].results) = Len(req[w].batch)
  <2>1. Len(req[w].results) \in Nat /\ Len(req[w].batch) \in Nat
    BY BatchLength DEF BInv
  <2>2. Len(req[w].results) <= Len(req[w].batch)
    BY <1>1 DEF BInv, AInv, ResultsKnown
  <2> QED  BY <1>1, <2>1, <2>2 DEF MoreEvents
<1>4. draft = ApplyBatch(db, req[w].batch, req[w].now)
  BY <1>1, <1>3 DEF BInv, DraftIsPrefix, ApplyBatch
<1> QED  BY <1>1, <1>2, <1>4

(* No action but COMMIT changes what other connections see.                *)
LEMMA OnlyCommitsShow ==
  ASSUME BInv, [Next]_vars
  PROVE  db' = db \/ \E w \in Workers : Commit(w)
  BY DEF Next, Step, Receive, BeginImmediate, BusyTimeout, StoreEvent, AbsorbReplay,
         Rollback, Respond, LoseReply, Crash, vars

(* For any workers, bodies and bounds the committed database moves by      *)
(* whole batches: however many requests interleave, fail or die, a reader  *)
(* sees all of one body's events or none (ingest_events between BEGIN      *)
(* IMMEDIATE and COMMIT).                                                  *)
THEOREM CommitsWhole == Spec => CommitsAreBatches
<1>1. BInv /\ [Next]_vars =>
        [\/ db' = db
         \/ \E w \in Workers : /\ req'[w].stage = "respond" /\ req'[w].code \in {200, 201}
                               /\ db' = ApplyBatch(db, req[w].batch, req[w].now)]_vars
  BY OnlyCommitsShow, CommittedBatch
<1> QED  BY <1>1, InitBInv, NextBInv, PTL DEF Spec, CommitsAreBatches

-----------------------------------------------------------------------------
(* The refinement of EventLog.                                             *)
(* The cardinalities EventLog counts with are the ones counted here.       *)
LEMMA SameCardinality == \A S : Promise!Cardinality(S) = Cardinality(S)
BY DEF Promise!Cardinality, Cardinality

(* A whole batch applied to the database is the batch accepted by the log. *)
LEMMA BatchIsAccepted ==
  ASSUME GoodDb(db), NEW b \in Seq(EventIn), NEW now \in Nat, db' = ApplyBatch(db, b, now)
  PROVE  Promise!Accept(b)
<1> DEFINE F == FirstIn(Payloads(db), b)
           L == Len(Payloads(db))
<1>1. /\ Payloads(db') = [k \in 1..(L + Cardinality(F)) |->
                            IF k <= L THEN Payloads(db)[k]
                            ELSE b[FirstAt(Payloads(db), b, k - L)]]
      /\ \A t : Redelivered(db', t) = Redelivered(db, t)
             + Cardinality({i \in DOMAIN b \ F : OwnerInLog(Payloads(db'), b[i].event_id) = t})
  BY LogTakesBatch
<1>2. Promise!Fresh(b) = F
  BY DEF Promise!Fresh, Promise!Known, FirstIn, Payloads
<1>3. \A n : Promise!NthFresh(b, n) = FirstAt(Payloads(db), b, n)
  BY <1>2, SameCardinality DEF Promise!NthFresh, FirstAt
<1>4. \A id : Promise!OwnerIn(Payloads(db'), id) = OwnerInLog(Payloads(db'), id)
  BY DEF Promise!OwnerIn, OwnerInLog
<1> HIDE DEF F
<1>5. Payloads(db)' = [k \in 1..(L + Promise!Cardinality(Promise!Fresh(b))) |->
                        IF k <= L THEN Payloads(db)[k]
                        ELSE b[Promise!NthFresh(b, k - L)]]
  BY <1>1, <1>2, <1>3, SameCardinality DEF Payloads
<1>6. [t \in Txns |-> Redelivered(db, t)]' =
         [t \in Txns |-> [u \in Txns |-> Redelivered(db, u)][t]
            + Promise!Cardinality({i \in DOMAIN b \ Promise!Fresh(b) :
                                     Promise!OwnerIn(Payloads(db)', b[i].event_id) = t})]
  <2> DEFINE Count(t) == Promise!Cardinality({i \in DOMAIN b \ Promise!Fresh(b) :
                           Promise!OwnerIn(Payloads(db'), b[i].event_id) = t})
  <2>1. \A t : Redelivered(db', t) = Redelivered(db, t) + Count(t)
    BY <1>1, <1>2, <1>4, SameCardinality
  <2> HIDE DEF Count
  <2>2. [t \in Txns |-> Redelivered(db', t)] =
          [t \in Txns |-> [u \in Txns |-> Redelivered(db, u)][t] + Count(t)]
    BY <2>1
  <2> QED  BY <2>2 DEF Count, Redelivered, Payloads
<1> QED
  BY <1>5, <1>6 DEF Promise!Accept, Payloads, Redelivered

(* An empty database is an empty log.                                      *)
LEMMA InitMaps == Init => Promise!Init
<1> SUFFICES ASSUME Init PROVE Promise!Init
  OBVIOUS
<1>1. /\ db.events = <<>> /\ DOMAIN db.events = {}
      /\ DOMAIN db.transactions = {}
  BY EmptySeq DEF Init, EmptyDb
<1>2. Payloads(db) = <<>>
  BY <1>1 DEF Payloads
<1>3. \A t : Redelivered(db, t) = 0
  BY <1>1 DEF Redelivered
<1> QED  BY <1>2, <1>3 DEF Promise!Init, Payloads, Redelivered

(* A step that leaves the committed database alone leaves the log alone.   *)
LEMMA SameDbMaps == ASSUME db' = db PROVE UNCHANGED Promise!vars
BY DEF Promise!vars

(* A step that is not a COMMIT leaves the log as it is; a COMMIT accepts   *)
(* the body of its request.                                                *)
LEMMA StepMaps == BInv /\ [Next]_vars => [Promise!Next]_(Promise!vars)
<1> SUFFICES ASSUME BInv, [Next]_vars, ~ UNCHANGED Promise!vars PROVE Promise!Next
  OBVIOUS
<1>1. PICK w \in Workers : Commit(w)
  BY OnlyCommitsShow, SameDbMaps
<1>2. db' = ApplyBatch(db, req[w].batch, req[w].now)
  BY <1>1, CommittedBatch
<1>3. req[w].batch \in Batches \cup {<<>>} /\ req[w].now \in Nat
  BY EInvTypes DEF BInv, AInv, Request
<1>4. req[w].batch \in Batches
  BY <1>2, <1>3, EmptyBatch, SameDbMaps
<1>5. PICK b \in Batches, now \in Nat : db' = ApplyBatch(db, b, now)
  BY <1>2, <1>3, <1>4
<1>6. b \in Seq(EventIn)
  BY BatchesAssumption
<1>7. GoodDb(db)
  BY DEF BInv, AInv, EInv, IInv, GoodDb
<1>8. Promise!Accept(b)
  BY <1>5, <1>6, <1>7, BatchIsAccepted
<1> QED  BY <1>8 DEF Promise!Next

(* The ingest pipeline implements the event log: with any number of        *)
(* workers, any bodies and any crashes, what the committed database shows  *)
(* is a log that accepts whole batches, holds every event_id once, in the  *)
(* order the bodies bring them, and counts each redelivery once, for the   *)
(* transaction that owns the stored event (ingest_events).                 *)
THEOREM LogRefined == Spec => ImplementsEventLog
<1> QED  BY InitMaps, StepMaps, InitBInv, NextBInv, PTL
         DEF Spec, ImplementsEventLog, Promise!Spec
=============================================================================
