----------------------- MODULE SharedConnectionProofs -----------------------
(***************************************************************************)
(* Requests on the one :memory: connection, for any number of threads, any *)
(* batches and any bound: no constraint ever stops a statement, a request  *)
(* answered 500 leaves nothing of its own behind, a reader meets no row    *)
(* its events do not explain except the one being stored, and the          *)
(* committed database grows by whole batches, as EventLog promises.        *)
(***************************************************************************)
EXTENDS SharedConnection, LedgerProofs

Stages == {"idle", "begin", "lookup", "bump", "merchant", "transaction", "event", "commit"}

Request == [stage: Stages, batch: Batches \cup {<<>>}, done: Nat, now: Nat,
            existing: EventIn \cup {NULL}]

BusyStages == Stages \ {"idle", "begin"}

Busy(w) == req[w].stage \in BusyStages

(* Threads that still have an event of their batch to deal with.           *)
Looping(w) == req[w].stage \in Stages \ {"idle", "commit"}

TypeOK ==
  /\ IsDb(image)
  /\ undo # <<>> => undo = <<undo[1]>> /\ IsDb(undo[1])
  /\ req \in [Workers -> Request]
  /\ \A w \in Workers : Looping(w) => req[w].done < Len(req[w].batch)
  /\ sends \in Nat /\ failed \subseteq 0..sends

(* The thread whose BEGIN succeeded is the only one between BEGIN and its  *)
(* end: nobody else's ROLLBACK or COMMIT can come in between.              *)
OneTransaction ==
  /\ \A w \in Workers : Busy(w) => undo # <<>>
  /\ \A v, w \in Workers : Busy(v) /\ Busy(w) => v = w

(* What the next upsert of each thread relies on.                          *)
Prepared ==
  \A w \in Workers :
    /\ req[w].stage = "bump" => /\ req[w].existing \in EventIn
    /\ req[w].stage \in {"merchant", "transaction", "event"} =>
         Current(w).event_id \notin Ids(image.events)
    /\ req[w].stage = "transaction" => MerchantKnown(w)
    /\ req[w].stage = "event" => Current(w).transaction_id \in DOMAIN image.transactions

(* Clock values identify requests.                                         *)
OwnStamps ==
  /\ \A w \in Workers : req[w].stage # "idle" => /\ req[w].now <= sends
                                                /\ req[w].now \notin failed
  /\ \A v, w \in Workers :
       req[v].stage # "idle" /\ req[w].stage # "idle" /\ req[v].now = req[w].now => v = w

(* Committed rows carry stamps of requests that ended well; the others     *)
(* carry the stamp of the thread whose transaction is open.                *)
StampsExplained ==
  /\ Stamps(Committed) \subseteq 0..sends
  /\ Stamps(Committed) \cap failed = {}
  /\ \A w \in Workers : req[w].stage # "idle" => req[w].now \notin Stamps(Committed)
  /\ Stamps(image) \subseteq Stamps(Committed) \cup {req[w].now : w \in {v \in Workers : Busy(v)}}

IInv == TypeOK /\ OneTransaction /\ Prepared /\ OwnStamps /\ StampsExplained

-----------------------------------------------------------------------------
(* The event a thread is at is a validated event.                          *)
LEMMA CurrentType ==
  ASSUME TypeOK, NEW w \in Workers, Looping(w)
  PROVE  Current(w) \in EventIn /\ req[w].now \in Nat /\ req[w].done + 1 <= Len(req[w].batch)
<1> DEFINE b == req[w].batch
           k == req[w].done
<1>1. req[w] \in Request /\ k < Len(b)
  BY DEF TypeOK
<1>2. k \in Nat /\ req[w].now \in Nat /\ b \in Batches \cup {<<>>}
  BY <1>1 DEF Request
<1>3. Len(<<>>) = 0
  BY EmptySeq
<1>4. b \in Seq({e \in EventIn : Valid(e)})
  BY <1>1, <1>2, <1>3, SharedAssumption
<1>5. Len(b) \in Nat
  BY <1>4, LenProperties
<1>6. k + 1 \in 1..Len(b)
  BY <1>1, <1>2, <1>5
<1>7. b[k + 1] \in {e \in EventIn : Valid(e)}
  BY <1>4, <1>6, ElementOfSeq
<1> QED  BY <1>2, <1>6, <1>7 DEF Current

(* A thread without a request is idle.                                     *)
LEMMA IdleType == NoRequest \in Request /\ NoRequest.stage = "idle"
  BY DEF NoRequest, Request, Stages

(* The columns of a database.                                              *)
LEMMA ColumnsOf ==
  ASSUME NEW d, IsDb(d), NEW T
  PROVE  LET n == [d EXCEPT !.transactions = T]
             m == [d EXCEPT !.merchants = T]
             l == [d EXCEPT !.events = T]
         IN /\ n = [events |-> d.events, transactions |-> T, merchants |-> d.merchants]
            /\ m = [events |-> d.events, transactions |-> d.transactions, merchants |-> T]
            /\ l = [events |-> T, transactions |-> d.transactions, merchants |-> d.merchants]
  BY DEF IsDb

-----------------------------------------------------------------------------
(* A step of the thread whose transaction is open that stays inside it.    *)
LEMMA InsideStep ==
  ASSUME IInv, NEW w \in Workers, Busy(w),
         NEW q \in Request, q.stage \in BusyStages, q.now = req[w].now,
         q.stage # "commit" => q.done < Len(q.batch),
         req' = [req EXCEPT ![w] = q], UNCHANGED <<undo, sends, failed>>,
         IsDb(image'), Stamps(image') \subseteq Stamps(image) \cup {req[w].now}
  PROVE  TypeOK' /\ OneTransaction' /\ OwnStamps' /\ StampsExplained'
<1>0. TypeOK /\ OneTransaction /\ OwnStamps /\ StampsExplained
  BY DEF IInv
<1>1. /\ req'[w] = q
      /\ \A v \in Workers : v # w => req'[v] = req[v]
      /\ req' \in [Workers -> Request]
  BY <1>0 DEF TypeOK
<1>2. \A v \in Workers : Busy(v)' => v = w
  BY <1>0, <1>1 DEF Busy, OneTransaction
<1>3. TypeOK'
  <2>1. \A v \in Workers : Looping(v)' => req'[v].done < Len(req'[v].batch)
    BY <1>0, <1>1 DEF TypeOK, Looping
  <2> QED  BY <1>0, <1>1, <2>1 DEF TypeOK
<1>4. OneTransaction'
  BY <1>0, <1>2 DEF OneTransaction
<1>5. \A v \in Workers : /\ req'[v].now = req[v].now
                         /\ req'[v].stage # "idle" => req[v].stage # "idle"
  BY <1>1 DEF Busy, BusyStages
<1>6. OwnStamps'
  BY <1>0, <1>5 DEF OwnStamps
<1>7. Committed' = Committed
  BY <1>0 DEF Committed, OneTransaction
<1>8. \A v \in Workers : Busy(v) => v = w
  BY <1>0 DEF OneTransaction
<1>9. Stamps(image') \subseteq Stamps(Committed) \cup {req[w].now}
  BY <1>0, <1>8 DEF StampsExplained
<1>10. Busy(w)'
  BY <1>1 DEF Busy
<1>11. StampsExplained'
  <2>1. Stamps(image') \subseteq
          Stamps(Committed)' \cup {req'[v].now : v \in {u \in Workers : Busy(u)'}}
    BY <1>5, <1>7, <1>9, <1>10
  <2> QED  BY <1>0, <1>5, <1>7, <2>1 DEF StampsExplained
<1> QED  BY <1>3, <1>4, <1>6, <1>11

(* Inside its transaction only the thread's own preparation matters.       *)
LEMMA PreparedAlone ==
  ASSUME OneTransaction',
         NEW w \in Workers, Busy(w)',
         req'[w].stage = "bump" => req'[w].existing \in EventIn,
         req'[w].stage \in {"merchant", "transaction", "event"} =>
           Current(w)'.event_id \notin Ids(image'.events),
         req'[w].stage = "transaction" => MerchantKnown(w)',
         req'[w].stage = "event" => Current(w)'.transaction_id \in DOMAIN image'.transactions
  PROVE  Prepared'
<1>1. \A v \in Workers :
        req'[v].stage \in {"bump", "merchant", "transaction", "event"} => v = w
  BY DEF OneTransaction, Busy, BusyStages, Stages
<1> QED  BY <1>1 DEF Prepared

(* Where the loop goes after an event.                                     *)
LEMMA NextEventType ==
  ASSUME TypeOK, NEW w \in Workers, Looping(w)
  PROVE  LET q == NextEvent(req[w])
         IN /\ q \in Request
            /\ q.stage \in {"lookup", "commit"}
            /\ q.now = req[w].now
            /\ q.stage # "commit" => q.done < Len(q.batch)
<1>1. req[w] \in Request
  BY DEF TypeOK
<1>2. req[w].done + 1 \in Nat
  BY <1>1 DEF Request
<1> QED  BY <1>1, <1>2 DEF NextEvent, Request, Stages

-----------------------------------------------------------------------------
(* One lemma per action.                                                   *)
LEMMA LookupStep ==
  ASSUME IInv, NEW w \in Workers, Lookup(w)
  PROVE  IInv'
<1> DEFINE id == Current(w).event_id
           found == id \in Ids(image.events)
           x == IF found THEN Existing(image.events, id) ELSE NULL
           st == IF found THEN "bump" ELSE "merchant"
           q == [req[w] EXCEPT !.stage = st, !.existing = x]
<1>0. TypeOK /\ OneTransaction /\ Busy(w) /\ Looping(w) /\ req[w] \in Request
  BY DEF IInv, Lookup, Busy, BusyStages, Stages, Looping, TypeOK
<1>1. found => x \in EventIn
  <2>1. image.events \in Seq(EventRow)
    BY <1>0 DEF TypeOK, IsDb
  <2> QED  BY <2>1, ExistingStored
<1>2. /\ image' = image /\ UNCHANGED <<undo, sends, failed>>
      /\ req' = [req EXCEPT ![w] = q]
  BY <1>0 DEF Lookup, TypeOK
<1>3. st \in {"bump", "merchant"} /\ (st = "bump" <=> found)
  OBVIOUS
<1>4. x \in EventIn \cup {NULL}
  BY <1>1
<1>5. /\ q \in Request /\ q.stage = st /\ q.now = req[w].now /\ q.existing = x
      /\ q.done = req[w].done /\ q.batch = req[w].batch
  <2> HIDE DEF x, st, found
  <2> QED  BY <1>0, <1>3, <1>4 DEF Request, Stages
<1>6. q.stage \in BusyStages /\ q.done < Len(q.batch)
  BY <1>0, <1>3, <1>5 DEF BusyStages, Stages, TypeOK
<1>7. IsDb(image') /\ Stamps(image') \subseteq Stamps(image) \cup {req[w].now}
  BY <1>0, <1>2 DEF TypeOK
<1>8. req'[w] = q
  BY <1>0, <1>2 DEF TypeOK
<1>9. Current(w)' = Current(w)
  BY <1>5, <1>8 DEF Current
<1> HIDE DEF q, x
<1>10. TypeOK' /\ OneTransaction' /\ OwnStamps' /\ StampsExplained'
  BY <1>0, <1>2, <1>5, <1>6, <1>7, InsideStep
<1>11. Prepared'
  BY <1>1, <1>2, <1>3, <1>5, <1>6, <1>8, <1>9, <1>10, PreparedAlone DEF Busy
<1> QED  BY <1>10, <1>11 DEF IInv

(* Counting a redelivery keeps IInv.                                       *)
LEMMA BumpStep ==
  ASSUME IInv, NEW w \in Workers, BumpDuplicateCount(w)
  PROVE  IInv'
<1> DEFINE t == req[w].existing.transaction_id
           q == NextEvent(req[w])
           T == BumpDuplicate(image.transactions, t, req[w].now)
<1>0. TypeOK /\ OneTransaction /\ Busy(w) /\ Looping(w) /\ req[w] \in Request
  BY DEF IInv, BumpDuplicateCount, Busy, BusyStages, Stages, Looping, TypeOK
<1>1. /\ UNCHANGED <<undo, sends, failed>>
      /\ req' = [req EXCEPT ![w] = q]
      /\ image' = IF t \in DOMAIN image.transactions
                  THEN [image EXCEPT !.transactions = T] ELSE image
  BY <1>0 DEF BumpDuplicateCount, TypeOK, IsDb
<1>2. /\ q \in Request /\ q.stage \in {"lookup", "commit"} /\ q.now = req[w].now
      /\ q.stage # "commit" => q.done < Len(q.batch)
  BY <1>0, NextEventType
<1>3. req[w].now \in Nat /\ IsDb(image)
  BY <1>0 DEF Request, TypeOK
<1>4. IsDb(image') /\ Stamps(image') \subseteq Stamps(image) \cup {req[w].now}
  <2>1. CASE t \in DOMAIN image.transactions
    <3>1. /\ image' = [events |-> image.events, transactions |-> T,
                       merchants |-> image.merchants]
      BY <1>1, <1>3, <2>1, ColumnsOf
    <3>2. IsTable(image.transactions, Txns, TxnRow)
      BY <1>3 DEF IsDb
    <3>3. IsTable(T, Txns, TxnRow) /\ Touched(image.transactions, T, req[w].now)
      BY <1>3, <2>1, <3>2, DuplicateCounted
    <3> HIDE DEF T
    <3>4. IsDb(image')
      BY <1>3, <3>1, <3>3 DEF IsDb
    <3>5. Touched(image.merchants, image'.merchants, req[w].now)
      BY <3>1, Untouched
    <3> QED  BY <3>1, <3>3, <3>4, <3>5, StampsOfTables, SMTT(30)
  <2>2. CASE t \notin DOMAIN image.transactions
    BY <1>1, <1>3, <2>2
  <2> QED  BY <2>1, <2>2
<1>5. q.stage \in BusyStages
  BY <1>2 DEF BusyStages, Stages
<1>6. req'[w] = q
  BY <1>0, <1>1 DEF TypeOK
<1> HIDE DEF q, T, t
<1>7. TypeOK' /\ OneTransaction' /\ OwnStamps' /\ StampsExplained'
  BY <1>0, <1>1, <1>2, <1>4, <1>5, InsideStep
<1>8. Prepared'
  BY <1>2, <1>5, <1>6, <1>7, PreparedAlone DEF Busy
<1> QED  BY <1>7, <1>8 DEF IInv

(* The merchant upsert keeps IInv and prepares the transaction's.          *)
LEMMA MerchantStep ==
  ASSUME IInv, NEW w \in Workers, UpsertMerchantRow(w)
  PROVE  IInv'
<1> DEFINE e == Current(w)
           q == [req[w] EXCEPT !.stage = "transaction"]
           M == UpsertMerchant(image.merchants, e, req[w].now)
<1>0. TypeOK /\ OneTransaction /\ Busy(w) /\ Looping(w) /\ req[w] \in Request
  BY DEF IInv, UpsertMerchantRow, Busy, BusyStages, Stages, Looping, TypeOK
<1>1. e \in EventIn /\ req[w].now \in Nat /\ IsDb(image)
  BY <1>0, CurrentType DEF TypeOK
<1>2. /\ UNCHANGED <<undo, sends, failed>>
      /\ req' = [req EXCEPT ![w] = q]
      /\ image' = [image EXCEPT !.merchants = M]
  BY <1>0, <1>1 DEF UpsertMerchantRow, Following, TypeOK, IsDb
<1>3. image' = [events |-> image.events, transactions |-> image.transactions, merchants |-> M]
  BY <1>1, <1>2, ColumnsOf
<1>4. /\ IsTable(M, Merchants, MerchantRow)
      /\ DOMAIN M = DOMAIN image.merchants \cup {e.merchant_id}
      /\ Touched(image.merchants, M, req[w].now)
  BY <1>1, MerchantRegistered, MerchantTouched DEF IsDb
<1>5. /\ q \in Request /\ q.stage = "transaction" /\ q.now = req[w].now
      /\ q.done = req[w].done /\ q.batch = req[w].batch
  BY <1>0 DEF Request, Stages
<1>6. q.stage \in BusyStages /\ q.done < Len(q.batch)
  BY <1>0, <1>5 DEF BusyStages, Stages, TypeOK
<1>7. req'[w] = q
  BY <1>0, <1>2 DEF TypeOK
<1>8. Current(w)' = e
  BY <1>5, <1>7 DEF Current
<1>9. e.event_id \notin Ids(image.events)
  BY DEF IInv, Prepared, UpsertMerchantRow
<1> HIDE DEF q, M, e
<1>10. IsDb(image')
  BY <1>1, <1>3, <1>4 DEF IsDb
<1>11. Stamps(image') \subseteq Stamps(image) \cup {req[w].now}
  <2>1. Touched(image.transactions, image'.transactions, req[w].now)
    BY <1>3, Untouched
  <2> QED  BY <1>3, <1>4, <2>1, StampsOfTables
<1>12. TypeOK' /\ OneTransaction' /\ OwnStamps' /\ StampsExplained'
  BY <1>0, <1>2, <1>5, <1>6, <1>10, <1>11, InsideStep
<1>13. MerchantKnown(w)' /\ Current(w)'.event_id \notin Ids(image'.events)
  BY <1>3, <1>4, <1>8, <1>9 DEF MerchantKnown
<1>14. Prepared'
  BY <1>5, <1>6, <1>7, <1>12, <1>13, PreparedAlone DEF Busy
<1> QED  BY <1>12, <1>14 DEF IInv

(* The transaction upsert keeps IInv and prepares the insert.              *)
LEMMA TransactionStep ==
  ASSUME IInv, NEW w \in Workers, UpsertTransactionRow(w)
  PROVE  IInv'
<1> DEFINE e == Current(w)
           q == [req[w] EXCEPT !.stage = "event"]
           T == UpsertTransaction(image.transactions, e, req[w].now)
<1>0. TypeOK /\ OneTransaction /\ Busy(w) /\ Looping(w) /\ req[w] \in Request
  BY DEF IInv, UpsertTransactionRow, Busy, BusyStages, Stages, Looping, TypeOK
<1>1. e \in EventIn /\ req[w].now \in Nat /\ IsDb(image)
  BY <1>0, CurrentType DEF TypeOK
<1>2. /\ UNCHANGED <<undo, sends, failed>>
      /\ req' = [req EXCEPT ![w] = q]
      /\ image' = [image EXCEPT !.transactions = T]
  BY <1>0, <1>1 DEF UpsertTransactionRow, Following, TypeOK, IsDb
<1>3. image' = [events |-> image.events, transactions |-> T, merchants |-> image.merchants]
  BY <1>1, <1>2, ColumnsOf
<1>4. /\ IsTable(T, Txns, TxnRow)
      /\ DOMAIN T = DOMAIN image.transactions \cup {e.transaction_id}
      /\ Touched(image.transactions, T, req[w].now)
  BY <1>1, TransactionStored DEF IsDb
<1>5. /\ q \in Request /\ q.stage = "event" /\ q.now = req[w].now
      /\ q.done = req[w].done /\ q.batch = req[w].batch
  BY <1>0 DEF Request, Stages
<1>6. q.stage \in BusyStages /\ q.done < Len(q.batch)
  BY <1>0, <1>5 DEF BusyStages, Stages, TypeOK
<1>7. req'[w] = q
  BY <1>0, <1>2 DEF TypeOK
<1>8. Current(w)' = e
  BY <1>5, <1>7 DEF Current
<1>9. e.event_id \notin Ids(image.events)
  BY DEF IInv, Prepared, UpsertTransactionRow
<1> HIDE DEF q, T, e
<1>10. IsDb(image')
  BY <1>1, <1>3, <1>4 DEF IsDb
<1>11. Stamps(image') \subseteq Stamps(image) \cup {req[w].now}
  <2>1. Touched(image.merchants, image'.merchants, req[w].now)
    BY <1>3, Untouched
  <2> QED  BY <1>3, <1>4, <2>1, StampsOfTables
<1>12. TypeOK' /\ OneTransaction' /\ OwnStamps' /\ StampsExplained'
  BY <1>0, <1>2, <1>5, <1>6, <1>10, <1>11, InsideStep
<1>13. /\ Current(w)'.event_id \notin Ids(image'.events)
       /\ Current(w)'.transaction_id \in DOMAIN image'.transactions
  BY <1>3, <1>4, <1>8, <1>9
<1>14. Prepared'
  BY <1>5, <1>6, <1>7, <1>12, <1>13, PreparedAlone DEF Busy
<1> QED  BY <1>12, <1>14 DEF IInv

(* The insert of an event keeps IInv.                                      *)
LEMMA InsertStep ==
  ASSUME IInv, NEW w \in Workers, InsertEvent(w)
  PROVE  IInv'
<1> DEFINE row == [payload |-> Current(w), received_at |-> req[w].now]
           q == NextEvent(req[w])
<1>0. TypeOK /\ OneTransaction /\ Busy(w) /\ Looping(w) /\ req[w] \in Request
  BY DEF IInv, InsertEvent, Busy, BusyStages, Stages, Looping, TypeOK
<1>1. IsDb(image) /\ row \in EventRow /\ row.received_at = req[w].now
  BY <1>0, CurrentType DEF TypeOK, EventRow
<1>2. /\ UNCHANGED <<undo, sends, failed>>
      /\ req' = [req EXCEPT ![w] = q]
      /\ image' = [image EXCEPT !.events = Append(image.events, row)]
  BY <1>0, <1>1 DEF InsertEvent, TypeOK, IsDb
<1>3. /\ q \in Request /\ q.stage \in {"lookup", "commit"} /\ q.now = req[w].now
      /\ q.stage # "commit" => q.done < Len(q.batch)
  BY <1>0, NextEventType
<1> HIDE DEF row, q
<1>4. image' = [events |-> Append(image.events, row), transactions |-> image.transactions,
                merchants |-> image.merchants]
  BY <1>1, <1>2, ColumnsOf
<1>5. image.events \in Seq(EventRow) /\ Append(image.events, row) \in Seq(EventRow)
  BY <1>1, AppendProperties DEF IsDb
<1>6. IsDb(image')
  BY <1>1, <1>4, <1>5 DEF IsDb
<1>7. Stamps(image') \subseteq Stamps(image) \cup {req[w].now}
  <2>1. /\ image'.events = Append(image.events, row)
        /\ image'.transactions = image.transactions
        /\ image'.merchants = image.merchants
    BY <1>4
  <2>2. Stamps(image') \subseteq Stamps(image) \cup {row.received_at}
    BY <1>1, <1>5, <2>1, StampsOfLog
  <2> QED  BY <1>1, <2>2
<1>8. q.stage \in BusyStages
  BY <1>3 DEF BusyStages, Stages
<1>9. req'[w] = q
  BY <1>0, <1>2 DEF TypeOK
<1>10. TypeOK' /\ OneTransaction' /\ OwnStamps' /\ StampsExplained'
  BY <1>0, <1>2, <1>3, <1>6, <1>7, <1>8, InsideStep
<1>11. Prepared'
  BY <1>3, <1>8, <1>9, <1>10, PreparedAlone DEF Busy
<1> QED  BY <1>10, <1>11 DEF IInv

(* Opening the connection's transaction keeps IInv.                        *)
LEMMA BeginStep ==
  ASSUME IInv, NEW w \in Workers, BeginImmediate(w)
  PROVE  IInv'
<1> DEFINE q == [req[w] EXCEPT !.stage = "lookup"]
<1>0. TypeOK /\ OneTransaction /\ OwnStamps /\ StampsExplained /\ req[w] \in Request
  BY DEF IInv, TypeOK
<1>1. /\ UNCHANGED <<image, sends, failed>> /\ undo = <<>> /\ undo' = <<image>>
      /\ req' = [req EXCEPT ![w] = q] /\ req[w].stage = "begin"
  BY <1>0 DEF BeginImmediate, TypeOK
<1>2. /\ q \in Request /\ q.stage = "lookup" /\ q.now = req[w].now
      /\ q.done = req[w].done /\ q.batch = req[w].batch
  BY <1>0 DEF Request, Stages
<1>3. /\ req'[w] = q /\ req' \in [Workers -> Request]
      /\ \A v \in Workers : v # w => req'[v] = req[v]
  BY <1>0, <1>1, <1>2 DEF TypeOK
<1> HIDE DEF q
<1>4. \A v \in Workers : ~ Busy(v)
  BY <1>0, <1>1 DEF OneTransaction
<1>5. \A v \in Workers : Busy(v)' => v = w
  BY <1>3, <1>4 DEF Busy
<1>6. /\ undo' # <<>> /\ undo'[1] = image /\ Committed' = image /\ Committed = image
  BY <1>1 DEF Committed
<1>7. TypeOK'
  <2>1. \A v \in Workers : Looping(v)' => req'[v].done < Len(req'[v].batch)
    BY <1>0, <1>1, <1>2, <1>3 DEF TypeOK, Looping, Stages
  <2> QED  BY <1>0, <1>1, <1>3, <1>6, <2>1 DEF TypeOK
<1>8. OneTransaction'
  BY <1>5, <1>6 DEF OneTransaction
<1>9. \A v \in Workers : /\ req'[v].now = req[v].now
                         /\ req'[v].stage # "idle" => req[v].stage # "idle"
  BY <1>1, <1>2, <1>3
<1>10. OwnStamps'
  BY <1>0, <1>1, <1>9 DEF OwnStamps
<1>11. StampsExplained'
  BY <1>0, <1>1, <1>6, <1>9 DEF StampsExplained
<1>12. Prepared'
  BY <1>2, <1>3, <1>5 DEF Prepared, Busy, BusyStages, Stages
<1> QED  BY <1>7, <1>8, <1>10, <1>11, <1>12 DEF IInv

(* A new request has a clock value of its own.                             *)
LEMMA ReceiveStep ==
  ASSUME IInv, NEW w \in Workers, NEW b \in Batches, Receive(w, b)
  PROVE  IInv'
<1> DEFINE q == [NoRequest EXCEPT !.stage = "begin", !.batch = b, !.now = sends + 1]
<1>0. TypeOK /\ OneTransaction /\ Prepared /\ OwnStamps /\ StampsExplained /\ sends \in Nat
  BY DEF IInv, TypeOK
<1>1. /\ UNCHANGED <<image, undo, failed>> /\ sends' = sends + 1
      /\ req' = [req EXCEPT ![w] = q] /\ req[w].stage = "idle"
  BY DEF Receive
<1>2. /\ q \in Request /\ q.stage = "begin" /\ q.now = sends + 1
      /\ q.done = 0 /\ q.batch = b
  <2>1. sends + 1 \in Nat /\ b \in Batches \cup {<<>>} /\ "begin" \in Stages
    BY <1>0 DEF Stages
  <2>2. NoRequest \in Request /\ NoRequest.done = 0
    BY IdleType DEF NoRequest
  <2>3. /\ q \in Request /\ q.stage = "begin" /\ q.now = sends + 1
        /\ q.done = NoRequest.done /\ q.batch = b
    BY <2>1, <2>2 DEF Request
  <2> QED  BY <2>2, <2>3
<1>3. Len(b) \in Nat /\ 0 < Len(b)
  <2>1. b \in Seq({e \in EventIn : Valid(e)}) /\ b # <<>>
    BY SharedAssumption
  <2> QED  BY <2>1, EmptySeq, LenProperties
<1> HIDE DEF q
<1>4. /\ req'[w] = q /\ req' \in [Workers -> Request]
      /\ \A v \in Workers : v # w => req'[v] = req[v]
  BY <1>0, <1>1, <1>2 DEF TypeOK
<1>5. \A v \in Workers : v # w /\ Busy(v)' <=> Busy(v)
  <2>1. ~ Busy(w) /\ ~ Busy(w)'
    BY <1>1, <1>2, <1>4 DEF Busy, BusyStages
  <2>2. \A v \in Workers : v # w => (Busy(v)' <=> Busy(v))
    BY <1>4 DEF Busy
  <2> QED  BY <2>1, <2>2
<1>6. TypeOK'
  <2>1. \A v \in Workers : Looping(v)' => req'[v].done < Len(req'[v].batch)
    BY <1>0, <1>2, <1>3, <1>4 DEF TypeOK, Looping
  <2>2. failed' \subseteq 0..sends'
    BY <1>0, <1>1 DEF TypeOK
  <2> QED  BY <1>0, <1>1, <1>4, <2>1, <2>2 DEF TypeOK
<1>7. OneTransaction'
  BY <1>0, <1>1, <1>2, <1>4, <1>5 DEF OneTransaction, Busy, BusyStages
<1>8. Prepared'
  <2>1. \A v \in Workers : req'[v].stage \in {"bump", "merchant", "transaction", "event"}
          => v # w /\ req'[v] = req[v]
    BY <1>2, <1>4
  <2> QED  BY <1>0, <1>1, <2>1 DEF Prepared, Current, MerchantKnown
<1>9. \A v \in Workers : req[v].now \in Nat
  BY <1>0 DEF TypeOK, Request
<1>10. /\ \A v \in Workers : v # w /\ req[v].stage # "idle" => req[v].now < sends + 1
       /\ sends + 1 \notin failed /\ sends + 1 \notin Stamps(Committed)
  BY <1>0, <1>9 DEF OwnStamps, StampsExplained, TypeOK
<1>11. OwnStamps'
  <2>1. \A v \in Workers : req'[v].stage # "idle" => /\ req'[v].now <= sends'
                                                    /\ req'[v].now \notin failed'
    BY <1>0, <1>1, <1>2, <1>4, <1>9, <1>10 DEF OwnStamps
  <2>2. \A v \in Workers : v # w /\ req'[v].stage # "idle" => req'[v].now # req'[w].now
    BY <1>0, <1>2, <1>4, <1>9, <1>10
  <2>3. \A v, u \in Workers :
          req'[v].stage # "idle" /\ req'[u].stage # "idle" /\ req'[u].now = req'[v].now => v = u
    BY <1>0, <1>4, <2>2 DEF OwnStamps
  <2> QED  BY <2>1, <2>3 DEF OwnStamps
<1>12. Committed' = Committed
  BY <1>1 DEF Committed
<1>13. StampsExplained'
  <2>1. Stamps(Committed)' \subseteq 0..sends' /\ Stamps(Committed)' \cap failed' = {}
    BY <1>0, <1>1, <1>12 DEF StampsExplained
  <2>2. \A v \in Workers : req'[v].stage # "idle" => req'[v].now \notin Stamps(Committed)'
    BY <1>0, <1>2, <1>4, <1>10, <1>12 DEF StampsExplained
  <2>3. \A v \in Workers : Busy(v) => Busy(v)' /\ req'[v].now = req[v].now
    BY <1>1, <1>4, <1>5 DEF Busy, BusyStages
  <2>4. Stamps(image)' \subseteq
          Stamps(Committed)' \cup {req'[v].now : v \in {u \in Workers : Busy(u)'}}
    BY <1>0, <1>1, <1>12, <2>3 DEF StampsExplained
  <2> QED  BY <2>1, <2>2, <2>4 DEF StampsExplained
<1> QED  BY <1>6, <1>7, <1>8, <1>11, <1>13 DEF IInv

(* A thread whose request ends: nobody else's request changes.             *)
LEMMA Leaving ==
  ASSUME TypeOK, NEW w \in Workers, req' = [req EXCEPT ![w] = NoRequest]
  PROVE  /\ req'[w].stage = "idle" /\ req' \in [Workers -> Request]
         /\ \A v \in Workers : v # w => req'[v] = req[v]
         /\ ~ Busy(w)' /\ ~ Looping(w)'
         /\ \A v \in Workers : v # w => (Busy(v)' <=> Busy(v)) /\ (Looping(v)' <=> Looping(v))
<1>1. req \in [Workers -> Request]
  BY DEF TypeOK
<1>2. /\ req'[w] = NoRequest /\ req' \in [Workers -> Request]
      /\ \A v \in Workers : v # w => req'[v] = req[v]
  BY <1>1, IdleType
<1> QED  BY <1>2, IdleType DEF Busy, Looping, BusyStages

(* A BEGIN that fails outside the try touches no other thread's            *)
(* transaction.                                                            *)
LEMMA BeginFailsStep ==
  ASSUME IInv, NEW w \in Workers, BeginFails(w)
  PROVE  IInv'
<1>0. /\ TypeOK /\ OneTransaction /\ Prepared /\ OwnStamps /\ StampsExplained
      /\ sends \in Nat /\ req[w] \in Request
  BY DEF IInv, TypeOK
<1>1. /\ UNCHANGED <<image, undo, sends>> /\ failed' = failed \cup {req[w].now}
      /\ req' = [req EXCEPT ![w] = NoRequest] /\ req[w].stage = "begin"
  BY DEF BeginFails, Fails
<1>2. /\ req'[w].stage = "idle" /\ req' \in [Workers -> Request]
      /\ \A v \in Workers : v # w => req'[v] = req[v]
      /\ ~ Busy(w)' /\ ~ Looping(w)' /\ ~ Busy(w)
      /\ \A v \in Workers : v # w => (Busy(v)' <=> Busy(v)) /\ (Looping(v)' <=> Looping(v))
  BY <1>0, <1>1, Leaving DEF Busy, BusyStages
<1>3. req[w].now \in 0..sends /\ req[w].now \notin Stamps(Committed)
  BY <1>0, <1>1 DEF Request, OwnStamps, StampsExplained
<1>4. TypeOK'
  <2>1. \A v \in Workers : Looping(v)' => req'[v].done < Len(req'[v].batch)
    BY <1>0, <1>2 DEF TypeOK
  <2>2. failed' \subseteq 0..sends'
    BY <1>0, <1>1, <1>3 DEF TypeOK
  <2> QED  BY <1>0, <1>1, <1>2, <2>1, <2>2 DEF TypeOK
<1>5. OneTransaction'
  BY <1>0, <1>1, <1>2 DEF OneTransaction
<1>6. Prepared'
  <2>1. \A v \in Workers : req'[v].stage \in {"bump", "merchant", "transaction", "event"}
          => req'[v] = req[v]
    BY <1>2
  <2> QED  BY <1>0, <1>1, <2>1 DEF Prepared, Current, MerchantKnown
<1>7. \A v \in Workers : req'[v].stage # "idle" =>
        v # w /\ req'[v] = req[v] /\ req[v].now # req[w].now
  BY <1>0, <1>1, <1>2 DEF OwnStamps
<1>8. OwnStamps'
  BY <1>0, <1>1, <1>7 DEF OwnStamps
<1>9. Committed' = Committed
  BY <1>1 DEF Committed
<1>10. StampsExplained'
  <2>1. \A v \in Workers : Busy(v) => Busy(v)' /\ req'[v].now = req[v].now
    BY <1>2
  <2>2. Stamps(image)' \subseteq
          Stamps(Committed)' \cup {req'[v].now : v \in {u \in Workers : Busy(u)'}}
    BY <1>0, <1>1, <1>9, <2>1 DEF StampsExplained
  <2>3. Stamps(Committed)' \cap failed' = {}
    BY <1>0, <1>1, <1>3, <1>9 DEF StampsExplained
  <2> QED  BY <1>0, <1>1, <1>7, <1>9, <2>2, <2>3 DEF StampsExplained
<1> QED  BY <1>4, <1>5, <1>6, <1>8, <1>10 DEF IInv

(* The transaction ends with the thread that has it: what is left is the   *)
(* committed state, and nobody is inside a transaction.                    *)
LEMMA Ending ==
  ASSUME IInv, NEW w \in Workers, Busy(w),
         req' = [req EXCEPT ![w] = NoRequest], undo' = <<>>, UNCHANGED sends,
         IsDb(image'), failed' \subseteq failed \cup {req[w].now},
         Stamps(image') \subseteq 0..sends,
         \A v \in Workers : v # w /\ req[v].stage # "idle" => req[v].now \notin Stamps(image'),
         Stamps(image') \cap failed' = {}
  PROVE  IInv'
<1>0. /\ TypeOK /\ OneTransaction /\ OwnStamps /\ sends \in Nat /\ req[w] \in Request
  BY DEF IInv, TypeOK
<1>1. /\ req'[w].stage = "idle" /\ req' \in [Workers -> Request]
      /\ \A v \in Workers : v # w => req'[v] = req[v]
      /\ ~ Busy(w)' /\ ~ Looping(w)' /\ req[w].stage # "idle"
      /\ \A v \in Workers : v # w => (Busy(v)' <=> Busy(v)) /\ (Looping(v)' <=> Looping(v))
  BY <1>0, Leaving DEF Busy, BusyStages
<1>2. \A v \in Workers : ~ Busy(v)'
  BY <1>0, <1>1 DEF OneTransaction
<1>3. TypeOK'
  <2>1. \A v \in Workers : Looping(v)' => req'[v].done < Len(req'[v].batch)
    BY <1>0, <1>1 DEF TypeOK
  <2>2. failed' \subseteq 0..sends'
    BY <1>0, <1>1 DEF TypeOK, OwnStamps, Request
  <2> QED  BY <1>0, <1>1, <2>1, <2>2 DEF TypeOK
<1>4. OneTransaction'
  BY <1>2 DEF OneTransaction
<1>5. Prepared'
  BY <1>2 DEF Prepared, Busy, BusyStages, Stages
<1>6. \A v \in Workers : req'[v].stage # "idle" =>
        v # w /\ req'[v] = req[v] /\ req[v].now # req[w].now
  BY <1>0, <1>1 DEF OwnStamps
<1>7. OwnStamps'
  BY <1>0, <1>6 DEF OwnStamps
<1>8. Committed' = image'
  BY DEF Committed
<1>9. StampsExplained'
  BY <1>6, <1>8 DEF StampsExplained
<1> QED  BY <1>3, <1>4, <1>5, <1>7, <1>9 DEF IInv

(* A failing statement undoes its own thread's transaction.                *)
LEMMA StatementFailsStep ==
  ASSUME IInv, NEW w \in Workers, StatementFails(w)
  PROVE  IInv'
<1>0. TypeOK /\ OneTransaction /\ OwnStamps /\ StampsExplained
  BY DEF IInv
<1>1. /\ Busy(w) /\ req[w].stage # "idle"
      /\ image' = Committed /\ undo' = <<>> /\ UNCHANGED sends
      /\ failed' = failed \cup {req[w].now} /\ req' = [req EXCEPT ![w] = NoRequest]
  BY DEF StatementFails, RollBack, Fails, Busy, BusyStages, Stages
<1>2. IsDb(Committed)
  BY <1>0 DEF Committed, TypeOK
<1>3. /\ Stamps(Committed) \subseteq 0..sends
      /\ Stamps(Committed) \cap failed' = {}
      /\ \A v \in Workers : req[v].stage # "idle" => req[v].now \notin Stamps(Committed)
  BY <1>0, <1>1 DEF StampsExplained
<1> QED  BY <1>1, <1>2, <1>3, Ending

(* A commit makes the marks of its thread those of an ended request.       *)
LEMMA CommitStep ==
  ASSUME IInv, NEW w \in Workers, Commit(w)
  PROVE  IInv'
<1>0. TypeOK /\ OneTransaction /\ OwnStamps /\ StampsExplained /\ sends \in Nat
  BY DEF IInv, TypeOK
<1>1. /\ Busy(w) /\ req[w].stage # "idle" /\ undo' = <<>>
      /\ UNCHANGED <<image, sends, failed>> /\ req' = [req EXCEPT ![w] = NoRequest]
  BY DEF Commit, Busy, BusyStages, Stages
<1>2. \A v \in Workers : Busy(v) => v = w
  BY <1>0, <1>1 DEF OneTransaction
<1>3. Stamps(image) \subseteq Stamps(Committed) \cup {req[w].now}
  BY <1>0, <1>2 DEF StampsExplained
<1>4. req[w].now \in 0..sends /\ req[w].now \notin failed
  BY <1>0, <1>1 DEF OwnStamps, TypeOK, Request
<1>5. Stamps(image) \subseteq 0..sends /\ Stamps(image) \cap failed = {}
  BY <1>0, <1>3, <1>4 DEF StampsExplained
<1>6. \A v \in Workers : v # w /\ req[v].stage # "idle" => req[v].now \notin Stamps(image)
  BY <1>0, <1>1, <1>3 DEF StampsExplained, OwnStamps
<1>7. IsDb(image)
  BY <1>0 DEF TypeOK
<1> QED  BY <1>1, <1>5, <1>6, <1>7, Ending

-----------------------------------------------------------------------------
(* IInv holds of an empty database.                                        *)
LEMMA InitIInv == Init => IInv
<1> SUFFICES ASSUME Init PROVE IInv
  OBVIOUS
<1>1. /\ image = EmptyDb /\ undo = <<>> /\ req = [w \in Workers |-> NoRequest]
      /\ sends = 0 /\ failed = {}
  BY DEF Init
<1>2. IsDb(EmptyDb)
  BY EmptyDbGood DEF GoodDb
<1>3. Stamps(EmptyDb) = {}
  <2>1. DOMAIN EmptyDb.events = {} /\ DOMAIN EmptyDb.transactions = {} /\ DOMAIN EmptyDb.merchants = {}
    BY DEF EmptyDb
  <2> QED  BY <2>1 DEF Stamps
<1>4. \A w \in Workers : req[w] = NoRequest /\ req[w].stage = "idle"
  BY <1>1, IdleType
<1>5. TypeOK
  <2>1. req \in [Workers -> Request]
    BY <1>1, IdleType
  <2> QED  BY <1>1, <1>2, <1>4, <2>1 DEF TypeOK, Looping
<1>6. \A w \in Workers : ~ Busy(w)
  BY <1>4 DEF Busy, BusyStages
<1>7. OneTransaction /\ Prepared /\ OwnStamps
  BY <1>4, <1>6 DEF OneTransaction, Prepared, OwnStamps
<1>8. StampsExplained
  BY <1>1, <1>3, <1>4 DEF StampsExplained, Committed
<1> QED  BY <1>5, <1>7, <1>8 DEF IInv

(* Every step keeps IInv.                                                  *)
LEMMA Inductive == IInv /\ [Next]_vars => IInv'
<1> SUFFICES ASSUME IInv, [Next]_vars PROVE IInv'
  OBVIOUS
<1>1. ASSUME NEW w \in Workers, NEW b \in Batches, Receive(w, b) PROVE IInv'
  BY <1>1, ReceiveStep
<1>2. ASSUME NEW w \in Workers, BeginImmediate(w) PROVE IInv'
  BY <1>2, BeginStep
<1>3. ASSUME NEW w \in Workers, BeginFails(w) PROVE IInv'
  BY <1>3, BeginFailsStep
<1>4. ASSUME NEW w \in Workers, Lookup(w) PROVE IInv'
  BY <1>4, LookupStep
<1>5. ASSUME NEW w \in Workers, BumpDuplicateCount(w) PROVE IInv'
  BY <1>5, BumpStep
<1>6. ASSUME NEW w \in Workers, UpsertMerchantRow(w) PROVE IInv'
  BY <1>6, MerchantStep
<1>7. ASSUME NEW w \in Workers, UpsertTransactionRow(w) PROVE IInv'
  BY <1>7, TransactionStep
<1>8. ASSUME NEW w \in Workers, InsertEvent(w) PROVE IInv'
  BY <1>8, InsertStep
<1>9. ASSUME NEW w \in Workers, Commit(w) PROVE IInv'
  BY <1>9, CommitStep
<1>10. ASSUME NEW w \in Workers, StatementFails(w) PROVE IInv'
  BY <1>10, StatementFailsStep
<1>11. CASE UNCHANGED vars
  BY <1>11 DEF vars, IInv, TypeOK, OneTransaction, Prepared, OwnStamps, StampsExplained,
               Busy, Looping, Current, MerchantKnown, Committed
<1> QED  BY <1>1, <1>2, <1>3, <1>4, <1>5, <1>6, <1>7, <1>8, <1>9, <1>10, <1>11 DEF Next

(* For any threads and batches: no statement meets a PRIMARY KEY or        *)
(* FOREIGN KEY at the moment it runs, although every thread writes through *)
(* one connection (the upserts of ingest_events, in their order, and BEGIN *)
(* IMMEDIATE refusing a second transaction).                               *)
THEOREM ConstraintsHold == Spec => []ConstraintsNeverBite
<1>1. IInv => ConstraintsNeverBite
  BY DEF IInv, Prepared, ConstraintsNeverBite, EventAcceptable
<1> QED  BY <1>1, InitIInv, Inductive, PTL DEF Spec

(* For any threads and batches: what a request answered 500 wrote is never *)
(* left in the database, and its rollback is never somebody else's (BEGIN  *)
(* IMMEDIATE stands before the try block of ingest_events).                *)
THEOREM FailuresClean == Spec => []FailuresLeaveNothing
<1>1. IInv => FailuresLeaveNothing
  BY DEF IInv, StampsExplained, OwnStamps, FailuresLeaveNothing, Busy, BusyStages
<1> QED  BY <1>1, InitIInv, Inductive, PTL DEF Spec

-----------------------------------------------------------------------------
(* How far the thread whose transaction is open has come: the database     *)
(* BEGIN found, with the events done, and what the statements run so far   *)
(* made of the event it is at. On top of IInv, because a rollback by       *)
(* another thread would otherwise be able to leave a partial image.        *)
SoFar(w) == Images(undo[1], req[w].batch, req[w].now)[req[w].done]

Staged(w) ==
  LET x == SoFar(w)
      e == Current(w)
      stage == req[w].stage
  IN /\ stage \in {"lookup", "bump", "merchant", "commit"} => image = x
     /\ stage = "bump" => /\ e.event_id \in Ids(x.events)
                          /\ req[w].existing = Existing(x.events, e.event_id)
     /\ stage \in {"merchant", "transaction", "event"} => e.event_id \notin Ids(x.events)
     /\ stage = "transaction" =>
          image = [events |-> x.events, transactions |-> x.transactions,
                   merchants |-> UpsertMerchant(x.merchants, e, req[w].now)]
     /\ stage = "event" =>
          image = [events |-> x.events,
                   transactions |-> UpsertTransaction(x.transactions, e, req[w].now),
                   merchants |-> UpsertMerchant(x.merchants, e, req[w].now)]
     /\ stage = "commit" => req[w].done = Len(req[w].batch)

(* Every image is one of whole events, or of the statements of the one     *)
(* event the busy thread is at.                                            *)
DInv ==
  /\ IInv
  /\ GoodDb(Committed)
  /\ undo # <<>> => \E w \in Workers : Busy(w)
  /\ \A w \in Workers : req[w].stage = "begin" => req[w].done = 0
  /\ \A w \in Workers : Busy(w) => GoodDb(SoFar(w)) /\ Staged(w)

(* A step inside a transaction has to answer for its own thread only.      *)
LEMMA InsideStaged ==
  ASSUME DInv, IInv', NEW w \in Workers, Busy(w), NEW q \in Request, q.stage \in BusyStages,
         req' = [req EXCEPT ![w] = q], undo' = undo, GoodDb(SoFar(w))', Staged(w)'
  PROVE  DInv'
<1>1. TypeOK /\ OneTransaction /\ OneTransaction' /\ GoodDb(Committed)
  BY DEF DInv, IInv
<1>2. req'[w] = q /\ \A v \in Workers : v # w => req'[v] = req[v]
  BY <1>1 DEF TypeOK
<1>3. Busy(w)'
  BY <1>2 DEF Busy
<1>4. Committed' = Committed
  BY <1>1 DEF Committed, OneTransaction
<1>5. \A v \in Workers : Busy(v)' => v = w
  BY <1>1, <1>3 DEF OneTransaction
<1>6. \A v \in Workers : req'[v].stage = "begin" => req'[v].done = 0
  BY <1>2 DEF DInv, BusyStages
<1>7. \A v \in Workers : Busy(v)' => GoodDb(SoFar(v))' /\ Staged(v)'
  BY <1>5
<1> QED  BY <1>1, <1>3, <1>4, <1>6, <1>7 DEF DInv

(* What a thread inside its loop is at.                                    *)
LEMMA InLoop ==
  ASSUME DInv, NEW w \in Workers, Busy(w), req[w].stage # "commit"
  PROVE  /\ req \in [Workers -> Request] /\ req[w] \in Request /\ Looping(w)
         /\ GoodDb(SoFar(w)) /\ IsDb(SoFar(w)) /\ Staged(w)
         /\ Current(w) \in EventIn /\ req[w].now \in Nat
<1>1. TypeOK /\ Looping(w)
  BY DEF DInv, IInv, Busy, BusyStages, Looping
<1>2. Current(w) \in EventIn /\ req[w].now \in Nat
  BY <1>1, CurrentType
<1>3. GoodDb(SoFar(w)) /\ Staged(w) /\ IsDb(SoFar(w))
  BY DEF DInv, GoodDb
<1> QED  BY <1>1, <1>2, <1>3 DEF TypeOK

(* A batch is a sequence of events.                                        *)
LEMMA BatchType ==
  ASSUME TypeOK, NEW w \in Workers
  PROVE  req[w].batch \in Seq(EventIn) /\ Len(req[w].batch) \in Nat /\ req[w].done \in Nat
<1>1. req[w].batch \in Batches \cup {<<>>} /\ req[w].done \in Nat
  BY DEF TypeOK, Request
<1>2. Batches \subseteq Seq(EventIn)
  <2>1. {e \in EventIn : Valid(e)} \subseteq EventIn
    OBVIOUS
  <2>2. Seq({e \in EventIn : Valid(e)}) \subseteq Seq(EventIn)
    BY <2>1
  <2> QED  BY <2>2, SharedAssumption
<1>3. req[w].batch \in Seq(EventIn)
  BY <1>1, <1>2, EmptySeq
<1> QED  BY <1>1, <1>3, LenProperties

(* The statement that ends the work on an event ends it with the database  *)
(* after that event.                                                       *)
LEMMA EventDone ==
  ASSUME DInv, IInv', NEW w \in Workers, Busy(w), req[w].stage # "commit",
         req' = [req EXCEPT ![w] = NextEvent(@)], undo' = undo,
         image' = ApplyOne(SoFar(w), Current(w), req[w].now)
  PROVE  DInv'
<1> DEFINE p == req[w]
           q == NextEvent(p)
           n == p.done
           im == Images(undo[1], p.batch, p.now)
<1>0. /\ req \in [Workers -> Request] /\ p \in Request /\ Looping(w) /\ TypeOK
      /\ GoodDb(SoFar(w)) /\ Current(w) \in EventIn /\ p.now \in Nat
  BY InLoop DEF DInv, IInv
<1>1. /\ req' = [req EXCEPT ![w] = q] /\ req'[w] = q /\ q \in Request
      /\ q.stage \in {"lookup", "commit"}
  BY <1>0, NextEventType
<1>2. /\ q.batch = p.batch /\ q.now = p.now /\ q.done = n + 1
      /\ q.stage = IF n + 1 < Len(p.batch) THEN "lookup" ELSE "commit"
  BY <1>0 DEF NextEvent, Request
<1>3. n \in Nat /\ Len(p.batch) \in Nat /\ n < Len(p.batch)
  BY <1>0, BatchType DEF TypeOK
<1>4. im[n + 1] = ApplyOne(im[n], p.batch[n + 1], p.now)
  <2>1. \A m \in 1..Len(p.batch) : im[m] = ApplyOne(im[m - 1], p.batch[m], p.now)
    BY <1>3, ImagesStep
  <2>2. n + 1 \in 1..Len(p.batch) /\ (n + 1) - 1 = n
    BY <1>3
  <2> HIDE DEF im, n, p
  <2> QED  BY <2>1, <2>2
<1>5. SoFar(w)' = im[n + 1]
  BY <1>1, <1>2 DEF SoFar
<1>6. image' = im[n + 1]
  BY <1>4, SMTT(30) DEF SoFar, Current
<1>7. GoodDb(SoFar(w))'
  <2>1. GoodDb(ApplyOne(SoFar(w), Current(w), p.now))
    BY <1>0, ApplyOneExtends
  <2>2. SoFar(w)' = ApplyOne(SoFar(w), Current(w), p.now)
    BY <1>4, <1>5 DEF SoFar, Current
  <2> QED  BY <2>1, <2>2 DEF GoodDb, IsDb, KeysHold, ProjectionOfLog
<1>8. Staged(w)'
  <2>1. q.stage = "commit" => q.done = Len(q.batch)
    BY <1>2, <1>3
  <2> QED  BY <1>1, <1>5, <1>6, <2>1 DEF Staged
<1>9. q.stage \in BusyStages
  BY <1>1 DEF BusyStages, Stages
<1> HIDE DEF q
<1> QED  BY <1>1, <1>7, <1>8, <1>9, InsideStaged

(* A statement within the work on an event leaves the events done alone.   *)
LEMMA EventGoesOn ==
  ASSUME DInv, IInv', NEW w \in Workers, Busy(w), req[w].stage # "commit",
         NEW st \in {"bump", "merchant", "transaction", "event"}, NEW x \in EventIn \cup {NULL},
         req' = [req EXCEPT ![w] = [@ EXCEPT !.stage = st, !.existing = x]], undo' = undo
  PROVE  /\ SoFar(w)' = SoFar(w) /\ Current(w)' = Current(w)
         /\ req'[w].stage = st /\ req'[w].existing = x /\ req'[w].now = req[w].now
         /\ Staged(w)' => DInv'
<1> DEFINE q == [req[w] EXCEPT !.stage = st, !.existing = x]
<1>1. /\ req \in [Workers -> Request] /\ req[w] \in Request /\ GoodDb(SoFar(w))
  BY InLoop
<1>2. req' = [req EXCEPT ![w] = q] /\ req'[w] = q
  BY <1>1
<1>3. /\ q \in Request /\ q.stage = st /\ q.existing = x
      /\ q.now = req[w].now /\ q.batch = req[w].batch /\ q.done = req[w].done
  BY <1>1 DEF Request, Stages
<1>4. q.stage \in BusyStages
  BY <1>3 DEF BusyStages, Stages
<1> HIDE DEF q
<1>5. SoFar(w)' = SoFar(w) /\ Current(w)' = Current(w)
  BY <1>2, <1>3 DEF SoFar, Current
<1>6. GoodDb(SoFar(w))'
  BY <1>1, <1>5 DEF GoodDb, IsDb, KeysHold, ProjectionOfLog
<1>7. Staged(w)' => DInv'
  BY <1>2, <1>3, <1>4, <1>6, InsideStaged
<1> QED  BY <1>2, <1>3, <1>5, <1>7

(* SELECT decides which branch the event takes.                            *)
LEMMA LookupStaged ==
  ASSUME DInv, IInv', NEW w \in Workers, Lookup(w)
  PROVE  DInv'
<1> DEFINE e == Current(w)
           found == e.event_id \in Ids(image.events)
           st == IF found THEN "bump" ELSE "merchant"
           x == IF found THEN Existing(image.events, e.event_id) ELSE NULL
<1>1. Busy(w) /\ req[w].stage = "lookup"
  BY DEF Lookup, Busy, BusyStages, Stages
<1>2. /\ req \in [Workers -> Request] /\ req[w] \in Request /\ IsDb(SoFar(w)) /\ Staged(w)
  BY <1>1, InLoop
<1>3. image = SoFar(w)
  BY <1>1, <1>2 DEF Staged
<1>4. x \in EventIn \cup {NULL}
  <2>1. image.events \in Seq(EventRow)
    BY <1>2, <1>3 DEF IsDb
  <2> QED  BY <2>1, ExistingStored
<1>5. /\ req' = [req EXCEPT ![w] = [@ EXCEPT !.stage = st, !.existing = x]]
      /\ undo' = undo /\ image' = image
  BY <1>2 DEF Lookup
<1>6. st \in {"bump", "merchant", "transaction", "event"} /\ (st = "bump" <=> found)
      /\ (st = "merchant" <=> ~ found) /\ st \notin {"lookup", "transaction", "event", "commit"}
  OBVIOUS
<1>7. found => x = Existing(image.events, e.event_id)
  OBVIOUS
<1> HIDE DEF st, x, e
<1>8. /\ SoFar(w)' = SoFar(w) /\ Current(w)' = Current(w)
      /\ req'[w].stage = st /\ req'[w].existing = x
      /\ Staged(w)' => DInv'
  BY <1>1, <1>4, <1>5, <1>6, EventGoesOn
<1>9. Staged(w)'
  BY <1>3, <1>5, <1>6, <1>7, <1>8 DEF Staged, e
<1> QED  BY <1>8, <1>9

(* The count of a redelivery ends the work on it.                          *)
LEMMA BumpStaged ==
  ASSUME DInv, IInv', NEW w \in Workers, BumpDuplicateCount(w)
  PROVE  DInv'
<1> DEFINE x == SoFar(w)
           e == Current(w)
           t == Existing(x.events, e.event_id).transaction_id
<1>1. Busy(w) /\ req[w].stage = "bump"
  BY DEF BumpDuplicateCount, Busy, BusyStages, Stages
<1>2. GoodDb(x) /\ IsDb(x) /\ Staged(w)
  BY <1>1, InLoop
<1>3. image = x /\ e.event_id \in Ids(x.events) /\ req[w].existing = Existing(x.events, e.event_id)
  BY <1>1, <1>2 DEF Staged
<1>4. t \in DOMAIN x.transactions
  <2>1. x.events \in Seq(EventRow)
    BY <1>2 DEF IsDb
  <2>2. PICK i \in DOMAIN x.events : Existing(x.events, e.event_id) = x.events[i].payload
    BY <1>3, <2>1, ExistingStored
  <2> QED  BY <1>2, <2>2 DEF GoodDb, KeysHold
<1>5. /\ req' = [req EXCEPT ![w] = NextEvent(@)] /\ undo' = undo
      /\ image' = IF req[w].existing.transaction_id \in DOMAIN image.transactions
                  THEN [image EXCEPT !.transactions =
                          BumpDuplicate(@, req[w].existing.transaction_id, req[w].now)]
                  ELSE image
  BY DEF BumpDuplicateCount
<1>6. image' = ApplyOne(x, e, req[w].now)
  BY <1>3, <1>4, <1>5 DEF ApplyOne, ApplyReplay
<1> HIDE DEF x, e, t
<1> QED  BY <1>1, <1>5, <1>6, EventDone DEF x, e

(* The merchant of a new event.                                            *)
LEMMA MerchantStaged ==
  ASSUME DInv, IInv', NEW w \in Workers, UpsertMerchantRow(w)
  PROVE  DInv'
<1> DEFINE x == SoFar(w)
           e == Current(w)
<1>1. Busy(w) /\ req[w].stage = "merchant"
  BY DEF UpsertMerchantRow, Busy, BusyStages, Stages
<1>2. req \in [Workers -> Request] /\ req[w] \in Request /\ IsDb(x) /\ Staged(w)
  BY <1>1, InLoop
<1>3. image = x /\ e.event_id \notin Ids(x.events)
  BY <1>1, <1>2 DEF Staged
<1>4. req[w].existing \in EventIn \cup {NULL}
  BY <1>2 DEF Request
<1>5. /\ req' = [req EXCEPT ![w] = [@ EXCEPT !.stage = "transaction", !.existing = req[w].existing]]
      /\ undo' = undo
  BY <1>2 DEF UpsertMerchantRow, Following, Request
<1>6. image' = [events |-> x.events, transactions |-> x.transactions,
                merchants |-> UpsertMerchant(x.merchants, e, req[w].now)]
  BY <1>2, <1>3, ColumnsOf DEF UpsertMerchantRow
<1> HIDE DEF x, e
<1>7. /\ SoFar(w)' = SoFar(w) /\ Current(w)' = Current(w)
      /\ req'[w].stage = "transaction" /\ req'[w].now = req[w].now
      /\ Staged(w)' => DInv'
  BY <1>1, <1>4, <1>5, EventGoesOn
<1>8. Staged(w)'
  BY <1>3, <1>6, <1>7 DEF Staged, x, e
<1> QED  BY <1>7, <1>8

(* The transaction row of a new event.                                     *)
LEMMA TransactionStaged ==
  ASSUME DInv, IInv', NEW w \in Workers, UpsertTransactionRow(w)
  PROVE  DInv'
<1> DEFINE x == SoFar(w)
           e == Current(w)
<1>1. Busy(w) /\ req[w].stage = "transaction"
  BY DEF UpsertTransactionRow, Busy, BusyStages, Stages
<1>2. req \in [Workers -> Request] /\ req[w] \in Request /\ IsDb(x) /\ Staged(w)
  BY <1>1, InLoop
<1>3. /\ e.event_id \notin Ids(x.events)
      /\ image = [events |-> x.events, transactions |-> x.transactions,
                  merchants |-> UpsertMerchant(x.merchants, e, req[w].now)]
  BY <1>1, <1>2 DEF Staged
<1>4. req[w].existing \in EventIn \cup {NULL}
  BY <1>2 DEF Request
<1>5. /\ req' = [req EXCEPT ![w] = [@ EXCEPT !.stage = "event", !.existing = req[w].existing]]
      /\ undo' = undo
  BY <1>2 DEF UpsertTransactionRow, Following, Request
<1>6. image' = [events |-> x.events,
                transactions |-> UpsertTransaction(x.transactions, e, req[w].now),
                merchants |-> UpsertMerchant(x.merchants, e, req[w].now)]
  BY <1>3 DEF UpsertTransactionRow
<1> HIDE DEF x, e
<1>7. /\ SoFar(w)' = SoFar(w) /\ Current(w)' = Current(w)
      /\ req'[w].stage = "event" /\ req'[w].now = req[w].now
      /\ Staged(w)' => DInv'
  BY <1>1, <1>4, <1>5, EventGoesOn
<1>8. Staged(w)'
  BY <1>3, <1>6, <1>7 DEF Staged, x, e
<1> QED  BY <1>7, <1>8

(* Replacing the events of a database leaves its two other tables.         *)
LEMMA EventsReplaced ==
  ASSUME NEW ev, NEW T, NEW M, NEW new,
         NEW d, d = [events |-> ev, transactions |-> T, merchants |-> M]
  PROVE  [d EXCEPT !.events = new] = [events |-> new, transactions |-> T, merchants |-> M]
OBVIOUS

(* The insert ends the work on a new event.                                *)
LEMMA InsertStaged ==
  ASSUME DInv, IInv', NEW w \in Workers, InsertEvent(w)
  PROVE  DInv'
<1> DEFINE x == SoFar(w)
           e == Current(w)
<1>1. Busy(w) /\ req[w].stage = "event"
  BY DEF InsertEvent, Busy, BusyStages, Stages
<1>2. Staged(w)
  BY <1>1, InLoop
<1>3. /\ e.event_id \notin Ids(x.events)
      /\ image = [events |-> x.events,
                  transactions |-> UpsertTransaction(x.transactions, e, req[w].now),
                  merchants |-> UpsertMerchant(x.merchants, e, req[w].now)]
  BY <1>1, <1>2 DEF Staged
<1>4. req' = [req EXCEPT ![w] = NextEvent(@)] /\ undo' = undo
  BY DEF InsertEvent
<1>5. image' = ApplyOne(x, e, req[w].now)
  <2> DEFINE row == [payload |-> e, received_at |-> req[w].now]
             T == UpsertTransaction(x.transactions, e, req[w].now)
             M == UpsertMerchant(x.merchants, e, req[w].now)
  <2>1. image' = [image EXCEPT !.events = Append(image.events, row)]
    BY DEF InsertEvent
  <2>2. ApplyOne(x, e, req[w].now) =
          [events |-> Append(x.events, row), transactions |-> T, merchants |-> M]
    BY <1>3 DEF ApplyOne, ApplyNew
  <2>3. image = [events |-> x.events, transactions |-> T, merchants |-> M]
    BY <1>3
  <2>4. image.events = x.events
    BY <2>3
  <2> HIDE DEF x, e, row, T, M
  <2>5. image' = [image EXCEPT !.events = Append(x.events, row)]
    BY <2>1, <2>4
  <2>6. [image EXCEPT !.events = Append(x.events, row)]
          = [events |-> Append(x.events, row), transactions |-> T, merchants |-> M]
    BY <2>3, EventsReplaced
  <2> QED  BY <2>2, <2>5, <2>6, Zenon
<1> HIDE DEF x, e
<1> QED  BY <1>1, <1>4, <1>5, EventDone DEF x, e

(* A transaction begins with the committed database and no event done.     *)
LEMMA BeginStaged ==
  ASSUME DInv, IInv', NEW w \in Workers, BeginImmediate(w)
  PROVE  DInv'
<1> DEFINE q == [req[w] EXCEPT !.stage = "lookup"]
<1>0. /\ TypeOK /\ OneTransaction /\ OneTransaction' /\ GoodDb(Committed)
      /\ req \in [Workers -> Request] /\ req[w] \in Request
  BY DEF DInv, IInv, TypeOK
<1>1. /\ req[w].stage = "begin" /\ undo = <<>> /\ undo' = <<image>> /\ image' = image
      /\ req' = [req EXCEPT ![w] = q]
  BY <1>0 DEF BeginImmediate
<1>2. req'[w] = q /\ \A v \in Workers : v # w => req'[v] = req[v]
  BY <1>0, <1>1
<1>3. /\ q.stage = "lookup" /\ q.batch = req[w].batch /\ q.now = req[w].now /\ q.done = 0
  BY <1>0, <1>1 DEF DInv, Request
<1>4. Committed = image /\ Committed' = image /\ GoodDb(image)
  BY <1>0, <1>1 DEF Committed
<1>5. Busy(w)'
  BY <1>2, <1>3 DEF Busy, BusyStages, Stages
<1>6. SoFar(w)' = image
  <2>1. Len(req[w].batch) \in Nat
    BY <1>0, BatchType
  <2>2. Images(image, req[w].batch, req[w].now)[0] = image
    BY <2>1, ImagesStep
  <2>3. undo'[1] = image
    BY <1>1
  <2> QED  BY <1>2, <1>3, <2>2, <2>3 DEF SoFar
<1>7. GoodDb(SoFar(w))' /\ GoodDb(Committed)'
  BY <1>4, <1>6 DEF GoodDb, IsDb, KeysHold, ProjectionOfLog
<1>8. Staged(w)'
  BY <1>1, <1>2, <1>3, <1>6 DEF Staged
<1>9. \A v \in Workers : Busy(v)' => v = w
  BY <1>0, <1>5 DEF OneTransaction
<1>10. \A v \in Workers : req'[v].stage = "begin" => req'[v].done = 0
  BY <1>2, <1>3 DEF DInv
<1>11. \A v \in Workers : Busy(v)' => GoodDb(SoFar(v))' /\ Staged(v)'
  BY <1>7, <1>8, <1>9
<1> QED  BY <1>5, <1>7, <1>10, <1>11 DEF DInv

(* Whoever is not inside the transaction leaves it alone.                  *)
LEMMA OutsideStaged ==
  ASSUME DInv, IInv', NEW w \in Workers, ~ Busy(w), UNCHANGED <<image, undo>>,
         NEW q \in Request, q.stage \in {"idle", "begin"}, q.done = 0,
         req' = [req EXCEPT ![w] = q]
  PROVE  DInv'
<1>1. TypeOK /\ req \in [Workers -> Request]
  BY DEF DInv, IInv, TypeOK
<1>2. req'[w] = q /\ \A v \in Workers : v # w => req'[v] = req[v]
  BY <1>1
<1>3. ~ Busy(w)'
  BY <1>2 DEF Busy, BusyStages
<1>4. \A v \in Workers : /\ Busy(v)' <=> Busy(v)
                         /\ Busy(v) => req'[v] = req[v]
  BY <1>2, <1>3 DEF Busy
<1>5. GoodDb(Committed)'
  BY DEF DInv, Committed, GoodDb, IsDb, KeysHold, ProjectionOfLog
<1>6. ASSUME NEW v \in Workers, Busy(v)' PROVE GoodDb(SoFar(v))' /\ Staged(v)'
  <2>1. Busy(v) /\ req'[v] = req[v] /\ GoodDb(SoFar(v)) /\ Staged(v)
    BY <1>4, <1>6 DEF DInv
  <2>2. SoFar(v)' = SoFar(v) /\ Current(v)' = Current(v)
    BY <2>1 DEF SoFar, Current
  <2> QED  BY <2>1, <2>2 DEF Staged, GoodDb, IsDb, KeysHold, ProjectionOfLog
<1>7. undo' # <<>> => \E v \in Workers : Busy(v)'
  BY <1>4 DEF DInv
<1>8. \A v \in Workers : req'[v].stage = "begin" => req'[v].done = 0
  BY <1>2, SMTT(30) DEF DInv
<1> QED  BY <1>5, <1>6, <1>7, <1>8 DEF DInv

(* What COMMIT publishes is the whole batch.                               *)
LEMMA CommittedWhole ==
  ASSUME DInv, NEW w \in Workers, Commit(w)
  PROVE  /\ Committed' = ApplyBatch(Committed, req[w].batch, req[w].now)
         /\ GoodDb(Committed)'
<1>1. /\ Busy(w) /\ req[w].stage = "commit" /\ undo # <<>> /\ undo' = <<>> /\ image' = image
  BY DEF Commit, Busy, BusyStages, Stages
<1>2. GoodDb(SoFar(w)) /\ image = SoFar(w) /\ req[w].done = Len(req[w].batch)
  BY <1>1 DEF DInv, Staged
<1>3. Committed = undo[1] /\ Committed' = image
  BY <1>1 DEF Committed
<1>4. image = ApplyBatch(undo[1], req[w].batch, req[w].now)
  BY <1>2 DEF SoFar, ApplyBatch
<1>5. Committed' = ApplyBatch(Committed, req[w].batch, req[w].now)
  BY <1>3, <1>4
<1>6. GoodDb(Committed)'
  BY <1>2, <1>3, SMTT(30) DEF GoodDb, IsDb, KeysHold, ProjectionOfLog
<1> QED  BY <1>5, <1>6

(* A transaction that ends leaves nobody inside one.                       *)
LEMMA EndStaged ==
  ASSUME DInv, IInv', NEW w \in Workers, Busy(w),
         req' = [req EXCEPT ![w] = NoRequest], undo' = <<>>, GoodDb(Committed)'
  PROVE  DInv'
<1>1. TypeOK /\ OneTransaction /\ OneTransaction'
  BY DEF DInv, IInv
<1>2. \A v \in Workers : ~ Busy(v)'
  BY <1>1 DEF OneTransaction
<1>3. \A v \in Workers : req'[v].stage = "begin" => req'[v].done = 0
  <2>1. req'[w].stage = "idle" /\ \A v \in Workers : v # w => req'[v] = req[v]
    BY <1>1, Leaving
  <2> QED  BY <2>1 DEF DInv
<1> QED  BY <1>2, <1>3 DEF DInv

(* DInv holds of an empty database, with no transaction open.              *)
LEMMA InitDInv == Init => DInv
<1> SUFFICES ASSUME Init PROVE DInv
  OBVIOUS
<1>1. image = EmptyDb /\ undo = <<>> /\ \A w \in Workers : req[w].stage = "idle" /\ ~ Busy(w)
  BY IdleType DEF Init, Busy, BusyStages
<1>2. GoodDb(Committed)
  BY <1>1, EmptyDbGood DEF Committed
<1> QED  BY <1>1, <1>2, InitIInv DEF DInv

(* Every step keeps DInv.                                                  *)
LEMMA NextDInv == DInv /\ [Next]_vars => DInv'
<1> SUFFICES ASSUME DInv, [Next]_vars PROVE DInv'
  OBVIOUS
<1>0. IInv /\ IInv' /\ TypeOK
  BY Inductive DEF DInv, IInv
<1>1. ASSUME NEW w \in Workers, NEW b \in Batches, Receive(w, b) PROVE DInv'
  <2> DEFINE q == [NoRequest EXCEPT !.stage = "begin", !.batch = b, !.now = sends + 1]
  <2>1. /\ req' = [req EXCEPT ![w] = q] /\ UNCHANGED <<image, undo>> /\ ~ Busy(w)
    BY <1>1 DEF Receive, Busy, BusyStages
  <2>2. sends + 1 \in Nat
    BY <1>0 DEF TypeOK
  <2>3. q \in Request /\ q.stage = "begin" /\ q.done = 0
    BY <2>2 DEF NoRequest, Request, Stages
  <2> HIDE DEF q
  <2> QED  BY <1>0, <2>1, <2>3, OutsideStaged
<1>2. ASSUME NEW w \in Workers, BeginFails(w) PROVE DInv'
  <2>1. /\ req' = [req EXCEPT ![w] = NoRequest] /\ UNCHANGED <<image, undo>> /\ ~ Busy(w)
    BY <1>2 DEF BeginFails, Fails, Busy, BusyStages
  <2>2. NoRequest \in Request /\ NoRequest.stage = "idle" /\ NoRequest.done = 0
    BY IdleType DEF NoRequest
  <2> QED  BY <1>0, <2>1, <2>2, OutsideStaged
<1>3. ASSUME NEW w \in Workers, Commit(w) PROVE DInv'
  <2>1. Busy(w) /\ undo' = <<>> /\ req' = [req EXCEPT ![w] = NoRequest]
    BY <1>3 DEF Commit, Busy, BusyStages, Stages
  <2> QED  BY <1>0, <1>3, <2>1, CommittedWhole, EndStaged
<1>4. ASSUME NEW w \in Workers, StatementFails(w) PROVE DInv'
  <2>1. Busy(w) /\ undo' = <<>> /\ req' = [req EXCEPT ![w] = NoRequest] /\ image' = Committed
    BY <1>4 DEF StatementFails, RollBack, Fails, Busy, BusyStages, Stages
  <2>2. Committed' = Committed /\ GoodDb(Committed)
    BY <2>1 DEF Committed, DInv
  <2>3. GoodDb(Committed)'
    BY <2>2 DEF GoodDb, IsDb, KeysHold, ProjectionOfLog
  <2> QED  BY <1>0, <2>1, <2>3, EndStaged
<1>5. ASSUME NEW w \in Workers,
             \/ BeginImmediate(w) \/ Lookup(w) \/ BumpDuplicateCount(w)
             \/ UpsertMerchantRow(w) \/ UpsertTransactionRow(w) \/ InsertEvent(w)
      PROVE  DInv'
  BY <1>0, <1>5, BeginStaged, LookupStaged, BumpStaged, MerchantStaged, TransactionStaged,
     InsertStaged
<1>6. ASSUME UNCHANGED vars PROVE DInv'
  <2>1. UNCHANGED <<image, undo, req>>
    BY <1>6 DEF vars
  <2>2. \A w \in Workers : /\ Busy(w)' <=> Busy(w)
                           /\ SoFar(w)' = SoFar(w) /\ Current(w)' = Current(w)
    BY <2>1 DEF Busy, SoFar, Current
  <2>3. Committed' = Committed
    BY <2>1 DEF Committed
  <2>4. GoodDb(Committed)' /\ \A w \in Workers : GoodDb(SoFar(w)) => GoodDb(SoFar(w))'
    BY <2>2, <2>3 DEF DInv, GoodDb, IsDb, KeysHold, ProjectionOfLog
  <2>5. \A w \in Workers : Staged(w) => Staged(w)'
    BY <2>1, <2>2 DEF Staged
  <2> QED  BY <1>0, <2>1, <2>2, <2>4, <2>5 DEF DInv
<1> QED  BY <1>1, <1>2, <1>3, <1>4, <1>5, <1>6 DEF Next

-----------------------------------------------------------------------------
(* What DInv says of the rows a reader can meet: up to the event statement *)
(* the image is that of a whole number of events; at the event statement   *)
(* only the row of the event it inserts is ahead of its events.            *)
LEMMA ReadsExplained == DInv => DirtyReadsExplained
<1> SUFFICES ASSUME DInv, NEW t \in Txns \ BeingStored
             PROVE  LET E == EventsOf(image.events, t)
                    IN /\ t \in DOMAIN image.transactions <=> E # {}
                       /\ E # {} => /\ LifecycleOf(image.transactions[t], E)
                                    /\ IdentityOf(image.transactions[t], E)
  BY DEF DirtyReadsExplained
<1>1. CASE undo = <<>>
  <2>1. ProjectionOfLog(image)
    BY <1>1 DEF DInv, Committed, GoodDb
  <2> QED  BY <2>1 DEF ProjectionOfLog
<1>2. CASE undo # <<>>
  <2>1. PICK w \in Workers : Busy(w)
    BY <1>2 DEF DInv
  <2> DEFINE x == SoFar(w)
             e == Current(w)
  <2>2. Staged(w) /\ ProjectionOfLog(x)
    BY <2>1 DEF DInv, GoodDb
  <2>3. image.events = x.events
    BY <2>1, <2>2 DEF Staged, Busy, BusyStages, Stages
  <2>4. /\ t \in DOMAIN image.transactions <=> t \in DOMAIN x.transactions
        /\ t \in DOMAIN x.transactions => image.transactions[t] = x.transactions[t]
    <3>1. CASE req[w].stage = "event"
      <4>1. t # e.transaction_id
        BY <3>1 DEF BeingStored
      <4>2. image.transactions = UpsertTransaction(x.transactions, e, req[w].now)
        BY <2>2, <3>1 DEF Staged
      <4> QED  BY <4>1, <4>2 DEF UpsertTransaction, Put
    <3>2. CASE req[w].stage # "event"
      BY <2>1, <2>2, <3>2 DEF Staged, Busy, BusyStages, Stages
    <3> QED  BY <3>1, <3>2
  <2> HIDE DEF x
  <2> QED  BY <2>2, <2>3, <2>4 DEF ProjectionOfLog
<1> QED  BY <1>1, <1>2

(* A GET /transactions on the shared connection of :memory: may read in    *)
(* the middle of another thread's ingest_events, and still meets no        *)
(* transaction without events, no event without its transaction and no     *)
(* column its events do not explain, except of the transaction whose event *)
(* the next statement of _apply_event inserts.                             *)
THEOREM DirtyReads == Spec => []DirtyReadsExplained
BY InitDInv, NextDInv, ReadsExplained, PTL DEF Spec

-----------------------------------------------------------------------------
(* The refinement of EventLog.                                             *)

(* The cardinalities EventLog counts with are the ones counted here.       *)
LEMMA SameCardinality == \A S : Promise!Cardinality(S) = Cardinality(S)
BY DEF Promise!Cardinality, Cardinality

(* A whole batch committed is the batch accepted by the log.               *)
LEMMA BatchIsAccepted ==
  ASSUME GoodDb(Committed), NEW b \in Seq(EventIn), NEW now \in Nat,
         Committed' = ApplyBatch(Committed, b, now)
  PROVE  Promise!Accept(b)
<1> DEFINE F == FirstIn(Payloads(Committed), b)
           L == Len(Payloads(Committed))
<1>1. /\ Payloads(Committed') = [k \in 1..(L + Cardinality(F)) |->
                            IF k <= L THEN Payloads(Committed)[k]
                            ELSE b[FirstAt(Payloads(Committed), b, k - L)]]
      /\ \A t : Redelivered(Committed', t) = Redelivered(Committed, t)
             + Cardinality({i \in DOMAIN b \ F :
                              OwnerInLog(Payloads(Committed'), b[i].event_id) = t})
  BY LogTakesBatch
<1>2. Promise!Fresh(b) = F
  BY DEF Promise!Fresh, Promise!Known, FirstIn, Payloads
<1>3. \A n : Promise!NthFresh(b, n) = FirstAt(Payloads(Committed), b, n)
  BY <1>2, SameCardinality DEF Promise!NthFresh, FirstAt
<1>4. \A id : Promise!OwnerIn(Payloads(Committed'), id) = OwnerInLog(Payloads(Committed'), id)
  BY DEF Promise!OwnerIn, OwnerInLog
<1> HIDE DEF F
<1>5. Payloads(Committed)' = [k \in 1..(L + Promise!Cardinality(Promise!Fresh(b))) |->
                        IF k <= L THEN Payloads(Committed)[k]
                        ELSE b[Promise!NthFresh(b, k - L)]]
  BY <1>1, <1>2, <1>3, SameCardinality DEF Payloads
<1>6. [t \in Txns |-> Redelivered(Committed, t)]' =
         [t \in Txns |-> [u \in Txns |-> Redelivered(Committed, u)][t]
            + Promise!Cardinality({i \in DOMAIN b \ Promise!Fresh(b) :
                                     Promise!OwnerIn(Payloads(Committed)', b[i].event_id) = t})]
  <2> DEFINE Count(t) == Promise!Cardinality({i \in DOMAIN b \ Promise!Fresh(b) :
                           Promise!OwnerIn(Payloads(Committed'), b[i].event_id) = t})
  <2>1. \A t : Redelivered(Committed', t) = Redelivered(Committed, t) + Count(t)
    BY <1>1, <1>2, <1>4, SameCardinality
  <2> HIDE DEF Count
  <2>2. [t \in Txns |-> Redelivered(Committed', t)] =
          [t \in Txns |-> [u \in Txns |-> Redelivered(Committed, u)][t] + Count(t)]
    BY <2>1
  <2> QED  BY <2>2 DEF Count, Redelivered, Payloads
<1> QED
  BY <1>5, <1>6 DEF Promise!Accept, Payloads, Redelivered

(* An empty database is an empty log.                                      *)
LEMMA InitMaps == Init => Promise!Init
<1> SUFFICES ASSUME Init PROVE Promise!Init
  OBVIOUS
<1>1. /\ Committed.events = <<>> /\ DOMAIN Committed.events = {}
      /\ DOMAIN Committed.transactions = {}
  BY EmptySeq DEF Init, EmptyDb, Committed
<1>2. Payloads(Committed) = <<>>
  BY <1>1 DEF Payloads
<1>3. \A t : Redelivered(Committed, t) = 0
  BY <1>1 DEF Redelivered
<1> QED  BY <1>2, <1>3 DEF Promise!Init, Payloads, Redelivered

(* No statement but COMMIT changes what a rollback would restore.          *)
LEMMA OnlyCommitsPublish ==
  ASSUME DInv, [Next]_vars
  PROVE  Committed' = Committed \/ \E w \in Workers : Commit(w)
<1>1. \A w \in Workers : req[w].stage \in BusyStages => undo # <<>>
  BY DEF DInv, IInv, OneTransaction, Busy
<1>2. ASSUME NEW w \in Workers,
             \/ Lookup(w) \/ BumpDuplicateCount(w)
             \/ UpsertMerchantRow(w) \/ UpsertTransactionRow(w) \/ InsertEvent(w)
      PROVE  Committed' = Committed
  <2>1. undo' = undo /\ req[w].stage \in BusyStages
    BY <1>2 DEF Lookup, BumpDuplicateCount, UpsertMerchantRow, UpsertTransactionRow, InsertEvent,
                BusyStages, Stages
  <2> QED  BY <1>1, <2>1 DEF Committed
<1>3. ASSUME NEW w \in Workers, BeginImmediate(w) PROVE Committed' = Committed
  BY <1>3 DEF BeginImmediate, Committed
<1>4. ASSUME NEW w \in Workers, StatementFails(w) PROVE Committed' = Committed
  BY <1>4 DEF StatementFails, RollBack, Committed
<1>5. ASSUME UNCHANGED <<image, undo>> PROVE Committed' = Committed
  BY <1>5 DEF Committed
<1> QED  BY <1>2, <1>3, <1>4, <1>5 DEF Next, Receive, BeginFails, vars

(* A COMMIT accepts the batch of its request; no other step shows.         *)
LEMMA StepMaps == DInv /\ [Next]_vars => [Promise!Next]_(Promise!vars)
<1> SUFFICES ASSUME DInv, [Next]_vars, ~ UNCHANGED Promise!vars PROVE Promise!Next
  OBVIOUS
<1>0. Committed' = Committed => UNCHANGED Promise!vars
  BY DEF Promise!vars
<1>1. PICK w \in Workers : Commit(w)
  BY <1>0, OnlyCommitsPublish
<1>2. /\ Committed' = ApplyBatch(Committed, req[w].batch, req[w].now)
      /\ GoodDb(Committed) /\ req[w] \in Request
  BY <1>1, CommittedWhole DEF DInv, IInv, TypeOK
<1>3. req[w].batch \in Seq(EventIn) /\ req[w].now \in Nat
  BY <1>2, BatchType DEF DInv, IInv, Request
<1>4. req[w].batch \in Batches
  BY <1>0, <1>2, EmptyBatch DEF Request
<1>5. PICK b \in Batches, now \in Nat :
        b \in Seq(EventIn) /\ Committed' = ApplyBatch(Committed, b, now)
  BY <1>2, <1>3, <1>4
<1>6. Promise!Accept(b)
  BY <1>2, <1>5, BatchIsAccepted
<1> QED  BY <1>6 DEF Promise!Next

(* The committed database of the shared connection implements EventLog:    *)
(* only the COMMIT of ingest_events changes what it shows, and by the      *)
(* whole batch; a rollback by any thread shows nothing.                    *)
THEOREM SharedLogRefined == Spec => SharedImplementsEventLog
<1> QED  BY InitMaps, StepMaps, InitDInv, NextDInv, PTL
         DEF Spec, SharedImplementsEventLog, Promise!Spec
=============================================================================
