----------------------------- MODULE BootProofs -----------------------------
(***************************************************************************)
(* The seed events are stored in file order without a gap, a completed     *)
(* load shows the state of one uninterrupted load, and boots alone replay  *)
(* nothing, for every sample file, all chunk lengths and any number of     *)
(* crashes, seeders and posts.                                             *)
(*                                                                         *)
(* Everything is told in positions of the file: Image(k) is the database   *)
(* after an uninterrupted load of its first k events.  At each moment the  *)
(* seed events stored are those of some Image(k), and no loader is beyond  *)
(* k, so that the next chunk either replays what is there or goes on       *)
(* without a gap.                                                          *)
(***************************************************************************)
EXTENDS Boot, LedgerProofs

NEvents == Len(Events)

(* The database after an uninterrupted load of the first k events.         *)
Image(k) == Images(EmptyDb, Events, 0)[k]

(* The seed events stored, in their order.                                 *)
SeedsOf(d) == Within(Payloads(d), SeedEvents)

(* The same database but for redeliveries: the log and what reconciliation *)
(* reads of every row.                                                     *)
Same(d, c) ==
  /\ d.events = c.events
  /\ DOMAIN d.transactions = DOMAIN c.transactions
  /\ \A t \in DOMAIN d.transactions : State(d.transactions[t]) = State(c.transactions[t])

-----------------------------------------------------------------------------
(* The valid records of the file are a sequence of events.                 *)
LEMMA EventsTyped ==
  /\ Events \in Seq(EventIn) /\ NEvents \in Nat /\ DOMAIN Events = 1..NEvents
  /\ \A i \in 1..NEvents : Events[i] \in EventIn /\ Events[i] \in SeedEvents
  /\ SeedIds = {Events[i].event_id : i \in 1..NEvents}
<1> DEFINE V == {e \in EventIn : Valid(e)}
<1>1. Events \in Seq(EventIn \cap V)
  <2>1. SeedFile \in Seq(EventIn)
    BY BootAssumption
  <2> HIDE DEF V
  <2>2. Within(SeedFile, V) \in Seq(EventIn \cap V)
    BY <2>1, WithinElements
  <2> QED  BY <2>2 DEF Events, V
<1>2. /\ NEvents \in Nat /\ DOMAIN Events = 1..NEvents
      /\ \A i \in 1..NEvents : Events[i] \in EventIn
  BY <1>1, LenProperties, ElementOfSeq DEF NEvents
<1>3. SeedIds = {Events[i].event_id : i \in 1..NEvents}
  BY <1>2 DEF SeedIds
<1>4. \A i \in 1..NEvents : Events[i] \in SeedEvents
  BY <1>2, <1>3 DEF SeedEvents
<1>5. Events \in Seq(EventIn)
  <2>1. Events = [i \in 1..NEvents |-> Events[i]]
    BY <1>1, <1>2
  <2> QED  BY <1>2, <2>1 DEF NEvents
<1> QED  BY <1>2, <1>3, <1>4, <1>5

(* One image after another, from nothing to the whole load.                *)
LEMMA ImageStep ==
  /\ Image(0) = EmptyDb
  /\ \A k \in 1..NEvents : Image(k) = ApplyOne(Image(k - 1), Events[k], 0)
  /\ LoadedOnce = Image(NEvents)
<1>1. Len(Events) \in Nat
  BY EventsTyped DEF NEvents
<1> QED  BY <1>1, ImagesStep DEF Image, NEvents, LoadedOnce

(* Every database in order has its events' payloads as its log.            *)
LEMMA LogOf ==
  ASSUME NEW d, GoodDb(d)
  PROVE  /\ Payloads(d) \in Seq(EventIn) /\ d.events \in Seq(EventRow)
         /\ Ids(d.events) = {x.event_id : x \in Range(Payloads(d))}
         /\ Range(SeedsOf(d)) = Range(Payloads(d)) \cap SeedEvents
<1> DEFINE p == Payloads(d)
<1>1. /\ DOMAIN p = 1..Len(d.events) /\ Len(d.events) \in Nat
      /\ \A i \in DOMAIN d.events : p[i] = d.events[i].payload
      /\ DOMAIN d.events = 1..Len(d.events)
  BY PayloadsOf
<1>2. d.events \in Seq(EventRow)
  BY DEF GoodDb, IsDb
<1>3. \A i \in 1..Len(d.events) : p[i] \in EventIn
  <2> TAKE i \in 1..Len(d.events)
  <2>1. d.events[i] \in EventRow
    BY <1>1, <1>2, ElementOfSeq
  <2> HIDE DEF p
  <2> QED  BY <1>1, <2>1 DEF EventRow
<1>4. p \in Seq(EventIn)
  <2>1. p = [i \in 1..Len(d.events) |-> p[i]]
    BY <1>1 DEF Payloads
  <2> HIDE DEF p
  <2> QED  BY <1>1, <1>3, <2>1
<1>5. Ids(d.events) = {x.event_id : x \in Range(p)}
  <2> HIDE DEF p
  <2> QED  BY <1>1 DEF Ids, Range
<1>6. Range(SeedsOf(d)) = Range(p) \cap SeedEvents
  BY <1>4, WithinElements DEF SeedsOf
<1> QED  BY <1>2, <1>4, <1>5, <1>6

(* A new event is appended to the log, a redelivery leaves it alone.       *)
LEMMA LogStep ==
  ASSUME NEW d, GoodDb(d), NEW e \in EventIn
  PROVE  /\ e.event_id \in Ids(d.events) =>
              /\ ApplyOne(d, e, 0) = ApplyReplay(d, e, 0)
              /\ ApplyOne(d, e, 0).events = d.events
              /\ Payloads(ApplyOne(d, e, 0)) = Payloads(d)
         /\ e.event_id \notin Ids(d.events) =>
              /\ ApplyOne(d, e, 0) = ApplyNew(d, e, 0)
              /\ Payloads(ApplyOne(d, e, 0)) = Append(Payloads(d), e)
         /\ Ids(ApplyOne(d, e, 0).events) = Ids(d.events) \cup {e.event_id}
<1> DEFINE n == ApplyOne(d, e, 0)
           row == [payload |-> e, received_at |-> 0]
<1>1. d.events \in Seq(EventRow) /\ IsDb(d)
  BY DEF GoodDb, IsDb
<1>2. CASE e.event_id \in Ids(d.events)
  <2>1. n = ApplyReplay(d, e, 0)
    BY <1>2 DEF ApplyOne
  <2>2. n.events = d.events
    BY <1>1, <2>1 DEF ApplyReplay, IsDb
  <2> HIDE DEF n
  <2>3. Payloads(n) = Payloads(d) /\ Ids(n.events) = Ids(d.events) \cup {e.event_id}
    BY <1>2, <2>2 DEF Payloads, Ids
  <2> QED  BY <1>2, <2>1, <2>2, <2>3 DEF n
<1>3. CASE e.event_id \notin Ids(d.events)
  <2>1. n = ApplyNew(d, e, 0)
    BY <1>3 DEF ApplyOne
  <2>2. n.events = Append(d.events, row)
    BY <2>1 DEF ApplyNew
  <2>3. row \in EventRow /\ row.payload = e
    BY DEF EventRow
  <2>4. Ids(n.events) = Ids(d.events) \cup {e.event_id}
    <3> HIDE DEF n, row
    <3> QED  BY <1>1, <2>2, <2>3, EventsOfAppend
  <2>5. GoodDb(n)
    BY ApplyOneExtends
  <2>6. /\ DOMAIN n.events = DOMAIN d.events \cup {Len(d.events) + 1}
        /\ n.events[Len(d.events) + 1] = row
        /\ \A i \in DOMAIN d.events : n.events[i] = d.events[i]
        /\ Len(n.events) = Len(d.events) + 1
    <3> HIDE DEF n, row
    <3> QED  BY <1>1, <2>2, <2>3, Appended
  <2>7. Payloads(n) = Append(Payloads(d), e)
    <3> DEFINE p == Payloads(d)
               q == Append(p, e)
               L == Len(d.events)
    <3>1. DOMAIN p = 1..L /\ L \in Nat /\ Len(p) = L /\ DOMAIN d.events = 1..L
      BY PayloadsOf
    <3>2. \A i \in 1..L : p[i] = d.events[i].payload
      BY <3>1, PayloadsOf
    <3>3. p \in Seq(EventIn)
      BY LogOf
    <3>4. DOMAIN Payloads(n) = 1..(L + 1)
      <4> HIDE DEF n
      <4> QED  BY <2>5, <2>6, PayloadsOf
    <3>5. \A i \in 1..(L + 1) : Payloads(n)[i] = n.events[i].payload
      <4> HIDE DEF n
      <4> QED  BY <2>5, <2>6, <3>4, PayloadsOf
    <3> HIDE DEF p, n, row
    <3>6. /\ q \in Seq(EventIn) /\ DOMAIN q = 1..(L + 1) /\ q[L + 1] = e
          /\ \A i \in 1..L : q[i] = p[i]
      BY <3>1, <3>3, Appended
    <3>7. \A i \in 1..(L + 1) : Payloads(n)[i] = q[i]
      BY <2>3, <2>6, <3>1, <3>2, <3>5, <3>6
    <3>8. Payloads(n) = [i \in 1..(L + 1) |-> Payloads(n)[i]]
      BY <3>4 DEF Payloads
    <3>9. q = [i \in 1..(L + 1) |-> q[i]]
      <4> HIDE DEF q, L
      <4> QED  BY <3>6
    <3> QED  BY <3>7, <3>8, <3>9 DEF p
  <2> QED  BY <1>3, <2>1, <2>4, <2>7 DEF n
<1> QED  BY <1>2, <1>3

-----------------------------------------------------------------------------
(* Every image is in order and holds the ids of the events loaded.         *)
LEMMA ImageGood ==
  \A k \in 0..NEvents : /\ GoodDb(Image(k))
                        /\ Ids(Image(k).events) = {Events[i].event_id : i \in 1..k}
<1> DEFINE S == {k \in 0..NEvents : /\ GoodDb(Image(k))
                                    /\ Ids(Image(k).events) = {Events[i].event_id : i \in 1..k}}
<1>1. 0 \in S
  <2>1. GoodDb(Image(0)) /\ Image(0).events = <<>>
    BY EmptyDbGood, ImageStep DEF EmptyDb
  <2>2. Ids(<<>>) = {} /\ {Events[i].event_id : i \in 1..0} = {}
    BY DEF Ids
  <2>3. 0 \in 0..NEvents
    BY EventsTyped
  <2> QED  BY <2>1, <2>2, <2>3
<1>2. ASSUME NEW k \in 1..NEvents, k - 1 \in S PROVE k \in S
  <2>1. GoodDb(Image(k - 1)) /\ Events[k] \in EventIn
    BY <1>2, EventsTyped
  <2>2. Image(k) = ApplyOne(Image(k - 1), Events[k], 0)
    BY ImageStep
  <2>3. GoodDb(Image(k)) /\ Ids(Image(k).events) = Ids(Image(k - 1).events) \cup {Events[k].event_id}
    <3> DEFINE c == Image(k - 1)
               e == Events[k]
    <3>1. GoodDb(c) /\ e \in EventIn /\ 0 \in Nat
      BY <2>1
    <3> HIDE DEF c, e
    <3>2. GoodDb(ApplyOne(c, e, 0)) /\ Ids(ApplyOne(c, e, 0).events) = Ids(c.events) \cup {e.event_id}
      BY <3>1, LogStep, ApplyOneExtends
    <3> QED  BY <2>2, <3>2 DEF c, e
  <2>4. {Events[i].event_id : i \in 1..k}
          = {Events[i].event_id : i \in 1..(k - 1)} \cup {Events[k].event_id}
    <3>1. 1..k = (1..(k - 1)) \cup {k}
      BY EventsTyped
    <3> QED  BY <3>1
  <2>5. Ids(Image(k - 1).events) = {Events[i].event_id : i \in 1..(k - 1)}
    BY <1>2
  <2>6. k \in 0..NEvents
    BY EventsTyped
  <2> QED  BY <2>3, <2>4, <2>5, <2>6
<1>3. \A k \in 0..NEvents : k \in S
  <2>1. \A k \in 1..NEvents : k - 1 \in S => k \in S
    BY <1>2
  <2> HIDE DEF S
  <2> QED  BY <1>1, <2>1, EventsTyped, UpTo
<1> QED  BY <1>3

(* p is where q begins.                                                    *)
Begins(p, q) == Len(p) <= Len(q) /\ \A i \in 1..Len(p) : p[i] = q[i]

(* One more event only adds to the end of the log.                         *)
LEMMA LogBegins ==
  ASSUME NEW d, GoodDb(d), NEW e \in EventIn
  PROVE  Begins(Payloads(d), Payloads(ApplyOne(d, e, 0)))
<1> DEFINE p == Payloads(d)
           q == Payloads(ApplyOne(d, e, 0))
<1>1. p \in Seq(EventIn)
  BY LogOf
<1>2. q = p \/ q = Append(p, e)
  BY LogStep
<1> HIDE DEF p, q
<1>3. Len(p) \in Nat /\ \A i \in 1..Len(p) : Append(p, e)[i] = p[i]
  BY <1>1, Appended
<1>4. Len(Append(p, e)) = Len(p) + 1
  BY <1>1, Appended
<1>5. Begins(p, q)
  BY <1>2, <1>3, <1>4 DEF Begins
<1> QED  BY <1>5 DEF p, q

(* The log of an earlier image is where the log of a later one begins.     *)
LEMMA ImagesInOrder ==
  ASSUME NEW k \in 0..NEvents
  PROVE  Begins(Payloads(Image(k)), Payloads(LoadedOnce))
<1> DEFINE S == {m \in 0..NEvents : k <= m => Begins(Payloads(Image(k)), Payloads(Image(m)))}
<1>1. \A m \in 0..NEvents : /\ GoodDb(Image(m)) /\ Payloads(Image(m)) \in Seq(EventIn)
                            /\ Len(Payloads(Image(m))) \in Nat
  BY ImageGood, LogOf, LenProperties
<1>2. Begins(Payloads(Image(k)), Payloads(Image(k)))
  BY <1>1 DEF Begins
<1>3. 0 \in S
  BY <1>2, EventsTyped
<1>4. ASSUME NEW m \in 1..NEvents, m - 1 \in S PROVE m \in S
  <2> SUFFICES ASSUME k <= m PROVE Begins(Payloads(Image(k)), Payloads(Image(m)))
    BY EventsTyped
  <2>1. CASE k = m
    BY <1>2, <2>1
  <2>2. CASE k # m
    <3>1. m - 1 \in 0..NEvents /\ m \in 0..NEvents /\ k <= m - 1 /\ Events[m] \in EventIn
      BY <2>2, EventsTyped
    <3>2. Begins(Payloads(Image(k)), Payloads(Image(m - 1)))
      BY <1>4, <3>1
    <3>3. Begins(Payloads(Image(m - 1)), Payloads(Image(m)))
      BY <1>1, <3>1, ImageStep, LogBegins
    <3>4. /\ Len(Payloads(Image(k))) \in Nat /\ Len(Payloads(Image(m - 1))) \in Nat
          /\ Len(Payloads(Image(m))) \in Nat
      BY <1>1, <3>1
    <3> QED  BY <3>2, <3>3, <3>4 DEF Begins
  <2> QED  BY <2>1, <2>2
<1>5. NEvents \in S
  <2>1. \A m \in 1..NEvents : m - 1 \in S => m \in S
    BY <1>4
  <2>2. NEvents \in Nat /\ NEvents \in 0..NEvents
    BY EventsTyped
  <2> HIDE DEF S
  <2> QED  BY <1>3, <2>1, <2>2, UpTo
<1> QED  BY <1>5, ImageStep

-----------------------------------------------------------------------------
(* Redeliveries do not show in what reconciliation reads of a row, and     *)
(* rows that agree on it still do after one more event.                    *)
LEMMA SameRows ==
  ASSUME NEW r \in TxnRow, NEW q \in TxnRow, State(r) = State(q), NEW e \in EventIn
  PROVE  State(FoldTxn(r, e, 0)) = State(FoldTxn(q, e, 0))
<1>1. /\ r.merchant_id = q.merchant_id /\ r.amount_minor = q.amount_minor
      /\ r.currency = q.currency /\ r.at = q.at
      /\ r.first_event_at = q.first_event_at /\ r.last_event_at = q.last_event_at
      /\ r.event_count = q.event_count
      /\ r.has_amount_mismatch = q.has_amount_mismatch
      /\ r.has_merchant_mismatch = q.has_merchant_mismatch
  BY DEF State, TxnRow
<1> QED  BY <1>1, ZenonT(60) DEF State, FoldTxn, TxnRow

(* A new event keeps databases the same.                                   *)
LEMMA SameNew ==
  ASSUME NEW d, IsDb(d), NEW c, IsDb(c), Same(d, c), NEW e \in EventIn
  PROVE  Same(ApplyNew(d, e, 0), ApplyNew(c, e, 0))
<1> DEFINE m == ApplyNew(d, e, 0)
           n == ApplyNew(c, e, 0)
           D == d.transactions
           C == c.transactions
           t0 == e.transaction_id
<1>1. /\ m.events = Append(d.events, [payload |-> e, received_at |-> 0])
      /\ n.events = Append(c.events, [payload |-> e, received_at |-> 0])
      /\ m.transactions = UpsertTransaction(D, e, 0)
      /\ n.transactions = UpsertTransaction(C, e, 0)
  BY DEF ApplyNew
<1>2. DOMAIN D = DOMAIN C /\ m.events = n.events
  BY <1>1 DEF Same
<1>3. ASSUME NEW t \in DOMAIN D
      PROVE  D[t] \in TxnRow /\ C[t] \in TxnRow /\ State(D[t]) = State(C[t])
  BY <1>2, <1>3 DEF Same, IsDb, IsTable
<1>4. /\ DOMAIN m.transactions = DOMAIN D \cup {t0} /\ DOMAIN n.transactions = DOMAIN D \cup {t0}
      /\ \A t \in DOMAIN D : t # t0 => m.transactions[t] = D[t] /\ n.transactions[t] = C[t]
      /\ t0 \in DOMAIN D => /\ m.transactions[t0] = FoldTxn(D[t0], e, 0)
                            /\ n.transactions[t0] = FoldTxn(C[t0], e, 0)
      /\ t0 \notin DOMAIN D => m.transactions[t0] = n.transactions[t0]
  BY <1>1, <1>2 DEF UpsertTransaction, Put
<1>5. ASSUME NEW t \in DOMAIN m.transactions
      PROVE  State(m.transactions[t]) = State(n.transactions[t])
  <2>1. CASE t # t0
    <3>1. t \in DOMAIN D
      BY <1>4, <1>5, <2>1
    <3> HIDE DEF m, n, D, C, t0
    <3> QED  BY <1>3, <1>4, <2>1, <3>1
  <2>2. CASE t = t0 /\ t0 \in DOMAIN D
    <3> HIDE DEF m, n, D, C, t0
    <3>1. State(FoldTxn(D[t0], e, 0)) = State(FoldTxn(C[t0], e, 0))
      BY <1>3, <2>2, SameRows
    <3> QED  BY <1>4, <2>2, <3>1
  <2>3. CASE t = t0 /\ t0 \notin DOMAIN D
    <3> HIDE DEF m, n, D, C, t0
    <3> QED  BY <1>4, <2>3
  <2> QED  BY <2>1, <2>2, <2>3
<1> HIDE DEF m, n, D, C, t0
<1>6. Same(m, n)
  BY <1>2, <1>4, <1>5 DEF Same
<1> QED  BY <1>6 DEF m, n

(* A redelivery leaves the database the same.                              *)
LEMMA SameReplay ==
  ASSUME NEW d, GoodDb(d), NEW e \in EventIn, e.event_id \in Ids(d.events)
  PROVE  Same(ApplyReplay(d, e, 0), d)
<1> DEFINE t0 == Existing(d.events, e.event_id).transaction_id
           n == ApplyReplay(d, e, 0)
           D == d.transactions
           k == D[t0].duplicate_event_count + 1
<1>1. IsDb(d) /\ KeysHold(d) /\ d.events \in Seq(EventRow)
  BY DEF GoodDb, IsDb
<1>2. t0 \in DOMAIN D
  BY <1>1, ExistingStored DEF KeysHold
<1>3. n.events = d.events /\ n.transactions = BumpDuplicate(D, t0, 0)
  BY <1>1 DEF ApplyReplay, IsDb
<1>4. \A t \in DOMAIN D : D[t] \in TxnRow
  BY <1>1, SMTT(30) DEF IsDb, IsTable
<1>5. /\ DOMAIN n.transactions = DOMAIN D
      /\ \A t \in DOMAIN D : t # t0 => n.transactions[t] = D[t]
      /\ n.transactions[t0] = [D[t0] EXCEPT !.duplicate_event_count = k, !.updated_at = 0]
  BY <1>2, <1>3, <1>4 DEF BumpDuplicate, TxnRow
<1> HIDE DEF n, k, t0, D
<1>6. State(n.transactions[t0]) = State(D[t0])
  BY <1>2, <1>4, <1>5 DEF State, TxnRow
<1>7. Same(n, d)
  BY <1>3, <1>5, <1>6 DEF Same, D
<1> QED  BY <1>7 DEF n

-----------------------------------------------------------------------------
(* d stands at event k of the file.                                        *)
At(d, k) == GoodDb(d) /\ SeedsOf(d) = Payloads(Image(k))

(* A database at event k knows of the file's ids those of the first k.     *)
LEMMA IdsAt ==
  ASSUME NEW k \in 0..NEvents, NEW d, At(d, k), NEW id \in SeedIds
  PROVE  id \in Ids(d.events) <=> id \in Ids(Image(k).events)
<1> DEFINE c == Image(k)
<1>1. GoodDb(d) /\ GoodDb(c)
  BY ImageGood DEF At
<1> HIDE DEF c
<1>2. /\ Payloads(d) \in Seq(EventIn) /\ Payloads(c) \in Seq(EventIn)
      /\ Ids(d.events) = {x.event_id : x \in Range(Payloads(d))}
      /\ Ids(c.events) = {x.event_id : x \in Range(Payloads(c))}
      /\ Range(SeedsOf(d)) = Range(Payloads(d)) \cap SeedEvents
  BY <1>1, LogOf
<1>3. Range(Payloads(d)) \subseteq EventIn
  <2>1. \A i \in DOMAIN Payloads(d) : Payloads(d)[i] \in EventIn
    BY <1>2, LenProperties, ElementOfSeq
  <2> QED  BY <2>1 DEF Range
<1>4. Range(Payloads(c)) = Range(Payloads(d)) \cap SeedEvents
  BY <1>2 DEF At, c
<1>5. ASSUME NEW x \in Range(Payloads(d)), x.event_id = id PROVE x \in Range(Payloads(c))
  BY <1>3, <1>4, <1>5 DEF SeedEvents
<1>6. \A x \in Range(Payloads(c)) : x \in Range(Payloads(d))
  BY <1>4
<1>7. id \in Ids(d.events) <=> id \in Ids(c.events)
  BY <1>2, <1>5, <1>6
<1> QED  BY <1>7 DEF c

(* The event the load has reached after event i of the file.               *)
Later(k, i) == IF i <= k THEN k ELSE i

(* An event at or before the one that is due is replayed or stored next,   *)
(* just as an uninterrupted load would.                                    *)
LEMMA EventAt ==
  ASSUME NEW k \in 0..NEvents, NEW d, At(d, k), NEW i \in 1..NEvents, i <= k + 1
  PROVE  LET n == ApplyOne(d, Events[i], 0)
         IN /\ At(n, Later(k, i))
            /\ Same(d, Image(k)) => Same(n, Image(Later(k, i)))
<1> DEFINE e == Events[i]
           c == Image(k)
           n == ApplyOne(d, e, 0)
<1>1. /\ e \in EventIn /\ e \in SeedEvents /\ e.event_id \in SeedIds
      /\ k \in Nat /\ i \in Nat
  BY EventsTyped
<1>2. /\ GoodDb(d) /\ GoodDb(c) /\ IsDb(d) /\ IsDb(c)
      /\ Ids(c.events) = {Events[j].event_id : j \in 1..k}
  BY ImageGood DEF At, GoodDb
<1>3. e.event_id \in Ids(d.events) <=> e.event_id \in Ids(c.events)
  BY <1>1, IdsAt
<1>4. SeedsOf(d) = Payloads(c)
  BY DEF At
<1>5. i <= k => e.event_id \in Ids(c.events)
  BY <1>1, <1>2
<1>6. i > k => i = k + 1 /\ Image(i) = ApplyOne(c, e, 0)
  <2>1. i > k => i = k + 1 /\ i - 1 = k
    BY <1>1
  <2> QED  BY <2>1, ImageStep
<1>7. (i <= k => Later(k, i) = k) /\ (i > k => Later(k, i) = i)
  BY <1>1 DEF Later
<1>8. i <= k \/ i > k
  BY <1>1
<1> HIDE DEF e, c, n
<1>9. GoodDb(n)
  BY <1>1, <1>2, ApplyOneExtends DEF n
<1>10. CASE e.event_id \in Ids(d.events)
  <2>1. n = ApplyReplay(d, e, 0) /\ n.events = d.events /\ Payloads(n) = Payloads(d)
    BY <1>1, <1>2, <1>10, LogStep DEF n
  <2>2. SeedsOf(n) = Payloads(c)
    BY <1>4, <2>1 DEF SeedsOf
  <2>3. Same(d, c) => Same(n, c)
    <3>1. Same(n, d)
      BY <1>1, <1>2, <1>10, <2>1, SameReplay
    <3> QED  BY <3>1 DEF Same
  <2>4. CASE i <= k
    BY <1>7, <1>9, <2>2, <2>3, <2>4 DEF At, c, n, e
  <2>5. CASE i > k
    <3> DEFINE f == Image(i)
    <3>1. f = ApplyReplay(c, e, 0) /\ Payloads(f) = Payloads(c)
      BY <1>1, <1>2, <1>3, <1>6, <1>10, <2>5, LogStep
    <3>2. Same(f, c)
      BY <1>1, <1>2, <1>3, <1>10, <3>1, SameReplay
    <3> HIDE DEF f
    <3>3. Same(d, c) => Same(n, f)
      BY <2>3, <3>2 DEF Same
    <3>4. SeedsOf(n) = Payloads(f)
      BY <2>2, <3>1
    <3> QED  BY <1>7, <1>9, <2>5, <3>3, <3>4 DEF At, c, n, e, f
  <2> QED  BY <1>8, <2>4, <2>5
<1>11. CASE e.event_id \notin Ids(d.events)
  <2> DEFINE f == Image(i)
  <2>1. i > k
    BY <1>3, <1>5, <1>8, <1>11
  <2>2. /\ n = ApplyNew(d, e, 0) /\ Payloads(n) = Append(Payloads(d), e)
        /\ f = ApplyNew(c, e, 0) /\ Payloads(f) = Append(Payloads(c), e)
    BY <1>1, <1>2, <1>3, <1>6, <1>11, <2>1, LogStep DEF n
  <2> HIDE DEF f
  <2>3. SeedsOf(n) = Append(SeedsOf(d), e)
    <3>1. Payloads(d) \in Seq(EventIn)
      BY <1>2, LogOf
    <3>2. Within(Append(Payloads(d), e), SeedEvents) = Append(Within(Payloads(d), SeedEvents), e)
      <4> DEFINE p == Payloads(d)
      <4> HIDE DEF p
      <4> QED  BY <1>1, <3>1, WithinAppend
    <3> QED  BY <2>2, <3>2 DEF SeedsOf
  <2>4. Same(d, c) => Same(n, f)
    BY <1>1, <1>2, <2>2, SameNew
  <2> QED  BY <1>4, <1>7, <1>9, <2>1, <2>2, <2>3, <2>4 DEF At, c, n, e, f
<1> QED  BY <1>10, <1>11 DEF n, e

(* A client's batch of other events leaves the stored seed events alone.   *)
LEMMA OtherEvents ==
  ASSUME NEW d, GoodDb(d), NEW b \in Seq(EventIn),
         \A i \in DOMAIN b : b[i].event_id \notin SeedIds
  PROVE  SeedsOf(ApplyBatch(d, b, 0)) = SeedsOf(d)
<1> DEFINE N == Len(b)
           im == Images(d, b, 0)
           S == {n \in 0..N : GoodDb(im[n]) /\ SeedsOf(im[n]) = SeedsOf(d)}
<1>1. N \in Nat /\ \A n \in 1..N : b[n] \in EventIn /\ b[n].event_id \notin SeedIds
  BY LenProperties, ElementOfSeq
<1>2. /\ im[0] = d
      /\ \A n \in 1..N : im[n] = ApplyOne(im[n - 1], b[n], 0)
      /\ ApplyBatch(d, b, 0) = im[N]
  BY <1>1, ImagesStep
<1> HIDE DEF im
<1>3. 0 \in S
  BY <1>1, <1>2
<1>4. ASSUME NEW n \in 1..N, n - 1 \in S PROVE n \in S
  <2> DEFINE x == im[n - 1]
             e == b[n]
  <2>1. GoodDb(x) /\ SeedsOf(x) = SeedsOf(d) /\ e \in EventIn /\ e \notin SeedEvents
    BY <1>1, <1>4 DEF SeedEvents
  <2>2. im[n] = ApplyOne(x, e, 0)
    BY <1>2
  <2> HIDE DEF x, e
  <2>3. GoodDb(ApplyOne(x, e, 0))
    BY <2>1, ApplyOneExtends
  <2>4. Payloads(x) \in Seq(EventIn)
    BY <2>1, LogOf
  <2>5. Payloads(ApplyOne(x, e, 0)) \in {Payloads(x), Append(Payloads(x), e)}
    BY <2>1, LogStep
  <2>6. SeedsOf(ApplyOne(x, e, 0)) = SeedsOf(x)
    BY <2>1, <2>4, <2>5, WithinAppend, ZenonT(60) DEF SeedsOf
  <2> QED  BY <1>1, <2>1, <2>2, <2>3, <2>6
<1>5. N \in S
  <2>1. \A n \in 1..N : n - 1 \in S => n \in S
    BY <1>4
  <2>2. N \in 0..N
    BY <1>1
  <2> HIDE DEF S, N
  <2> QED  BY <1>1, <1>3, <2>1, <2>2, UpTo
<1> QED  BY <1>2, <1>5

-----------------------------------------------------------------------------
(* The last event a loader has been through when `next' is its next one.   *)
Through(next) == IF next <= NEvents THEN next - 1 ELSE NEvents

(* A chunk is the run of events up to where the loader goes on.            *)
LEMMA ChunkIs ==
  ASSUME NEW n \in 1..NEvents, NEW size \in Nat \ {0}
  PROVE  /\ Through(n + size) \in n..NEvents
         /\ Chunk(n, size) \in Seq(EventIn)
         /\ Len(Chunk(n, size)) = Through(n + size) - n + 1
         /\ \A j \in 1..Len(Chunk(n, size)) : Chunk(n, size)[j] = Events[n + j - 1]
<1> DEFINE m == Through(n + size)
           T == {n + size - 1, NEvents}
<1>1. /\ NEvents \in Nat /\ Events \in Seq(EventIn) /\ Len(Events) = NEvents
      /\ \A i \in 1..NEvents : Events[i] \in EventIn
  BY EventsTyped DEF NEvents
<1>2. m \in n..NEvents /\ m \in T /\ \A x \in T : m <= x
  BY <1>1 DEF Through
<1>3. Min(T) = m
  <2>1. \A x \in T : (\A y \in T : x <= y) => x = m
    BY <1>1, <1>2
  <2> HIDE DEF T, m
  <2> QED  BY <1>2, <2>1 DEF Min
<1>4. Chunk(n, size) = SubSeq(Events, n, m)
  <2>1. Chunk(n, size) = SubSeq(Events, n, Min({n + size - 1, Len(Events)}))
    BY DEF Chunk
  <2> QED  BY <1>1, <1>3, <2>1
<1> HIDE DEF m
<1>5. /\ SubSeq(Events, n, m) \in Seq(EventIn) /\ Len(SubSeq(Events, n, m)) = m - n + 1
      /\ \A j \in 1..(m - n + 1) : SubSeq(Events, n, m)[j] = Events[n + j - 1]
  BY <1>1, <1>2
<1> QED  BY <1>2, <1>4, <1>5 DEF m

(* A loader that is not beyond the event the database stands at loads its  *)
(* chunk without a gap, and the database stands where both have been.      *)
LEMMA ChunkAt ==
  ASSUME NEW k \in 0..NEvents, NEW d, At(d, k), NEW n \in 1..NEvents, n - 1 <= k,
         NEW size \in Nat \ {0}
  PROVE  LET c == ApplyBatch(d, Chunk(n, size), 0)
             m == Later(k, Through(n + size))
         IN At(c, m) /\ (Same(d, Image(k)) => Same(c, Image(m)))
<1> DEFINE b == Chunk(n, size)
           N == Len(b)
           im == Images(d, b, 0)
           Pos(j) == Later(k, n - 1 + j)
           S == {j \in 0..N : /\ At(im[j], Pos(j))
                              /\ Same(d, Image(k)) => Same(im[j], Image(Pos(j)))}
<1>1. /\ NEvents \in Nat /\ k \in Nat /\ n \in Nat /\ n - 1 \in Nat
      /\ Through(n + size) \in n..NEvents /\ N = Through(n + size) - n + 1
      /\ \A j \in 1..N : b[j] = Events[n + j - 1]
  <2>1. /\ Through(n + size) \in n..NEvents /\ N = Through(n + size) - n + 1
        /\ \A j \in 1..N : b[j] = Events[n + j - 1]
    BY ChunkIs
  <2> HIDE DEF N, b
  <2> QED  BY <2>1, EventsTyped
<1>2. N \in Nat /\ n - 1 + N = Through(n + size)
  BY <1>1
<1> HIDE DEF b, N
<1>3. /\ im[0] = d
      /\ \A j \in 1..N : im[j] = ApplyOne(im[j - 1], b[j], 0)
      /\ ApplyBatch(d, b, 0) = im[N]
  BY <1>2, ImagesStep DEF N
<1> HIDE DEF im
<1>4. Pos(0) = k
  BY <1>1 DEF Later
<1>5. 0 \in S
  BY <1>2, <1>3, <1>4
<1>6. ASSUME NEW j \in 1..N, j - 1 \in S PROVE j \in S
  <2> DEFINE x == im[j - 1]
             h == Pos(j - 1)
             i == n + j - 1
  <2>1. At(x, h) /\ (Same(d, Image(k)) => Same(x, Image(h)))
    BY <1>6
  <2>2. /\ i \in 1..NEvents /\ h \in 0..NEvents /\ i <= h + 1 /\ Later(h, i) = Pos(j)
        /\ j \in 0..N
    BY <1>1, <1>2 DEF Later
  <2>3. im[j] = ApplyOne(x, Events[i], 0)
    BY <1>1, <1>3
  <2> HIDE DEF x, h, i, Pos
  <2>4. /\ At(ApplyOne(x, Events[i], 0), Later(h, i))
        /\ Same(x, Image(h)) => Same(ApplyOne(x, Events[i], 0), Image(Later(h, i)))
    BY <2>1, <2>2, EventAt
  <2> QED  BY <2>1, <2>2, <2>3, <2>4
<1>7. N \in S
  <2>1. \A j \in 1..N : j - 1 \in S => j \in S
    BY <1>6
  <2>2. N \in 0..N
    BY <1>2
  <2> HIDE DEF S
  <2> QED  BY <1>2, <1>5, <2>1, <2>2, UpTo
<1>8. Pos(N) = Later(k, Through(n + size))
  BY <1>2
<1> QED  BY <1>3, <1>7, <1>8 DEF b

-----------------------------------------------------------------------------
(* The states of the service and of the seeder process.                    *)
Services == [at: {"down", "count", "load", "serving"}, next: Nat \ {0},
             boot: {"none", "off", "skipped", "loaded", "failed"}]

Seeders == [at: {"none", "load"}, next: Nat \ {0}, size: Nat \ {0}]

(* Who can be where: a loader in the middle of its work, or not at all.    *)
BootTypes ==
  /\ server \in Services /\ cli \in Seeders
  /\ whole \in BOOLEAN
  /\ crashes \in Nat /\ clis \in Nat /\ posts \in Nat
  /\ server.at # "load" => server.next = 1
  /\ GoodDb(db)

(* No loader is beyond the event the database stands at, and a load that   *)
(* has ended has brought it to the end.                                    *)
Loaded(k) ==
  /\ SeedsOf(db) = Payloads(Image(k))
  /\ posts = 0 => Same(db, Image(k))
  /\ server.at = "load" => Through(server.next) <= k
  /\ cli.at = "load" => Through(cli.next) <= k
  /\ whole => k = NEvents

IInv ==
  /\ BootTypes
  /\ posts = 0 \/ PostsElsewhere => \E k \in 0..NEvents : Loaded(k)

(* An empty database stands before the first event.                        *)
LEMMA EmptyAt ==
  /\ GoodDb(EmptyDb) /\ SeedsOf(EmptyDb) = Payloads(Image(0)) /\ Same(EmptyDb, Image(0))
  /\ 0 \in 0..NEvents /\ Through(1) = 0
<1>1. NEvents \in Nat
  BY EventsTyped
<1>2. Through(1) = 0 /\ 0 \in 0..NEvents
  BY <1>1 DEF Through
<1>3. Payloads(EmptyDb) = <<>>
  BY DEF Payloads, EmptyDb
<1>4. SeedsOf(EmptyDb) = <<>>
  BY <1>3, WithinEmpty DEF SeedsOf
<1>5. Same(EmptyDb, EmptyDb)
  BY DEF Same
<1> QED  BY <1>2, <1>3, <1>4, <1>5, EmptyDbGood, ImageStep

-----------------------------------------------------------------------------
(* A batch applied by anyone keeps the database in order.                  *)
LEMMA BatchGood ==
  ASSUME NEW d, GoodDb(d), NEW b \in Seq(EventIn)
  PROVE  GoodDb(ApplyBatch(d, b, 0))
  BY BatchExtends

(* What clients send are batches of events.                                *)
LEMMA PostsTyped == \A b \in Posts : b \in Seq(EventIn)
<1> SUFFICES ASSUME NEW b \in Posts PROVE b \in Seq(EventIn)
  OBVIOUS
<1> DEFINE V == {e \in EventIn : Valid(e)}
<1>1. b \in Seq(V) /\ V \subseteq EventIn
  BY BootAssumption
<1> HIDE DEF V
<1> QED  BY <1>1, SeqMonotonic

(* A process that is not there is in one of its states.                    *)
LEMMA NobodyTyped ==
  /\ Down \in Services /\ Down.at = "down" /\ Down.next = 1
  /\ NoCli \in Seeders /\ NoCli.at = "none"
  BY DEF Down, Services, NoCli, Seeders

(* Initially nothing is loaded.                                            *)
LEMMA InitIInv == Init => IInv
<1> SUFFICES ASSUME Init PROVE IInv
  OBVIOUS
<1>1. BootTypes
  <2>1. GoodDb(db)
    BY EmptyAt DEF Init
  <2> QED  BY <2>1, NobodyTyped DEF Init, BootTypes
<1>2. Loaded(0)
  BY EmptyAt DEF Init, Loaded, Down, NoCli
<1> QED  BY <1>1, <1>2, EmptyAt DEF IInv

(* Each step keeps the processes typed and the database in order.          *)
LEMMA TypesStep == BootTypes /\ [Next]_vars => BootTypes'
<1> SUFFICES ASSUME BootTypes, [Next]_vars PROVE BootTypes'
  OBVIOUS
<1>1. ServerChunk \in Nat \ {0} /\ CliChunks \subseteq Nat \ {0}
  BY BootAssumption
<1>2. CASE Start
  BY <1>2 DEF BootTypes, Services, Seeders, Start, Down, Serving
<1>3. CASE SkipSeed
  BY <1>3 DEF BootTypes, Services, Seeders, SkipSeed, Serving
<1>4. CASE ReadSeedFile
  BY <1>4 DEF BootTypes, Services, Seeders, ReadSeedFile
<1>5. CASE SeedChunk
  <2>1. server.next \in 1..NEvents
    BY <1>5 DEF BootTypes, Services, Seeders, SeedChunk, NEvents
  <2>2. GoodDb(db')
    <3>1. Chunk(server.next, ServerChunk) \in Seq(EventIn)
      BY <1>1, <2>1, ChunkIs
    <3> QED  BY <1>5, <3>1, BatchGood DEF BootTypes, SeedChunk
  <2> QED  BY <1>1, <1>5, <2>2 DEF BootTypes, Services, Seeders, SeedChunk
<1>6. CASE SeedDone
  BY <1>6 DEF BootTypes, Services, Seeders, SeedDone, Serving
<1>7. CASE SeedFails
  BY <1>7 DEF BootTypes, Services, Seeders, SeedFails, Serving
<1>8. ASSUME NEW b \in Posts, Post(b) PROVE BootTypes'
  <2>1. b \in Seq(EventIn)
    BY PostsTyped
  <2>2. GoodDb(db')
    BY <1>8, <2>1, BatchGood DEF BootTypes, Post
  <2> QED  BY <1>8, <2>2 DEF BootTypes, Services, Seeders, Post
<1>9. ASSUME NEW size \in CliChunks, NEW reset \in BOOLEAN, CliStart(size, reset)
      PROVE  BootTypes'
  <2>1. GoodDb(db')
    BY <1>9, EmptyAt DEF BootTypes, CliStart
  <2> QED  BY <1>1, <1>9, <2>1 DEF BootTypes, Services, Seeders, CliStart
<1>10. CASE CliChunk
  <2>1. cli.next \in 1..NEvents
    BY <1>10 DEF BootTypes, Services, Seeders, CliChunk, NEvents
  <2>2. GoodDb(db')
    <3>1. Chunk(cli.next, cli.size) \in Seq(EventIn)
      BY <2>1, ChunkIs DEF BootTypes, Services, Seeders
    <3> QED  BY <1>10, <3>1, BatchGood DEF BootTypes, CliChunk
  <2> QED  BY <1>10, <2>2 DEF BootTypes, Services, Seeders, CliChunk, CliNext
<1>11. CASE CliDone
  BY <1>11 DEF BootTypes, Services, Seeders, CliDone, NoCli
<1>12. CASE CliStops
  BY <1>12 DEF BootTypes, Services, Seeders, CliStops, NoCli
<1>13. ASSUME NEW disk \in {"kept", "ephemeral"}, Crash(disk) PROVE BootTypes'
  <2>1. GoodDb(db')
    BY <1>13, EmptyAt DEF BootTypes, Crash
  <2>2. /\ server' = Down /\ cli' \in {cli, NoCli} /\ whole' \in {whole, FALSE}
        /\ crashes' = crashes + 1 /\ clis' = clis /\ posts' = posts
    BY <1>13 DEF Crash
  <2>3. whole' \in BOOLEAN
    BY <2>2, Zenon DEF BootTypes
  <2>4. server' \in Services /\ cli' \in Seeders /\ server'.next = 1 /\ crashes' \in Nat
    BY <2>2, NobodyTyped DEF BootTypes
  <2> QED  BY <2>1, <2>2, <2>3, <2>4 DEF BootTypes
<1>14. CASE UNCHANGED vars
  BY <1>14 DEF BootTypes, vars
<1> QED  BY <1>2, <1>3, <1>4, <1>5, <1>6, <1>7, <1>8, <1>9, <1>10, <1>11, <1>12, <1>13, <1>14
         DEF Next, ServerStep

(* Each step leaves the database at an event no loader is beyond.          *)
LEMMA LoadedStep ==
  ASSUME BootTypes, BootTypes', [Next]_vars, posts' = 0 \/ PostsElsewhere,
         NEW k \in 0..NEvents, Loaded(k)
  PROVE  \E m \in 0..NEvents : Loaded(m)'
<1>1. /\ ServerChunk \in Nat \ {0} /\ CliChunks \subseteq Nat \ {0}
      /\ NEvents \in Nat /\ k \in Nat /\ Len(Events) = NEvents
  BY BootAssumption, EventsTyped DEF NEvents
<1>2. At(db, k)
  BY DEF At, Loaded, BootTypes
<1>3. ASSUME db' = db, posts' = posts, server'.at = "load" => Through(server'.next) <= k,
             cli'.at = "load" => Through(cli'.next) <= k, whole' => k = NEvents
      PROVE  Loaded(k)'
  BY <1>3 DEF Loaded
<1>4. CASE Start
  <2>1. Loaded(k)'
    BY <1>3, <1>4 DEF Loaded, Start, Down, Serving
  <2> QED  BY <2>1
<1>5. CASE SkipSeed \/ SeedFails
  <2>1. Loaded(k)'
    BY <1>3, <1>5 DEF Loaded, SkipSeed, SeedFails, Serving
  <2> QED  BY <2>1
<1>6. CASE ReadSeedFile
  <2>1. server'.next = 1 /\ Through(1) <= k
    BY <1>1, <1>6, EmptyAt DEF BootTypes, ReadSeedFile
  <2>2. Loaded(k)'
    BY <1>3, <1>6, <2>1 DEF Loaded, ReadSeedFile
  <2> QED  BY <2>2
<1>7. CASE SeedChunk
  <2> DEFINE n == server.next
             h == Later(k, Through(n + ServerChunk))
             c == ApplyBatch(db, Chunk(n, ServerChunk), 0)
  <2>1. n \in 1..NEvents /\ n - 1 <= k
    BY <1>1, <1>7 DEF BootTypes, Services, Seeders, SeedChunk, Loaded, Through
  <2>2. db' = c /\ server'.next = n + ServerChunk /\ server'.at = "load"
        /\ cli' = cli /\ whole' = whole /\ posts' = posts
    BY <1>7 DEF SeedChunk, BootTypes, Services, Seeders
  <2> HIDE DEF n
  <2>3. Through(n + ServerChunk) \in n..NEvents
    BY <1>1, <2>1, ChunkIs
  <2>4. h \in 0..NEvents /\ k <= h /\ Through(n + ServerChunk) <= h
    BY <1>1, <2>1, <2>3 DEF Later
  <2>5. At(c, h) /\ (Same(db, Image(k)) => Same(c, Image(h)))
    BY <1>1, <1>2, <2>1, ChunkAt
  <2> HIDE DEF h, c
  <2> PICK m \in 0..NEvents : /\ k <= m /\ Through(n + ServerChunk) <= m
                              /\ At(c, m) /\ (Same(db, Image(k)) => Same(c, Image(m)))
    BY <2>4, <2>5
  <2>6. cli.at = "load" => Through(cli.next) <= m
    <3>1. cli.at = "load" => Through(cli.next) <= k /\ Through(cli.next) \in Int
      BY <1>1, SMTT(30) DEF Loaded, BootTypes, Services, Seeders, Through
    <3> QED  BY <1>1, <3>1
  <2>7. whole => m = NEvents
    BY <1>1 DEF Loaded
  <2>8. Loaded(m)'
    BY <2>2, <2>6, <2>7 DEF Loaded, At
  <2> QED  BY <2>8
<1>8. CASE SeedDone
  <2>1. k = NEvents
    BY <1>1, <1>8 DEF BootTypes, Services, Seeders, SeedDone, Loaded, Through
  <2>2. Loaded(k)'
    BY <1>3, <1>8, <2>1 DEF Loaded, SeedDone, Serving
  <2> QED  BY <2>2
<1>9. ASSUME NEW b \in Posts, Post(b) PROVE \E m \in 0..NEvents : Loaded(m)'
  <2>1. posts' # 0 /\ db' = ApplyBatch(db, b, 0)
        /\ server' = server /\ cli' = cli /\ whole' = whole
    BY <1>9 DEF Post, BootTypes, Services, Seeders
  <2>2. PostsElsewhere /\ b \in Seq(EventIn)
    BY <2>1, PostsTyped
  <2>3. \A i \in DOMAIN b : b[i].event_id \notin SeedIds
    BY <2>2 DEF PostsElsewhere
  <2>4. SeedsOf(db') = SeedsOf(db)
    BY <2>1, <2>2, <2>3, OtherEvents DEF BootTypes
  <2>5. Loaded(k)'
    BY <2>1, <2>4 DEF Loaded
  <2> QED  BY <2>5
<1>10. ASSUME NEW size \in CliChunks, NEW reset \in BOOLEAN, CliStart(size, reset)
       PROVE  \E m \in 0..NEvents : Loaded(m)'
  <2>1. cli'.next = 1 /\ Through(1) = 0 /\ server' = server /\ posts' = posts
    BY <1>10, EmptyAt DEF CliStart
  <2>2. CASE reset
    <3>1. db' = EmptyDb /\ server.at = "down" /\ ~ whole'
      BY <1>10, <2>2 DEF CliStart
    <3>2. Loaded(0)'
      BY <2>1, <3>1, EmptyAt DEF Loaded
    <3> QED  BY <3>2, EmptyAt
  <2>3. CASE ~ reset
    <3>1. db' = db /\ whole' = whole
      BY <1>10, <2>3 DEF CliStart, BootTypes, Services, Seeders
    <3>2. Loaded(k)'
      BY <1>1, <1>3, <2>1, <3>1 DEF Loaded
    <3> QED  BY <3>2
  <2> QED  BY <2>2, <2>3
<1>11. CASE CliChunk
  <2> DEFINE n == cli.next
             size == cli.size
             h == Later(k, Through(n + size))
             c == ApplyBatch(db, Chunk(n, size), 0)
  <2>1. n \in 1..NEvents /\ n - 1 <= k /\ size \in Nat \ {0}
    BY <1>1, <1>11 DEF BootTypes, Services, Seeders, CliChunk, Loaded, Through
  <2>2. db' = c /\ cli'.next = n + size /\ cli'.at = "load"
        /\ server' = server /\ whole' = whole /\ posts' = posts
    BY <1>11 DEF CliChunk, CliNext, BootTypes, Services, Seeders
  <2> HIDE DEF n, size
  <2>3. Through(n + size) \in n..NEvents
    BY <2>1, ChunkIs
  <2>4. h \in 0..NEvents /\ k <= h /\ Through(n + size) <= h
    BY <1>1, <2>1, <2>3 DEF Later
  <2>5. At(c, h) /\ (Same(db, Image(k)) => Same(c, Image(h)))
    BY <1>2, <2>1, ChunkAt
  <2> HIDE DEF h, c
  <2> PICK m \in 0..NEvents : /\ k <= m /\ Through(n + size) <= m
                              /\ At(c, m) /\ (Same(db, Image(k)) => Same(c, Image(m)))
    BY <2>4, <2>5
  <2>6. server.at = "load" => Through(server.next) <= m
    <3>1. server.at = "load" => Through(server.next) <= k /\ Through(server.next) \in Int
      BY <1>1 DEF Loaded, BootTypes, Services, Seeders, Through
    <3> QED  BY <1>1, <3>1
  <2>7. whole => m = NEvents
    BY <1>1 DEF Loaded
  <2>8. Loaded(m)'
    BY <2>2, <2>6, <2>7 DEF Loaded, At
  <2> QED  BY <2>8
<1>12. CASE CliDone
  <2>1. k = NEvents
    BY <1>1, <1>12 DEF BootTypes, Services, Seeders, CliDone, Loaded, Through
  <2>2. Loaded(k)'
    BY <1>3, <1>12, <2>1 DEF Loaded, CliDone, NoCli
  <2> QED  BY <2>2
<1>13. CASE CliStops
  <2>1. Loaded(k)'
    BY <1>3, <1>13 DEF Loaded, CliStops, NoCli
  <2> QED  BY <2>1
<1>14. ASSUME NEW disk \in {"kept", "ephemeral"}, Crash(disk)
       PROVE  \E m \in 0..NEvents : Loaded(m)'
  <2>1. server'.at = "down" /\ posts' = posts
    BY <1>14 DEF Crash, Down
  <2>2. CASE db' = EmptyDb /\ whole' = FALSE /\ cli' = NoCli
    <3>1. Loaded(0)'
      BY <2>1, <2>2, EmptyAt DEF Loaded, NoCli
    <3> QED  BY <3>1, EmptyAt
  <2>3. CASE UNCHANGED <<db, whole, cli>>
    <3>1. Loaded(k)'
      BY <1>3, <2>1, <2>3 DEF Loaded
    <3> QED  BY <3>1
  <2> QED  BY <1>14, <2>2, <2>3 DEF Crash
<1>15. CASE UNCHANGED vars
  <2>1. Loaded(k)'
    BY <1>3, <1>15 DEF Loaded, vars
  <2> QED  BY <2>1
<1> QED  BY <1>4, <1>5, <1>6, <1>7, <1>8, <1>9, <1>10, <1>11, <1>12, <1>13, <1>14, <1>15
         DEF Next, ServerStep

(* Posts are only counted up.                                              *)
LEMMA PostsCounted ==
  ASSUME BootTypes, [Next]_vars, posts' = 0
  PROVE  posts = 0
<1>1. posts' = posts \/ posts' = posts + 1
  BY DEF Next, ServerStep, vars, Start, SkipSeed, ReadSeedFile, SeedChunk, SeedDone, SeedFails,
         Post, CliStart, CliChunk, CliDone, CliStops, Crash
<1> QED  BY <1>1 DEF BootTypes

(* The inductive invariant: at each moment the stored seed events are      *)
(* those of an uninterrupted load up to some event, which no loader is     *)
(* beyond.                                                                 *)
THEOREM BootInvariant == Spec => []IInv
<1>1. IInv /\ [Next]_vars => IInv'
  <2> SUFFICES ASSUME IInv, [Next]_vars PROVE IInv'
    OBVIOUS
  <2>1. BootTypes /\ BootTypes'
    BY TypesStep DEF IInv
  <2>2. ASSUME posts' = 0 \/ PostsElsewhere PROVE \E m \in 0..NEvents : Loaded(m)'
    <3>1. posts = 0 \/ PostsElsewhere
      BY <2>1, <2>2, PostsCounted
    <3>2. PICK k \in 0..NEvents : Loaded(k)
      BY <3>1 DEF IInv
    <3> QED  BY <2>1, <2>2, <3>2, LoadedStep
  <2>3. (posts = 0 \/ PostsElsewhere)' => posts' = 0 \/ PostsElsewhere
    BY DEF PostsElsewhere, SeedIds
  <2> QED  BY <2>1, <2>2, <2>3 DEF IInv
<1> QED  BY <1>1, InitIInv, PTL DEF Spec

(* main.py's _seed_if_empty and seed.py store the file's events in its     *)
(* order without a gap, however they interleave, stop and start again.     *)
THEOREM SeedOrder == Spec => []SeedStoredInOrder
<1>1. IInv => SeedStoredInOrder
  <2> SUFFICES ASSUME IInv, posts = 0 \/ PostsElsewhere
               PROVE  Begins(Within(Payloads(db), SeedEvents), Payloads(LoadedOnce))
    BY DEF SeedStoredInOrder, Begins
  <2>1. PICK k \in 0..NEvents : Loaded(k)
    BY DEF IInv
  <2> QED  BY <2>1, ImagesInOrder DEF Loaded, SeedsOf
<1> QED  BY <1>1, BootInvariant, PTL

(* seed.py's "Re-running it is safe": once a load has run to the end, rows *)
(* read as after one uninterrupted load.                                   *)
THEOREM SeedingIdempotent == Spec => []SeedingIsIdempotent
<1>1. IInv => SeedingIsIdempotent
  <2> SUFFICES ASSUME IInv, whole, posts = 0 PROVE Same(db, LoadedOnce)
    BY DEF SeedingIsIdempotent, Same
  <2>1. PICK k \in 0..NEvents : Loaded(k)
    BY DEF IInv
  <2>2. k = NEvents
    BY <2>1 DEF Loaded
  <2> QED  BY <2>1, <2>2, ImageStep DEF Loaded
<1> QED  BY <1>1, BootInvariant, PTL

-----------------------------------------------------------------------------
(* Redeliveries are counted by a natural number.                           *)
LEMMA DuplicatesNat ==
  ASSUME NEW d, GoodDb(d)
  PROVE  Duplicates(d) \in Nat
<1> DEFINE A == DOMAIN d.transactions
           v == [t \in A |-> d.transactions[t].duplicate_event_count]
<1>1. \A t \in A : d.transactions[t] \in TxnRow
  BY SMTT(30) DEF GoodDb, IsDb, IsTable
<1>2. \A t \in A : v[t] \in Nat
  BY <1>1 DEF TxnRow
<1>3. IsFiniteSet(A)
  BY TransactionsFinite
<1>4. Duplicates(d) = SumOver(v, A)
  BY DEF Duplicates
<1> HIDE DEF A, v
<1> QED  BY <1>2, <1>3, <1>4, SumType

(* One more event takes no redelivery away.                                *)
LEMMA DuplicatesStep ==
  ASSUME NEW d, GoodDb(d), NEW e \in EventIn
  PROVE  Duplicates(d) <= Duplicates(ApplyOne(d, e, 0))
<1> DEFINE n == ApplyOne(d, e, 0)
           A == DOMAIN d.transactions
           B == DOMAIN n.transactions
           v == [t \in A |-> d.transactions[t].duplicate_event_count]
           w == [t \in B |-> n.transactions[t].duplicate_event_count]
<1>1. GoodDb(n) /\ IsDb(d) /\ IsDb(n) /\ KeysHold(d) /\ d.events \in Seq(EventRow)
  BY ApplyOneExtends DEF GoodDb, IsDb
<1>2. Duplicates(d) = SumOver(v, A) /\ Duplicates(n) = SumOver(w, B)
  BY DEF Duplicates
<1>3. (\A t \in A : d.transactions[t] \in TxnRow) /\ (\A t \in B : n.transactions[t] \in TxnRow)
  <2> HIDE DEF n
  <2> QED  BY <1>1, SMTT(30) DEF IsDb, IsTable
<1>4. (\A t \in A : v[t] \in Nat) /\ (\A t \in B : w[t] \in Nat)
  BY <1>3 DEF TxnRow
<1>5. IsFiniteSet(A) /\ IsFiniteSet(B)
  <2> HIDE DEF n
  <2> QED  BY <1>1, TransactionsFinite
<1>6. CASE e.event_id \notin Ids(d.events)
  <2>1. n.transactions = UpsertTransaction(d.transactions, e, 0)
    BY <1>6 DEF ApplyOne, ApplyNew
  <2>2. /\ B = A \cup {e.transaction_id}
        /\ \A t \in A : n.transactions[t] =
             IF t = e.transaction_id THEN FoldTxn(d.transactions[t], e, 0) ELSE d.transactions[t]
    BY <2>1 DEF UpsertTransaction, Put
  <2>3. \A t \in A : FoldTxn(d.transactions[t], e, 0).duplicate_event_count
                       = d.transactions[t].duplicate_event_count
    BY <1>3 DEF FoldTxn, TxnRow
  <2>4. \A t \in A : v[t] = w[t]
    <3> HIDE DEF n
    <3> QED  BY <2>2, <2>3
  <2> HIDE DEF n, A, B, v, w
  <2>5. SumOver(v, A) = SumOver(w, A)
    BY <1>5, <2>4, SumSame
  <2>6. SumOver(w, A) <= SumOver(w, B)
    <3>1. A \in SUBSET B
      BY <2>2
    <3> QED  BY <1>4, <1>5, <3>1, SumMonotone
  <2> QED  BY <1>2, <2>5, <2>6 DEF n
<1>7. CASE e.event_id \in Ids(d.events)
  <2> DEFINE t0 == Existing(d.events, e.event_id).transaction_id
             k == d.transactions[t0].duplicate_event_count + 1
  <2>1. t0 \in A
    BY <1>1, <1>7, ExistingStored DEF KeysHold
  <2>2. n.transactions = BumpDuplicate(d.transactions, t0, 0)
    BY <1>1, <1>7 DEF ApplyOne, ApplyReplay, IsDb
  <2>3. /\ B = A
        /\ \A t \in A : t # t0 => n.transactions[t] = d.transactions[t]
        /\ n.transactions[t0] = [d.transactions[t0] EXCEPT !.duplicate_event_count = k,
                                                           !.updated_at = 0]
    <3> HIDE DEF t0
    <3> QED  BY <1>3, <2>1, <2>2 DEF BumpDuplicate, TxnRow
  <2>4. n.transactions[t0].duplicate_event_count = k
    <3> HIDE DEF n, t0, k
    <3> QED  BY <1>3, <2>1, <2>3 DEF TxnRow
  <2>5. w[t0] = v[t0] + 1 /\ \A t \in A \ {t0} : w[t] = v[t]
    <3> HIDE DEF n, t0
    <3> QED  BY <2>1, <2>3, <2>4
  <2> HIDE DEF n, A, B, v, w, t0, k
  <2>6. IsFiniteSet(A \ {t0})
    BY <1>5, FS_Subset
  <2>7. SumOver(v, A \ {t0}) = SumOver(w, A \ {t0})
    <3> DEFINE C == A \ {t0}
    <3>1. \A t \in C : v[t] = w[t]
      BY <2>5
    <3>2. IsFiniteSet(C)
      BY <2>6
    <3> HIDE DEF C
    <3>3. SumOver(v, C) = SumOver(w, C)
      BY <3>1, <3>2, SumSame
    <3> QED  BY <3>3 DEF C
  <2>8. SumOver(v, A) = v[t0] + SumOver(v, A \ {t0})
    BY <1>4, <1>5, <2>1, SumTakesOut
  <2>9. SumOver(w, A) = w[t0] + SumOver(w, A \ {t0})
    <3>1. \A t \in A : w[t] \in Nat
      BY <1>4, <2>3
    <3> QED  BY <1>5, <2>1, <3>1, SumTakesOut
  <2>10. SumOver(v, A \ {t0}) \in Nat
    <3> DEFINE C == A \ {t0}
    <3>1. IsFiniteSet(C) /\ \A t \in C : v[t] \in Nat
      BY <1>4, <2>6
    <3> HIDE DEF C
    <3>2. SumOver(v, C) \in Nat
      BY <3>1, SumType
    <3> QED  BY <3>2 DEF C
  <2>11. v[t0] \in Nat
    BY <1>4, <2>1
  <2>12. SumOver(v, A) <= SumOver(w, A)
    BY <2>5, <2>7, <2>8, <2>9, <2>10, <2>11
  <2> QED  BY <1>2, <2>3, <2>12 DEF n
<1> QED  BY <1>6, <1>7

(* No image counts more redeliveries than the whole load.                  *)
LEMMA ImagesCount ==
  ASSUME NEW k \in 0..NEvents
  PROVE  Duplicates(Image(k)) <= Duplicates(LoadedOnce)
<1> DEFINE D(m) == Duplicates(Image(m))
           S == {m \in 0..NEvents : k <= m => D(k) <= D(m)}
<1>1. NEvents \in Nat
  BY EventsTyped
<1>2. \A m \in 0..NEvents : D(m) \in Nat
  BY ImageGood, DuplicatesNat
<1>3. \A m \in 1..NEvents : D(m - 1) <= D(m)
  <2> TAKE m \in 1..NEvents
  <2> DEFINE c == Image(m - 1)
             e == Events[m]
  <2>1. GoodDb(c) /\ e \in EventIn /\ Image(m) = ApplyOne(c, e, 0)
    BY <1>1, ImageGood, ImageStep, EventsTyped
  <2> HIDE DEF c, e
  <2>2. Duplicates(c) <= Duplicates(ApplyOne(c, e, 0))
    BY <2>1, DuplicatesStep
  <2> QED  BY <2>1, <2>2 DEF c
<1> HIDE DEF D
<1>4. 0 \in S
  BY <1>1, <1>2
<1>5. ASSUME NEW m \in 1..NEvents, m - 1 \in S PROVE m \in S
  <2>1. m \in 0..NEvents /\ m - 1 \in 0..NEvents
    BY <1>1
  <2>2. D(m - 1) \in Nat /\ D(m) \in Nat /\ D(k) \in Nat
    BY <1>2, <2>1
  <2>3. D(m - 1) <= D(m)
    BY <1>3
  <2>4. CASE k <= m - 1
    BY <1>5, <2>1, <2>2, <2>3, <2>4
  <2>5. CASE k > m - 1
    <3>1. k <= m => k = m
      BY <2>5
    <3> QED  BY <2>1, <2>2, <3>1
  <2> QED  BY <2>1, <2>4, <2>5
<1>6. NEvents \in S
  <2>1. \A m \in 1..NEvents : m - 1 \in S => m \in S
    BY <1>5
  <2>2. NEvents \in 0..NEvents
    BY <1>1
  <2> HIDE DEF S
  <2> QED  BY <1>1, <1>4, <2>1, <2>2, UpTo
<1> QED  BY <1>1, <1>6, ImageStep DEF D

-----------------------------------------------------------------------------
(* A chunk that starts where the database stands leaves an image.          *)
LEMMA ChunkOnImage ==
  ASSUME NEW n \in 1..NEvents, NEW size \in Nat \ {0}
  PROVE  ApplyBatch(Image(n - 1), Chunk(n, size), 0) = Image(Through(n + size))
<1> DEFINE b == Chunk(n, size)
           N == Len(b)
           d == Image(n - 1)
           im == Images(d, b, 0)
           S == {j \in 0..N : im[j] = Image(n - 1 + j)}
<1>1. /\ NEvents \in Nat /\ n \in Nat
      /\ Through(n + size) \in n..NEvents /\ N = Through(n + size) - n + 1
      /\ \A j \in 1..N : b[j] = Events[n + j - 1]
  <2>1. /\ Through(n + size) \in n..NEvents /\ N = Through(n + size) - n + 1
        /\ \A j \in 1..N : b[j] = Events[n + j - 1]
    BY ChunkIs
  <2> HIDE DEF N, b
  <2> QED  BY <2>1, EventsTyped
<1>2. N \in Nat /\ n - 1 + N = Through(n + size)
  BY <1>1
<1> HIDE DEF b, N, d
<1>3. /\ im[0] = d
      /\ \A j \in 1..N : im[j] = ApplyOne(im[j - 1], b[j], 0)
      /\ ApplyBatch(d, b, 0) = im[N]
  BY <1>2, ImagesStep DEF N
<1> HIDE DEF im
<1>4. 0 \in S
  <2>1. n - 1 + 0 = n - 1
    BY <1>1
  <2> QED  BY <1>2, <1>3, <2>1 DEF d
<1>5. ASSUME NEW j \in 1..N, j - 1 \in S PROVE j \in S
  <2> DEFINE i == n + j - 1
  <2>1. i \in 1..NEvents /\ i - 1 = n - 1 + (j - 1) /\ i = n - 1 + j /\ j \in 0..N
    BY <1>1, <1>2
  <2>2. im[j - 1] = Image(n - 1 + (j - 1))
    BY <1>5
  <2>3. im[j] = ApplyOne(im[j - 1], Events[i], 0)
    BY <1>1, <1>3
  <2> HIDE DEF i
  <2>4. Image(i) = ApplyOne(Image(i - 1), Events[i], 0)
    BY <2>1, ImageStep
  <2> QED  BY <2>1, <2>2, <2>3, <2>4
<1>6. N \in S
  <2>1. \A j \in 1..N : j - 1 \in S => j \in S
    BY <1>5
  <2>2. N \in 0..N
    BY <1>2
  <2> HIDE DEF S
  <2> QED  BY <1>2, <1>4, <2>1, <2>2, UpTo
<1> QED  BY <1>2, <1>3, <1>6 DEF d, b

(* An image without events is the empty database.                          *)
LEMMA EmptyImage ==
  ASSUME NEW k \in 0..NEvents, Len(Image(k).events) = 0
  PROVE  k = 0
<1> SUFFICES ASSUME k # 0 PROVE FALSE
  OBVIOUS
<1>1. GoodDb(Image(k)) /\ Ids(Image(k).events) = {Events[i].event_id : i \in 1..k}
  BY ImageGood
<1>2. 1 \in 1..k
  BY EventsTyped
<1>3. Events[1].event_id \in Ids(Image(k).events)
  BY <1>1, <1>2
<1>4. DOMAIN Image(k).events = 1..0
  BY <1>1, PayloadsOf
<1> QED  BY <1>3, <1>4 DEF Ids

(* While there has been no seeder and no client, the database is that of   *)
(* an uninterrupted load up to some event, and a loading boot goes on      *)
(* right there.                                                            *)
Alone(k) == db = Image(k) /\ (server.at = "load" => k = Through(server.next))

BootsAlone ==
  clis = 0 /\ posts = 0 => cli.at = "none" /\ \E k \in 0..NEvents : Alone(k)

(* Each step of a boot on its own goes on where the last one stopped.      *)
LEMMA AloneStep ==
  ASSUME BootTypes, BootTypes', [Next]_vars, clis' = 0, posts' = 0,
         cli.at = "none", NEW k \in 0..NEvents, Alone(k)
  PROVE  cli'.at = "none" /\ \E m \in 0..NEvents : Alone(m)'
<1>1. ServerChunk \in Nat \ {0} /\ NEvents \in Nat /\ Len(Events) = NEvents
  BY BootAssumption, EventsTyped DEF NEvents
<1>2. CASE Start \/ SkipSeed \/ SeedDone \/ SeedFails
  <2>1. db' = db /\ cli' = cli /\ server'.at # "load"
    BY <1>2 DEF Start, SkipSeed, SeedDone, SeedFails, Down, Serving
  <2>2. Alone(k)'
    BY <2>1 DEF Alone
  <2> QED  BY <2>1, <2>2
<1>3. CASE ReadSeedFile
  <2>1. db' = db /\ cli' = cli /\ server'.next = 1 /\ Len(db.events) = 0
    <3>1. Len(db.events) \in Nat /\ ~ (Len(db.events) > 0)
      BY <1>3, PayloadsOf DEF ReadSeedFile, AlreadySeeded, BootTypes
    <3> QED  BY <1>3, <3>1 DEF ReadSeedFile, BootTypes, Services
  <2>2. k = 0 /\ Through(1) = 0
    BY <2>1, EmptyImage, EmptyAt DEF Alone
  <2>3. Alone(k)'
    BY <2>1, <2>2 DEF Alone
  <2> QED  BY <2>1, <2>3
<1>4. CASE SeedChunk
  <2> DEFINE n == server.next
  <2>1. n \in 1..NEvents /\ k = n - 1
    BY <1>1, <1>4 DEF SeedChunk, Alone, Through, BootTypes, Services
  <2>2. /\ db' = ApplyBatch(Image(n - 1), Chunk(n, ServerChunk), 0)
        /\ server'.next = n + ServerChunk /\ cli' = cli
    BY <1>4, <2>1 DEF SeedChunk, Alone, BootTypes, Services
  <2> HIDE DEF n
  <2>3. db' = Image(Through(n + ServerChunk)) /\ Through(n + ServerChunk) \in 0..NEvents
    <3> PICK i \in 1..NEvents : i = n
      BY <2>1
    <3>1. ApplyBatch(Image(i - 1), Chunk(i, ServerChunk), 0) = Image(Through(i + ServerChunk))
      BY <1>1, ChunkOnImage
    <3>2. Through(i + ServerChunk) \in i..NEvents
      BY <1>1, ChunkIs
    <3> QED  BY <1>1, <2>2, <3>1, <3>2
  <2> PICK m \in 0..NEvents : m = Through(n + ServerChunk)
    BY <2>3
  <2>4. Alone(m)'
    BY <2>2, <2>3 DEF Alone
  <2> QED  BY <2>2, <2>4
<1>5. ASSUME NEW b \in Posts, Post(b) PROVE FALSE
  BY <1>5 DEF Post, BootTypes
<1>6. ASSUME NEW size \in CliChunks, NEW reset \in BOOLEAN, CliStart(size, reset) PROVE FALSE
  BY <1>6 DEF CliStart, BootTypes
<1>7. CASE CliChunk \/ CliDone \/ CliStops
  BY <1>7 DEF CliChunk, CliDone, CliStops
<1>8. ASSUME NEW disk \in {"kept", "ephemeral"}, Crash(disk)
      PROVE  cli'.at = "none" /\ \E m \in 0..NEvents : Alone(m)'
  <2>1. server'.at = "down"
    BY <1>8 DEF Crash, Down
  <2>2. CASE db' = EmptyDb /\ cli' = NoCli
    <3>1. Alone(0)'
      BY <2>1, <2>2, ImageStep DEF Alone
    <3> QED  BY <2>2, <3>1, EmptyAt, NobodyTyped
  <2>3. CASE db' = db /\ cli' = cli
    <3>1. Alone(k)'
      BY <2>1, <2>3 DEF Alone
    <3> QED  BY <2>3, <3>1
  <2> QED  BY <1>8, <2>2, <2>3 DEF Crash
<1>9. CASE UNCHANGED vars
  <2>1. Alone(k)'
    BY <1>9 DEF Alone, vars
  <2> QED  BY <1>9, <2>1 DEF vars
<1> QED  BY <1>2, <1>3, <1>4, <1>5, <1>6, <1>7, <1>8, <1>9 DEF Next, ServerStep

(* Seeders are only counted up.                                            *)
LEMMA ClisCounted ==
  ASSUME BootTypes, [Next]_vars, clis' = 0
  PROVE  clis = 0
<1>1. clis' = clis \/ clis' = clis + 1
  BY DEF Next, ServerStep, vars, Start, SkipSeed, ReadSeedFile, SeedChunk, SeedDone, SeedFails,
         Post, CliStart, CliChunk, CliDone, CliStops, Crash
<1> QED  BY <1>1 DEF BootTypes

(* main.py's _seed_if_empty loads an empty database only: without a seeder *)
(* or a client, boots, crashes and failed loads add no redelivery to those *)
(* the file contains.                                                      *)
THEOREM BootsReplay == Spec => []BootsReplayNothing
<1>1. Init => BootsAlone
  <2> SUFFICES ASSUME Init PROVE cli.at = "none" /\ Alone(0) /\ 0 \in 0..NEvents
    BY DEF BootsAlone
  <2> QED  BY ImageStep, EmptyAt, NobodyTyped DEF Init, Alone
<1>2. BootTypes /\ BootTypes' /\ BootsAlone /\ [Next]_vars => BootsAlone'
  <2> SUFFICES ASSUME BootTypes, BootTypes', BootsAlone, [Next]_vars, clis' = 0, posts' = 0
               PROVE  cli'.at = "none" /\ \E m \in 0..NEvents : Alone(m)'
    BY DEF BootsAlone
  <2>1. clis = 0 /\ posts = 0
    BY ClisCounted, PostsCounted
  <2>2. PICK k \in 0..NEvents : Alone(k)
    BY <2>1 DEF BootsAlone
  <2>3. cli.at = "none"
    BY <2>1 DEF BootsAlone
  <2> QED  BY <2>2, <2>3, AloneStep
<1>3. IInv => BootTypes
  BY DEF IInv
<1>4. BootsAlone => BootsReplayNothing
  <2> SUFFICES ASSUME BootsAlone, clis = 0, posts = 0
               PROVE  Duplicates(db) <= Duplicates(LoadedOnce)
    BY DEF BootsReplayNothing
  <2>1. PICK k \in 0..NEvents : Alone(k)
    BY DEF BootsAlone
  <2> QED  BY <2>1, ImagesCount DEF Alone
<1> QED  BY <1>1, <1>2, <1>3, <1>4, BootInvariant, PTL DEF Spec
=============================================================================
