------------------------- MODULE MessageStoreProofs -------------------------
(***************************************************************************)
(* MessageStore implements MessageLifecycle, for any number of requests,   *)
(* keys, apps and destinations, any caps, batch sizes and retentions.      *)
(*                                                                         *)
(* The columns and delivery rows of a message have one of five shapes, one *)
(* per phase of its life (ShapeInv); a request that has tested a row still *)
(* finds what it tested when it writes, because it holds the row's lock or *)
(* the key of its insert (ClientInv); the releaser's rows are locked and   *)
(* the sweeper's have nothing left to do but a replay (LoopInv).           *)
(***************************************************************************)
EXTENDS MessageStore, FiniteSetTheorems, TLAPS

-----------------------------------------------------------------------------
(* The invariant *)

AbsentRow(k) ==
    /\ k \notin stored /\ content[k] = "none" /\ cancelledAt[k] = Null /\ heldAt[k] = Null
    /\ \A d \in Dest : deliveries[k][d] = "none"

HeldRow(k) ==
    /\ k \in stored /\ cancelledAt[k] = Null /\ heldAt[k] # Null
    /\ \A d \in Dest : deliveries[k][d] = "none"

ScheduledRow(k) == k \in stored /\ IsScheduled(k)

ReleasedRow(k) ==
    /\ k \in stored /\ cancelledAt[k] = Null /\ heldAt[k] = Null
    /\ \A d \in Dest : deliveries[k][d] \in {"none", "pending", "delivered", "dead"}

CancelledRow(k) ==
    /\ k \in stored /\ cancelledAt[k] # Null /\ heldAt[k] = Null
    /\ \A d \in Dest : deliveries[k][d] \in {"none", "cancelled"}

Shape(k) ==
    AbsentRow(k) \/ HeldRow(k) \/ ScheduledRow(k) \/ ReleasedRow(k) \/ CancelledRow(k)

ShapeInv == \A k \in Key : Shape(k)

Inserting == {"lock total", "lock app", "insert", "commit", "reselect"}
Submitting == Inserting \cup {"replace", "write", "refind"}

\* What a request knows of the row it is about to write.
ClientInv(c) ==
    /\ req[c].now <= clock
    /\ pc[c] \in Submitting => req[c].content \in Content
    /\ pc[c] \in Inserting => kind[c] \in Kind /\ MayBe(req[c], kind[c])
    /\ pc[c] = "write" => rowLock[req[c].key] = c /\ ScheduledRow(req[c].key)
    /\ pc[c] = "cancelling" =>
          /\ rowLock[req[c].key] = c
          /\ ScheduledRow(req[c].key) \/ HeldRow(req[c].key)
    /\ pc[c] = "commit" => inserting[req[c].key] = c /\ req[c].key \notin stored

\* A message the sweeper has selected has nothing to do, unless it was replayed.
Doomed(k) ==
    /\ k \in stored /\ heldAt[k] = Null /\ ~HasRow(k, "scheduled")
    /\ HasRow(k, "pending") => k \in replayed
    /\ cancelledAt[k] = Null =>
          clock - deliverAt[k] > Retention /\ clock - createdAt[k] > Retention

LoopInv ==
    /\ rnow <= clock
    /\ rpc = "locked" => \A k \in batch : rowLock[k] = Releaser
    /\ \A k \in doomed : Doomed(k)

Inv == TypeOK /\ ShapeInv /\ (\A c \in Client : ClientInv(c)) /\ LoopInv

-----------------------------------------------------------------------------
(* Rows and their phase *)

\* The row of message k does not change.
RowSame(k) ==
    /\ k \in stored' <=> k \in stored
    /\ content'[k] = content[k] /\ deliverAt'[k] = deliverAt[k]
    /\ createdAt'[k] = createdAt[k] /\ cancelledAt'[k] = cancelledAt[k]
    /\ heldAt'[k] = heldAt[k] /\ deliveries'[k] = deliveries[k]

\* What MessageLifecycle sees of message k.
ViewSame(k) ==
    /\ Phase(k)' = Phase(k) /\ Targets(k)' = Targets(k) /\ Sent(k)' = Sent(k)
    /\ content'[k] = content[k] /\ deliverAt'[k] = deliverAt[k]

\* An unchanged row keeps its shape and its view.
LEMMA SameRow ==
  ASSUME NEW k \in Key, RowSame(k)
  PROVE  /\ ViewSame(k)
         /\ Shape(k) => Shape(k)'
         /\ ScheduledRow(k) => ScheduledRow(k)'
         /\ HeldRow(k) => HeldRow(k)'
         /\ \A s : HasRow(k, s)' = HasRow(k, s)
<1>1. \A s : HasRow(k, s)' = HasRow(k, s)
  BY DEF RowSame, HasRow
<1>2. \A s : OnlyRows(k, s)' = OnlyRows(k, s)
  BY DEF RowSame, OnlyRows
<1>3. /\ AbsentRow(k)' = AbsentRow(k) /\ HeldRow(k)' = HeldRow(k)
      /\ ReleasedRow(k)' = ReleasedRow(k) /\ CancelledRow(k)' = CancelledRow(k)
  BY DEF RowSame, AbsentRow, HeldRow, ReleasedRow, CancelledRow
<1>4. ScheduledRow(k)' = ScheduledRow(k)
  BY <1>1, <1>2 DEF RowSame, ScheduledRow, IsScheduled
<1>5. ViewSame(k)
  BY <1>1 DEF RowSame, ViewSame, Phase, Targets, Sent
<1> QED
  BY <1>1, <1>3, <1>4, <1>5 DEF Shape

\* The phase follows from the shape.
LEMMA PhaseOfShape ==
  ASSUME NEW k \in Key
  PROVE  /\ AbsentRow(k) => Phase(k) = "absent" /\ Targets(k) = {} /\ Sent(k) = {}
         /\ HeldRow(k) => Phase(k) = "held" /\ Targets(k) = {} /\ Sent(k) = {}
         /\ ScheduledRow(k) => Phase(k) = "scheduled" /\ Sent(k) = {} /\ Targets(k) # {}
         /\ ReleasedRow(k) => Phase(k) = "released" /\ Sent(k) = Targets(k)
         /\ CancelledRow(k) => Phase(k) = "cancelled" /\ Sent(k) = {}
<1> USE DEF Phase, Targets, Sent, HasRow
<1>1. AbsentRow(k) => Phase(k) = "absent" /\ Targets(k) = {} /\ Sent(k) = {}
  BY DEF AbsentRow
<1>2. HeldRow(k) => Phase(k) = "held" /\ Targets(k) = {} /\ Sent(k) = {}
  BY DEF HeldRow
<1>3. ScheduledRow(k) => Phase(k) = "scheduled" /\ Sent(k) = {} /\ Targets(k) # {}
  BY DEF ScheduledRow, IsScheduled, OnlyRows
<1>4. ReleasedRow(k) => Phase(k) = "released" /\ Sent(k) = Targets(k)
  BY DEF ReleasedRow
<1>5. CancelledRow(k) => Phase(k) = "cancelled" /\ Sent(k) = {}
  BY DEF CancelledRow
<1> QED
  BY <1>1, <1>2, <1>3, <1>4, <1>5

\* And so after a step.
LEMMA PhaseOfShapeNext ==
  ASSUME NEW k \in Key
  PROVE  /\ AbsentRow(k)' => Phase(k)' = "absent" /\ Targets(k)' = {} /\ Sent(k)' = {}
         /\ HeldRow(k)' => Phase(k)' = "held" /\ Targets(k)' = {} /\ Sent(k)' = {}
         /\ ScheduledRow(k)' => Phase(k)' = "scheduled" /\ Sent(k)' = {} /\ Targets(k)' # {}
         /\ ReleasedRow(k)' => Phase(k)' = "released" /\ Sent(k)' = Targets(k)'
         /\ CancelledRow(k)' => Phase(k)' = "cancelled" /\ Sent(k)' = {}
<1> USE DEF Phase, Targets, Sent, HasRow
<1>1. AbsentRow(k)' => Phase(k)' = "absent" /\ Targets(k)' = {} /\ Sent(k)' = {}
  BY DEF AbsentRow
<1>2. HeldRow(k)' => Phase(k)' = "held" /\ Targets(k)' = {} /\ Sent(k)' = {}
  BY DEF HeldRow
<1>3. ScheduledRow(k)' => Phase(k)' = "scheduled" /\ Sent(k)' = {} /\ Targets(k)' # {}
  BY DEF ScheduledRow, IsScheduled, OnlyRows
<1>4. ReleasedRow(k)' => Phase(k)' = "released" /\ Sent(k)' = Targets(k)'
  BY DEF ReleasedRow
<1>5. CancelledRow(k)' => Phase(k)' = "cancelled" /\ Sent(k)' = {}
  BY DEF CancelledRow
<1> QED
  BY <1>1, <1>2, <1>3, <1>4, <1>5

-----------------------------------------------------------------------------
(* Steps of the abstract specification *)

\* The view of the store is what MessageLifecycle calls its variables.
Others(K) == \A j \in Key \ K : ViewSame(j)

\* Nothing MessageLifecycle sees changes.
LEMMA ViewStutters ==
  ASSUME Inv, clock' = clock, content' = content, deliverAt' = deliverAt, Others({})
  PROVE  UNCHANGED Lifecycle!vars
  BY DEF Others, ViewSame, Lifecycle!vars

\* A row stored as a whole is accepted or replaced.
LEMMA ViewStores ==
  ASSUME RowsOK, RowsOK', NEW k \in Key, clock' = clock, Others({k}),
         content'[k] \in Content,
         \/ ScheduledRow(k)' \/ HeldRow(k)'
         \/ ReleasedRow(k)' /\ Targets(k)' # {} /\ deliverAt'[k] <= clock
  PROVE  Lifecycle!Store(k)
<1>1. \A j \in Key : j # k => ViewSame(j)
  BY DEF Others
<1>2. /\ content' = [content EXCEPT ![k] = content'[k]]
      /\ deliverAt' = [deliverAt EXCEPT ![k] = deliverAt'[k]]
  BY <1>1 DEF ViewSame, RowsOK
<1>3. /\ [j \in Key |-> Phase(j)]' = [[j \in Key |-> Phase(j)] EXCEPT ![k] = Phase(k)']
      /\ [j \in Key |-> Targets(j)]' = [[j \in Key |-> Targets(j)] EXCEPT ![k] = Targets(k)']
      /\ [j \in Key |-> Sent(j)]' = [[j \in Key |-> Sent(j)] EXCEPT ![k] = Sent(k)']
  BY <1>1 DEF ViewSame
<1>4. Lifecycle!Only(k)
  BY <1>2, <1>3 DEF Lifecycle!Only
<1>5. deliverAt'[k] \in DeliverAt \cup Time \cup {Null} /\ Targets(k)' \subseteq Dest
  BY DEF RowsOK, Targets
<1>6. /\ Targets(k)' = {} <=> Phase(k)' = "held"
      /\ Sent(k)' = IF Phase(k)' = "released" THEN Targets(k)' ELSE {}
      /\ Phase(k)' = "released" => deliverAt'[k] <= clock
  BY PhaseOfShapeNext
<1> QED
  BY <1>4, <1>5, <1>6 DEF Lifecycle!Store

LEMMA ViewAccepts ==
  ASSUME RowsOK, RowsOK', NEW k \in Key, clock' = clock, Others({k}), AbsentRow(k),
         content'[k] \in Content,
         \/ ScheduledRow(k)' \/ HeldRow(k)'
         \/ ReleasedRow(k)' /\ Targets(k)' # {} /\ deliverAt'[k] <= clock
  PROVE  Lifecycle!Next
<1>1. Phase(k) = "absent" /\ Phase(k)' \in {"scheduled", "held", "released"}
  BY PhaseOfShape, PhaseOfShapeNext
<1> QED
  BY <1>1, ViewStores DEF Lifecycle!Next, Lifecycle!Accept

LEMMA ViewReplaces ==
  ASSUME RowsOK, RowsOK', NEW k \in Key, clock' = clock, Others({k}), ScheduledRow(k),
         content'[k] \in Content,
         \/ ScheduledRow(k)'
         \/ ReleasedRow(k)' /\ Targets(k)' # {} /\ deliverAt'[k] <= clock
  PROVE  Lifecycle!Next
<1>1. Phase(k) = "scheduled" /\ Phase(k)' \in {"scheduled", "released"}
  BY PhaseOfShape, PhaseOfShapeNext
<1> QED
  BY <1>1, ViewStores DEF Lifecycle!Next, Lifecycle!Replace

\* A row that is scheduled or held, and then cancelled with the same targets.
LEMMA ViewCancels ==
  ASSUME RowsOK, NEW k \in Key, clock' = clock, content' = content, deliverAt' = deliverAt,
         Others({k}), ScheduledRow(k) \/ HeldRow(k), CancelledRow(k)',
         Targets(k)' = Targets(k)
  PROVE  Lifecycle!Next
<1>1. \A j \in Key : j # k => ViewSame(j)
  BY DEF Others
<1>2. /\ Phase(k) \in {"scheduled", "held"} /\ Phase(k)' = "cancelled"
      /\ Sent(k)' = Sent(k)
  BY PhaseOfShape, PhaseOfShapeNext
<1>3. /\ [j \in Key |-> Phase(j)]' = [[j \in Key |-> Phase(j)] EXCEPT ![k] = "cancelled"]
      /\ [j \in Key |-> Targets(j)]' = [j \in Key |-> Targets(j)]
      /\ [j \in Key |-> Sent(j)]' = [j \in Key |-> Sent(j)]
  BY <1>1, <1>2 DEF ViewSame
<1> QED
  BY <1>2, <1>3 DEF Lifecycle!Next, Lifecycle!Cancel

\* Due rows are released together.
LEMMA ViewReleases ==
  ASSUME NEW K \in SUBSET Key, clock' = clock, content' = content, deliverAt' = deliverAt,
         Others(K),
         \A k \in K : /\ ScheduledRow(k) /\ deliverAt[k] <= clock
                      /\ ReleasedRow(k)' /\ Targets(k)' = Targets(k)
  PROVE  Lifecycle!Next
<1>1. \A j \in Key : j \notin K => ViewSame(j)
  BY DEF Others
<1>2. \A k \in K : /\ Phase(k) = "scheduled" /\ Phase(k)' = "released"
                   /\ Sent(k)' = Targets(k)
  BY PhaseOfShape, PhaseOfShapeNext
<1>3. /\ [j \in Key |-> Phase(j)]' = [j \in Key |-> IF j \in K THEN "released" ELSE Phase(j)]
      /\ [j \in Key |-> Targets(j)]' = [j \in Key |-> Targets(j)]
      /\ [j \in Key |-> Sent(j)]' = [j \in Key |-> IF j \in K THEN Targets(j) ELSE Sent(j)]
  BY <1>1, <1>2 DEF ViewSame
<1>4. Lifecycle!Release(K)
  BY <1>2, <1>3 DEF Lifecycle!Release
<1> QED
  BY <1>4 DEF Lifecycle!Next

\* Rows that are not scheduled are forgotten together.
LEMMA ViewForgets ==
  ASSUME RowsOK, RowsOK', NEW K \in SUBSET Key, clock' = clock, Others(K),
         \A k \in K : /\ HeldRow(k) \/ ReleasedRow(k) \/ CancelledRow(k)
                      /\ AbsentRow(k)'
  PROVE  Lifecycle!Next
<1>1. \A j \in Key : j \notin K => ViewSame(j)
  BY DEF Others
<1>2. \A k \in K : /\ Phase(k) \in {"released", "cancelled", "held"}
                   /\ Phase(k)' = "absent" /\ Targets(k)' = {} /\ Sent(k)' = {}
                   /\ content'[k] = "none"
  BY PhaseOfShape, PhaseOfShapeNext DEF AbsentRow
<1>3. /\ [j \in Key |-> Phase(j)]' = [j \in Key |-> IF j \in K THEN "absent" ELSE Phase(j)]
      /\ [j \in Key |-> Targets(j)]' = [j \in Key |-> IF j \in K THEN {} ELSE Targets(j)]
      /\ [j \in Key |-> Sent(j)]' = [j \in Key |-> IF j \in K THEN {} ELSE Sent(j)]
  BY <1>1, <1>2 DEF ViewSame
<1>4. content' = [j \in Key |-> IF j \in K THEN "none" ELSE content[j]]
  BY <1>1, <1>2 DEF ViewSame, RowsOK
<1>5. \A j \in Key \ K : deliverAt'[j] = deliverAt[j]
  BY <1>1 DEF ViewSame
<1>6. Lifecycle!Forget(K)
  BY <1>2, <1>3, <1>4, <1>5 DEF Lifecycle!Forget
<1> QED
  BY <1>6 DEF Lifecycle!Next

-----------------------------------------------------------------------------
(* Types *)

Request == [key : Key \cup {"none"}, content : Content \cup {"none"},
            at : DeliverAt \cup {Null}, hold : BOOLEAN, now : Time]

\* Time zero and the empty request and delivery rows have their types.
LEMMA Blank ==
  /\ 0 \in Time /\ NoRequest \in Request
  /\ NoDeliveries \in [Dest -> DeliveryState \cup {"none"}]
  BY StoreAssumption DEF Time, NoRequest, Request, NoDeliveries

\* A time column holds a number.
LEMMA TimesAreNumbers ==
  Time \subseteq Nat /\ Null \in Int /\ DeliverAt \cup Time \cup {Null} \subseteq Int
<1>1. DeliverAt \subseteq Nat \cup {-1}
  BY StoreAssumption DEF Null
<1>2. Time \subseteq Nat
  BY StoreAssumption DEF Time
<1> QED
  BY <1>1, <1>2 DEF Null

\* A request that ends, and its locks, keep their types.
LEMMA FinishTypes ==
  ASSUME RequestsOK, NEW c \in Client, Finish(c)
  PROVE  RequestsOK'
<1>1. 0 \in 0..MaxInsertAttempts
  BY StoreAssumption
<1> QED
  BY <1>1, Blank DEF RequestsOK, Finish, Goto, Steps, Request

LEMMA UnlockTypes ==
  ASSUME LocksOK, NEW c \in Client, Unlock(c)
  PROVE  LocksOK'
  BY DEF LocksOK, Unlock, Unlocked

\* The rest of a request keeps its types when it moves on.
LEMMA GotoTypes ==
  ASSUME RequestsOK, NEW c \in Client, NEW step \in Steps, Goto(c, step), UNCHANGED <<req, kind, tries>>,
         pc[c] # "idle"
  PROVE  RequestsOK'
  BY DEF RequestsOK, Goto

LEMMA SubmitNewTypes ==
  ASSUME RequestsOK, NEW c \in Client, NEW new \in Kind, SubmitNew(c, new),
         req' \in [Client -> Request], req'[c].key \in Key,
         \A d \in Client : d # c => req'[d] = req[d]
  PROVE  RequestsOK'
<1>1. 1 \in 0..MaxInsertAttempts
  BY StoreAssumption
<1>2. Insertion(new) \in Steps
  BY DEF Insertion, Steps
<1> QED
  BY <1>1, <1>2 DEF RequestsOK, SubmitNew, Goto, Request

\* What a new request asks for.
LEMMA AskTypes ==
  ASSUME TypeOK, NEW k \in Key, NEW x \in Content \cup {"none"}, NEW at \in DeliverAt \cup {Null},
         NEW hold \in BOOLEAN
  PROVE  [key |-> k, content |-> x, at |-> at, hold |-> hold, now |-> clock] \in Request
  BY DEF TypeOK, RowsOK, Request

\* Requests, one action at a time.
LEMMA StartTypes ==
  ASSUME TypeOK, NEW c \in Client, Start(c)
  PROVE  TypeOK'
<1>1. /\ RowsOK' /\ LocksOK' /\ LoopsOK'
  BY DEF TypeOK, RowsOK, LocksOK, LoopsOK, Start, Submit, Cancel, row, locks, releaser, sweeper
<1>2. ASSUME NEW k \in Key, NEW x \in Content, NEW at \in DeliverAt, NEW hold \in Hold,
             NEW new \in Kind, Submit(c, k, x, at, hold, new)
      PROVE  RequestsOK'
  <2> DEFINE r == [key |-> k, content |-> x, at |-> at, hold |-> hold, now |-> clock]
  <2>1. r \in Request /\ r.key = k
    BY AskTypes, StoreAssumption
  <2>2. req' = [req EXCEPT ![c] = r] /\ req \in [Client -> Request]
    BY <1>2 DEF Submit, TypeOK, RequestsOK, Request
  <2> HIDE DEF r
  <2>3. /\ req' \in [Client -> Request] /\ req'[c].key \in Key
        /\ \A d \in Client : d # c => req'[d] = req[d]
    BY <2>1, <2>2
  <2>4. CASE k \in stored
    <3>1. Goto(c, "replace") /\ UNCHANGED <<kind, tries>>
      BY <1>2, <2>4 DEF Submit
    <3> QED
      BY <2>3, <3>1 DEF TypeOK, RequestsOK, Goto, Steps, Request
  <2>5. CASE k \notin stored
    <3>1. SubmitNew(c, new)
      BY <1>2, <2>5 DEF Submit
    <3> QED
      BY <2>3, <3>1, SubmitNewTypes DEF TypeOK
  <2> QED
    BY <2>4, <2>5
<1>3. ASSUME NEW k \in Key, Cancel(c, k)
      PROVE  RequestsOK'
  <2> DEFINE r == [NoRequest EXCEPT !.key = k, !.now = clock]
  <2>1. r \in Request /\ r.key = k
    BY DEF NoRequest, Request, TypeOK, RowsOK
  <2>2. req' = [req EXCEPT ![c] = r] /\ req \in [Client -> Request]
    BY <1>3 DEF Cancel, TypeOK, RequestsOK, Request
  <2> HIDE DEF r
  <2>3. /\ req' \in [Client -> Request] /\ req'[c].key \in Key
        /\ \A d \in Client : d # c => req'[d] = req[d]
    BY <2>1, <2>2
  <2>4. Goto(c, "cancel") /\ UNCHANGED <<kind, tries>>
    BY <1>3 DEF Cancel
  <2> QED
    BY <2>3, <2>4 DEF TypeOK, RequestsOK, Goto, Steps, Request
<1> QED
  BY <1>1, <1>2, <1>3 DEF Start, TypeOK

LEMMA ReplaceTypes ==
  ASSUME TypeOK, NEW c \in Client, ReplaceLock(c) \/ Replace(c)
  PROVE  TypeOK'
<1>1. pc[c] # "idle" /\ req[c].key \in Key
  BY DEF TypeOK, RequestsOK, ReplaceLock, Replace, ReplaceScheduledMessage
<1>2. LoopsOK'
  BY DEF TypeOK, LoopsOK, ReplaceLock, Replace, ReplaceScheduledMessage, releaser, sweeper
<1>3. CASE ReplaceLock(c)
  <2>1. RowsOK' /\ LocksOK'
    BY <1>1, <1>3 DEF ReplaceLock, TypeOK, RowsOK, LocksOK, row
  <2>2. RequestsOK'
    <3>1. \/ Goto(c, "write") /\ UNCHANGED <<req, kind, tries>>
          \/ Goto(c, "refind") /\ UNCHANGED <<req, kind, tries>>
          \/ Finish(c)
      BY <1>3 DEF ReplaceLock
    <3> QED
      BY <1>1, <3>1, GotoTypes, FinishTypes DEF TypeOK, Steps
  <2> QED
    BY <1>2, <2>1, <2>2 DEF TypeOK
<1>4. CASE Replace(c)
  <2>1. RequestsOK' /\ LocksOK'
    BY <1>4, FinishTypes, UnlockTypes DEF Replace, ReplaceScheduledMessage, TypeOK
  <2>2. PICK T \in SUBSET Dest : ReplaceScheduledMessage(c, T)
    BY <1>4 DEF Replace
  <2>3. InsertDeliveries(T, "scheduled") \in [Dest -> DeliveryState \cup {"none"}]
        /\ InsertDeliveries(T, "pending") \in [Dest -> DeliveryState \cup {"none"}]
    BY DEF InsertDeliveries, DeliveryState
  <2>4. /\ req[c].content \in Content \cup {"none"} /\ req[c].at \in DeliverAt \cup {Null}
        /\ req[c].now \in Time
    BY DEF TypeOK, RequestsOK
  <2>5. RowsOK'
    BY <1>1, <2>2, <2>3, <2>4 DEF ReplaceScheduledMessage, TypeOK, RowsOK
  <2> QED
    BY <1>2, <2>1, <2>5 DEF TypeOK
<1> QED
  BY <1>3, <1>4

LEMMA InsertTypes ==
  ASSUME TypeOK, NEW c \in Client,
         \/ \E new \in Kind : Refind(c, new)
         \/ LockTotal(c) \/ LockApp(c) \/ Insert(c) \/ Reselect(c)
         \/ \E T \in SUBSET Dest, created \in Time : CommitInsert(c, T, created)
  PROVE  TypeOK'
<1>1. pc[c] # "idle" /\ req[c].key \in Key
  BY DEF TypeOK, RequestsOK, Refind, LockTotal, LockApp, Insert, CommitInsert, Reselect
<1>2. LoopsOK'
  BY DEF TypeOK, LoopsOK, Refind, LockTotal, LockApp, Insert, CommitInsert, Reselect,
         releaser, sweeper
<1>3. ASSUME NEW new \in Kind, Refind(c, new)
      PROVE  TypeOK'
  <2>1. RowsOK' /\ LocksOK'
    BY <1>3 DEF Refind, TypeOK, RowsOK, LocksOK, row, locks
  <2>2. CASE Finish(c)
    BY <1>2, <2>1, <2>2, FinishTypes DEF TypeOK
  <2>3. CASE UNCHANGED req /\ SubmitNew(c, new)
    BY <1>1, <1>2, <2>1, <2>3, SubmitNewTypes DEF TypeOK, RequestsOK, Request
  <2> QED
    BY <1>3, <2>2, <2>3 DEF Refind
<1>4. CASE LockTotal(c) \/ LockApp(c)
  <2>1. RowsOK' /\ LocksOK'
    BY <1>4 DEF LockTotal, LockApp, TypeOK, RowsOK, LocksOK, row
  <2>2. RequestsOK'
    BY <1>1, <1>4, GotoTypes DEF LockTotal, LockApp, TypeOK, Steps
  <2> QED
    BY <1>2, <2>1, <2>2 DEF TypeOK
<1>5. CASE Insert(c)
  <2>1. RowsOK'
    BY <1>5 DEF Insert, TypeOK, RowsOK, row
  <2>2. \/ Goto(c, "reselect") /\ UNCHANGED <<locks, req, kind, tries>>
        \/ /\ inserting' = [inserting EXCEPT ![req[c].key] = c] /\ Goto(c, "commit")
           /\ UNCHANGED <<rowLock, capLock, req, kind, tries>>
        \/ Unlock(c) /\ Finish(c)
    BY <1>5 DEF Insert
  <2>3. LocksOK'
    BY <2>2, UnlockTypes DEF TypeOK, LocksOK, locks
  <2>4. RequestsOK'
    BY <1>1, <2>2, GotoTypes, FinishTypes DEF TypeOK, Steps
  <2> QED
    BY <1>2, <2>1, <2>3, <2>4 DEF TypeOK
<1>6. ASSUME NEW T \in SUBSET Dest, NEW created \in Time, CommitInsert(c, T, created)
      PROVE  TypeOK'
  <2>1. RequestsOK' /\ LocksOK'
    BY <1>6, FinishTypes, UnlockTypes DEF CommitInsert, TypeOK
  <2>2. /\ req[c].content \in Content \cup {"none"} /\ req[c].at \in DeliverAt \cup {Null}
        /\ req[c].now \in Time
    BY DEF TypeOK, RequestsOK
  <2>3. InsertDeliveries(T, kind[c]) \in [Dest -> DeliveryState \cup {"none"}]
    <3>1. kind[c] \in {"pending", "scheduled", "held", "none"} /\ (kind[c] = "held" => T = {})
      BY <1>6 DEF CommitInsert, TypeOK, RequestsOK, Kind
    <3> QED
      BY <3>1 DEF InsertDeliveries, DeliveryState
  <2>4. RowsOK'
    BY <1>1, <1>6, <2>2, <2>3 DEF CommitInsert, TypeOK, RowsOK
  <2> QED
    BY <1>2, <2>1, <2>4 DEF TypeOK
<1>7. CASE Reselect(c)
  <2>1. RowsOK' /\ LocksOK'
    BY <1>7, UnlockTypes DEF Reselect, TypeOK, RowsOK, row
  <2>2. CASE Finish(c)
    BY <1>2, <2>1, <2>2, FinishTypes DEF TypeOK
  <2>3. CASE /\ Vanished(c) /\ tries' = [tries EXCEPT ![c] = @ + 1]
             /\ Goto(c, Insertion(kind[c])) /\ UNCHANGED <<req, kind>>
    <3>1. tries[c] + 1 \in 0..MaxInsertAttempts
      BY <2>3, StoreAssumption DEF Vanished, TypeOK, RequestsOK
    <3>2. Insertion(kind[c]) \in Steps
      BY DEF Insertion, Steps
    <3>3. RequestsOK'
      BY <1>1, <2>3, <3>1, <3>2 DEF TypeOK, RequestsOK, Goto
    <3> QED
      BY <1>2, <2>1, <3>3 DEF TypeOK
  <2> QED
    BY <1>7, <2>2, <2>3 DEF Reselect
<1> QED
  BY <1>3, <1>4, <1>5, <1>6, <1>7

LEMMA CancelTypes ==
  ASSUME TypeOK, NEW c \in Client, CancelLock(c) \/ CancelMessage(c) \/ Abort(c)
  PROVE  TypeOK'
<1>1. pc[c] # "idle" /\ req[c].key \in Key
  BY DEF TypeOK, RequestsOK, CancelLock, CancelMessage, Abort
<1>2. LoopsOK'
  BY DEF TypeOK, LoopsOK, CancelLock, CancelMessage, Abort, releaser, sweeper
<1>3. CASE CancelLock(c)
  <2>1. RowsOK' /\ LocksOK'
    BY <1>1, <1>3 DEF CancelLock, TypeOK, RowsOK, LocksOK, row
  <2>2. RequestsOK'
    <3>1. (Goto(c, "cancelling") /\ UNCHANGED <<req, kind, tries>>) \/ Finish(c)
      BY <1>3 DEF CancelLock
    <3> QED
      BY <1>1, <3>1, GotoTypes, FinishTypes DEF TypeOK, Steps
  <2> QED
    BY <1>2, <2>1, <2>2 DEF TypeOK
<1>4. CASE CancelMessage(c)
  <2>1. RequestsOK' /\ LocksOK'
    BY <1>4, FinishTypes, UnlockTypes DEF CancelMessage, TypeOK
  <2>2. req[c].now \in Time
    BY DEF TypeOK, RequestsOK
  <2>3. RowsOK'
    BY <1>1, <1>4, <2>2 DEF CancelMessage, TypeOK, RowsOK, DeliveryState
  <2> QED
    BY <1>2, <2>1, <2>3 DEF TypeOK
<1>5. CASE Abort(c)
  BY <1>2, <1>5, FinishTypes, UnlockTypes DEF Abort, TypeOK, RowsOK, row
<1> QED
  BY <1>3, <1>4, <1>5

\* The releaser's and the sweeper's statements.
LEMMA ReleaseTypes ==
  ASSUME TypeOK, Release \/ ReleaseAbort
  PROVE  TypeOK'
<1>1. RequestsOK'
  BY DEF Release, ReleaseProbe, ReleaseLock, ReleaseDue, ReleaseAbort, TypeOK, RequestsOK, request
<1>2. LocksOK'
  BY DEF Release, ReleaseProbe, ReleaseLock, ReleaseDue, ReleaseAbort, EndRelease, Unlocked,
         TypeOK, LocksOK, locks
<1>3. LoopsOK'
  <2>1. CASE ReleaseProbe
    <3>1. batch' \subseteq Key
      BY <2>1 DEF ReleaseProbe, Oldest, Due, TypeOK, RowsOK
    <3> QED
      BY <2>1, <3>1 DEF ReleaseProbe, TypeOK, LoopsOK, RowsOK, sweeper
  <2>2. CASE ReleaseLock \/ ReleaseDue \/ ReleaseAbort
    BY <2>2, Blank DEF ReleaseLock, ReleaseDue, ReleaseAbort, EndRelease, TypeOK, LoopsOK, sweeper
  <2> QED
    BY <2>1, <2>2 DEF Release
<1>4. RowsOK'
  <2>1. CASE ReleaseDue
    BY <2>1 DEF ReleaseDue, TypeOK, RowsOK, DeliveryState
  <2> QED
    BY <2>1 DEF Release, ReleaseProbe, ReleaseLock, ReleaseAbort, TypeOK, RowsOK, row
<1> QED
  BY <1>1, <1>2, <1>3, <1>4 DEF TypeOK

LEMMA DeleteTypes ==
  ASSUME RowsOK, clock' = clock, NEW K, Delete(K)
  PROVE  RowsOK'
  BY Blank DEF Delete, RowsOK

LEMMA SweepTypes ==
  ASSUME TypeOK, Sweep \/ SweepFailed
  PROVE  TypeOK'
<1>1. RequestsOK' /\ LocksOK'
  BY DEF Sweep, SweepSelect, DeleteExpired, DeleteExpiredHeld, SweepFailed,
         TypeOK, RequestsOK, LocksOK, request, locks
<1>2. RowsOK'
  BY DeleteTypes DEF Sweep, SweepSelect, DeleteExpired, DeleteExpiredHeld, SweepFailed,
         TypeOK, RowsOK, row
<1>3. LoopsOK'
  <2>1. CASE SweepSelect
    <3>1. doomed' \subseteq Key
      BY <2>1 DEF SweepSelect, Expired, TypeOK, RowsOK
    <3>2. replayed' = {}
      BY <2>1 DEF SweepSelect, TypeOK, LoopsOK
    <3> QED
      BY <2>1, <3>1, <3>2 DEF SweepSelect, TypeOK, LoopsOK, releaser
  <2>2. CASE DeleteExpired \/ DeleteExpiredHeld \/ SweepFailed
    BY <2>2 DEF DeleteExpired, DeleteExpiredHeld, SweepFailed, EndSweep, Delete, TypeOK, LoopsOK,
                releaser, sweeper
  <2> QED
    BY <2>1, <2>2 DEF Sweep
<1> QED
  BY <1>1, <1>2, <1>3 DEF TypeOK

LEMMA DeliverTypes ==
  ASSUME TypeOK, Deliver \/ Tick \/ UNCHANGED vars
  PROVE  TypeOK'
<1>1. CASE Deliver
  <2>1. RequestsOK' /\ LocksOK'
    BY <1>1 DEF Deliver, RecordAttempt, Replay, TypeOK, RequestsOK, LocksOK, request, locks
  <2>2. RowsOK'
    <3>1. PICK k \in Key, d \in Dest, s \in {"delivered", "dead", "pending"} :
            deliveries' = [deliveries EXCEPT ![k][d] = s]
      BY <1>1 DEF Deliver, RecordAttempt, Replay
    <3>2. deliveries' \in [Key -> [Dest -> DeliveryState \cup {"none"}]]
      BY <3>1 DEF TypeOK, RowsOK, DeliveryState
    <3> QED
      BY <1>1, <3>2 DEF Deliver, RecordAttempt, Replay, TypeOK, RowsOK
  <2>3. LoopsOK'
    BY <1>1 DEF Deliver, RecordAttempt, Replay, TypeOK, LoopsOK, releaser, sweeper
  <2> QED
    BY <2>1, <2>2, <2>3 DEF TypeOK
<1>2. CASE Tick
  <2>1. clock + 1 \in Time
    BY <1>2, StoreAssumption DEF Tick, TypeOK, RowsOK, Time
  <2> QED
    BY <1>2, <2>1 DEF Tick, TypeOK, RequestsOK, LocksOK, RowsOK, LoopsOK,
                      request, locks, row, releaser, sweeper
<1>3. CASE UNCHANGED vars
  BY <1>3 DEF vars, TypeOK, RequestsOK, LocksOK, RowsOK, LoopsOK,
              request, locks, row, releaser, sweeper
<1> QED
  BY <1>1, <1>2, <1>3

LEMMA StepTypes ==
  ASSUME TypeOK, [Next]_vars
  PROVE  TypeOK'
<1>1. ASSUME NEW c \in Client, Serve(c)
      PROVE  TypeOK'
  BY <1>1, ReplaceTypes, InsertTypes, CancelTypes DEF Serve
<1> QED
  BY <1>1, StartTypes, CancelTypes, ReleaseTypes, SweepTypes, DeliverTypes DEF Next

-----------------------------------------------------------------------------
(* What keeps the invariant of a request, of the loops and of the rows *)

\* A request that does not move keeps what it knows, if nobody takes its lock and
\* nobody changes the row it has locked.
LEMMA ClientKeeps ==
  ASSUME TypeOK, TypeOK', NEW c \in Client, ClientInv(c), clock <= clock',
         pc'[c] = pc[c], req'[c] = req[c], kind'[c] = kind[c],
         pc[c] \in {"write", "cancelling"} =>
             /\ rowLock[req[c].key] = c => rowLock'[req[c].key] = c
             /\ RowSame(req[c].key),
         pc[c] = "commit" =>
             /\ inserting[req[c].key] = c => inserting'[req[c].key] = c
             /\ req[c].key \notin stored => req[c].key \notin stored'
  PROVE  ClientInv(c)'
<1>1. clock \in Nat /\ clock' \in Nat /\ req[c].now \in Nat
  BY StoreAssumption DEF TypeOK, RowsOK, RequestsOK, Time
<1>2. req'[c].now <= clock'
  BY <1>1 DEF ClientInv
<1>3. pc[c] # "idle" => req[c].key \in Key
  BY DEF TypeOK, RequestsOK
<1>4. MayBe(req'[c], kind'[c]) = MayBe(req[c], kind[c])
  OBVIOUS
<1>5. pc[c] = "write" => rowLock'[req[c].key] = c /\ ScheduledRow(req[c].key)'
  BY <1>3, SameRow DEF ClientInv
<1>6. pc[c] = "cancelling" =>
          rowLock'[req[c].key] = c /\ (ScheduledRow(req[c].key)' \/ HeldRow(req[c].key)')
  BY <1>3, SameRow DEF ClientInv
<1> QED
  BY <1>2, <1>4, <1>5, <1>6 DEF ClientInv

\* A request that ends knows nothing.
LEMMA FinishedKnows ==
  ASSUME TypeOK, TypeOK', NEW c \in Client, Finish(c)
  PROVE  ClientInv(c)'
<1>1. pc'[c] = "idle" /\ req'[c].now = 0
  BY DEF Finish, Goto, TypeOK, RequestsOK, NoRequest
<1>2. 0 <= clock'
  BY StoreAssumption DEF TypeOK, RowsOK, Time
<1> QED
  BY <1>1, <1>2 DEF ClientInv, Submitting, Inserting

\* A selected message stays selected while its row stays.
LEMMA DoomedKeeps ==
  ASSUME TypeOK, NEW k \in doomed, Doomed(k), RowSame(k), clock <= clock', clock' \in Nat,
         replayed \subseteq replayed'
  PROVE  Doomed(k)'
<1>1. k \in Key
  BY DEF TypeOK, LoopsOK
<1>2. clock \in Int /\ deliverAt[k] \in Int /\ createdAt[k] \in Int /\ Retention \in Int
  <2>1. /\ clock \in Time /\ deliverAt[k] \in DeliverAt \cup Time \cup {Null}
        /\ createdAt[k] \in Time \cup {Null}
    BY <1>1 DEF TypeOK, RowsOK
  <2>2. Retention \in Int
    BY StoreAssumption
  <2>3. \A t \in DeliverAt \cup Time \cup {Null} : t \in Int
    BY TimesAreNumbers
  <2> QED
    BY <2>1, <2>2, <2>3
<1>3. \A s : HasRow(k, s)' = HasRow(k, s)
  BY <1>1, SameRow
<1> QED
  BY <1>1, <1>2, <1>3 DEF Doomed, RowSame

\* No row changes.
RowsStay == \A k \in Key : RowSame(k)

LEMMA UnchangedRows ==
  ASSUME UNCHANGED row
  PROVE  RowsStay
  BY DEF RowsStay, RowSame, row

\* A step that changes no row keeps the shapes, and MessageLifecycle sees nothing
\* but the time.
LEMMA RowsStayShape ==
  ASSUME Inv, RowsStay
  PROVE  ShapeInv' /\ Others({})
  BY SameRow DEF Inv, ShapeInv, RowsStay, Others

\* The step of MessageLifecycle, and what SweepSparesLive asks of a step.
AbstractStep == [Lifecycle!Next]_(Lifecycle!vars)

Spares(k) ==
    /\ HasRow(k, "pending") => k \in replayed
    /\ ~HasRow(k, "scheduled")
    /\ heldAt[k] # Null => clock - heldAt[k] > HeldTTL
    /\ heldAt[k] = Null /\ cancelledAt[k] = Null =>
           clock - deliverAt[k] > Retention /\ clock - createdAt[k] > Retention

GoodStep == Inv' /\ AbstractStep /\ \A k \in stored \ stored' : Spares(k)

\* A request's step that changes no row.
LEMMA RequestStep ==
  ASSUME Inv, TypeOK', NEW c \in Client, UNCHANGED <<clock, row, releaser, sweeper>>,
         ClientInv(c)',
         \A d \in Client \ {c} :
            pc'[d] = pc[d] /\ req'[d] = req[d] /\ kind'[d] = kind[d],
         \A k \in Key : rowLock'[k] = rowLock[k] \/ rowLock[k] \in {NoOne, c},
         \A k \in Key : inserting'[k] = inserting[k] \/ inserting[k] \in {NoOne, c}
  PROVE  GoodStep
<1>1. TypeOK /\ clock \in Nat /\ clock' = clock
  BY StoreAssumption DEF Inv, TypeOK, RowsOK, Time
<1>2. RowsStay /\ ShapeInv' /\ Others({}) /\ stored' = stored
  BY UnchangedRows, RowsStayShape DEF row
<1>3. ASSUME NEW d \in Client, d # c
      PROVE  ClientInv(d)'
  <2>1. ClientInv(d) /\ d # NoOne /\ (pc[d] # "idle" => req[d].key \in Key)
    BY <1>1, StoreAssumption DEF Inv, TypeOK, RequestsOK
  <2>2. pc[d] \in {"write", "cancelling"} =>
            /\ rowLock[req[d].key] = d => rowLock'[req[d].key] = d
            /\ RowSame(req[d].key)
    BY <1>2, <1>3, <2>1 DEF RowsStay
  <2>3. pc[d] = "commit" =>
            /\ inserting[req[d].key] = d => inserting'[req[d].key] = d
            /\ req[d].key \notin stored => req[d].key \notin stored'
    BY <1>2, <1>3, <2>1
  <2> QED
    BY <1>1, <1>3, <2>1, <2>2, <2>3, ClientKeeps
<1>4. LoopInv'
  <2>1. \A k \in doomed : Doomed(k)'
    BY <1>1, <1>2, DoomedKeeps DEF Inv, LoopInv, RowsStay, TypeOK, LoopsOK, sweeper
  <2>2. rpc = "locked" => \A k \in batch : rowLock'[k] = Releaser
    BY <1>1, StoreAssumption DEF Inv, LoopInv, TypeOK, LoopsOK, NoOne, Releaser
  <2> QED
    BY <1>1, <2>1, <2>2 DEF Inv, LoopInv, releaser, sweeper
<1>5. AbstractStep
  BY <1>1, <1>2, ViewStutters DEF AbstractStep, row
<1> QED
  BY <1>2, <1>3, <1>4, <1>5 DEF GoodStep, Inv

\* Unlocking frees only the request's own locks.
LEMMA UnlocksOwn ==
  ASSUME TypeOK, NEW c \in Client, Unlock(c)
  PROVE  /\ \A k \in Key : rowLock'[k] = rowLock[k] \/ rowLock[k] \in {NoOne, c}
         /\ \A k \in Key : inserting'[k] = inserting[k] \/ inserting[k] \in {NoOne, c}
  BY DEF Unlock, Unlocked, TypeOK, LocksOK

\* A request's own registers.
LEMMA OthersWait ==
  ASSUME TypeOK, NEW c \in Client, NEW d \in Client, d # c,
         \/ \E step : Goto(c, step) /\ UNCHANGED <<req, kind>>
         \/ Finish(c)
         \/ \E new : SubmitNew(c, new) /\ req'[d] = req[d]
  PROVE  pc'[d] = pc[d] /\ req'[d] = req[d] /\ kind'[d] = kind[d]
  BY DEF Goto, Finish, SubmitNew, TypeOK, RequestsOK

-----------------------------------------------------------------------------
(* The steps of a request that change no row *)

LEMMA StartStep ==
  ASSUME Inv, TypeOK', NEW c \in Client, Start(c)
  PROVE  GoodStep
<1>1. TypeOK /\ clock \in Nat
  BY TimesAreNumbers DEF Inv, TypeOK, RowsOK
<1>2. UNCHANGED <<clock, row, locks, releaser, sweeper>>
  BY DEF Start, Submit, Cancel
<1>3. /\ \A k \in Key : rowLock'[k] = rowLock[k]
      /\ \A k \in Key : inserting'[k] = inserting[k]
  BY <1>2 DEF locks
<1>4. ASSUME NEW k \in Key, NEW x \in Content, NEW at \in DeliverAt, NEW hold \in Hold,
             NEW new \in Kind, Submit(c, k, x, at, hold, new)
      PROVE  GoodStep
  <2> DEFINE r == [key |-> k, content |-> x, at |-> at, hold |-> hold, now |-> clock]
  <2>1. req' = [req EXCEPT ![c] = r]
    BY <1>4 DEF Submit
  <2>2. r.content = x /\ r.now = clock /\ clock' = clock
    BY <1>2
  <2> HIDE DEF r
  <2>3. req'[c] = r /\ \A d \in Client \ {c} : req'[d] = req[d]
    BY <1>1, <2>1 DEF TypeOK, RequestsOK
  <2>4. CASE k \in stored
    <3>1. Goto(c, "replace") /\ UNCHANGED <<kind, tries>>
      BY <1>4, <2>4 DEF Submit
    <3>2. pc'[c] = "replace" /\ \A d \in Client \ {c} : pc'[d] = pc[d]
      BY <1>1, <3>1 DEF Goto, TypeOK, RequestsOK
    <3>3. ClientInv(c)'
      BY <1>1, <2>2, <2>3, <3>2 DEF ClientInv, Inserting, Submitting
    <3> QED
      BY <1>2, <1>3, <2>3, <3>1, <3>2, <3>3, RequestStep
  <2>5. CASE k \notin stored
    <3>1. SubmitNew(c, new)
      BY <1>4, <2>5 DEF Submit
    <3>2. /\ pc'[c] \in {"lock total", "insert"} /\ kind'[c] = new /\ MayBe(req'[c], new)
      BY <1>1, <3>1 DEF SubmitNew, Goto, Insertion, TypeOK, RequestsOK
    <3>3. ClientInv(c)'
      <4>1. req'[c].now <= clock' /\ req'[c].content \in Content
        BY <1>1, <2>2, <2>3
      <4>2. pc'[c] \notin {"write", "cancelling", "commit"} /\ MayBe(req'[c], kind'[c])
        BY <3>2
      <4> QED
        BY <3>2, <4>1, <4>2 DEF ClientInv
    <3>4. \A d \in Client \ {c} : pc'[d] = pc[d] /\ req'[d] = req[d] /\ kind'[d] = kind[d]
      BY <1>1, <2>3, <3>1, OthersWait
    <3> QED
      BY <1>2, <1>3, <3>3, <3>4, RequestStep
  <2> QED
    BY <2>4, <2>5
<1>5. ASSUME NEW k \in Key, Cancel(c, k)
      PROVE  GoodStep
  <2>1. /\ req'[c] = [NoRequest EXCEPT !.key = k, !.now = clock]
        /\ pc'[c] = "cancel"
        /\ \A d \in Client \ {c} : pc'[d] = pc[d] /\ req'[d] = req[d] /\ kind'[d] = kind[d]
    BY <1>1, <1>5 DEF Cancel, Goto, TypeOK, RequestsOK
  <2>2. req'[c].now = clock /\ clock' = clock
    BY <1>2, <2>1 DEF NoRequest
  <2>3. ClientInv(c)'
    BY <1>1, <2>1, <2>2 DEF ClientInv, Inserting, Submitting
  <2> QED
    BY <1>2, <1>3, <2>1, <2>3, RequestStep
<1> QED
  BY <1>4, <1>5 DEF Start

LEMMA ReplaceLockStep ==
  ASSUME Inv, TypeOK', NEW c \in Client, ReplaceLock(c)
  PROVE  GoodStep
<1> DEFINE k == req[c].key
<1>1. /\ TypeOK /\ clock \in Nat /\ k \in Key /\ ClientInv(c) /\ pc[c] = "replace"
      /\ clock' = clock /\ UNCHANGED <<row, inserting, releaser, sweeper>>
  BY TimesAreNumbers DEF Inv, TypeOK, RowsOK, RequestsOK, ReplaceLock
<1>2. req[c].now <= clock /\ req[c].content \in Content
  BY <1>1 DEF ClientInv, Submitting
<1>3. CASE k \in stored /\ IsScheduled(k)
  <2>1. /\ rowLock[k] = NoOne /\ rowLock' = [rowLock EXCEPT ![k] = c]
        /\ Goto(c, "write") /\ UNCHANGED <<req, kind, tries>>
    BY <1>3 DEF ReplaceLock
  <2>2. /\ \A j \in Key : rowLock'[j] = rowLock[j] \/ rowLock[j] \in {NoOne, c}
        /\ rowLock'[k] = c
    BY <1>1, <2>1 DEF TypeOK, LocksOK
  <2>3. /\ pc'[c] = "write"
        /\ \A d \in Client \ {c} : pc'[d] = pc[d] /\ req'[d] = req[d] /\ kind'[d] = kind[d]
    BY <1>1, <2>1 DEF Goto, TypeOK, RequestsOK
  <2>4. ScheduledRow(k)'
    <3>1. \A j \in Key : ScheduledRow(j) => ScheduledRow(j)'
      BY <1>1, UnchangedRows, SameRow DEF RowsStay
    <3> QED
      BY <1>1, <1>3, <2>1, <3>1 DEF ScheduledRow
  <2>5. ClientInv(c)'
    BY <1>1, <1>2, <2>1, <2>2, <2>3, <2>4 DEF ClientInv, Inserting, Submitting
  <2> QED
    BY <1>1, <2>2, <2>3, <2>5, RequestStep
<1>4. CASE ~(k \in stored /\ IsScheduled(k))
  <2>1. /\ UNCHANGED rowLock
        /\ Finish(c) \/ (Goto(c, "refind") /\ UNCHANGED <<req, kind, tries>>)
    BY <1>4 DEF ReplaceLock
  <2>2. \A d \in Client \ {c} : pc'[d] = pc[d] /\ req'[d] = req[d] /\ kind'[d] = kind[d]
    BY <1>1, <2>1, OthersWait
  <2>3. ClientInv(c)'
    <3>1. CASE Finish(c)
      BY <1>1, <3>1, FinishedKnows
    <3>2. CASE Goto(c, "refind") /\ UNCHANGED <<req, kind, tries>>
      <4>1. pc'[c] = "refind"
        BY <1>1, <3>2 DEF Goto, TypeOK, RequestsOK
      <4> QED
        BY <1>1, <1>2, <3>2, <4>1 DEF ClientInv, Inserting, Submitting
    <3> QED
      BY <2>1, <3>1, <3>2
  <2> QED
    BY <1>1, <2>1, <2>2, <2>3, RequestStep
<1> QED
  BY <1>3, <1>4

LEMMA CancelLockStep ==
  ASSUME Inv, TypeOK', NEW c \in Client, CancelLock(c)
  PROVE  GoodStep
<1> DEFINE k == req[c].key
<1>1. /\ TypeOK /\ clock \in Nat /\ k \in Key /\ ClientInv(c) /\ pc[c] = "cancel"
      /\ clock' = clock /\ UNCHANGED <<row, inserting, releaser, sweeper>>
  BY TimesAreNumbers DEF Inv, TypeOK, RowsOK, RequestsOK, CancelLock
<1>2. req[c].now <= clock
  BY <1>1 DEF ClientInv
<1>3. CASE k \in stored /\ Cancellable(k)
  <2>1. /\ rowLock[k] = NoOne /\ rowLock' = [rowLock EXCEPT ![k] = c]
        /\ Goto(c, "cancelling") /\ UNCHANGED <<req, kind, tries>>
    BY <1>3 DEF CancelLock
  <2>2. /\ \A j \in Key : rowLock'[j] = rowLock[j] \/ rowLock[j] \in {NoOne, c}
        /\ rowLock'[k] = c
    BY <1>1, <2>1 DEF TypeOK, LocksOK
  <2>3. /\ pc'[c] = "cancelling"
        /\ \A d \in Client \ {c} : pc'[d] = pc[d] /\ req'[d] = req[d] /\ kind'[d] = kind[d]
    BY <1>1, <2>1 DEF Goto, TypeOK, RequestsOK
  <2>4. ScheduledRow(k) \/ HeldRow(k)
    <3>1. Shape(k)
      BY <1>1 DEF Inv, ShapeInv
    <3> QED
      BY <1>3, <3>1 DEF Cancellable, Shape, AbsentRow, HeldRow, ScheduledRow, ReleasedRow,
                        CancelledRow
  <2>5. ScheduledRow(k)' \/ HeldRow(k)'
    <3>1. \A j \in Key : /\ ScheduledRow(j) => ScheduledRow(j)'
                         /\ HeldRow(j) => HeldRow(j)'
      BY <1>1, UnchangedRows, SameRow DEF RowsStay
    <3> QED
      BY <1>1, <2>1, <2>4, <3>1
  <2>6. ClientInv(c)'
    BY <1>1, <1>2, <2>1, <2>2, <2>3, <2>5 DEF ClientInv, Inserting, Submitting
  <2> QED
    BY <1>1, <2>2, <2>3, <2>6, RequestStep
<1>4. CASE ~(k \in stored /\ Cancellable(k))
  <2>1. UNCHANGED rowLock /\ Finish(c)
    BY <1>4 DEF CancelLock
  <2> QED
    BY <1>1, <2>1, OthersWait, FinishedKnows, RequestStep
<1> QED
  BY <1>3, <1>4

LEMMA AbortStep ==
  ASSUME Inv, TypeOK', NEW c \in Client, UNCHANGED <<clock, row, releaser, sweeper>>,
         Unlock(c), Finish(c)
  PROVE  GoodStep
<1>1. TypeOK
  BY DEF Inv
<1>2. /\ \A k \in Key : rowLock'[k] = rowLock[k] \/ rowLock[k] \in {NoOne, c}
      /\ \A k \in Key : inserting'[k] = inserting[k] \/ inserting[k] \in {NoOne, c}
  BY <1>1, UnlocksOwn
<1>3. \A d \in Client \ {c} : pc'[d] = pc[d] /\ req'[d] = req[d] /\ kind'[d] = kind[d]
  BY <1>1, OthersWait
<1> QED
  BY <1>1, <1>2, <1>3, FinishedKnows, RequestStep

LEMMA RefindStep ==
  ASSUME Inv, TypeOK', NEW c \in Client, NEW new \in Kind, Refind(c, new)
  PROVE  GoodStep
<1>1. /\ TypeOK /\ clock \in Nat /\ ClientInv(c) /\ pc[c] = "refind"
      /\ clock' = clock /\ UNCHANGED <<row, rowLock, inserting, releaser, sweeper>>
  BY TimesAreNumbers DEF Inv, TypeOK, RowsOK, RequestsOK, Refind, locks
<1>2. req[c].now <= clock /\ req[c].content \in Content
  BY <1>1 DEF ClientInv, Submitting
<1>3. CASE Finish(c)
  BY <1>1, <1>3, OthersWait, FinishedKnows, RequestStep
<1>4. CASE UNCHANGED req /\ SubmitNew(c, new)
  <2>1. pc'[c] \in {"lock total", "insert"} /\ kind'[c] = new /\ MayBe(req'[c], new)
    BY <1>1, <1>4 DEF SubmitNew, Goto, Insertion, TypeOK, RequestsOK
  <2>2. ClientInv(c)'
    BY <1>1, <1>2, <1>4, <2>1 DEF ClientInv, Inserting, Submitting
  <2>3. \A d \in Client \ {c} : pc'[d] = pc[d] /\ req'[d] = req[d] /\ kind'[d] = kind[d]
    BY <1>1, <1>4, OthersWait
  <2> QED
    BY <1>1, <2>2, <2>3, RequestStep
<1> QED
  BY <1>3, <1>4 DEF Refind

\* The locks of the caps, the insert and the second look at its conflict.
LEMMA InsertStep ==
  ASSUME Inv, TypeOK', NEW c \in Client, LockTotal(c) \/ LockApp(c) \/ Insert(c) \/ Reselect(c)
  PROVE  GoodStep
<1> DEFINE k == req[c].key
<1>1. /\ TypeOK /\ clock \in Nat /\ k \in Key /\ ClientInv(c) /\ pc[c] \in Inserting
      /\ clock' = clock /\ UNCHANGED <<row, releaser, sweeper>>
  BY TimesAreNumbers
  DEF Inv, TypeOK, RowsOK, RequestsOK, LockTotal, LockApp, Insert, Reselect, Inserting
<1>2. /\ req[c].now <= clock /\ req[c].content \in Content
      /\ kind[c] \in Kind /\ MayBe(req[c], kind[c])
  BY <1>1 DEF ClientInv, Submitting
<1>3. ASSUME NEW step \in {"lock total", "lock app", "insert", "reselect"},
             Goto(c, step), UNCHANGED <<req, kind>>
      PROVE  /\ ClientInv(c)'
             /\ \A d \in Client \ {c} : pc'[d] = pc[d] /\ req'[d] = req[d] /\ kind'[d] = kind[d]
  <2>1. pc'[c] = step
    BY <1>1, <1>3 DEF Goto, TypeOK, RequestsOK
  <2>2. ClientInv(c)'
    BY <1>1, <1>2, <1>3, <2>1 DEF ClientInv, Inserting, Submitting
  <2> QED
    BY <1>1, <1>3, <2>2, OthersWait
<1>4. CASE LockTotal(c) \/ LockApp(c)
  <2>1. /\ UNCHANGED <<rowLock, inserting, req, kind>>
        /\ Goto(c, "lock app") \/ Goto(c, "insert")
    BY <1>4 DEF LockTotal, LockApp
  <2> QED
    BY <1>1, <1>3, <2>1, RequestStep
<1>5. CASE Insert(c)
  <2>1. CASE Unlock(c) /\ Finish(c)
    BY <1>1, <2>1, AbortStep
  <2>2. CASE Goto(c, "reselect") /\ UNCHANGED <<locks, req, kind, tries>>
    BY <1>1, <1>3, <2>2, RequestStep DEF locks
  <2>3. CASE /\ k \notin stored /\ inserting' = [inserting EXCEPT ![k] = c]
             /\ Goto(c, "commit") /\ UNCHANGED <<rowLock, capLock, req, kind, tries>>
    <3>1. inserting[k] = NoOne
      BY <1>5 DEF Insert
    <3>2. /\ \A j \in Key : inserting'[j] = inserting[j] \/ inserting[j] \in {NoOne, c}
          /\ inserting'[k] = c /\ pc'[c] = "commit"
      BY <1>1, <2>3, <3>1 DEF TypeOK, LocksOK, Goto, RequestsOK
    <3>3. ClientInv(c)'
      BY <1>1, <1>2, <2>3, <3>2 DEF ClientInv, Inserting, Submitting, row
    <3>4. \A d \in Client \ {c} : pc'[d] = pc[d] /\ req'[d] = req[d] /\ kind'[d] = kind[d]
      BY <1>1, <2>3, OthersWait
    <3> QED
      BY <1>1, <2>3, <3>2, <3>3, <3>4, RequestStep
  <2> QED
    BY <1>5, <2>1, <2>2, <2>3 DEF Insert
<1>6. CASE Reselect(c)
  <2>1. Unlock(c)
    BY <1>6 DEF Reselect
  <2>2. CASE Finish(c)
    BY <1>1, <2>1, <2>2, AbortStep
  <2>3. CASE Goto(c, Insertion(kind[c])) /\ UNCHANGED <<req, kind>>
    <3>1. Insertion(kind[c]) \in {"lock total", "insert"}
      BY DEF Insertion
    <3> QED
      BY <1>1, <1>3, <2>1, <2>3, <3>1, UnlocksOwn, RequestStep
  <2> QED
    BY <1>6, <2>2, <2>3 DEF Reselect
<1> QED
  BY <1>4, <1>5, <1>6

-----------------------------------------------------------------------------
(* The steps that write rows *)

\* A request that commits what it writes to row k, which it has locked or is inserting.
LEMMA WriteStep ==
  ASSUME Inv, TypeOK', NEW c \in Client, NEW k \in Key, UNCHANGED <<clock, releaser, sweeper>>,
         Unlock(c), Finish(c), stored \subseteq stored', Shape(k)', AbstractStep,
         \A j \in Key \ {k} : RowSame(j),
         \/ rowLock[k] = c /\ (ScheduledRow(k) \/ HeldRow(k))
         \/ inserting[k] = c /\ k \notin stored
  PROVE  GoodStep
<1>1. TypeOK /\ clock \in Nat /\ clock' = clock
  BY TimesAreNumbers DEF Inv, TypeOK, RowsOK
<1>2. /\ \A j \in Key : rowLock'[j] = rowLock[j] \/ rowLock[j] \in {NoOne, c}
      /\ \A j \in Key : inserting'[j] = inserting[j] \/ inserting[j] \in {NoOne, c}
  BY <1>1, UnlocksOwn
<1>3. k \in stored => rowLock[k] = c
  BY DEF ScheduledRow, HeldRow
<1>4. k \notin stored => inserting[k] = c
  BY DEF ScheduledRow, HeldRow
<1>5. ASSUME NEW d \in Client, d # c
      PROVE  ClientInv(d)'
  <2>1. /\ ClientInv(d) /\ d # NoOne /\ (pc[d] # "idle" => req[d].key \in Key)
        /\ pc'[d] = pc[d] /\ req'[d] = req[d] /\ kind'[d] = kind[d]
    BY <1>1, <1>5, StoreAssumption, OthersWait DEF Inv, TypeOK, RequestsOK
  <2>2. pc[d] \in {"write", "cancelling"} =>
            /\ rowLock[req[d].key] = d => rowLock'[req[d].key] = d
            /\ RowSame(req[d].key)
    <3>1. pc[d] \in {"write", "cancelling"} =>
              rowLock[req[d].key] = d /\ req[d].key \in stored /\ req[d].key # k
      BY <1>3, <1>5, <2>1 DEF ClientInv, ScheduledRow, HeldRow
    <3> QED
      BY <1>2, <1>5, <2>1, <3>1
  <2>3. pc[d] = "commit" =>
            /\ inserting[req[d].key] = d => inserting'[req[d].key] = d
            /\ req[d].key \notin stored => req[d].key \notin stored'
    <3>1. pc[d] = "commit" => inserting[req[d].key] = d /\ req[d].key # k
      BY <1>4, <1>5, <2>1 DEF ClientInv
    <3> QED
      BY <1>2, <1>5, <2>1, <3>1 DEF RowSame
  <2> QED
    BY <1>1, <1>5, <2>1, <2>2, <2>3, ClientKeeps
<1>6. LoopInv'
  <2>1. doomed \subseteq Key /\ \A j \in doomed : Doomed(j) /\ j # k
    BY <1>1 DEF Inv, LoopInv, TypeOK, LoopsOK, Doomed, ScheduledRow, IsScheduled, HeldRow
  <2>2. \A j \in doomed : Doomed(j)'
    BY <1>1, <2>1, DoomedKeeps DEF sweeper
  <2>3. rpc = "locked" => \A j \in batch : rowLock'[j] = Releaser
    BY <1>1, <1>2, StoreAssumption DEF Inv, LoopInv, TypeOK, LoopsOK, NoOne, Releaser
  <2> QED
    BY <1>1, <2>2, <2>3 DEF Inv, LoopInv, releaser, sweeper
<1>7. ShapeInv'
  BY SameRow DEF Inv, ShapeInv
<1>8. ClientInv(c)'
  BY <1>1, FinishedKnows
<1> QED
  BY <1>5, <1>6, <1>7, <1>8 DEF GoodStep, Inv

\* Rows of the deliveries to T, all in one state.
LEMMA NewDeliveries ==
  ASSUME NEW k \in Key, NEW T \in SUBSET Dest, NEW s,
         deliveries'[k] = InsertDeliveries(T, s), s # "none"
  PROVE  /\ \A d \in Dest : deliveries'[k][d] = IF d \in T THEN s ELSE "none"
         /\ Targets(k)' = T
  BY DEF InsertDeliveries, Targets

LEMMA ReplaceStep ==
  ASSUME Inv, TypeOK', NEW c \in Client, Replace(c)
  PROVE  GoodStep
<1>1. PICK T \in (SUBSET Dest) \ {{}} : ReplaceScheduledMessage(c, T)
  BY DEF Replace
<1>0. PICK k \in Key : k = req[c].key
  BY <1>1 DEF Inv, TypeOK, RequestsOK, ReplaceScheduledMessage
<1>a. PICK later \in BOOLEAN : later = isFuture(req[c].at, req[c].now)
  BY DEF isFuture
<1>b. PICK s : s = IF later THEN "scheduled" ELSE "pending"
  OBVIOUS
<1>2. /\ TypeOK /\ clock \in Int /\ k \in Key /\ ClientInv(c) /\ pc[c] = "write" /\ T # {}
      /\ UNCHANGED <<clock, stored, createdAt, cancelledAt, heldAt, releaser, sweeper>>
      /\ Unlock(c) /\ Finish(c)
  BY <1>1, TimesAreNumbers DEF Inv, TypeOK, RowsOK, RequestsOK, ReplaceScheduledMessage
<1>3. /\ content' = [content EXCEPT ![k] = req[c].content]
      /\ deliverAt' = [deliverAt EXCEPT ![k] = IF later THEN req[c].at ELSE req[c].now]
      /\ deliveries' = [deliveries EXCEPT ![k] = InsertDeliveries(T, s)]
  BY <1>0, <1>1, <1>a, <1>b DEF ReplaceScheduledMessage
<1>4. /\ rowLock[k] = c /\ ScheduledRow(k) /\ req[c].content \in Content /\ req[c].now <= clock
  BY <1>0, <1>2 DEF ClientInv, Submitting
<1>5. /\ content'[k] = req[c].content /\ deliveries'[k] = InsertDeliveries(T, s)
      /\ deliverAt'[k] = IF later THEN req[c].at ELSE req[c].now
  BY <1>2, <1>3 DEF TypeOK, RowsOK
<1>6. \A j \in Key \ {k} : RowSame(j)
  BY <1>2, <1>3 DEF RowSame, TypeOK, RowsOK
<1>7. /\ \A d \in Dest : deliveries'[k][d] = IF d \in T THEN s ELSE "none"
      /\ Targets(k)' = T
  BY <1>2, <1>5, <1>b, NewDeliveries
<1>8. \/ ScheduledRow(k)'
      \/ ReleasedRow(k)' /\ Targets(k)' # {} /\ deliverAt'[k] <= clock
  <2>1. CASE later
    BY <1>2, <1>4, <1>7, <1>b, <2>1 DEF ScheduledRow, IsScheduled, HasRow, OnlyRows
  <2>2. CASE ~later
    BY <1>2, <1>4, <1>5, <1>7, <1>b, <2>2 DEF ScheduledRow, IsScheduled, ReleasedRow
  <2> QED
    BY <2>1, <2>2
<1>9. AbstractStep
  <2>1. Others({k})
    BY <1>6, SameRow DEF Others
  <2>2. RowsOK /\ RowsOK' /\ clock' = clock /\ content'[k] \in Content
    BY <1>2, <1>4, <1>5 DEF TypeOK
  <2> QED
    BY <1>2, <1>4, <1>8, <2>1, <2>2, ViewReplaces DEF AbstractStep
<1>10. Shape(k)'
  BY <1>8 DEF Shape
<1> QED
  BY <1>2, <1>4, <1>6, <1>9, <1>10, WriteStep

LEMMA CommitStep ==
  ASSUME Inv, TypeOK', NEW c \in Client, NEW T \in SUBSET Dest, NEW created \in Time,
         CommitInsert(c, T, created)
  PROVE  GoodStep
<1>0. PICK k \in Key : k = req[c].key
  BY DEF Inv, TypeOK, RequestsOK, CommitInsert
<1>1. /\ TypeOK /\ clock \in Int /\ k \in Key /\ ClientInv(c) /\ pc[c] = "commit"
      /\ UNCHANGED <<clock, cancelledAt, releaser, sweeper>>
      /\ Unlock(c) /\ Finish(c) /\ (T = {} <=> kind[c] = "held")
  BY TimesAreNumbers DEF Inv, TypeOK, RowsOK, RequestsOK, CommitInsert
<1>2. /\ stored' = stored \cup {k}
      /\ content' = [content EXCEPT ![k] = req[c].content]
      /\ deliverAt' = [deliverAt EXCEPT ![k] = req[c].at]
      /\ createdAt' = [createdAt EXCEPT ![k] = created]
      /\ heldAt' = [heldAt EXCEPT ![k] = IF kind[c] = "held" THEN req[c].now ELSE Null]
      /\ deliveries' = [deliveries EXCEPT ![k] = InsertDeliveries(T, kind[c])]
  BY <1>0 DEF CommitInsert
<1>3. /\ inserting[k] = c /\ k \notin stored /\ req[c].content \in Content
      /\ req[c].now <= clock /\ kind[c] \in Kind /\ MayBe(req[c], kind[c])
  BY <1>0, <1>1 DEF ClientInv, Submitting, Inserting
<1>4. req[c].at \in DeliverAt \cup {Null} /\ req[c].now \in Time
  BY <1>1 DEF TypeOK, RequestsOK
<1>5. /\ content'[k] = req[c].content /\ deliveries'[k] = InsertDeliveries(T, kind[c])
      /\ deliverAt'[k] = req[c].at /\ k \in stored'
      /\ heldAt'[k] = IF kind[c] = "held" THEN req[c].now ELSE Null
  BY <1>1, <1>2 DEF TypeOK, RowsOK
<1>6. \A j \in Key \ {k} : RowSame(j)
  BY <1>1, <1>2 DEF RowSame, TypeOK, RowsOK
<1>7. AbsentRow(k)
  <2>1. Shape(k)
    BY <1>1 DEF Inv, ShapeInv
  <2> QED
    BY <1>3, <2>1 DEF Shape, HeldRow, ScheduledRow, ReleasedRow, CancelledRow
<1>8. /\ \A d \in Dest : deliveries'[k][d] = IF d \in T THEN kind[c] ELSE "none"
      /\ Targets(k)' = T
  BY <1>1, <1>3, <1>5, NewDeliveries DEF Kind
<1>9. \/ ScheduledRow(k)' \/ HeldRow(k)'
      \/ ReleasedRow(k)' /\ Targets(k)' # {} /\ deliverAt'[k] <= clock
  <2>1. cancelledAt'[k] = Null
    BY <1>1, <1>7 DEF AbsentRow
  <2>2. CASE kind[c] = "held"
    <3>1. req[c].now # Null
      BY <1>4, TimesAreNumbers DEF Null
    <3> QED
      BY <1>1, <1>5, <1>8, <2>1, <2>2, <3>1 DEF HeldRow
  <2>3. CASE kind[c] = "scheduled"
    BY <1>1, <1>5, <1>8, <2>1, <2>3 DEF ScheduledRow, IsScheduled, HasRow, OnlyRows
  <2>4. CASE kind[c] = "pending"
    <3>1. ~isFuture(req[c].at, req[c].now)
      BY <1>3, <2>4 DEF MayBe
    <3>2. req[c].at \in Int /\ req[c].now \in Int /\ 0 <= req[c].now
      BY <1>4, TimesAreNumbers
    <3>3. deliverAt'[k] <= clock
      BY <1>1, <1>3, <1>5, <3>1, <3>2 DEF isFuture, Null
    <3> QED
      BY <1>1, <1>5, <1>8, <2>1, <2>4, <3>3 DEF ReleasedRow
  <2> QED
    BY <1>3, <2>2, <2>3, <2>4 DEF Kind
<1>10. AbstractStep
  <2>1. Others({k})
    BY <1>6, SameRow DEF Others
  <2>2. RowsOK /\ RowsOK' /\ clock' = clock /\ content'[k] \in Content
    BY <1>1, <1>3, <1>5 DEF TypeOK
  <2> QED
    BY <1>1, <1>7, <1>9, <2>1, <2>2, ViewAccepts DEF AbstractStep
<1>11. Shape(k)'
  BY <1>9 DEF Shape
<1> QED
  BY <1>1, <1>2, <1>3, <1>6, <1>10, <1>11, WriteStep

LEMMA CancelStep ==
  ASSUME Inv, TypeOK', NEW c \in Client, CancelMessage(c)
  PROVE  GoodStep
<1>0. PICK k \in Key : k = req[c].key
  BY DEF Inv, TypeOK, RequestsOK, CancelMessage
<1>1. /\ TypeOK /\ k \in Key /\ ClientInv(c) /\ pc[c] = "cancelling"
      /\ UNCHANGED <<clock, stored, content, deliverAt, createdAt, releaser, sweeper>>
      /\ Unlock(c) /\ Finish(c)
  BY DEF Inv, TypeOK, RequestsOK, CancelMessage
<1>2. /\ cancelledAt' = [cancelledAt EXCEPT ![k] = req[c].now]
      /\ heldAt' = [heldAt EXCEPT ![k] = Null]
      /\ deliveries' = [deliveries EXCEPT ![k] =
             [d \in Dest |-> IF deliveries[k][d] = "scheduled" THEN "cancelled"
                             ELSE deliveries[k][d]]]
  BY <1>0 DEF CancelMessage
<1>3. rowLock[k] = c /\ (ScheduledRow(k) \/ HeldRow(k))
  BY <1>0, <1>1 DEF ClientInv
<1>4. req[c].now # Null
  BY <1>1, TimesAreNumbers DEF TypeOK, RequestsOK, Null
<1>5. /\ cancelledAt'[k] = req[c].now /\ heldAt'[k] = Null
      /\ \A d \in Dest : deliveries'[k][d] = IF deliveries[k][d] = "scheduled" THEN "cancelled"
                                             ELSE deliveries[k][d]
  BY <1>1, <1>2 DEF TypeOK, RowsOK
<1>6. \A j \in Key \ {k} : RowSame(j)
  BY <1>1, <1>2 DEF RowSame, TypeOK, RowsOK
<1>7. CancelledRow(k)'
  BY <1>1, <1>3, <1>4, <1>5 DEF CancelledRow, ScheduledRow, IsScheduled, OnlyRows, HeldRow
<1>8. Targets(k)' = Targets(k)
  BY <1>5 DEF Targets
<1>9. AbstractStep
  <2>1. Others({k})
    BY <1>6, SameRow DEF Others
  <2>2. RowsOK
    BY <1>1 DEF TypeOK
  <2> QED
    BY <1>1, <1>3, <1>7, <1>8, <2>1, <2>2, ViewCancels DEF AbstractStep
<1>10. Shape(k)'
  BY <1>7 DEF Shape
<1> QED
  BY <1>1, <1>3, <1>6, <1>9, <1>10, WriteStep

-----------------------------------------------------------------------------
(* The loops, the worker, the operator and time *)

\* Requests keep what they know through a step that is not theirs.
LEMMA ClientsKeep ==
  ASSUME Inv, TypeOK', UNCHANGED <<request, inserting>>, clock <= clock', stored' \subseteq stored,
         \A k \in Key : rowLock'[k] = rowLock[k] \/ rowLock[k] \in {NoOne, Releaser},
         \A k \in Key : rowLock[k] \in Client /\ (ScheduledRow(k) \/ HeldRow(k)) => RowSame(k)
  PROVE  \A c \in Client : ClientInv(c)'
<1> SUFFICES ASSUME NEW c \in Client
             PROVE  ClientInv(c)'
  OBVIOUS
<1>1. /\ TypeOK /\ ClientInv(c) /\ c \notin {NoOne, Releaser}
      /\ pc[c] # "idle" => req[c].key \in Key
  BY StoreAssumption DEF Inv, TypeOK, RequestsOK
<1>2. pc'[c] = pc[c] /\ req'[c] = req[c] /\ kind'[c] = kind[c]
  BY DEF request
<1>3. pc[c] \in {"write", "cancelling"} =>
          /\ rowLock[req[c].key] = c => rowLock'[req[c].key] = c
          /\ RowSame(req[c].key)
  <2>1. pc[c] \in {"write", "cancelling"} =>
            /\ rowLock[req[c].key] = c
            /\ ScheduledRow(req[c].key) \/ HeldRow(req[c].key)
    BY <1>1 DEF ClientInv
  <2> QED
    BY <1>1, <2>1
<1> QED
  BY <1>1, <1>2, <1>3, ClientKeeps

\* A step of the loops that changes no row.
LEMMA QuietLoopStep ==
  ASSUME Inv, TypeOK', UNCHANGED <<clock, row, request, inserting>>,
         \A k \in Key : rowLock'[k] = rowLock[k] \/ rowLock[k] \in {NoOne, Releaser},
         LoopInv'
  PROVE  GoodStep
<1>1. TypeOK /\ clock <= clock' /\ stored' = stored
  BY TimesAreNumbers DEF Inv, TypeOK, RowsOK, row
<1>2. RowsStay /\ ShapeInv' /\ Others({})
  BY UnchangedRows, RowsStayShape
<1>3. \A c \in Client : ClientInv(c)'
  BY <1>1, <1>2, ClientsKeep DEF RowsStay
<1>4. AbstractStep
  BY <1>1, <1>2, ViewStutters DEF AbstractStep, row
<1> QED
  BY <1>1, <1>2, <1>3, <1>4 DEF GoodStep, Inv

\* The sweeper's messages when the sweeper does nothing and no row changes.
LEMMA DoomedStay ==
  ASSUME Inv, RowsStay, clock <= clock', clock' \in Nat, UNCHANGED sweeper
  PROVE  \A k \in doomed' : Doomed(k)'
  BY DoomedKeeps DEF Inv, LoopInv, RowsStay, TypeOK, LoopsOK, sweeper

LEMMA ReleaserStep ==
  ASSUME Inv, TypeOK', ReleaseProbe \/ ReleaseLock \/ ReleaseAbort
  PROVE  GoodStep
<1>1. /\ TypeOK /\ clock \in Nat /\ clock' = clock
      /\ UNCHANGED <<row, inserting, request, sweeper>>
  BY TimesAreNumbers DEF Inv, TypeOK, RowsOK, ReleaseProbe, ReleaseLock, ReleaseAbort, locks
<1>2. \A k \in doomed' : Doomed(k)'
  BY <1>1, UnchangedRows, DoomedStay
<1>3. 0 <= clock /\ rnow <= clock
  BY <1>1 DEF Inv, LoopInv
<1>4. CASE ReleaseProbe
  <2>1. rowLock' = rowLock /\ rpc' = "probed" /\ rnow' = clock
    BY <1>4 DEF ReleaseProbe, locks
  <2>2. LoopInv'
    BY <1>1, <1>2, <2>1 DEF LoopInv
  <2> QED
    BY <1>1, <2>1, <2>2, QuietLoopStep
<1>5. CASE ReleaseLock
  <2>1. /\ batch' = {k \in batch : rowLock[k] = NoOne}
        /\ rowLock' = [k \in Key |-> IF k \in batch' THEN Releaser ELSE rowLock[k]]
        /\ rnow' \in {0, rnow}
    BY <1>5 DEF ReleaseLock
  <2>2. /\ \A k \in Key : rowLock'[k] = rowLock[k] \/ rowLock[k] \in {NoOne, Releaser}
        /\ \A k \in batch' : rowLock'[k] = Releaser
    BY <1>1, <2>1 DEF TypeOK, LoopsOK
  <2>3. LoopInv'
    BY <1>1, <1>2, <1>3, <2>1, <2>2 DEF LoopInv
  <2> QED
    BY <1>1, <2>2, <2>3, QuietLoopStep
<1>6. CASE ReleaseAbort
  <2>1. rowLock' = Unlocked(rowLock, Releaser) /\ rpc' = "idle" /\ rnow' = 0
    BY <1>6 DEF ReleaseAbort, EndRelease
  <2>2. \A k \in Key : rowLock'[k] = rowLock[k] \/ rowLock[k] \in {NoOne, Releaser}
    BY <1>1, <2>1 DEF Unlocked, TypeOK, LocksOK
  <2>3. LoopInv'
    BY <1>1, <1>2, <1>3, <2>1 DEF LoopInv
  <2> QED
    BY <1>1, <2>2, <2>3, QuietLoopStep
<1> QED
  BY <1>4, <1>5, <1>6

\* The releaser's update finds its rows locked, scheduled and due.
LEMMA ReleaseDueStep ==
  ASSUME Inv, TypeOK', ReleaseDue
  PROVE  GoodStep
<1>1. /\ TypeOK /\ clock \in Nat /\ clock' = clock /\ rpc = "locked"
      /\ UNCHANGED <<stored, content, deliverAt, createdAt, cancelledAt, heldAt,
                     inserting, request, sweeper>>
      /\ rowLock' = Unlocked(rowLock, Releaser) /\ rpc' = "idle" /\ rnow' = 0
  BY TimesAreNumbers DEF Inv, TypeOK, RowsOK, ReleaseDue, EndRelease
<1>2. PICK K : K = Releasing
  OBVIOUS
<1>3. deliveries' = [k \in Key |->
           IF k \in K
           THEN [d \in Dest |-> IF deliveries[k][d] = "scheduled" THEN "pending"
                                ELSE deliveries[k][d]]
           ELSE deliveries[k]]
  BY <1>2 DEF ReleaseDue
<1>4. K \in SUBSET Key /\ \A k \in K : /\ HasRow(k, "scheduled") /\ deliverAt[k] <= rnow
                                       /\ rowLock[k] = Releaser
  BY <1>1, <1>2 DEF Releasing, Inv, LoopInv, TypeOK, LoopsOK
<1>5. \A k \in Key \ K : RowSame(k)
  BY <1>1, <1>3 DEF RowSame
<1>6. ASSUME NEW k \in K
      PROVE  /\ ScheduledRow(k) /\ deliverAt[k] <= clock
             /\ ReleasedRow(k)' /\ Targets(k)' = Targets(k)
  <2>1. k \in Key /\ Shape(k)
    BY <1>4 DEF Inv, ShapeInv
  <2>2. ScheduledRow(k)
    <3>1. HasRow(k, "scheduled")
      BY <1>4
    <3> QED
      BY <2>1, <3>1 DEF Shape, AbsentRow, HeldRow, ReleasedRow, CancelledRow, HasRow
  <2>3. deliverAt[k] <= clock
    <3>1. /\ deliverAt[k] \in DeliverAt \cup Time \cup {Null} /\ rnow \in Time
      BY <1>1, <2>1 DEF TypeOK, RowsOK, LoopsOK
    <3>2. deliverAt[k] \in Int /\ rnow \in Int
      BY <3>1, TimesAreNumbers
    <3> QED
      BY <1>1, <1>4, <3>2 DEF Inv, LoopInv
  <2>4. \A d \in Dest : deliveries'[k][d] = IF deliveries[k][d] = "scheduled" THEN "pending"
                                            ELSE deliveries[k][d]
    BY <1>3, <2>1
  <2>5. ReleasedRow(k)' /\ Targets(k)' = Targets(k)
    BY <1>1, <2>2, <2>4 DEF ReleasedRow, Targets, ScheduledRow, IsScheduled, OnlyRows
  <2> QED
    BY <2>2, <2>3, <2>5
<1>7. AbstractStep
  <2>1. Others(K)
    BY <1>5, SameRow DEF Others
  <2> QED
    BY <1>1, <1>4, <1>6, <2>1, ViewReleases DEF AbstractStep
<1>8. ShapeInv'
  BY <1>5, <1>6, SameRow DEF Inv, ShapeInv, Shape
<1>9. \A c \in Client : ClientInv(c)'
  <2>1. \A k \in Key : rowLock'[k] = rowLock[k] \/ rowLock[k] \in {NoOne, Releaser}
    BY <1>1 DEF Unlocked, TypeOK, LocksOK
  <2>2. \A k \in Key : rowLock[k] \in Client => RowSame(k)
    BY <1>4, <1>5, StoreAssumption
  <2> QED
    BY <1>1, <2>1, <2>2, ClientsKeep
<1>10. LoopInv'
  <2>1. \A k \in doomed : k \in Key /\ Doomed(k) /\ RowSame(k)
    BY <1>1, <1>4, <1>5 DEF Inv, LoopInv, Doomed, TypeOK, LoopsOK
  <2>2. \A k \in doomed : Doomed(k)'
    BY <1>1, <2>1, DoomedKeeps DEF sweeper
  <2> QED
    BY <1>1, <2>2 DEF LoopInv, sweeper
<1> QED
  BY <1>1, <1>7, <1>8, <1>9, <1>10 DEF GoodStep, Inv

\* A deleted row is free, and neither scheduled nor unfinished.
LEMMA DeleteStep ==
  ASSUME Inv, TypeOK', NEW K \in SUBSET Key, Delete(K),
         UNCHANGED <<clock, locks, request, rpc, rnow>>,
         \A k \in K : k \in stored /\ rowLock[k] = NoOne /\ Spares(k),
         doomed' \subseteq doomed \ K, replayed \subseteq replayed' \/ doomed' = {}
  PROVE  GoodStep
<1>1. /\ TypeOK /\ clock \in Nat /\ clock' = clock /\ rowLock' = rowLock
      /\ stored' = stored \ K /\ batch' = batch \ K
  BY TimesAreNumbers DEF Inv, TypeOK, RowsOK, Delete, locks
<1>2. \A k \in Key \ K : RowSame(k)
  BY DEF Delete, RowSame
<1>3. \A k \in K : AbsentRow(k)'
  BY DEF Delete, AbsentRow, NoDeliveries
<1>4. \A k \in K : HeldRow(k) \/ ReleasedRow(k) \/ CancelledRow(k)
  BY DEF Inv, ShapeInv, Shape, AbsentRow, ScheduledRow, IsScheduled, Spares
<1>5. AbstractStep
  <2>1. Others(K) /\ RowsOK /\ RowsOK'
    BY <1>1, <1>2, SameRow DEF Others, TypeOK
  <2> QED
    BY <1>1, <1>3, <1>4, <2>1, ViewForgets DEF AbstractStep
<1>6. ShapeInv'
  BY <1>2, <1>3, SameRow DEF Inv, ShapeInv, Shape
<1>7. \A c \in Client : ClientInv(c)'
  BY <1>1, <1>2, StoreAssumption, ClientsKeep DEF locks
<1>8. LoopInv'
  <2>1. ASSUME NEW k \in doomed'
        PROVE  Doomed(k)'
    <3>1. k \in doomed /\ k \in Key \ K /\ Doomed(k) /\ replayed \subseteq replayed'
      BY DEF Inv, LoopInv, TypeOK, LoopsOK
    <3> QED
      BY <1>1, <1>2, <3>1, DoomedKeeps
  <2>2. rnow' <= clock' /\ (rpc' = "locked" => \A k \in batch' : rowLock'[k] = Releaser)
    BY <1>1 DEF Inv, LoopInv
  <2> QED
    BY <2>1, <2>2 DEF LoopInv
<1> QED
  BY <1>1, <1>5, <1>6, <1>7, <1>8 DEF GoodStep, Inv

LEMMA SweepStep ==
  ASSUME Inv, TypeOK', Sweep \/ SweepFailed
  PROVE  GoodStep
<1>1. /\ TypeOK /\ clock \in Nat /\ clock' = clock /\ stored \subseteq Key /\ doomed \subseteq Key
      /\ ~sweeping => doomed = {}
  BY TimesAreNumbers
  DEF Inv, TypeOK, RowsOK, LoopsOK, Sweep, SweepSelect, DeleteExpired, DeleteExpiredHeld, SweepFailed
<1>2. CASE SweepSelect
  <2>1. /\ UNCHANGED <<row, request, rowLock, inserting, releaser>>
        /\ doomed' \subseteq Expired(clock - Retention)
    BY <1>2 DEF SweepSelect, locks
  <2>2. ASSUME NEW k \in doomed'
        PROVE  Doomed(k)'
    <3>1. k \in Key /\ k \in Expired(clock - Retention)
      BY <1>1, <2>1 DEF Expired
    <3>2. RowSame(k)
      BY <2>1, <3>1, UnchangedRows DEF RowsStay
    <3>3. \A s : HasRow(k, s)' = HasRow(k, s)
      BY <3>1, <3>2, SameRow
    <3>4. /\ deliverAt[k] \in DeliverAt \cup Time \cup {Null}
          /\ createdAt[k] \in DeliverAt \cup Time \cup {Null}
      BY <1>1, <3>1 DEF TypeOK, RowsOK
    <3>5. deliverAt[k] \in Int /\ createdAt[k] \in Int /\ Retention \in Int
      <4>1. Retention \in Int
        BY StoreAssumption
      <4>2. \A t \in DeliverAt \cup Time \cup {Null} : t \in Int
        BY TimesAreNumbers
      <4> QED
        BY <3>4, <4>1, <4>2
    <3>6. /\ k \in stored /\ heldAt[k] = Null /\ ~HasRow(k, "pending") /\ ~HasRow(k, "scheduled")
          /\ createdAt[k] < clock - Retention
          /\ cancelledAt[k] = Null => deliverAt[k] < clock - Retention
      BY <3>1 DEF Expired
    <3>7. cancelledAt[k] = Null =>
              clock - deliverAt[k] > Retention /\ clock - createdAt[k] > Retention
      BY <1>1, <3>5, <3>6
    <3> QED
      BY <1>1, <3>2, <3>3, <3>6, <3>7 DEF Doomed, RowSame
  <2>3. LoopInv'
    BY <1>1, <2>1, <2>2 DEF Inv, LoopInv, releaser
  <2> QED
    BY <1>1, <2>1, <2>3, QuietLoopStep
<1>3. CASE SweepFailed
  <2>1. UNCHANGED <<row, request, rowLock, inserting, releaser>> /\ doomed' = {}
    BY <1>3 DEF SweepFailed, EndSweep, locks
  <2>2. LoopInv'
    BY <1>1, <2>1 DEF Inv, LoopInv, releaser
  <2> QED
    BY <1>1, <2>1, <2>2, QuietLoopStep
<1>4. CASE DeleteExpired
  <2>1. /\ Delete(doomed) /\ doomed' = {} /\ UNCHANGED <<clock, locks, request, rpc, rnow>>
        /\ \A k \in doomed : rowLock[k] = NoOne
    BY <1>4 DEF DeleteExpired, EndSweep
  <2>2. \A k \in doomed : k \in stored /\ Spares(k)
    BY DEF Inv, LoopInv, Doomed, Spares
  <2>3. doomed \in SUBSET Key /\ doomed' \subseteq doomed \ doomed
    BY <1>1, <2>1
  <2>4. PICK K : K = doomed
    OBVIOUS
  <2> QED
    BY <2>1, <2>2, <2>3, <2>4, DeleteStep
<1>5. CASE DeleteExpiredHeld
  <2>1. PICK B \in (SUBSET ExpiredHeld(clock - HeldTTL)) \ {{}} : Delete(B)
    BY <1>5 DEF DeleteExpiredHeld
  <2>2. UNCHANGED <<clock, locks, request, rpc, rnow, sweeper>> /\ doomed = {}
    BY <1>1, <1>5 DEF DeleteExpiredHeld
  <2>3. ASSUME NEW k \in B
        PROVE  k \in Key /\ k \in stored /\ rowLock[k] = NoOne /\ Spares(k)
    <3>1. /\ k \in stored /\ k \in Key /\ heldAt[k] # Null /\ rowLock[k] = NoOne
          /\ heldAt[k] < clock - HeldTTL
      BY <1>1, <2>1 DEF ExpiredHeld
    <3>2. HeldRow(k)
      <4>1. Shape(k)
        BY <3>1 DEF Inv, ShapeInv
      <4> QED
        BY <3>1, <4>1 DEF Shape, AbsentRow, ScheduledRow, IsScheduled, ReleasedRow, CancelledRow
    <3>3. heldAt[k] \in Int /\ HeldTTL \in Int
      <4>1. heldAt[k] \in DeliverAt \cup Time \cup {Null}
        BY <1>1, <3>1 DEF TypeOK, RowsOK
      <4>2. HeldTTL \in Int
        BY StoreAssumption
      <4>3. \A t \in DeliverAt \cup Time \cup {Null} : t \in Int
        BY TimesAreNumbers
      <4> QED
        BY <4>1, <4>2, <4>3
    <3>4. clock - heldAt[k] > HeldTTL
      BY <1>1, <3>1, <3>3
    <3> QED
      BY <3>1, <3>2, <3>4 DEF Spares, HeldRow, HasRow
  <2>4. B \in SUBSET Key /\ doomed' = {}
    BY <2>2, <2>3 DEF sweeper
  <2> QED
    BY <2>1, <2>2, <2>3, <2>4, DeleteStep
<1> QED
  BY <1>2, <1>3, <1>4, <1>5 DEF Sweep

\* The worker ends and the operator replays deliveries of released messages only.
LEMMA DeliverStep ==
  ASSUME Inv, TypeOK', Deliver
  PROVE  GoodStep
<1>1. /\ TypeOK /\ clock \in Nat /\ clock' = clock /\ doomed' = doomed
      /\ replayed \subseteq replayed'
      /\ UNCHANGED <<stored, content, deliverAt, createdAt, cancelledAt, heldAt,
                     locks, request, releaser>>
  BY TimesAreNumbers DEF Inv, TypeOK, RowsOK, Deliver, RecordAttempt, Replay, sweeper
<1>2. PICK k \in Key, d \in Dest, s \in {"pending", "delivered", "dead"} :
          /\ deliveries[k][d] \in {"pending", "dead"}
          /\ deliveries' = [deliveries EXCEPT ![k][d] = s]
          /\ s = "pending" /\ k \in doomed => k \in replayed'
          /\ s # "pending" => deliveries[k][d] = "pending"
  BY DEF Deliver, RecordAttempt, Replay
<1>3. \A e \in Dest : deliveries'[k][e] = IF e = d THEN s ELSE deliveries[k][e]
  BY <1>1, <1>2 DEF TypeOK, RowsOK
<1>4. \A j \in Key \ {k} : RowSame(j)
  <2>1. \A j \in Key \ {k} : deliveries'[j] = deliveries[j]
    BY <1>1, <1>2 DEF TypeOK, RowsOK
  <2> QED
    BY <1>1, <2>1 DEF RowSame
<1>5. ReleasedRow(k)
  <2>1. Shape(k)
    BY DEF Inv, ShapeInv
  <2> QED
    BY <1>2, <2>1 DEF Shape, AbsentRow, HeldRow, ScheduledRow, IsScheduled, OnlyRows, CancelledRow
<1>6. ReleasedRow(k)' /\ Targets(k)' = Targets(k) /\ Sent(k)' = Sent(k)
  BY <1>1, <1>2, <1>3, <1>5 DEF ReleasedRow, Targets, Sent
<1>7. ViewSame(k)
  <2>1. Phase(k)' = Phase(k)
    BY <1>5, <1>6, PhaseOfShape, PhaseOfShapeNext
  <2> QED
    BY <1>1, <1>6, <2>1 DEF ViewSame
<1>8. AbstractStep
  <2>1. Others({})
    BY <1>4, <1>7, SameRow DEF Others
  <2> QED
    BY <1>1, <2>1, ViewStutters DEF AbstractStep
<1>9. ShapeInv'
  BY <1>4, <1>6, SameRow DEF Inv, ShapeInv, Shape
<1>10. \A c \in Client : ClientInv(c)'
  <2>1. ~ScheduledRow(k) /\ ~HeldRow(k)
    BY <1>5 DEF ReleasedRow, ScheduledRow, IsScheduled, HasRow, HeldRow
  <2>2. \A j \in Key : ScheduledRow(j) \/ HeldRow(j) => RowSame(j)
    BY <1>4, <2>1
  <2>3. UNCHANGED <<request, inserting>> /\ clock <= clock' /\ rowLock' = rowLock
    BY <1>1 DEF locks
  <2> QED
    BY <1>1, <2>2, <2>3, ClientsKeep
<1>11. LoopInv'
  <2>1. ASSUME NEW j \in doomed, j # k
        PROVE  Doomed(j)'
    <3>1. j \in Key \ {k} /\ Doomed(j)
      BY <1>1, <2>1 DEF TypeOK, LoopsOK, Inv, LoopInv
    <3> QED
      BY <1>1, <1>4, <3>1, DoomedKeeps
  <2>2. ASSUME k \in doomed
        PROVE  Doomed(k)'
    <3>1. Doomed(k)
      BY <2>2 DEF Inv, LoopInv
    <3>2. ~HasRow(k, "scheduled")'
      BY <1>6 DEF ReleasedRow, HasRow
    <3>3. HasRow(k, "pending")' => k \in replayed'
      <4>1. CASE s = "pending"
        BY <1>2, <2>2, <4>1
      <4>2. CASE s # "pending"
        BY <1>1, <1>2, <3>1, <4>2 DEF Doomed, HasRow
      <4> QED
        BY <4>1, <4>2
    <3> QED
      BY <1>1, <3>1, <3>2, <3>3 DEF Doomed
  <2> QED
    BY <1>1, <2>1, <2>2 DEF Inv, LoopInv, releaser, locks
<1> QED
  BY <1>1, <1>8, <1>9, <1>10, <1>11 DEF GoodStep, Inv

\* Time passes.
LEMMA TickStep ==
  ASSUME Inv, TypeOK', Tick
  PROVE  GoodStep
<1>1. /\ TypeOK /\ clock \in Nat /\ clock' = clock + 1
      /\ UNCHANGED <<row, locks, request, releaser, sweeper>>
  BY TimesAreNumbers DEF Inv, TypeOK, RowsOK, Tick
<1>2. clock <= clock' /\ clock' \in Nat /\ clock' > clock
  BY <1>1
<1>3. RowsStay /\ ShapeInv' /\ Others({}) /\ stored' = stored
  BY <1>1, UnchangedRows, RowsStayShape DEF row
<1>4. \A c \in Client : ClientInv(c)'
  BY <1>1, <1>2, <1>3, ClientsKeep DEF RowsStay, locks
<1>5. LoopInv'
  <2>1. \A k \in doomed' : Doomed(k)'
    BY <1>1, <1>2, <1>3, DoomedStay
  <2>2. rnow \in Int /\ rnow <= clock
    BY <1>1, TimesAreNumbers DEF Inv, LoopInv, TypeOK, LoopsOK
  <2>3. rnow <= clock'
    BY <1>1, <2>2
  <2> QED
    BY <1>1, <2>1, <2>3 DEF Inv, LoopInv, releaser, locks
<1>6. AbstractStep
  <2>1. /\ [k \in Key |-> Phase(k)]' = [k \in Key |-> Phase(k)]
        /\ [k \in Key |-> Targets(k)]' = [k \in Key |-> Targets(k)]
        /\ [k \in Key |-> Sent(k)]' = [k \in Key |-> Sent(k)]
        /\ content' = content /\ deliverAt' = deliverAt
    BY <1>1, <1>3 DEF Others, ViewSame, row
  <2>2. Lifecycle!Pass
    BY <1>2, <2>1 DEF Lifecycle!Pass, Lifecycle!message
  <2> QED
    BY <2>2 DEF AbstractStep, Lifecycle!Next
<1> QED
  BY <1>3, <1>4, <1>5, <1>6 DEF GoodStep, Inv

-----------------------------------------------------------------------------
(* The theorems *)

LEMMA InitInv ==
  ASSUME Init
  PROVE  Inv /\ Lifecycle!Init
<1>1. TypeOK
  <2>1. RowsOK
    BY Blank, TimesAreNumbers DEF Init, RowsOK
  <2>2. LocksOK
    BY DEF Init, LocksOK
  <2>3. RequestsOK
    <3>1. 0 \in 0..MaxInsertAttempts
      BY StoreAssumption
    <3> QED
      BY <3>1, Blank DEF Init, RequestsOK, Steps, Request
  <2>4. LoopsOK
    BY Blank DEF Init, LoopsOK
  <2> QED
    BY <2>1, <2>2, <2>3, <2>4 DEF TypeOK
<1>2. \A k \in Key : AbsentRow(k)
  BY DEF Init, AbsentRow, NoDeliveries
<1>3. \A c \in Client : ClientInv(c)
  BY DEF Init, ClientInv, Submitting, Inserting, NoRequest
<1>4. LoopInv
  BY DEF Init, LoopInv
<1>5. Lifecycle!Init
  BY <1>2, PhaseOfShape DEF Init, Lifecycle!Init
<1> QED
  BY <1>1, <1>2, <1>3, <1>4, <1>5 DEF Inv, ShapeInv, Shape

\* Every step of the store keeps the invariant, is a step of MessageLifecycle or
\* changes nothing it sees, and deletes only what a sweep may.
LEMMA StepGood ==
  ASSUME Inv, [Next]_vars
  PROVE  GoodStep
<1>1. TypeOK'
  BY StepTypes DEF Inv
<1>2. ASSUME NEW c \in Client, Start(c) \/ Serve(c) \/ Abort(c)
      PROVE  GoodStep
  <2>1. CASE Start(c)
    BY <1>1, <2>1, StartStep
  <2>2. CASE Abort(c)
    BY <1>1, <2>2, AbortStep DEF Abort
  <2>3. CASE ReplaceLock(c) \/ Replace(c)
    BY <1>1, <2>3, ReplaceLockStep, ReplaceStep
  <2>4. CASE \E new \in Kind : Refind(c, new)
    BY <1>1, <2>4, RefindStep
  <2>5. CASE LockTotal(c) \/ LockApp(c) \/ Insert(c) \/ Reselect(c)
    BY <1>1, <2>5, InsertStep
  <2>6. CASE \E T \in SUBSET Dest, created \in Time : CommitInsert(c, T, created)
    BY <1>1, <2>6, CommitStep
  <2>7. CASE CancelLock(c) \/ CancelMessage(c)
    BY <1>1, <2>7, CancelLockStep, CancelStep
  <2> QED
    BY <1>2, <2>1, <2>2, <2>3, <2>4, <2>5, <2>6, <2>7 DEF Serve
<1>3. CASE Release \/ ReleaseAbort
  BY <1>1, <1>3, ReleaserStep, ReleaseDueStep DEF Release
<1>4. CASE Sweep \/ SweepFailed
  BY <1>1, <1>4, SweepStep
<1>5. CASE UNCHANGED vars
  <2>1. UNCHANGED <<clock, row, request, inserting, rowLock, releaser, sweeper>>
    BY <1>5 DEF vars, locks
  <2>2. clock \in Nat /\ clock <= clock' /\ clock' \in Nat
    BY <2>1, TimesAreNumbers DEF Inv, TypeOK, RowsOK
  <2>3. \A k \in doomed' : Doomed(k)'
    BY <2>1, <2>2, UnchangedRows, DoomedStay
  <2>4. LoopInv'
    BY <2>1, <2>3 DEF Inv, LoopInv, releaser
  <2> QED
    BY <1>1, <2>1, <2>4, QuietLoopStep
<1> QED
  BY <1>1, <1>2, <1>3, <1>4, <1>5, DeliverStep, TickStep DEF Next

LEMMA InvAlways == Spec => []Inv
<1>1. Inv /\ [Next]_vars => Inv'
  BY StepGood DEF GoodStep
<1> QED
  BY <1>1, InitInv, PTL DEF Spec

\* Columns, locks, requests and loops keep their types, and no insert is tried
\* more than maxInsertAttempts times.
THEOREM TypeCorrect == Spec => []TypeOK
<1>1. Inv => TypeOK
  BY DEF Inv
<1> QED
  BY <1>1, InvAlways, PTL

\* The rows of the store live the life of MessageLifecycle: whatever submits,
\* replaces, cancels, releases, sweeps, replays and failures interleave, a message
\* is released or cancelled as a whole, never sent before its deliver_at, never
\* after a granted cancel, and never changed once it is no longer scheduled.
THEOREM LifecycleCorrect == Spec => ImplementsLifecycle
<1>1. Init => Lifecycle!Init
  BY InitInv
<1>2. Inv /\ [Next]_vars => AbstractStep
  BY StepGood DEF GoodStep
<1> QED
  BY <1>1, <1>2, InvAlways, PTL DEF Spec, ImplementsLifecycle, Lifecycle!Spec, AbstractStep

\* A sweep deletes no message with deliveries still to make, but one replayed
\* inside its DELETE statement, and none before its retention has passed.
THEOREM SweepCorrect == Spec => SweepSparesLive
<1>1. Inv /\ [Next]_vars =>
        [\A k \in stored \ stored' :
          /\ HasRow(k, "pending") => k \in replayed
          /\ ~HasRow(k, "scheduled")
          /\ heldAt[k] # Null => clock - heldAt[k] > HeldTTL
          /\ heldAt[k] = Null /\ cancelledAt[k] = Null =>
                 clock - deliverAt[k] > Retention /\ clock - createdAt[k] > Retention]_vars
  BY StepGood DEF GoodStep, Spares
<1> QED
  BY <1>1, InvAlways, PTL DEF Spec, SweepSparesLive

-----------------------------------------------------------------------------
(* The caps *)

\* A request that inserts a message of a capped kind holds the service-wide lock
\* from the first count to its end, so what it counted can only shrink before it
\* commits.
CapClient(c) ==
    /\ pc[c] \in {"lock app", "insert", "commit", "reselect"} /\ kind[c] \in Capped =>
          capLock[<<kind[c], AllApps>>] = c
    /\ pc[c] = "commit" => UnderCaps(c)

CapsInv == WithinCaps /\ \A c \in Client : CapClient(c)

\* No message becomes scheduled or held.
Fewer ==
    \A k \in Key :
        /\ k \in stored' /\ HasRow(k, "scheduled")' => k \in stored /\ HasRow(k, "scheduled")
        /\ k \in stored' /\ heldAt'[k] # Null => k \in stored /\ heldAt[k] # Null

\* There is room for key k in S under the cap.
Room(S, k, cap) == Cardinality(S \ {k}) + 1 <= cap

LEMMA RoomShrinks ==
  ASSUME NEW S \in SUBSET Key, NEW T \in SUBSET S, NEW k, NEW cap \in Nat, Room(S, k, cap)
  PROVE  Room(T, k, cap)
<1>1. IsFiniteSet(S \ {k}) /\ T \ {k} \in SUBSET (S \ {k})
  BY FS_Subset, StoreAssumption
<1>2. /\ Cardinality(T \ {k}) <= Cardinality(S \ {k})
      /\ IsFiniteSet(T \ {k})
  BY <1>1, FS_Subset
<1>3. Cardinality(T \ {k}) \in Nat /\ Cardinality(S \ {k}) \in Nat
  BY <1>1, <1>2, FS_CardinalityType
<1> QED
  BY <1>2, <1>3 DEF Room

LEMMA RoomTaken ==
  ASSUME NEW S \in SUBSET Key, NEW k, NEW T \in SUBSET (S \cup {k}), NEW cap \in Nat, Room(S, k, cap)
  PROVE  Cardinality(T) <= cap
<1>1. PICK U : U = S \ {k}
  OBVIOUS
<1>2. IsFiniteSet(U) /\ k \notin U /\ T \in SUBSET (U \cup {k})
  BY <1>1, FS_Subset, StoreAssumption
<1>3. IsFiniteSet(U \cup {k}) /\ Cardinality(U \cup {k}) = Cardinality(U) + 1
  BY <1>2, FS_AddElement
<1>4. Cardinality(T) <= Cardinality(U \cup {k}) /\ IsFiniteSet(T)
  BY <1>2, <1>3, FS_Subset
<1>5. Cardinality(T) \in Nat /\ Cardinality(U) \in Nat
  BY <1>2, <1>4, FS_CardinalityType
<1> QED
  BY <1>1, <1>3, <1>4, <1>5 DEF Room

LEMMA CapShrinks ==
  ASSUME NEW S \in SUBSET Key, NEW T \in SUBSET S, NEW cap \in Nat, Cardinality(S) <= cap
  PROVE  Cardinality(T) <= cap
<1>1. IsFiniteSet(S)
  BY FS_Subset, StoreAssumption
<1>2. Cardinality(T) <= Cardinality(S) /\ IsFiniteSet(T)
  BY <1>1, FS_Subset
<1>3. Cardinality(T) \in Nat /\ Cardinality(S) \in Nat
  BY <1>1, <1>2, FS_CardinalityType
<1> QED
  BY <1>2, <1>3

\* What UnderCaps says, before and after a step.
LEMMA UnderCapsMeans ==
  ASSUME NEW c \in Client, NEW A, A = KeysOf(AppOf[req[c].key])
  PROVE  UnderCaps(c) <=>
         /\ kind[c] = "scheduled" =>
               Room(Scheduled(A), req[c].key, PerApp) /\ Room(Scheduled(Key), req[c].key, Total)
         /\ kind[c] = "held" =>
               Room(Held(A), req[c].key, HeldPerApp) /\ Room(Held(Key), req[c].key, HeldTotal)
  BY DEF UnderCaps, Room

LEMMA UnderCapsMeansNext ==
  ASSUME NEW c \in Client, NEW A, A = KeysOf(AppOf[req'[c].key])
  PROVE  UnderCaps(c)' <=>
         /\ kind'[c] = "scheduled" =>
               Room(Scheduled(A)', req'[c].key, PerApp) /\ Room(Scheduled(Key)', req'[c].key, Total)
         /\ kind'[c] = "held" =>
               Room(Held(A)', req'[c].key, HeldPerApp) /\ Room(Held(Key)', req'[c].key, HeldTotal)
  BY DEF UnderCaps, Room

LEMMA FewerSets ==
  ASSUME Fewer, NEW K \in SUBSET Key
  PROVE  /\ Scheduled(K) \in SUBSET Key /\ Held(K) \in SUBSET Key
         /\ Scheduled(K)' \in SUBSET Scheduled(K) /\ Held(K)' \in SUBSET Held(K)
  BY DEF Fewer, Scheduled, Held

\* Fewer messages stay within the caps, and leave the room a request has counted.
LEMMA FewerCaps ==
  ASSUME Fewer
  PROVE  /\ WithinCaps => WithinCaps'
         /\ \A c \in Client : UnderCaps(c) /\ UNCHANGED <<kind[c], req[c]>> => UnderCaps(c)'
<1>0. PerApp \in Nat /\ Total \in Nat /\ HeldPerApp \in Nat /\ HeldTotal \in Nat
  BY StoreAssumption
<1>1. \A a : KeysOf(a) \in SUBSET Key
  BY DEF KeysOf
<1>2. ASSUME WithinCaps PROVE WithinCaps'
  <2>1. ASSUME NEW app \in Apps
        PROVE  /\ Cardinality(Scheduled(KeysOf(app))') <= PerApp
               /\ Cardinality(Held(KeysOf(app))') <= HeldPerApp
    <3>1. /\ Cardinality(Scheduled(KeysOf(app))) <= PerApp
          /\ Cardinality(Held(KeysOf(app))) <= HeldPerApp
      BY <1>2 DEF WithinCaps
    <3> QED
      BY <1>0, <1>1, <3>1, FewerSets, CapShrinks
  <2>2. Cardinality(Scheduled(Key)') <= Total /\ Cardinality(Held(Key)') <= HeldTotal
    <3>1. Cardinality(Scheduled(Key)) <= Total /\ Cardinality(Held(Key)) <= HeldTotal
      BY <1>2 DEF WithinCaps
    <3> QED
      BY <1>0, <3>1, FewerSets, CapShrinks
  <2> QED
    BY <2>1, <2>2 DEF WithinCaps
<1>3. ASSUME NEW c \in Client, UnderCaps(c), UNCHANGED <<kind[c], req[c]>>
      PROVE  UnderCaps(c)'
  <2>1. PICK A \in SUBSET Key : A = KeysOf(AppOf[req[c].key]) /\ A = KeysOf(AppOf[req'[c].key])
    BY <1>1, <1>3
  <2>2. /\ kind[c] = "scheduled" => Room(Scheduled(A), req[c].key, PerApp) /\ Room(Scheduled(Key), req[c].key, Total)
        /\ kind[c] = "held" => Room(Held(A), req[c].key, HeldPerApp) /\ Room(Held(Key), req[c].key, HeldTotal)
    BY <1>3, <2>1, UnderCapsMeans
  <2>3. /\ kind[c] = "scheduled" => Room(Scheduled(A)', req[c].key, PerApp) /\ Room(Scheduled(Key)', req[c].key, Total)
        /\ kind[c] = "held" => Room(Held(A)', req[c].key, HeldPerApp) /\ Room(Held(Key)', req[c].key, HeldTotal)
    BY <1>0, <2>2, FewerSets, RoomShrinks
  <2> QED
    BY <1>3, <2>1, <2>3, UnderCapsMeansNext
<1> QED
  BY <1>2, <1>3

\* A step of request c leaves the other requests and their locks alone.
OnlyRequest(c) ==
    /\ \A v \in Client \ {c} : pc'[v] = pc[v] /\ kind'[v] = kind[v] /\ req'[v] = req[v]
    /\ \A v \in Client \ {c}, l \in CapLock : capLock[l] = v => capLock'[l] = v

LEMMA CapRequestStep ==
  ASSUME CapsInv, Fewer, NEW c \in Client, OnlyRequest(c), CapClient(c)'
  PROVE  CapsInv'
<1>1. WithinCaps'
  BY FewerCaps DEF CapsInv
<1>2. ASSUME NEW v \in Client, v # c PROVE CapClient(v)'
  <2>1. CapClient(v) /\ pc'[v] = pc[v] /\ kind'[v] = kind[v] /\ req'[v] = req[v]
    BY <1>2 DEF CapsInv, OnlyRequest
  <2>2. kind[v] \in Capped => <<kind[v], AllApps>> \in CapLock
    BY DEF CapLock
  <2>3. kind[v] \in Capped /\ capLock[<<kind[v], AllApps>>] = v => capLock'[<<kind[v], AllApps>>] = v
    BY <1>2, <2>2 DEF OnlyRequest
  <2>4. UnderCaps(v) => UnderCaps(v)'
    BY <2>1, FewerCaps
  <2> QED
    BY <2>1, <2>3, <2>4 DEF CapClient
<1> QED
  BY <1>1, <1>2 DEF CapsInv

LEMMA CapLoopStep ==
  ASSUME CapsInv, Fewer, UNCHANGED <<request, capLock>>
  PROVE  CapsInv'
<1>1. WithinCaps'
  BY FewerCaps DEF CapsInv
<1>2. ASSUME NEW v \in Client PROVE CapClient(v)'
  <2>1. UnderCaps(v) => UnderCaps(v)'
    BY FewerCaps DEF request
  <2> QED
    BY <2>1 DEF CapsInv, CapClient, request
<1> QED
  BY <1>1, <1>2 DEF CapsInv

LEMMA FewerQuiet ==
  ASSUME UNCHANGED <<stored, heldAt, deliveries>>
  PROVE  Fewer
  BY DEF Fewer, HasRow

\* The locks of the others outlive a request's locking and unlocking.
LEMMA OthersLocks ==
  ASSUME TypeOK, NEW c \in Client,
         \/ UNCHANGED capLock
         \/ Unlock(c)
         \/ \E l \in CapLock : capLock[l] = NoOne /\ capLock' = [capLock EXCEPT ![l] = c]
  PROVE  \A v \in Client \ {c}, l \in CapLock : capLock[l] = v => capLock'[l] = v
<1>1. NoOne \notin Client
  BY StoreAssumption
<1> QED
  BY <1>1 DEF Unlock, Unlocked, TypeOK, LocksOK

\* A request that ends has nothing to answer for.
LEMMA CapFinish ==
  ASSUME TypeOK, CapsInv, Fewer, NEW c \in Client, Finish(c), UNCHANGED capLock \/ Unlock(c)
  PROVE  CapsInv'
<1>1. OnlyRequest(c) /\ pc'[c] = "idle"
  BY OthersWait, OthersLocks DEF OnlyRequest, Finish, Goto, TypeOK, RequestsOK
<1>2. CapClient(c)'
  BY <1>1 DEF CapClient
<1> QED
  BY <1>1, <1>2, CapRequestStep

\* Nor has one that is only about to lock.
LEMMA CapGoto ==
  ASSUME TypeOK, CapsInv, NEW c \in Client, NEW step, Goto(c, step),
         step \notin {"lock app", "insert", "commit", "reselect"}, UNCHANGED <<row, kind>>,
         \A v \in Client \ {c} : req'[v] = req[v],
         UNCHANGED capLock \/ Unlock(c)
  PROVE  CapsInv'
<1>1. OnlyRequest(c) /\ pc'[c] = step
  BY OthersLocks DEF OnlyRequest, Goto, TypeOK, RequestsOK
<1>2. CapClient(c)'
  BY <1>1 DEF CapClient
<1>3. Fewer
  BY FewerQuiet DEF row
<1> QED
  BY <1>1, <1>2, <1>3, CapRequestStep

LEMMA CapSubmitNew ==
  ASSUME TypeOK, CapsInv, NEW c \in Client, NEW new \in Kind, SubmitNew(c, new),
         UNCHANGED <<row, capLock>>, \A v \in Client \ {c} : req'[v] = req[v]
  PROVE  CapsInv'
<1>1. OnlyRequest(c) /\ pc'[c] = Insertion(new) /\ kind'[c] = new
  BY OthersLocks DEF OnlyRequest, SubmitNew, Goto, TypeOK, RequestsOK
<1>2. CapClient(c)'
  BY <1>1 DEF CapClient, Insertion
<1>3. Fewer
  BY FewerQuiet DEF row
<1> QED
  BY <1>1, <1>2, <1>3, CapRequestStep

LEMMA CapStart ==
  ASSUME Inv, CapsInv, NEW c \in Client, Start(c)
  PROVE  CapsInv'
<1>0. TypeOK
  BY DEF Inv
<1>1. ASSUME NEW k \in Key, NEW x \in Content, NEW at \in DeliverAt, NEW hold \in Hold,
             NEW new \in Kind, Submit(c, k, x, at, hold, new)
      PROVE  CapsInv'
  <2>1. \A v \in Client \ {c} : req'[v] = req[v]
    BY <1>0, <1>1 DEF Submit, TypeOK, RequestsOK
  <2>2. UNCHANGED <<row, capLock>>
    BY <1>1 DEF Submit, locks
  <2>3. CASE k \in stored
    BY <1>0, <1>1, <2>1, <2>2, <2>3, CapGoto DEF Submit
  <2>4. CASE k \notin stored
    BY <1>0, <1>1, <2>1, <2>2, <2>4, CapSubmitNew DEF Submit
  <2> QED
    BY <2>3, <2>4
<1>2. ASSUME NEW k \in Key, Cancel(c, k)
      PROVE  CapsInv'
  <2>1. \A v \in Client \ {c} : req'[v] = req[v]
    BY <1>0, <1>2 DEF Cancel, TypeOK, RequestsOK
  <2> QED
    BY <1>0, <1>2, <2>1, CapGoto DEF Cancel, locks
<1> QED
  BY <1>1, <1>2 DEF Start

\* The steps of an insert up to its commit.
LEMMA CapInsert ==
  ASSUME Inv, CapsInv, NEW c \in Client, LockTotal(c) \/ LockApp(c) \/ Insert(c) \/ Reselect(c)
  PROVE  CapsInv'
<1>0. TypeOK /\ ClientInv(c) /\ CapClient(c)
  BY DEF Inv, CapsInv
<1>1. CASE LockTotal(c)
  <2>1. kind[c] \in Kind /\ UNCHANGED <<row, req, kind>>
    BY <1>0, <1>1 DEF LockTotal, ClientInv, Inserting
  <2>2. pc' = [pc EXCEPT ![c] = "lock app"] /\ capLock' = [capLock EXCEPT ![<<kind[c], AllApps>>] = c]
        /\ capLock[<<kind[c], AllApps>>] = NoOne
    BY <1>1 DEF LockTotal, Goto
  <2>3. CASE kind[c] \in Capped
    <3>1. <<kind[c], AllApps>> \in CapLock
      BY <2>3 DEF CapLock
    <3>2. OnlyRequest(c) /\ capLock'[<<kind[c], AllApps>>] = c /\ pc'[c] = "lock app"
      BY <1>0, <2>1, <2>2, <3>1, OthersLocks DEF OnlyRequest, TypeOK, LocksOK, RequestsOK
    <3>3. CapClient(c)'
      BY <2>1, <3>2 DEF CapClient
    <3> QED
      BY <2>1, <3>2, <3>3, CapRequestStep, FewerQuiet DEF row
  <2>4. CASE kind[c] \notin Capped
    <3>1. <<kind[c], AllApps>> \notin CapLock
      BY <2>4 DEF CapLock
    <3>2. capLock' = capLock
      BY <1>0, <2>2, <3>1 DEF TypeOK, LocksOK
    <3>3. OnlyRequest(c) /\ pc'[c] = "lock app"
      BY <1>0, <2>1, <2>2, <3>2 DEF OnlyRequest, TypeOK, RequestsOK
    <3>4. CapClient(c)'
      BY <2>1, <2>4, <3>3 DEF CapClient
    <3> QED
      BY <2>1, <3>3, <3>4, CapRequestStep, FewerQuiet DEF row
  <2> QED
    BY <2>3, <2>4
<1>2. CASE LockApp(c)
  <2>1. /\ pc[c] = "lock app" /\ req[c].key \in Key /\ UNCHANGED <<row, req, kind>>
        /\ pc' = [pc EXCEPT ![c] = "insert"]
        /\ capLock' = [capLock EXCEPT ![<<kind[c], AppOf[req[c].key]>>] = c]
        /\ capLock[<<kind[c], AppOf[req[c].key]>>] = NoOne
    BY <1>0, <1>2 DEF LockApp, Goto, TypeOK, RequestsOK
  <2>2. AppOf[req[c].key] \in Apps /\ AppOf[req[c].key] # AllApps
    BY <2>1, StoreAssumption DEF Apps
  <2>3. PICK l : l = <<kind[c], AppOf[req[c].key]>> /\ l # <<kind[c], AllApps>>
    <3>1. <<kind[c], AppOf[req[c].key]>> # <<kind[c], AllApps>>
      BY <2>2
    <3> QED
      BY <3>1
  <2>4. \A m \in CapLock : m # l => capLock'[m] = capLock[m]
    BY <1>0, <2>1, <2>3 DEF TypeOK, LocksOK
  <2>5. \A v \in Client \ {c}, m \in CapLock : capLock[m] = v => capLock'[m] = v
    BY <2>1, <2>3, <2>4, StoreAssumption
  <2>6. OnlyRequest(c) /\ pc'[c] = "insert"
    BY <1>0, <2>1, <2>5 DEF OnlyRequest, TypeOK, RequestsOK
  <2>7. kind[c] \in Capped => capLock'[<<kind[c], AllApps>>] = c
    BY <1>0, <2>1, <2>3, <2>4 DEF CapClient, CapLock
  <2>8. CapClient(c)'
    BY <2>1, <2>6, <2>7 DEF CapClient
  <2> QED
    BY <2>1, <2>6, <2>8, CapRequestStep, FewerQuiet DEF row
<1>3. CASE Insert(c)
  <2>0. Fewer /\ pc[c] = "insert"
    BY <1>3, FewerQuiet DEF Insert, row
  <2>1. CASE req[c].key \in stored
    <3>1. OnlyRequest(c) /\ pc'[c] = "reselect" /\ UNCHANGED <<kind, capLock>>
      BY <1>0, <1>3, <2>1 DEF Insert, Goto, locks, OnlyRequest, TypeOK, RequestsOK
    <3>2. CapClient(c)'
      BY <1>0, <2>0, <3>1 DEF CapClient
    <3> QED
      BY <2>0, <3>1, <3>2, CapRequestStep
  <2>2. CASE req[c].key \notin stored /\ UnderCaps(c)
    <3>1. OnlyRequest(c) /\ pc'[c] = "commit" /\ UNCHANGED <<kind, req, capLock>>
      BY <1>0, <1>3, <2>2 DEF Insert, Goto, OnlyRequest, TypeOK, RequestsOK
    <3>2. UnderCaps(c)'
      BY <2>0, <2>2, <3>1, FewerCaps
    <3>3. CapClient(c)'
      BY <1>0, <2>0, <3>1, <3>2 DEF CapClient
    <3> QED
      BY <2>0, <3>1, <3>3, CapRequestStep
  <2>3. CASE ~(req[c].key \in stored) /\ ~UnderCaps(c)
    <3>1. Unlock(c) /\ Finish(c)
      BY <1>3, <2>3 DEF Insert
    <3> QED
      BY <1>0, <2>0, <3>1, CapFinish
  <2> QED
    BY <2>1, <2>2, <2>3
<1>4. CASE Reselect(c)
  <2>0. Fewer /\ Unlock(c)
    BY <1>4, FewerQuiet DEF Reselect, row
  <2>1. CASE Vanished(c)
    <3>1. OnlyRequest(c) /\ pc'[c] = Insertion(kind[c]) /\ kind' = kind
      BY <1>0, <1>4, <2>0, <2>1, OthersLocks DEF Reselect, Goto, OnlyRequest, TypeOK, RequestsOK
    <3>2. CapClient(c)'
      BY <3>1 DEF CapClient, Insertion
    <3> QED
      BY <2>0, <3>1, <3>2, CapRequestStep
  <2>2. CASE ~Vanished(c)
    BY <1>0, <1>4, <2>0, <2>2, CapFinish DEF Reselect
  <2> QED
    BY <2>1, <2>2
<1> QED
  BY <1>1, <1>2, <1>3, <1>4

\* The commit adds its message where it has counted the room, and nowhere else.
LEMMA CapCommit ==
  ASSUME Inv, CapsInv, NEW c \in Client, NEW T \in SUBSET Dest, NEW created \in Time,
         CommitInsert(c, T, created)
  PROVE  CapsInv'
<1>0. /\ TypeOK /\ ClientInv(c) /\ CapClient(c) /\ pc[c] = "commit" /\ WithinCaps
      /\ Unlock(c) /\ Finish(c)
      /\ PerApp \in Nat /\ Total \in Nat /\ HeldPerApp \in Nat /\ HeldTotal \in Nat
  BY StoreAssumption DEF Inv, CapsInv, CommitInsert
<1>1. PICK k \in Key : k = req[c].key /\ k \notin stored
  BY <1>0 DEF TypeOK, RequestsOK, ClientInv
<1>2. kind[c] \in Kind
  BY <1>0 DEF ClientInv, Inserting
<1>3. /\ stored' = stored \cup {k}
      /\ \A j \in Key : j # k => heldAt'[j] = heldAt[j] /\ deliveries'[j] = deliveries[j]
      /\ heldAt'[k] = IF kind[c] = "held" THEN req[c].now ELSE Null
      /\ deliveries'[k] = InsertDeliveries(T, kind[c])
  BY <1>0, <1>1 DEF CommitInsert, TypeOK, RowsOK
<1>4. \A j \in Key : j # k =>
        /\ j \in stored' <=> j \in stored
        /\ HasRow(j, "scheduled")' <=> HasRow(j, "scheduled")
        /\ heldAt'[j] = heldAt[j]
  BY <1>3 DEF HasRow
<1>5. kind[c] # "scheduled" => ~HasRow(k, "scheduled")'
  BY <1>3 DEF HasRow, InsertDeliveries
<1>6. kind[c] # "held" => heldAt'[k] = Null
  BY <1>3
<1>7. OnlyRequest(c) /\ pc'[c] = "idle"
  BY <1>0, OthersWait, OthersLocks DEF OnlyRequest, Finish, Goto, TypeOK, RequestsOK
<1>8. CASE kind[c] \notin Capped
  <2>1. Fewer
    BY <1>4, <1>5, <1>6, <1>8 DEF Fewer, Capped
  <2> QED
    BY <1>0, <2>1, CapFinish
<1>9. ASSUME NEW K \in SUBSET Key
      PROVE  /\ Scheduled(K) \in SUBSET Key /\ Held(K) \in SUBSET Key
             /\ Scheduled(K)' \in SUBSET (Scheduled(K) \cup {k})
             /\ Held(K)' \in SUBSET (Held(K) \cup {k})
             /\ kind[c] # "scheduled" \/ k \notin K => Scheduled(K)' \in SUBSET Scheduled(K)
             /\ kind[c] # "held" \/ k \notin K => Held(K)' \in SUBSET Held(K)
  BY <1>4, <1>5, <1>6, <1>9 DEF Scheduled, Held
<1>10. PICK A \in SUBSET Key : A = KeysOf(AppOf[req[c].key])
  BY DEF KeysOf
<1>11. /\ kind[c] = "scheduled" => Room(Scheduled(A), k, PerApp) /\ Room(Scheduled(Key), k, Total)
       /\ kind[c] = "held" => Room(Held(A), k, HeldPerApp) /\ Room(Held(Key), k, HeldTotal)
  BY <1>0, <1>1, <1>10, UnderCapsMeans DEF CapClient
<1>12. ASSUME NEW app \in Apps
       PROVE  /\ Cardinality(Scheduled(KeysOf(app))') <= PerApp
              /\ Cardinality(Held(KeysOf(app))') <= HeldPerApp
  <2>1. PICK K \in SUBSET Key : K = KeysOf(app) /\ (K = A \/ k \notin K)
    BY <1>1, <1>10 DEF KeysOf
  <2>2. Cardinality(Scheduled(K)) <= PerApp /\ Cardinality(Held(K)) <= HeldPerApp
    BY <1>0, <2>1 DEF WithinCaps
  <2>3. Cardinality(Scheduled(K)') <= PerApp
    <3>1. CASE kind[c] # "scheduled" \/ k \notin K
      BY <1>0, <1>9, <2>2, <3>1, CapShrinks
    <3>2. CASE kind[c] = "scheduled" /\ K = A
      BY <1>0, <1>9, <1>11, <3>2, RoomTaken
    <3> QED
      BY <2>1, <3>1, <3>2
  <2>4. Cardinality(Held(K)') <= HeldPerApp
    <3>1. CASE kind[c] # "held" \/ k \notin K
      BY <1>0, <1>9, <2>2, <3>1, CapShrinks
    <3>2. CASE kind[c] = "held" /\ K = A
      BY <1>0, <1>9, <1>11, <3>2, RoomTaken
    <3> QED
      BY <2>1, <3>1, <3>2
  <2> QED
    BY <2>1, <2>3, <2>4
<1>13. Cardinality(Scheduled(Key)') <= Total
  <2>1. CASE kind[c] # "scheduled"
    <3>1. Cardinality(Scheduled(Key)) <= Total
      BY <1>0 DEF WithinCaps
    <3> QED
      BY <1>0, <1>9, <2>1, <3>1, CapShrinks
  <2>2. CASE kind[c] = "scheduled"
    BY <1>0, <1>9, <1>11, <2>2, RoomTaken
  <2> QED
    BY <2>1, <2>2
<1>14. Cardinality(Held(Key)') <= HeldTotal
  <2>1. CASE kind[c] # "held"
    <3>1. Cardinality(Held(Key)) <= HeldTotal
      BY <1>0 DEF WithinCaps
    <3> QED
      BY <1>0, <1>9, <2>1, <3>1, CapShrinks
  <2>2. CASE kind[c] = "held"
    BY <1>0, <1>9, <1>11, <2>2, RoomTaken
  <2> QED
    BY <2>1, <2>2
<1>15. WithinCaps'
  BY <1>12, <1>13, <1>14 DEF WithinCaps
<1>16. ASSUME kind[c] \in Capped, NEW v \in Client, v # c PROVE CapClient(v)'
  <2>1. CapClient(v) /\ pc'[v] = pc[v] /\ kind'[v] = kind[v] /\ req'[v] = req[v]
    BY <1>7, <1>16 DEF CapsInv, OnlyRequest
  <2>2. kind[v] \in Capped => <<kind[v], AllApps>> \in CapLock
    BY DEF CapLock
  <2>3. kind[v] \in Capped /\ capLock[<<kind[v], AllApps>>] = v => capLock'[<<kind[v], AllApps>>] = v
    BY <1>7, <1>16, <2>2 DEF OnlyRequest
  <2>4. ASSUME pc[v] = "commit" PROVE UnderCaps(v)'
    <3>1. UnderCaps(v) /\ kind[v] # kind[c]
      BY <1>0, <1>16, <2>1, <2>4 DEF CapClient
    <3>2. PICK B \in SUBSET Key : B = KeysOf(AppOf[req[v].key]) /\ B = KeysOf(AppOf[req'[v].key])
      BY <2>1 DEF KeysOf
    <3>3. /\ kind[v] = "scheduled" =>
               Room(Scheduled(B), req[v].key, PerApp) /\ Room(Scheduled(Key), req[v].key, Total)
          /\ kind[v] = "held" =>
               Room(Held(B), req[v].key, HeldPerApp) /\ Room(Held(Key), req[v].key, HeldTotal)
      BY <3>1, <3>2, UnderCapsMeans
    <3>4. /\ kind[v] = "scheduled" =>
               Room(Scheduled(B)', req[v].key, PerApp) /\ Room(Scheduled(Key)', req[v].key, Total)
          /\ kind[v] = "held" =>
               Room(Held(B)', req[v].key, HeldPerApp) /\ Room(Held(Key)', req[v].key, HeldTotal)
      BY <1>0, <1>9, <3>1, <3>3, RoomShrinks
    <3> QED
      BY <2>1, <3>2, <3>4, UnderCapsMeansNext
  <2> QED
    BY <2>1, <2>3, <2>4 DEF CapClient
<1>17. CASE kind[c] \in Capped
  <2>1. CapClient(c)'
    BY <1>7 DEF CapClient
  <2> QED
    BY <1>15, <1>16, <1>17, <2>1 DEF CapsInv
<1> QED
  BY <1>8, <1>17

\* The other steps of a request.
LEMMA CapServe ==
  ASSUME Inv, CapsInv, NEW c \in Client, Serve(c)
  PROVE  CapsInv'
<1>0. TypeOK /\ ClientInv(c)
  BY DEF Inv
<1>1. CASE ReplaceLock(c)
  <2>0. Fewer /\ UNCHANGED <<row, capLock>>
    BY <1>1, FewerQuiet DEF ReplaceLock, row
  <2>1. CASE Goto(c, "write") \/ Goto(c, "refind")
    <3>2. UNCHANGED <<req, kind>> \/ Finish(c)
      BY <1>1 DEF ReplaceLock
    <3> QED
      BY <1>0, <2>0, <2>1, <3>2, CapGoto, CapFinish
  <2>2. CASE Finish(c)
    BY <1>0, <2>0, <2>2, CapFinish
  <2> QED
    BY <1>1, <2>1, <2>2 DEF ReplaceLock
<1>2. ASSUME NEW T \in (SUBSET Dest) \ {{}}, ReplaceScheduledMessage(c, T) PROVE CapsInv'
  <2>1. PICK k \in Key : k = req[c].key /\ k \in stored /\ HasRow(k, "scheduled")
    BY <1>0, <1>2 DEF ReplaceScheduledMessage, ClientInv, ScheduledRow, IsScheduled, TypeOK, RequestsOK
  <2>2. stored' = stored /\ heldAt' = heldAt /\ \A j \in Key : j # k => deliveries'[j] = deliveries[j]
    BY <1>0, <1>2, <2>1 DEF ReplaceScheduledMessage, TypeOK, RowsOK
  <2>3. Fewer
    BY <2>1, <2>2 DEF Fewer, HasRow
  <2> QED
    BY <1>0, <1>2, <2>3, CapFinish DEF ReplaceScheduledMessage
<1>3. ASSUME NEW new \in Kind, Refind(c, new) PROVE CapsInv'
  <2>0. Fewer /\ UNCHANGED <<row, capLock>>
    BY <1>3, FewerQuiet DEF Refind, row, locks
  <2> QED
    BY <1>0, <1>3, <2>0, CapFinish, CapSubmitNew DEF Refind
<1>4. CASE LockTotal(c) \/ LockApp(c) \/ Insert(c) \/ Reselect(c)
  BY <1>4, CapInsert
<1>5. ASSUME NEW T \in SUBSET Dest, NEW created \in Time, CommitInsert(c, T, created) PROVE CapsInv'
  BY <1>5, CapCommit
<1>6. CASE CancelLock(c)
  <2>0. Fewer /\ UNCHANGED <<row, capLock>>
    BY <1>6, FewerQuiet DEF CancelLock, row
  <2>1. (Goto(c, "cancelling") /\ UNCHANGED <<req, kind>>) \/ Finish(c)
    BY <1>6 DEF CancelLock
  <2> QED
    BY <1>0, <2>0, <2>1, CapGoto, CapFinish
<1>7. CASE CancelMessage(c)
  <2>1. PICK k \in Key : k = req[c].key
    BY <1>0, <1>7 DEF CancelMessage, TypeOK, RequestsOK
  <2>2. /\ stored' = stored /\ heldAt'[k] = Null
        /\ \A j \in Key : j # k => deliveries'[j] = deliveries[j] /\ heldAt'[j] = heldAt[j]
        /\ \A d \in Dest : deliveries'[k][d] # "scheduled"
    BY <1>0, <1>7, <2>1 DEF CancelMessage, TypeOK, RowsOK
  <2>3. Fewer
    BY <2>1, <2>2 DEF Fewer, HasRow
  <2> QED
    BY <1>0, <1>7, <2>3, CapFinish DEF CancelMessage
<1> QED
  BY <1>1, <1>2, <1>3, <1>4, <1>5, <1>6, <1>7 DEF Serve, Replace

\* The loops release, deliver and delete, which makes room.
LEMMA CapLoops ==
  ASSUME Inv, CapsInv, Release \/ ReleaseAbort \/ Sweep \/ SweepFailed \/ Deliver \/ Tick
  PROVE  CapsInv'
<1>0. TypeOK /\ deliveries \in [Key -> [Dest -> DeliveryState \cup {"none"}]]
  BY DEF Inv, TypeOK, RowsOK
<1>1. UNCHANGED <<request, capLock>>
  BY DEF Release, ReleaseProbe, ReleaseLock, ReleaseDue, ReleaseAbort, Sweep, SweepSelect,
         DeleteExpired, DeleteExpiredHeld, SweepFailed, Deliver, RecordAttempt, Replay, Tick, locks
<1>2. CASE ReleaseProbe \/ ReleaseLock \/ ReleaseAbort \/ SweepSelect \/ SweepFailed \/ Tick
  BY <1>2, FewerQuiet, <1>1, CapLoopStep
  DEF ReleaseProbe, ReleaseLock, ReleaseAbort, SweepSelect, SweepFailed, Tick, row
<1>3. CASE ReleaseDue
  <2>1. /\ stored' = stored /\ heldAt' = heldAt
        /\ \A k \in Key, d \in Dest : deliveries'[k][d] = "scheduled" => deliveries[k][d] = "scheduled"
    BY <1>0, <1>3 DEF ReleaseDue
  <2>2. Fewer
    BY <2>1 DEF Fewer, HasRow
  <2> QED
    BY <1>1, <2>2, CapLoopStep
<1>4. ASSUME NEW K, Delete(K) PROVE CapsInv'
  <2>1. stored' = stored \ K /\
        \A k \in Key \ K : heldAt'[k] = heldAt[k] /\ deliveries'[k] = deliveries[k]
    BY <1>4 DEF Delete
  <2>2. Fewer
    BY <2>1 DEF Fewer, HasRow
  <2> QED
    BY <1>1, <2>2, CapLoopStep
<1>5. CASE DeleteExpired \/ DeleteExpiredHeld
  BY <1>4, <1>5 DEF DeleteExpired, DeleteExpiredHeld
<1>6. CASE Deliver
  <2>1. PICK k \in Key, d \in Dest, s \in {"delivered", "dead", "pending"} :
          /\ deliveries' = [deliveries EXCEPT ![k][d] = s]
          /\ stored' = stored /\ heldAt' = heldAt
    BY <1>6 DEF Deliver, RecordAttempt, Replay
  <2>2. \A j \in Key, e \in Dest : deliveries'[j][e] = "scheduled" => deliveries[j][e] = "scheduled"
    BY <1>0, <2>1
  <2>3. Fewer
    BY <2>1, <2>2 DEF Fewer, HasRow
  <2> QED
    BY <1>1, <2>3, CapLoopStep
<1> QED
  BY <1>2, <1>3, <1>5, <1>6 DEF Release, Sweep

LEMMA CapStep == Inv /\ CapsInv /\ [Next]_vars => CapsInv'
<1> SUFFICES ASSUME Inv, CapsInv, [Next]_vars PROVE CapsInv'
  OBVIOUS
<1>1. ASSUME NEW c \in Client, Abort(c) PROVE CapsInv'
  <2>1. Fewer /\ TypeOK
    BY <1>1, FewerQuiet DEF Abort, row, Inv
  <2> QED
    BY <1>1, <2>1, CapFinish DEF Abort
<1>2. CASE UNCHANGED vars
  <2>1. Fewer
    BY <1>2, FewerQuiet DEF vars, row
  <2> QED
    BY <1>2, <2>1, CapLoopStep DEF vars, locks
<1> QED
  BY <1>1, <1>2, CapStart, CapServe, CapLoops DEF Next

LEMMA CapInit == Init => CapsInv
<1> SUFFICES ASSUME Init PROVE CapsInv
  OBVIOUS
<1>1. \A K \in SUBSET Key : Scheduled(K) = {} /\ Held(K) = {}
  BY DEF Init, Scheduled, Held
<1>2. Cardinality({}) = 0
  BY FS_EmptySet
<1>3. WithinCaps
  <2>1. \A app \in Apps : KeysOf(app) \in SUBSET Key
    BY DEF KeysOf
  <2>2. Key \in SUBSET Key
    OBVIOUS
  <2>3. 0 <= PerApp /\ 0 <= HeldPerApp /\ 0 <= Total /\ 0 <= HeldTotal
    BY StoreAssumption
  <2> QED
    BY <1>1, <1>2, <2>1, <2>2, <2>3 DEF WithinCaps
<1>4. \A c \in Client : CapClient(c)
  BY DEF Init, CapClient
<1> QED
  BY <1>3, <1>4 DEF CapsInv

\* Whatever submits, replaces, cancels, releases and sweeps run at once, neither
\* an app nor all of them together exceed their caps on scheduled and on held
\* messages: the count and the insert of insertOnce and insertHeldOnce are under
\* the service-wide advisory lock of the kind to the end of the transaction.
THEOREM CapsCorrect == Spec => []WithinCaps
<1>1. CapsInv => WithinCaps
  BY DEF CapsInv
<1> QED
  BY <1>1, CapInit, CapStep, InvAlways, PTL DEF Spec
=============================================================================
