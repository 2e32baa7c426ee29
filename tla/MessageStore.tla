---------------------------- MODULE MessageStore ----------------------------
(***************************************************************************)
(* The message store (delivery-api/internal/message): clients submit,      *)
(* replace and cancel messages by idempotency key while the releaser hands *)
(* due scheduled messages to the worker, the sweeper deletes expired ones, *)
(* the worker finishes deliveries and the operator replays dead ones.      *)
(*                                                                         *)
(* Every store call is a READ COMMITTED transaction, cut here where        *)
(* another session can tell: after a lock is granted, after a snapshot is  *)
(* read, at the commit.  A row lock (FOR UPDATE), an advisory lock and the *)
(* unique key of an uncommitted insert are held to the end of the          *)
(* transaction.  Any call can fail before its commit.                      *)
(***************************************************************************)
EXTENDS Integers, FiniteSets

CONSTANTS
    Client,             \* requests being served at once
    Key, AppOf,         \* (app_id, idempotency_key) pairs and their app
    Content,            \* channel, target, payload, display: what sameContent compares
    DeliverAt,          \* the deliver_at values clients ask for, Null for none
    Hold,               \* does the submit route hold unrouted messages?
    Dest,               \* destinations a message may resolve to
    PerApp, Total,      \* ScheduledCaps
    HeldPerApp, HeldTotal,  \* HeldCaps
    ReleaseLimit,       \* ReleaserConfig.BatchSize
    SweepBatch,         \* DeleteExpiredBatchSize
    Retention, HeldTTL, \* SweeperConfig
    MaxInsertAttempts,  \* maxInsertAttempts
    MaxTime             \* bound: the clock stops here

Null == -1              \* SQL NULL in a time column
NoOne == "no one"       \* a free lock
Releaser == "releaser"
AllApps == "all apps"   \* the service-wide advisory lock

Time == 0..MaxTime
Apps == {AppOf[k] : k \in Key}
Kind == {"pending", "scheduled", "held"}
Capped == {"scheduled", "held"}     \* the kinds of message with a cap
CapLock == Capped \X (Apps \cup {AllApps})

ASSUME StoreAssumption ==
    /\ Client \cap {NoOne, Releaser} = {}
    /\ AppOf \in [Key -> Apps] /\ AllApps \notin Apps
    /\ IsFiniteSet(Key) /\ IsFiniteSet(Dest)
    /\ DeliverAt \subseteq Nat \cup {Null} /\ Hold \subseteq BOOLEAN
    /\ PerApp \in Nat \ {0} /\ Total \in Nat \ {0}
    /\ HeldPerApp \in Nat \ {0} /\ HeldTotal \in Nat \ {0}
    /\ ReleaseLimit \in Nat \ {0} /\ SweepBatch \in Nat \ {0}
    /\ Retention \in Nat \ {0} /\ HeldTTL \in Nat \ {0}
    /\ MaxInsertAttempts \in Nat \ {0} /\ MaxTime \in Nat

VARIABLES
    clock,
    \* messages: the committed rows and their columns
    stored, content, deliverAt, createdAt, cancelledAt, heldAt,
    \* message_deliveries: state of each delivery, "none" where there is no row
    deliveries,
    \* locks of open transactions
    rowLock, inserting, capLock,
    \* requests: where each is, what it asks for, the kind of its new message
    pc, req, kind, tries,
    \* releaser: step, the now it runs with, the messages in hand
    rpc, rnow, batch,
    \* sweeper: the messages of its DELETE, and (history) those replayed since
    \* its snapshot
    sweeping, doomed, replayed

row == <<stored, content, deliverAt, createdAt, cancelledAt, heldAt, deliveries>>
locks == <<rowLock, inserting, capLock>>
request == <<pc, req, kind, tries>>
releaser == <<rpc, rnow, batch>>
sweeper == <<sweeping, doomed, replayed>>
vars == <<clock, row, locks, request, releaser, sweeper>>

DeliveryState == {"scheduled", "pending", "delivered", "dead", "cancelled"}
NoRequest == [key |-> "none", content |-> "none", at |-> Null, hold |-> FALSE, now |-> 0]
NoDeliveries == [d \in Dest |-> "none"]

Init ==
    /\ clock = 0
    /\ stored = {}
    /\ content = [k \in Key |-> "none"]
    /\ deliverAt = [k \in Key |-> Null]
    /\ createdAt = [k \in Key |-> Null]
    /\ cancelledAt = [k \in Key |-> Null]
    /\ heldAt = [k \in Key |-> Null]
    /\ deliveries = [k \in Key |-> NoDeliveries]
    /\ rowLock = [k \in Key |-> NoOne]
    /\ inserting = [k \in Key |-> NoOne]
    /\ capLock = [l \in CapLock |-> NoOne]
    /\ pc = [c \in Client |-> "idle"]
    /\ req = [c \in Client |-> NoRequest]
    /\ kind = [c \in Client |-> "none"]
    /\ tries = [c \in Client |-> 0]
    /\ rpc = "idle" /\ rnow = 0 /\ batch = {}
    /\ sweeping = FALSE /\ doomed = {} /\ replayed = {}

-----------------------------------------------------------------------------
(* What the code derives from the rows *)

HasRow(k, s) == \E d \in Dest : deliveries[k][d] = s
OnlyRows(k, s) == \A d \in Dest : deliveries[k][d] \in {"none", s}

\* DeriveStatus tells one status from the others wherever the store acts on it.
IsScheduled(k) ==
    /\ cancelledAt[k] = Null /\ heldAt[k] = Null
    /\ HasRow(k, "scheduled") /\ OnlyRows(k, "scheduled")

sameContent(k, r) == content[k] = r.content /\ deliverAt[k] = r.at

isFuture(at, now) == at # Null /\ at > now

Scheduled(K) == {k \in K \cap stored : HasRow(k, "scheduled")}
Held(K) == {k \in K \cap stored : heldAt[k] # Null}
KeysOf(app) == {k \in Key : AppOf[k] = app}

\* The counts of the caps include the row being inserted.
UnderCaps(c) ==
    LET k == req[c].key
        mine(K) == K \ {k}
    IN CASE kind[c] = "scheduled" ->
                /\ Cardinality(mine(Scheduled(KeysOf(AppOf[k])))) + 1 <= PerApp
                /\ Cardinality(mine(Scheduled(Key))) + 1 <= Total
         [] kind[c] = "held" ->
                /\ Cardinality(mine(Held(KeysOf(AppOf[k])))) + 1 <= HeldPerApp
                /\ Cardinality(mine(Held(Key))) + 1 <= HeldTotal
         [] OTHER -> TRUE

-----------------------------------------------------------------------------
(* Requests *)

InsertDeliveries(T, s) == [d \in Dest |-> IF d \in T THEN s ELSE "none"]

Goto(c, step) == pc' = [pc EXCEPT ![c] = step]

\* The end of a request: its transaction's locks go with it.
Finish(c) ==
    /\ Goto(c, "idle")
    /\ req' = [req EXCEPT ![c] = NoRequest]
    /\ kind' = [kind EXCEPT ![c] = "none"]
    /\ tries' = [tries EXCEPT ![c] = 0]

Unlocked(f, c) == [l \in DOMAIN f |-> IF f[l] = c THEN NoOne ELSE f[l]]

\* mutant: session-level advisory locks outlive the transaction
UnlockRowsOnly(c) ==
    /\ rowLock' = Unlocked(rowLock, c)
    /\ inserting' = Unlocked(inserting, c)
    /\ UNCHANGED capLock

Unlock(c) ==
    /\ rowLock' = Unlocked(rowLock, c)
    /\ inserting' = Unlocked(inserting, c)
    /\ capLock' = Unlocked(capLock, c)

\* What resolveTargets answers shows only when it is written, so the targets are
\* chosen then; an error ends the request (Abort).  That no route matched shows
\* at once: from a holding route such a message is held.
MayBe(r, new) ==
    CASE new = "held" -> r.hold
      [] new = "scheduled" -> isFuture(r.at, r.now)
      [] OTHER -> ~isFuture(r.at, r.now)

\* The first step of the transaction that inserts a message of this kind.
Insertion(new) == IF new \in Capped THEN "lock total" ELSE "insert"

\* The rest of Submit when the key is not stored.
SubmitNew(c, new) ==
    /\ MayBe(req'[c], new)
    /\ kind' = [kind EXCEPT ![c] = new]
    /\ tries' = [tries EXCEPT ![c] = 1]
    /\ Goto(c, Insertion(new))

\* Submit reads its clock and looks the key up.  A stored message that is not
\* scheduled, or has the submitted content, is answered as a duplicate, which
\* changes nothing.
Submit(c, k, x, at, hold, new) ==
    /\ pc[c] = "idle"
    /\ req' = [req EXCEPT ![c] =
               [key |-> k, content |-> x, at |-> at, hold |-> hold, now |-> clock]]
    /\ IF k \in stored
       THEN /\ IsScheduled(k) /\ ~sameContent(k, req'[c])
            /\ Goto(c, "replace")
            /\ UNCHANGED <<kind, tries>>
       ELSE SubmitNew(c, new)
    /\ UNCHANGED <<clock, row, locks, releaser, sweeper>>

\* submitExisting locks the row.  Under the lock the status is read again: lost
\* to a release or a cancel, the submit is a duplicate.
ReplaceLock(c) ==
    LET k == req[c].key IN
    /\ pc[c] = "replace"
    /\ k \in stored => rowLock[k] = NoOne
    /\ IF k \in stored /\ IsScheduled(k)
       THEN /\ rowLock' = [rowLock EXCEPT ![k] = c]
            /\ Goto(c, "write")
            /\ UNCHANGED <<req, kind, tries>>
       ELSE /\ IF k \in stored
               THEN Finish(c)
               ELSE Goto(c, "refind") /\ UNCHANGED <<req, kind, tries>>
            /\ UNCHANGED rowLock
    /\ UNCHANGED <<clock, row, inserting, capLock, releaser, sweeper>>

\* Content and deliveries are swapped together; one due by the request's clock
\* is released at once, and its deliver_at becomes that clock.
ReplaceScheduledMessage(c, T) ==
    LET k == req[c].key
        later == isFuture(req[c].at, req[c].now)
    IN
    /\ pc[c] = "write"
    /\ content' = [content EXCEPT ![k] = req[c].content]
    /\ deliverAt' = [deliverAt EXCEPT ![k] = IF later THEN req[c].at ELSE req[c].now]
    /\ deliveries' = [deliveries EXCEPT ![k] =
           InsertDeliveries(T, IF later THEN "scheduled" ELSE "pending")]
    /\ Unlock(c) /\ Finish(c)
    /\ UNCHANGED <<clock, stored, createdAt, cancelledAt, heldAt, releaser, sweeper>>

\* The row to replace was gone: whoever inserted the key again has stored it,
\* otherwise the message is submitted as new.
Refind(c, new) ==
    /\ pc[c] = "refind"
    /\ IF req[c].key \in stored
       THEN Finish(c)
       ELSE UNCHANGED req /\ SubmitNew(c, new)
    /\ UNCHANGED <<clock, row, locks, releaser, sweeper>>

\* mutant: only the app's lock is taken
LockTotalNot(c) ==
    /\ pc[c] = "lock total"
    /\ Goto(c, "lock app")
    /\ UNCHANGED <<clock, row, locks, req, kind, tries, releaser, sweeper>>

\* insertOnce and insertHeldOnce take the service-wide lock, then the app's.
LockTotal(c) ==
    LET l == <<kind[c], AllApps>> IN
    /\ pc[c] = "lock total"
    /\ capLock[l] = NoOne
    /\ capLock' = [capLock EXCEPT ![l] = c]
    /\ Goto(c, "lock app")
    /\ UNCHANGED <<clock, row, rowLock, inserting, req, kind, tries,
                   releaser, sweeper>>

LockApp(c) ==
    LET l == <<kind[c], AppOf[req[c].key]>> IN
    /\ pc[c] = "lock app"
    /\ capLock[l] = NoOne
    /\ capLock' = [capLock EXCEPT ![l] = c]
    /\ Goto(c, "insert")
    /\ UNCHANGED <<clock, row, rowLock, inserting, req, kind, tries,
                   releaser, sweeper>>

\* INSERT ... ON CONFLICT DO NOTHING waits for an open insert of the same key.
\* The row, its deliveries and the counts are one transaction: over a cap it
\* rolls back.
Insert(c) ==
    LET k == req[c].key IN
    /\ pc[c] = "insert"
    /\ inserting[k] = NoOne
    /\ CASE k \in stored ->
              /\ Goto(c, "reselect")
              /\ UNCHANGED <<locks, req, kind, tries>>
         [] k \notin stored /\ UnderCaps(c) ->
              /\ inserting' = [inserting EXCEPT ![k] = c]
              /\ Goto(c, "commit")
              /\ UNCHANGED <<rowLock, capLock, req, kind, tries>>
         [] OTHER -> Unlock(c) /\ Finish(c)
    /\ UNCHANGED <<clock, row, releaser, sweeper>>

\* created_at is the transaction's now(): after the request's clock, before the
\* commit.
CommitInsert(c, T, created) ==
    LET k == req[c].key IN
    /\ pc[c] = "commit"
    /\ T = {} <=> kind[c] = "held"
    /\ created \in req[c].now..clock
    /\ stored' = stored \cup {k}
    /\ content' = [content EXCEPT ![k] = req[c].content]
    /\ deliverAt' = [deliverAt EXCEPT ![k] = req[c].at]
    /\ createdAt' = [createdAt EXCEPT ![k] = created]
    /\ heldAt' = [heldAt EXCEPT ![k] = IF kind[c] = "held" THEN req[c].now ELSE Null]
    /\ deliveries' = [deliveries EXCEPT ![k] = InsertDeliveries(T, kind[c])]
    /\ Unlock(c) /\ Finish(c)
    /\ UNCHANGED <<clock, cancelledAt, releaser, sweeper>>

\* The row the insert met is gone, and there is a try left.
Vanished(c) == req[c].key \notin stored /\ tries[c] < MaxInsertAttempts

\* After a conflict the row is read again; gone, the insert is tried once more.
Reselect(c) ==
    /\ pc[c] = "reselect"
    /\ Unlock(c)
    /\ IF Vanished(c)
       THEN /\ tries' = [tries EXCEPT ![c] = @ + 1]
            /\ Goto(c, Insertion(kind[c]))
            /\ UNCHANGED <<req, kind>>
       ELSE Finish(c)
    /\ UNCHANGED <<clock, row, releaser, sweeper>>

\* Cancel, CancelByKey and AdminCancel read the clock, then lock the row.
Cancel(c, k) ==
    /\ pc[c] = "idle"
    /\ req' = [req EXCEPT ![c] = [NoRequest EXCEPT !.key = k, !.now = clock]]
    /\ Goto(c, "cancel")
    /\ UNCHANGED <<clock, row, locks, kind, tries, releaser, sweeper>>

Cancellable(k) == cancelledAt[k] = Null /\ (heldAt[k] # Null \/ IsScheduled(k))

\* mutant: the row is read without FOR UPDATE
CancelLockNot(c) ==
    LET k == req[c].key IN
    /\ pc[c] = "cancel"
    /\ k \in stored /\ Cancellable(k)
    /\ Goto(c, "cancelling")
    /\ UNCHANGED <<clock, row, locks, req, kind, tries, releaser, sweeper>>

CancelLock(c) ==
    LET k == req[c].key IN
    /\ pc[c] = "cancel"
    /\ k \in stored => rowLock[k] = NoOne
    /\ IF k \in stored /\ Cancellable(k)
       THEN /\ rowLock' = [rowLock EXCEPT ![k] = c]
            /\ Goto(c, "cancelling")
            /\ UNCHANGED <<req, kind, tries>>
       ELSE Finish(c) /\ UNCHANGED rowLock
    /\ UNCHANGED <<clock, row, inserting, capLock, releaser, sweeper>>

CancelMessage(c) ==
    LET k == req[c].key IN
    /\ pc[c] = "cancelling"
    /\ cancelledAt' = [cancelledAt EXCEPT ![k] = req[c].now]
    /\ heldAt' = [heldAt EXCEPT ![k] = Null]
    /\ deliveries' = [deliveries EXCEPT ![k] =
           [d \in Dest |-> IF @[d] = "scheduled" THEN "cancelled" ELSE @[d]]]
    /\ Unlock(c) /\ Finish(c)
    /\ UNCHANGED <<clock, stored, content, deliverAt, createdAt, releaser, sweeper>>

\* A resolver error, a failed call, a client that went away, a crash.
Abort(c) ==
    /\ pc[c] # "idle"
    /\ Unlock(c) /\ Finish(c)
    /\ UNCHANGED <<clock, row, releaser, sweeper>>

-----------------------------------------------------------------------------
(* ReleaseDue *)

Due(now) == {k \in stored : HasRow(k, "scheduled") /\ deliverAt[k] <= now}

\* The first n of the set by the time column f.
Oldest(S, f, n) ==
    {B \in SUBSET S : /\ Cardinality(B) = (IF Cardinality(S) < n THEN Cardinality(S) ELSE n)
                      /\ \A b \in B, s \in S \ B : f[b] <= f[s]}

ReleaseProbe ==
    /\ rpc = "idle"
    /\ Due(clock) # {}
    /\ batch' \in Oldest(Due(clock), deliverAt, ReleaseLimit)
    /\ rpc' = "probed" /\ rnow' = clock
    /\ UNCHANGED <<clock, row, locks, request, sweeper>>

\* FOR UPDATE SKIP LOCKED.
ReleaseLock ==
    /\ rpc = "probed"
    /\ batch' = {k \in batch : rowLock[k] = NoOne}
    /\ rowLock' = [k \in Key |-> IF k \in batch' THEN Releaser ELSE rowLock[k]]
    /\ rpc' = IF batch' = {} THEN "idle" ELSE "locked"
    /\ rnow' = IF batch' = {} THEN 0 ELSE rnow
    /\ UNCHANGED <<clock, row, inserting, capLock, request, sweeper>>

Releasing == {k \in batch : HasRow(k, "scheduled") /\ deliverAt[k] <= rnow}

\* mutant: an ended run keeps its row locks
EndReleaseLeaky == UNCHANGED rowLock /\ rpc' = "idle" /\ rnow' = 0 /\ batch' = {}

EndRelease ==
    /\ rowLock' = Unlocked(rowLock, Releaser)
    /\ rpc' = "idle" /\ rnow' = 0 /\ batch' = {}

\* The update tests the state and the due time again, under the row lock.
ReleaseDue ==
    /\ rpc = "locked"
    /\ deliveries' = [k \in Key |->
           IF k \in Releasing
           THEN [d \in Dest |-> IF deliveries[k][d] = "scheduled" THEN "pending" ELSE deliveries[k][d]]
           ELSE deliveries[k]]
    /\ EndRelease
    /\ UNCHANGED <<clock, stored, content, deliverAt, createdAt, cancelledAt, heldAt,
                   inserting, capLock, request, sweeper>>

ReleaseAbort ==
    /\ rpc # "idle"
    /\ EndRelease
    /\ UNCHANGED <<clock, row, inserting, capLock, request, sweeper>>

-----------------------------------------------------------------------------
(* Retention *)

\* mutant: the age counts from created_at alone
ExpiredByCreation(cutoff) ==
    {k \in stored : /\ createdAt[k] < cutoff /\ heldAt[k] = Null
                    /\ ~HasRow(k, "pending") /\ ~HasRow(k, "scheduled")}

\* deleteExpiredSQL; nothing in the code writes released_at or
\* release_failed_at, and greatest() skips NULLs.
Expired(cutoff) ==
    {k \in stored : /\ createdAt[k] < cutoff
                    /\ IF cancelledAt[k] = Null THEN deliverAt[k] < cutoff
                                                ELSE cancelledAt[k] < cutoff
                    /\ heldAt[k] = Null
                    /\ ~HasRow(k, "pending") /\ ~HasRow(k, "scheduled")}

ExpiredHeld(cutoff) ==
    {k \in stored : heldAt[k] # Null /\ heldAt[k] < cutoff /\ rowLock[k] = NoOne}

\* Deliveries go with their message; a deleted id matches nothing later.
Delete(K) ==
    /\ stored' = stored \ K
    /\ content' = [k \in Key |-> IF k \in K THEN "none" ELSE content[k]]
    /\ deliverAt' = [k \in Key |-> IF k \in K THEN Null ELSE deliverAt[k]]
    /\ createdAt' = [k \in Key |-> IF k \in K THEN Null ELSE createdAt[k]]
    /\ cancelledAt' = [k \in Key |-> IF k \in K THEN Null ELSE cancelledAt[k]]
    /\ heldAt' = [k \in Key |-> IF k \in K THEN Null ELSE heldAt[k]]
    /\ deliveries' = [k \in Key |-> IF k \in K THEN NoDeliveries ELSE deliveries[k]]
    /\ batch' = batch \ K

\* One DELETE statement of DeleteExpired: its snapshot ...  sweepStart is read
\* before, so the cutoff is no later, and a batch is a part of what it admits.
SweepSelect ==
    /\ ~sweeping
    /\ doomed' \in (SUBSET Expired(clock - Retention)) \ {{}}
    /\ Cardinality(doomed') <= SweepBatch
    /\ sweeping' = TRUE
    /\ UNCHANGED <<clock, row, locks, request, releaser, replayed>>

EndSweep == sweeping' = FALSE /\ doomed' = {} /\ replayed' = {}

\* ... and its effect.
DeleteExpired ==
    /\ sweeping
    /\ \A k \in doomed : rowLock[k] = NoOne
    /\ Delete(doomed)
    /\ EndSweep
    /\ UNCHANGED <<clock, locks, request, rpc, rnow>>

\* A statement of the held sweep, which follows: the candidates are locked and
\* tested again in one statement.
DeleteExpiredHeld ==
    /\ ~sweeping
    /\ \E B \in (SUBSET ExpiredHeld(clock - HeldTTL)) \ {{}} :
          Cardinality(B) <= SweepBatch /\ Delete(B)
    /\ UNCHANGED <<clock, locks, request, rpc, rnow, sweeper>>

\* A failed statement deletes nothing.
SweepFailed ==
    /\ sweeping
    /\ EndSweep
    /\ UNCHANGED <<clock, row, locks, request, releaser>>

-----------------------------------------------------------------------------
(* The worker and the operator *)

RecordAttempt(k, d, s) ==
    /\ deliveries[k][d] = "pending"
    /\ deliveries' = [deliveries EXCEPT ![k][d] = s]
    /\ UNCHANGED <<clock, stored, content, deliverAt, createdAt, cancelledAt, heldAt,
                   locks, request, releaser, sweeper>>

Replay(k, d) ==
    /\ deliveries[k][d] = "dead"
    /\ deliveries' = [deliveries EXCEPT ![k][d] = "pending"]
    /\ replayed' = IF k \in doomed THEN replayed \cup {k} ELSE replayed
    /\ UNCHANGED <<clock, stored, content, deliverAt, createdAt, cancelledAt, heldAt,
                   locks, request, releaser, sweeping, doomed>>

Tick ==
    /\ clock < MaxTime
    /\ clock' = clock + 1
    /\ UNCHANGED <<row, locks, request, releaser, sweeper>>

-----------------------------------------------------------------------------

Start(c) ==
    \/ \E k \in Key, x \in Content, at \in DeliverAt, hold \in Hold, new \in Kind :
          Submit(c, k, x, at, hold, new)
    \/ \E k \in Key : Cancel(c, k)

Replace(c) == \E T \in (SUBSET Dest) \ {{}} : ReplaceScheduledMessage(c, T)

Serve(c) ==
    \/ ReplaceLock(c)
    \/ Replace(c)
    \/ \E new \in Kind : Refind(c, new)
    \/ LockTotal(c)
    \/ LockApp(c)
    \/ Insert(c)
    \/ \E T \in SUBSET Dest, created \in Time : CommitInsert(c, T, created)
    \/ Reselect(c)
    \/ CancelLock(c)
    \/ CancelMessage(c)

Release == ReleaseProbe \/ ReleaseLock \/ ReleaseDue

Sweep == SweepSelect \/ DeleteExpired \/ DeleteExpiredHeld

Deliver ==
    \E k \in Key, d \in Dest :
        \/ \E s \in {"delivered", "dead"} : RecordAttempt(k, d, s)
        \/ Replay(k, d)

Next ==
    \/ \E c \in Client : Start(c) \/ Serve(c) \/ Abort(c)
    \/ Release \/ ReleaseAbort
    \/ Sweep \/ SweepFailed
    \/ Deliver
    \/ Tick

Spec == Init /\ [][Next]_vars

\* Of the requests that have locked a row, one commits.
Write(k) == \E c \in Client : req[c].key = k /\ (Replace(c) \/ CancelMessage(c))

\* The loops keep running and a served request proceeds.  PostgreSQL grants a
\* contended lock in the order it was asked for, hence the strong fairness of
\* a request; the database does not fail every commit on the same row.
FairSpec ==
    /\ Spec
    /\ WF_vars(Tick)
    /\ WF_vars(Release) /\ SF_vars(ReleaseLock) /\ SF_vars(ReleaseDue)
    /\ \A c \in Client : SF_vars(Serve(c))
    /\ \A k \in Key : SF_vars(Write(k))

-----------------------------------------------------------------------------
(* Properties *)

Steps == {"idle", "replace", "write", "refind", "lock total", "lock app",
          "insert", "commit", "reselect", "cancel", "cancelling"}

RowsOK ==
    /\ clock \in Time
    /\ stored \subseteq Key
    /\ content \in [Key -> Content \cup {"none"}]
    /\ deliverAt \in [Key -> DeliverAt \cup Time \cup {Null}]
    /\ createdAt \in [Key -> Time \cup {Null}]
    /\ cancelledAt \in [Key -> Time \cup {Null}]
    /\ heldAt \in [Key -> Time \cup {Null}]
    /\ deliveries \in [Key -> [Dest -> DeliveryState \cup {"none"}]]

LocksOK ==
    /\ rowLock \in [Key -> Client \cup {NoOne, Releaser}]
    /\ inserting \in [Key -> Client \cup {NoOne}]
    /\ capLock \in [CapLock -> Client \cup {NoOne}]

RequestsOK ==
    /\ pc \in [Client -> Steps]
    /\ req \in [Client -> [key : Key \cup {"none"}, content : Content \cup {"none"},
                           at : DeliverAt \cup {Null}, hold : BOOLEAN, now : Time]]
    /\ kind \in [Client -> Kind \cup {"none"}]
    /\ tries \in [Client -> 0..MaxInsertAttempts]
    /\ \A c \in Client : pc[c] # "idle" => req[c].key \in Key

LoopsOK ==
    /\ rpc \in {"idle", "probed", "locked"} /\ rnow \in Time /\ batch \subseteq Key
    /\ sweeping \in BOOLEAN /\ doomed \subseteq Key /\ replayed \subseteq doomed
    /\ ~sweeping => doomed = {}

\* Columns, locks and requests keep their types; an insert is tried at most
\* maxInsertAttempts times.
TypeOK == RowsOK /\ LocksOK /\ RequestsOK /\ LoopsOK

\* Whatever submits, replaces, cancels and releases run at once, no app has more
\* than PerApp scheduled messages and all apps together no more than Total, and
\* so for held messages (insertOnce, insertHeldOnce: the counts and the insert
\* are atomic under the two advisory locks).
WithinCaps ==
    /\ \A app \in Apps : /\ Cardinality(Scheduled(KeysOf(app))) <= PerApp
                         /\ Cardinality(Held(KeysOf(app))) <= HeldPerApp
    /\ Cardinality(Scheduled(Key)) <= Total
    /\ Cardinality(Held(Key)) <= HeldTotal

Phase(k) ==
    CASE k \notin stored -> "absent"
      [] k \in stored /\ cancelledAt[k] # Null -> "cancelled"
      [] k \in stored /\ cancelledAt[k] = Null /\ heldAt[k] # Null -> "held"
      [] k \in stored /\ cancelledAt[k] = Null /\ heldAt[k] = Null ->
             IF HasRow(k, "scheduled") THEN "scheduled" ELSE "released"

\* A target is a delivery row; one the worker has or had in its queue was told to
\* be sent.
Targets(k) == {d \in Dest : deliveries[k][d] # "none"}
Sent(k) == {d \in Dest : deliveries[k][d] \in {"pending", "delivered", "dead"}}

\* The rows as the messages of MessageLifecycle.
Lifecycle == INSTANCE MessageLifecycle WITH
    now <- clock,
    phase <- [k \in Key |-> Phase(k)],
    due <- deliverAt,
    targets <- [k \in Key |-> Targets(k)],
    sent <- [k \in Key |-> Sent(k)],
    Times <- DeliverAt \cup Time \cup {Null}

\* Whatever requests, releases, sweeps and failures interleave, the rows of a
\* message go through the life of MessageLifecycle: all deliveries are released
\* or cancelled together, nothing is sent before the deliver_at of the content
\* that is sent, nothing after a granted cancel, and a message that is no longer
\* scheduled never changes (submitExisting, cancel, ReleaseDue, DeleteExpired).
ImplementsLifecycle == Lifecycle!Spec

\* A sweep deletes no message that still has work to do, except one replayed
\* inside the DELETE statement (the race DeleteExpired's comment accepts), and
\* none before its retention: a message that reached the worker on time stays
\* Retention long after its deliver_at, a held one HeldTTL.
SweepSparesLive ==
    [][\A k \in stored \ stored' :
          /\ HasRow(k, "pending") => k \in replayed
          /\ ~HasRow(k, "scheduled")
          /\ heldAt[k] # Null => clock - heldAt[k] > HeldTTL
          /\ heldAt[k] = Null /\ cancelledAt[k] = Null =>
                 clock - deliverAt[k] > Retention /\ clock - createdAt[k] > Retention]_vars

\* A due scheduled message does not stay scheduled: it is released, cancelled or
\* replaced, although the releaser skips locked rows and calls fail.
DueIsReleased ==
    \A k \in Key : (k \in stored /\ HasRow(k, "scheduled") /\ deliverAt[k] <= clock)
                    ~> ~(k \in stored /\ HasRow(k, "scheduled") /\ deliverAt[k] <= clock)

\* Every request ends: the advisory locks, the row lock and the wait for another
\* insert of the same key never leave submits waiting on each other.
EveryRequestEnds == \A c \in Client : (pc[c] # "idle") ~> (pc[c] = "idle")
=============================================================================
