# Formal model of the notification services

TLA+ specifications of the parts of this repository that have to be right under
concurrency, failure and time: how a message is accepted, held, scheduled, released,
delivered, retried, dead-lettered and deleted; how heartbeat checks turn silence and
failed probes into alerts; how apps get and lose their keys, tokens and destinations;
how people are provisioned; and how the watchdog reports outages.  Small instances are
checked with TLC; the properties that matter most are proved with TLAPS for every value
of the constants.

All paths below are relative to the repository; `internal/` means
`delivery-api/internal/`.

## 1. Inventory

### The system

`delivery-api` is the centre.  It accepts messages from apps over HTTP, stores them in
PostgreSQL and delivers them to destinations (webhooks, Discord, ntfy) from a worker
in the same process.  It also watches apps through heartbeat checks, exchanges OIDC
tokens of workflows for app keys, and keeps the sealed publisher token of each app.
`provisioning-api` creates ntfy users and tokens through the ntfy command line.  The
`person-service` and the `watchdog` are Cloudflare workers; `web` and `setup-web` are
user interfaces.

| Component | State it keeps | Operations | What makes it correct | Module |
|---|---|---|---|---|
| Delivery worker (`internal/dispatch/worker.go`) | rows of `message_deliveries`; per loop the claim, contexts and result | claim, resolve, send, record, disable; drain on SIGTERM | one loop per delivery at a time; an accepted delivery is not sent again; budgets hold; payloads go to their addressee | `DeliveryWorker`, `DeliveryQueue` |
| Retry policy (`internal/dispatch/policy.go`) | none | Classify, Backoff, Decide | waits bounded; retries end | `RetryPolicy` |
| Message store and service (`internal/message`) | `messages`, `message_deliveries` | submit, replace, cancel, release, replay | idempotent by key; cancelled is never sent; never early; caps hold | `MessageStore`, `MessageLifecycle` |
| Releaser, sweeper (`internal/dispatch/release.go`, `sweeper.go`) | the batch in hand | ReleaseDue, DeleteExpired, DeleteExpiredHeld | due messages are released; nothing live is deleted | `MessageStore` |
| Heartbeat (`internal/heartbeat`) | `heartbeat_checks`, `heartbeat_check_probes`, destination links | ping, pause, resume, patch, checker tick, probe | no alert lost, contradicted or false; late results are turned away | `Heartbeat` |
| App identity (`internal/appidentity`) | bindings, keys, requests, used tokens, cached signing keys | exchange, approve, reject, revoke, unbind, sweep | a token is exchanged once; keys follow the binding | `AppIdentity` |
| Registry (`internal/registry`) | destinations, routes | create, patch, rotate, delete, match | no decision outlives the row it was made for; edits merge | `Registry` |
| App teardown (`internal/appteardown`) | all rows of an app | tear down | nothing of a removed app stays | `Registry`, `Publisher` |
| Publisher (`internal/publisher`) | sealed tokens | mint, rotate, remove | the stored token is one ntfy accepts | `Publisher` |
| Key rotation (`internal/keyrotation`, `internal/seal`) | sealed columns, key ring | reseal, verify | what is sealed stays readable; no concurrent write is undone | `KeyRotation` |
| Provisioning API (`provisioning-api`) | ntfy users, in-process locks and throttle | provision, deprovision, set and reset password, delete | a stamp means a known password; who was provisioned is served | `Provisioning` |
| Person service (`person-service`) | password stamps, reset slots, app rows | claim, confirm, release | claims are unique; resets are limited | `Provisioning` |
| Watchdog (`watchdog`) | one KV document | probe, post, write | a transition is reported | `Watchdog` |
| Reset limit, migrations, sinks, transport, most of the HTTP API, helpers, web, scripts | – | – | – | see section 6 |

### How they interact

* The HTTP API calls the message service; the service writes rows; the worker, the
  releaser and the sweeper are goroutines that meet them only through PostgreSQL: row
  locks (`FOR UPDATE`, some with `SKIP LOCKED`), advisory locks, the unique
  idempotency key, and the lease, which is `next_attempt_at` moved into the future.
* The worker resolves the destination at every attempt (registry, publisher) and
  writes back to the registry after a 410.
* The heartbeat checker submits alerts through the message service like any app, under
  an idempotency key built from the check, the alert number and the destination.
* A request of an app is authenticated first, by the key that appidentity issued, and
  then handled; a teardown unbinds the app and deletes its rows while such requests may
  still be under way.
* A mint of a publisher token holds a database lock across its call to provisioning-api;
  `rotate-keys` is a second process that reseals the same column meanwhile.
* provisioning-api drives the ntfy command line and the person service, each call of
  which can fail after taking effect.
* Everything is configured by `delivery-api/main.go`, whose shutdown waits for the
  background loops.

### Which behaviours are hard

Leases measured by a clock read before the claim; a record retried after a commit whose
answer was lost; registry edits under an attempt in flight; decisions made before a row
lock and used after it; unlocked probes followed by locked updates; counts that must be
atomic with inserts; results and flushes that come late; sagas over services that have
no common transaction; restarts during all of these.  `PROJECT.json` lists each of them,
under `hazards`, at the line where it bites, with the property that would notice.

## 2. Plan

Done, in this order:

1. `DeliveryWorker` – the queue and its loops, with the registry and the process around
   them; `DeliveryWorkerProofs`.
2. `MessageStore` – the transactions on messages, releaser and sweeper.
3. `RetryPolicy` – the pure decisions, over the life of a delivery; proved in
   `PolicyWatchdogProofs`.
4. `Heartbeat` – machine, checker and prober; `HeartbeatProofs`, with the action
   properties and late results at its end.
5. `MessageLifecycle` – what the store promises, and the refinement `MessageStore`
   implements it by; `MessageStoreProofs` proves it.
6. `Provisioning` – the saga over person service and ntfy; `ProvisioningProofs`.
7. `AppIdentity` – exchange, bindings, keys with grace, replay protection and cleanup;
   `AppIdentityProofs`.
8. `KeyRotation` and `Publisher`, which extends it: the sealed rows are the tokens;
   `PublisherProofs`, about both.
9. `Registry` with routes, edits and the app's teardown; `RegistryProofs`.
10. `Watchdog`, also in `PolicyWatchdogProofs`.
11. `DeliveryQueue` – the at-least-once queue that `DeliveryWorker` implements; the
    refinement is proved at the end of `DeliveryWorkerProofs`.

Left:

* `AppIdentity` with two apps whose ids overlap, composed with the teardown of
  `Registry`, so that the key check is the identity's own;
* a store instance in which both held caps are contended.

## 3. The modules

### DeliveryWorker and DeliveryQueue

A loop of `Worker.Run` is a program counter (`pc`) with what it has in hand:
the claim (a copy of the row taken at the claim), the resolved destination, the result,
the number of record tries, and `left`, what remains of the context it runs under.
The rows of `message_deliveries` are functions from delivery to column.  Actions follow
`worker.go`: `ClaimDue`, `ResolveOk` / `ResolveDead` / `ResolveError`, `Deliver`,
`RecordAttempt`, `DisableDestination`; failures are actions of their own (`ClaimLost`,
`RecordFailed`, which may have committed, `DisableFailed`, `Panic`, `Crash`).  The
operator replays, deletes, re-creates, enables and disables; the process drains and
restarts.

Time is relative: columns and contexts hold what remains, `Tick` moves them together and
waits for a loop whose context has ended, because the call it bounds returns then.  This
keeps the state space finite without stopping the clock.  Absolute times never matter to
the code: it only compares and adds durations.

History variables record what the code does not: which id a delivery was addressed to
(`addressed`), whether its receiver accepted it (`acked`), whether an outcome was lost
(`lost`), whether an old result was written over a replayed row (`stale`), how many
sends the current budget has paid for (`made`), and who answered 410 (`goneIds`).

`DeliveryQueue` is the same queue without clocks, leases, contexts, record retries and
destinations.  A worker takes a waiting delivery nobody else has, learns whether it was
accepted, and settles it: delivered, dead, or waiting again.  A task vanishes otherwise
only by a fault, and its delivery then waits for somebody else.  `DeliveryWorker`
instantiates it (`Queue`): a loop has a task while it may still move its row (`Owns`), it
knows the outcome from the moment it starts to record, and a row that an old result was
written over (`stale`) is `overwritten`, about which nothing more is promised.
`ImplementsQueue` is what the invariants about the lease, the outcomes and the drain amount
to together: a lease that ends early is a take of a taken delivery, an accepted delivery
that is dead-lettered, or queued again without a fault, has no abstract step, and neither
has a drain that drops a task.

### MessageStore and MessageLifecycle

Store calls are READ COMMITTED transactions.  They are cut where another session can
tell: after a lock is granted, after a statement's snapshot, at the commit.  Locks are
functions to their owner.  `Submit` looks the key up, then either inserts (advisory
locks in the code's order, caps, insert, commit; on a conflict the key is selected
again, and tried again if the row has vanished) or replaces under the row lock.
`Cancel`, the releaser (unlocked probe, `SKIP LOCKED`, update) and the sweeper (subselect,
then delete) follow.  `Abort` ends any open call.  Content is a model value; `sameContent`
compares it and deliver_at.  A held message is one that resolved to nothing on a
route that holds.

`MessageLifecycle` is the same store without transactions, locks or delivery rows: a
message is absent, held, scheduled, released or cancelled, and each change of it is one
step.  `MessageStore` instantiates it (`Lifecycle`) with `Phase`, derived from the columns,
`Targets`, the deliveries a message has, and `Sent`, those the worker was ever told to
make; `ImplementsLifecycle` is the abstract specification as a property of the detailed
one.  It subsumes what would otherwise be separate invariants: a release or a cancel that
reaches only some deliveries, a send before `deliver_at` or after a cancel, content that
changes under a released message or mixes two submits, each have no abstract step.

### RetryPolicy

`Classify`, `Backoff` and `Decide` as operators, driven by one delivery that fails with
every outcome, jitter and delay, and `claimBackoff` beside it.  Durations have `Width`
bits and wrap (`Wrap`), since saturation before overflow is the point of the two loops.
The doubling loop of `Backoff` is the recursive function `ceiling`, which wraps at every
step as the code would.

### Heartbeat

`machine.go` is pure, and so are its operators: `ApplyPing`, `AdvanceTick`, `ApplyPause`,
`ApplyResume`, `ApplyProbeReset`, `ApplyProbeResult` and `emitAlert` map a row to a row.
The store applies them under the row's lock, so each application is one action; the
`now` it uses was read up to `MaxLag` earlier (`Now`).  The checker's tick takes several
steps (advance, list, one submit at a time, clear), with everything else running in
between, and so does a probe (snapshot, locked update, request, result).  A restart
forgets the tick and the probes and begins the hold-off.

A row keeps the columns the machine looks at.  `owed` records who has not had the latest
alert, `heard` when a check's clock was last restarted, `streak` the failures in a row,
`epoch` and `mixed` whether a result was applied across a pause or a new configuration.

Left out: the evaluation of a response (a result is free to be good or bad), freshness,
the owner's variants of the operations (the same actions with one more condition), the
text of alerts, and destinations that are deleted (a link then disappears with them).
The message store deduplicates alerts for as long as it retains them; the sweeper is not
part of this module.

### Provisioning

A request of provisioning-api is a program counter over its external calls: the ntfy
command line, one call at a time, and the person service, one transaction per request.
Each call may fail (`faults`), and a failed call may have taken effect.  `lock` is the
keyed lock of the person, `attempts` the throttle, `slots` the reset rows of the person
service, `store` the rows with `password_set_at`.  Operations are numbered and the
password, stamp, token or slot one creates is its number, so stamps are unique.  `known`
is the password the person was last given by an answer, `served` who was provisioned and
not taken out since, `granted` the resets that succeeded.

A call that was given up either took effect by then or never does.  The answer of the CLI
when a grant or token to be removed is not there is left open, since it is external.
Refused and invalid requests, which change nothing, are left out.  `StampMeansKnown` has
exceptions, collected in `doubt`: a lost release, a failed heal claim, a lost `update_only`
claim, a lost answer to a password change, the throwaway user of a first provision when
its creation was lost or the store is unreachable and its stamp stale, and a crash under
the lock.

### AppIdentity

An exchange is a program counter over the statements that can wait or be overtaken:
verification against the cached keys (with the fetch gate and the refetch interval), the
insert of the jti, the lock on the binding row, issue with supersede, or the request
queue under its advisory lock.  The operator's approval reads, creates the app in the people
directory (external) and then decides in a transaction; rejection, revocation, unbinding
and the sweeps are one transaction each.  `keys` are rows with their times; a superseded
key lives on for its grace.

An exchange verified in time but stalled past the replay expiry and past a sweep records
its jti anew; `spent` does not count it.  `superseded_at` uses a `now` read before the
lock is waited for.  The check for overlapping app ids and for a workflow bound to another
app are modelled but, with one app, not exercised.  `TouchKey` is not modelled.

### KeyRotation and Publisher

`KeyRotation` keeps the sealed column: a row is a plaintext and the key it is sealed under.
The server seals under its primary key; `rotate-keys` loads rows and reseals each with a
compare-and-set while the server writes; `verify-keys` reads all with the primary key
alone.  The operator drops the previous key only after `verify-keys` passed, as
`ARCHITECTURE.md:890-912` tells; the exit status of `rotate-keys` is not used.

`Publisher` extends it with the mint: a try-lock in one transaction held across the call
upstream, the two checks of the binding, provisioning-api's steps (with rotation it revokes
before it issues), sealing and commit; removal by the operator, the teardown's steps that
concern the publisher, lost connections and crashes.  Left out: the rate limits of mint and
reset, and what provisioning-api's handler still does after its caller gave up.
`StoredTokenIsLive` excepts (`excused`) tokens revoked by a rotating mint that failed
after calling the minter, which the code reports, and those a teardown deleted: what it
rules out is a revoked token stored by overlapping mints or by a reseal of an older row.

### Registry

Two tables, `dest` and `route`, written by the operator in single transactions and by the
app's requests in steps: key check, read and URL check outside any lock, then the locked
write.  A destination row carries the id, owner, type and `fields`: the webhook's URL, its
signing secret, the previous secret and the expiry of that one.  A patch names any of the
four with any value, an earlier secret or any previous secret included, and
`applyDestinationPatch` overlays the row with what it names (`Copied`, the code's
`maps.Copy`); the merged fields are validated, so the previous secret and its expiry come
together.  A rotation names all but the URL.  Its secret is any other than the current
one, which is more than a random one can be.  The app's request remembers the URL it
asked for and, of the row read before the lock, what `sameOwnedRow` compares and the
signing secret, so that a write which goes back to what was read can be told; what else
a patch names is first looked at in the lock, and chosen there.  A key that is named with the
value it has counts as not named (`Patches`), which leaves the same rows.  `written` is a
history variable: for each field, the value of the last committed write that names it.
The teardown unbinds, then deletes in one READ COMMITTED transaction of several
statements.  A row written by a request that was authenticated before the unbinding and
committed after the deletion is marked `late`.

The enabled flag and its change after a 410 are in `DeliveryWorker`.  Links from heartbeat
checks to destinations, and the deletion of the checks an app owns by its teardown, are
left out: `Heartbeat` models a check that is deleted at any time.  An ntfy destination's
topic and access token, which no property looks at, are left out too.  Route
patterns are the app's own and the wildcard.  `vetted` is what was
checked for a row or set by the operator: a patch whose URL equals the one read before the
lock skips the check, and may write back a URL the operator set and has since replaced.

### Watchdog

A cron run as steps: read the KV document, probe each target with its retry, reconcile,
post, write.  `told` is what the channel was last told of each target.  Post and write can
each fail, succeed without saying so, or be cut off (`CutOff`).  Since, detail and wording
are left out; runs do not overlap, and a KV read is never stale.

A post whose write is then lost may swallow a later transition, silently until the daily
summary, and a run that could not read the state writes the ups anew without a word;
`blind` marks both, and `ReportsSettle` says the summary makes up for it.

## 4. What TLC checks

| Run | Instance | Shows |
|---|---|---|
| `worker_lease` | two loops, one delivery, two destination ids, a replay, two faults, claim lag | `NoConcurrentSend`, `AcceptedIsKept`, `SendsWithinBudget`, `DrainFinishesAttempts`, `SentOnlyToAddressee`, `DisabledOnlyIfGone`, `ImplementsQueue` |
| `worker_live` | one loop, a delivery to an ntfy webhook and one to a recipient, with or without ntfy, a fault, fairness | `EveryDeliveryEnds` |
| `store_races` | two requests on one key, two destinations, held and scheduled messages, releaser, sweeper, worker, operator | `ImplementsLifecycle`, `SweepSparesLive` |
| `store_live` | two keys in two apps, a cap of one, failing calls, fairness | `WithinCaps`, `DueIsReleased`, `EveryRequestEnds` |
| `policy` | six attempts, the edges of every class of outcome, 8-bit durations, seven claim failures | `WaitsInBounds`, `RetriesEndInTime` |
| `heartbeat_alerts` | two push checks, two destinations of which one may fail forever, three edits, a fault, fairness | `OutboxMatchesState`, `OneKindPerAlert`, `NoAlertLost`, `NoFalseMiss`, `PendingIsFlushed`, `MissIsDetected` |
| `heartbeat_probes` | a probe check, two configurations, two probes at once, lag 1 | `ResultsAreCurrent`, `ProbeDownIsEarned` |
| `provisioning` | one person, two apps, two requests at once, three operations, a fault | `StampMeansKnown`, `ProvisionedIsServed`, `ResetsWithinLimit`, `ChosenPasswordIsKept` |
| `app_identity` | one app, two workflows, two exchanges at once, two signing keys, a queue of one | `TokenSpentOnce`, `KeysFollowBinding`, `QueueIsSound`, `FetchesAreSpaced` |
| `publisher` | two mints at once, three tokens, a rotation of the master key, teardown, crashes | `StoredTokenIsLive`, `TornDownStaysDown`, `SealedStaysReadable` |
| `registry` | one name, one route, two requests of the app, two URLs, two secrets, operator, teardown | `AppUrlIsVetted`, `ResolveDropsNothing`, `TornDownOwnsNothing`, `UpdatesAreMerged` |
| `watchdog` | two targets, three runs a day, three faults, fairness | `RecordMatchesReports`, `ReportsSettle` |

Every property has a mutant in `PROJECT.json`: a plausible slip in a definition that
models code, defined beside it in the module, under which TLC finds the property
violated.

### Known deviations

The models follow the code where it departs from what a comment says; the properties
except these cases and claim the rest.

* `record` retries `RecordAttempt` after any error.  If the first try had committed and the
  operator replays the now dead delivery before the second, the old result is written over
  the replayed row; the Store contract (`internal/message/store.go:46`) says that nothing
  is written then.  (`stale` in `DeliveryWorker`.)
* In the same way a retried record adds to `budget_attempts` twice, so a delivery may be
  dead-lettered after fewer sends than `internal/dispatch/policy.go:21` promises.
* No statement writes `released_at`.  A message released late is aged from its
  `deliver_at`, although `internal/message/pgstore.go:502-504` promises the full retention
  after its release.  (`SweepSparesLive` counts from `deliver_at`.)
* A request authenticated before an app's unbinding may write a row after the teardown's
  deletion, which `internal/appteardown/store.go:52-55` does not expect.  (`late` in
  `Registry`.)

Outcomes lost between the send and a successful record (`lost`) are what at-least-once
delivery allows.

### Bounds

Every bound is a CONSTANT marked `bound:` in its module.  Two loops and one delivery are
enough for a lease violation, which needs a second claimer; two requests per key for
every race on a row or on a key; two keys in two apps with a total cap of one for two
inserts to contend for the service-wide cap (the held caps are taken by the same actions,
and no run contends for them).  Two requests, exchanges or mints at once suffice wherever one
lock or one row is fought over; a third party (operator, teardown, sweep, crash) is always
there as well.  Timeouts are the smallest that keep the order of the real ones
(record < shortest backoff, lag < margin, attempt + record + disable < shutdown wait),
stated as assumptions.  The policy's durations have eight bits so that doubling once more
than the code does wraps.  Faults are counted because each may strike at any step: two are
enough for a fault during the handling of another.  The push checks' clock reaches the
deadline after a ping, the probe clock the third probe of a check; the lag that
`heartbeat_alerts` leaves at zero is arbitrary in the proof of `NoFalseMiss`.  Other cases
that only the proofs reach: contention for the held and the per-app caps (`CapsCorrect`),
two exchanges of one app that issue keys at once (`KeysFollow`), a reset window longer
than one tick (`ResetsLimited`), and two expiries of a previous secret (`MergedAlways`).
The clock of `provisioning` and `app_identity` passes each window, grace and expiry once.
Each module's actions all fire in its passing runs.

`policy` does not look for deadlocks: a delivery's schedule ends when it is final.
Where a clock or a counter stops at its bound the loops go on, so deadlock is checked in
all other runs.  Symmetry is used only in runs without liveness properties.

### Fairness

* Worker: weak fairness of each loop's claim and attempt (a loop polls while the process
  lives, and contexts end its calls), of exit and restart (the compose file restarts the
  container) and of time.  Faults are finite; resolve errors are not.
* Store: the loops run; a served request proceeds.  Strong fairness of `Serve(c)`, since
  PostgreSQL grants a contended lock in the order of the requests, and of the releaser's
  lock and update and of `Write(k)`, a commit on the row of one key, since the database
  does not fail every commit of the same call.
* Heartbeat: weak fairness of the checker, the prober and time.  A submit to a broken
  destination may fail at every tick.
* Watchdog: weak fairness of the run, which cron starts again.  Faults are finite.

The other modules state no liveness: their requests end when their contexts do.

## 5. What is proved

Every theorem holds for any sets of processes, rows and values, and any bound.  The named
assumptions are stated where the constants are declared, and TLC evaluates them.

`DeliveryWorkerProofs`, for any timeouts that meet the named assumptions:

* `TypeCorrect`, on which all others rest.
* `LeaseCorrect` (`NoConcurrentSend`).  The invariant says little by itself: a second
  claim needs a due row, so one must know that the row of a loop at work is not due.
  `LeaseInv` strengthens it: a loop *owns* its row while it may still write it
  (`Owns`); the row of an owner is pending, of the owner's replay and not due for longer
  than the owner can still take (`OwnerInv`, `Tenure`); there is one owner (`OneOwner`);
  a final result that was written is the row's state (`WrittenInv`); and a retry is
  due only after its writer has given up writing (`RetryInv`).  It needs
  `LagAssumption` (the claim's answer takes less than the lease margin; the code sets no
  deadline that would enforce it) and `BackoffAssumption`.
* `AcceptedCorrect` (`AcceptedIsKept`), from the same invariant, and `ClosedCorrect`
  (`FinalRowsAreClosed`): nothing but a replay changes a final row or logs an attempt
  against it.  Its part about the states is also in `ImplementsQueue`, so no run repeats it.
* `AddresseeCorrect` with `AddresseeInv`: a claim's destination id is the addressed one or
  NULL.  `DisableCorrect` with `GoneInv`: whoever is about to disable has seen the 410.
* `DrainCorrect` with `DrainInv`: what an attempt can still take is less than what is
  left of the shutdown wait (`StopAssumption`).
* `BudgetCorrect` (`SendsWithinBudget`).  `BudgetInv` adds to `LeaseInv` how far the row's
  count may be from the sends made: never behind, but for the one send of the loop whose
  claim still speaks for the row (`Unsettled`); ahead where a commit that was reported as
  failed is written again.  A retry is recorded only by an attempt that was not the last
  of its budget (`RetryLeft`), so a row that waits has a send left.
* `QueueCorrect` (`ImplementsQueue`): the worker implements `DeliveryQueue`.  A claim is a
  `Take` because the row of an owner is not due (`LeaseInv`); a record settles its own task
  because a loop that no longer owns its row finds it closed or replayed (`WrittenInv`);
  what it writes is what the receiver said, and a row is overwritten only after a replay
  (`QueueInv`); and an exit finds no task to drop (`DrainInv`).  Two levels keep the
  argument short: one lemma per abstract action says which change of `Phase` and `Task` is
  that action (`QueueTakes`, `QueueSettles`, `QueueFails`, ...), and one per group of the
  worker's actions finds the change it makes.

`MessageStoreProofs`:

* `TypeCorrect`.
* `LifecycleCorrect` (`ImplementsLifecycle`) and `SweepCorrect` (`SweepSparesLive`).  Both
  rest on one inductive invariant.  `ShapeInv`: columns and delivery rows of a message have
  one of five shapes, one per phase.  `ClientInv`: a request about to write still finds
  what it tested, because it holds the row's lock or the key of its insert; this is where
  a missing `FOR UPDATE` would fail.  `LoopInv`: the releaser's rows are locked, and what
  the sweeper has selected (`Doomed`) is finished and old enough unless replayed since.
  Each action is then shown to keep the invariant, to be a step of `MessageLifecycle` or
  to leave its view alone, and to delete only what a sweep may (`GoodStep`).
* `CapsCorrect` (`WithinCaps`), with the cardinality theorems of the library.  `CapsInv`
  says that a request between the count and the end of its transaction holds the
  service-wide advisory lock of its kind, and that at the commit there is still room
  (`UnderCaps`): every other step leaves no more rows of that kind than there were
  (`Fewer`), since whoever adds one needs the same lock.

`HeartbeatProofs`, for any lag and any number of faults:

* Lemmas about each function of the machine: it yields a well-formed row whose outbox is
  kept, withdrawn by a pause, or replaced under the next number (`Moves`).
* `TypeCorrect` and `OutboxCorrect` (`OutboxMatchesState`) from these.
* `AlertNumbersCorrect` (`OneKindPerAlert`) and `FlushCorrect` (`NoAlertLost`).  Neither
  is inductive: both depend on what a tick has listed and not yet flushed.  `ToldInv`
  treats listed and stored alerts alike: numbers only grow, one number means one thing,
  and the latest means what the outbox says.  `ListedInv` says that until a submit fails,
  whoever is still owed the alert is still to be tried.
* `MissCorrect` (`NoFalseMiss`) and `ProbeDownCorrect` (`ProbeDownIsEarned`), with
  `TimelyInv`: the anchor of a check is at most a lag behind the time it was last heard
  of, and the failure count never exceeds the failures in a row.
* `ResultsCorrect` (`ResultsAreCurrent`), with `CurrentInv`: a probe whose version is the
  row's was claimed with the row's configuration, since the last pause.

`PolicyWatchdogProofs`, about `RetryPolicy` and `Watchdog`, which share nothing but the
module.  The policy's part is about what recursion computes, so it needs induction over
numbers.  The library's induction theorems take a predicate as a parameter, which the
provers cannot instantiate; `SetInduction` says the same of a *set* of numbers (one that
contains 0 and the successor of each member contains all), and follows from the
well-foundedness of < (`LeastNumber`).  Each induction is then over a set comprehension.

* `Powers`: 2^n is a positive number and doubles with n.  The provers know nothing of ^;
  the library's theorem on the cardinality of SUBSET does.
* `CeilingDef`: the recursive function `ceiling` exists and satisfies its equation
  (`Recursion`: any step function on numbers has one, built from its finite pieces).
* `CeilingSaturates`: after any number of attempts the loop's value is the capped power of
  two and has never wrapped; `PauseSaturates` says the same of `claimBackoff`.  Both need
  `WidthAssumption`: the configured durations, and twice MaxBackoff, fit into a duration.
* `BackoffRange`: every backoff lies between half of BaseBackoff and the larger of the two
  caps, whatever the attempt, the Retry-After and the jitter source, if BaseBackoff is at
  most MaxBackoff (30 s and an hour in the code).  `DeliveryWorker` draws its backoffs from
  that range, and its `BackoffAssumption` compares the lower end with the record's deadline.
* `WaitsCorrect` (`WaitsInBounds`) and `RetriesCorrect` (`RetriesEndInTime`), inductive
  together with the types and the fact that a pending delivery has no dead reason
  (`PolicyInv`).
* `RecordCorrect` (`RecordMatchesReports`) of the watchdog, with `CarriedInv` (what a run is
  about to post and to store agree, and where the message is silent nothing has changed)
  and `PostedInv` (a run that stores has posted).

`AppIdentityProofs`, for any number of apps, tokens, exchanges and restarts, three
arguments over one type invariant (`ClaimsAssumption`: a verified token has an expiry and
a key id):

* `TypeCorrect`.
* `SpentOnce` (`TokenSpentOnce`) with `ReplayInv`: a token that was spent is in the ledger
  until it expires, no two open transactions have inserted the same jti, and one that
  inserted it in time has a token that was not spent before.
* `KeysFollow` (`KeysFollowBinding`) with `BindInv`: an exchange that issues a key holds the
  binding row it was decided by, and after its first statement no active key escapes it.
* `QueueSound` (`QueueIsSound`) with `QueueInv`: an exchange that files a request holds the
  queue's advisory lock from its checks to the insert.
* `FetchesSpaced` (`FetchesAreSpaced`, about steps) with `GateInv`: whoever fetches holds
  the gate, and between fetches the verifier remembers when the last one started.

`PublisherProofs`, about `Publisher` and the `KeyRotation` it extends, for any number of
mints and tokens.  The two halves touch only in the rows and are proved apart:

* `TypeCorrect`, `StoredTokenLive` (`StoredTokenIsLive`) and `TornDownDown`
  (`TornDownStaysDown`) with `MintInv`.  The token that the *holder of the lock* is about
  to store is accounted for (`HolderInv`); of a mint whose lock was lost with its
  connection nothing of the kind holds, and the store step needs the lock.  After a
  teardown whoever gets the lock is still before the second binding check (`DownInv`).
* `SealedReadable` (`SealedStaysReadable`) with `RotationInv`: the server's keys are in one
  of the stages of a rotation, and verify-keys can have passed only in the last two.

`RegistryProofs`, for any number of names, routes, URLs and requests:

* `TypeCorrect`.
* `UrlVetted` (`AppUrlIsVetted`) with `DecidedInv`: a patch's URL was checked for the id it
  was decided on, if a row of the app still has that id; it needs that ids are never
  used again (`RowInv`).
* `DropsNothing` (`ResolveDropsNothing`) with `LinkInv`: every link leads to a row that the
  route's pattern, taken literally, may use.
* `TornDown` (`TornDownOwnsNothing`) with `TeardownInv`: what the open transaction of the
  cascade has not seen was written late.
* `MergedAlways` (`UpdatesAreMerged`): no patch or rotation is lost to a concurrent one.
  It is inductive beside the types, once every write is seen to be an overlay of the
  stored fields by what the write names (`UpdateStep`); for a rotation this takes the
  validation of the row, without which there might be no secret to supersede
  (`RotatedRow`).

`ProvisioningProofs`, for any number of persons, apps and requests, any limits and any
number of faults:

* `TypeCorrect` (`BaseInv`): which operation is in which phase, what its request names
  there, and which phases hold the person's lock.  It carries the mutual exclusion that
  the other arguments use.  `FreshInv` adds that no two requests have one number and that
  no stamp has the number of a request which has yet to claim it.
* `StampKnown` (`StampMeansKnown`) and `PasswordKept` (`ChosenPasswordIsKept`, about steps)
  with `PasswordInv`.  The property speaks of unlocked persons only, so it says nothing
  about the steps in between; `HolderInv` says what holds under the lock, phase by phase:
  who holds a claim has the stamp, the new password is there from the call that
  applies it, and giving a claim back restores a stamp under which the old password was
  known.
* `ServedAlways` (`ProvisionedIsServed`) with `AccessInv`.  Removals take no lock until the
  last-app check, so the invariant is about who may interfere: whoever is served, and every
  provisioning not marked as raced, has no removal under way (`Untaken`); how far such a
  provisioning has come is what ntfy shows (`ProvisionInv`); and the last-app deletion
  finds no grants from its check to its delete, because every grant needs the lock
  (`RemovalInv`).
* `ResetsLimited` (`ResetsWithinLimit`) with `ResetInv` and the cardinality theorems of the
  library.  It counts every slot that was claimed and not given back, whether its reset
  succeeded or not, at every instant; a granted slot that is still in the window is in the
  table, and no open request can release it, since its number is taken.

The assumptions `KeyAssumption`, `MintAssumption`, `AppAssumption` and `NoneAssumption` say
only that the model's marks for "none", the operator and the wildcard are not mistaken
for a key, a request, an app, a row or a field's value.

Only model-checked: liveness with its fairness (`EveryDeliveryEnds`, `DueIsReleased`,
`EveryRequestEnds`, `PendingIsFlushed`, `MissIsDetected`, `ReportsSettle`), which is out of
the prover's reach.  Every safety property and both refinements are proved.

## 6. What is not modelled

`PROJECT.json` lists every component with its status.

* Reset limit of delivery-api: one short transaction under one advisory lock per app, with
  no step another could come between; the limit behind it, in the person service, is in
  `Provisioning`.
* Migrations: a start-up step, in order, under one lock; nothing modelled runs beside it.
* Sinks and transport: network I/O.  The worker and the prober see an outcome, which the
  models leave free; so is the verdict of the URL check.
* HTTP routing, decoding and rendering; validation of names and envelopes; lists and
  status reads, and the long poll of await: they change no state.
* Cryptography: a token is valid or not, a sealed value opens under its key.
* User interfaces, scripts, deployment, the parsing of the ntfy command line, the test
  notification and the credential switch of provisioning-api: no state that these
  properties depend on.

## 7. Running

    tlc -workers 2 -config worker_lease.cfg MCDeliveryWorker
    tlapm MessageStoreProofs.tla

Each run in `PROJECT.json` names its module and configuration; each takes less than five
minutes, each proof module a few.
