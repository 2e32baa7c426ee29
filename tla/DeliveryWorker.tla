--------------------------- MODULE DeliveryWorker ---------------------------
(***************************************************************************)
(* The delivery queue and the worker that drains it                        *)
(* (delivery-api/internal/dispatch/worker.go over message/pgstore.go):     *)
(* Concurrency claim loops lease due rows of message_deliveries, resolve   *)
(* the destination again, send, record the attempt and, after a 410,       *)
(* disable the destination.  The operator replays dead deliveries and      *)
(* edits the registry meanwhile; the process crashes, drains on SIGTERM    *)
(* and restarts; a database call can fail, or commit and still report an   *)
(* error.                                                                  *)
(*                                                                         *)
(* Time is relative.  nextIn[d] is next_attempt_at - now, budgetAge[d] is  *)
(* now - budget_started_at, left[w] what remains of the context worker w   *)
(* runs under, grace what remains of the shutdown wait.  Tick moves them   *)
(* together.  It waits for a worker whose deadline has come, because a Go  *)
(* context ends the call it bounds.                                        *)
(***************************************************************************)
EXTENDS Integers

CONSTANTS
    Worker,             \* the claim loops (WorkerConfig.Concurrency of them)
    Delivery,           \* rows of message_deliveries; integers, their id column
    Name,               \* names of registry destinations
    Recipient,          \* the synthetic name of a to.recipient delivery
    NtfyNames,          \* the destinations of type ntfy
    DestName,           \* destination_name of each delivery
    NtfyConfigs,        \* is ntfy configured? the answers a start may find
    ConfiguredLease,    \* WorkerConfig.Lease, before NewWorker raises it
    AttemptTimeout, RecordTimeout, DisableTimeout, LeaseMargin,
    MaxClaimLag,        \* bound: clock read -> ClaimDue answered
    StopTimeout,        \* backgroundStopTimeout
    BaseBackoff, MaxBackoff, MaxBudgetAttempts, MaxBudgetAge,
    RecordAttempts,     \* recordAttempts
    MaxOverdue,         \* bound: how late a due row can be told to be
    MaxIds,             \* bound: destination ids ever handed out
    MaxReplays,         \* bound: operator replays of one delivery
    MaxFaults           \* bound: crashes, restarts, panics, database errors

NoWork == -1            \* held by an idle loop; ids are positive
NullId == 0             \* SQL NULL, and the ID of a recipient destination
MinBackoff == BaseBackoff \div 2

ASSUME NamesAssumption ==
    /\ Delivery \subseteq Nat
    /\ Recipient \notin Name
    /\ NtfyNames \subseteq Name
    /\ DestName \in [Delivery -> Name \cup {Recipient}]
    /\ NtfyConfigs \subseteq BOOLEAN

ASSUME TimesAssumption ==
    /\ ConfiguredLease \in Nat /\ AttemptTimeout \in Nat
    /\ RecordTimeout \in Nat /\ DisableTimeout \in Nat
    /\ LeaseMargin \in Nat /\ MaxClaimLag \in Nat
    /\ StopTimeout \in Nat /\ MaxOverdue \in Nat
    /\ BaseBackoff \in Nat /\ MaxBackoff \in Nat
    /\ MaxBudgetAttempts \in Nat \ {0} /\ MaxBudgetAge \in Nat
    /\ RecordAttempts \in Nat \ {0}
    /\ MaxIds \in Nat /\ MaxReplays \in Nat /\ MaxFaults \in Nat

\* The claim's clock is read before the call, so the lease has partly run when
\* process starts; leaseMargin is what the code allows for it.
ASSUME LagAssumption == MaxClaimLag < LeaseMargin /\ MaxClaimLag <= MaxOverdue

\* BaseBackoff/2 = 15 s is the shortest backoff, recordTimeout 5 s.
ASSUME BackoffAssumption == RecordTimeout < MinBackoff /\ MinBackoff <= MaxBackoff

\* backgroundStopTimeout = MaxInFlightShutdown + backgroundStopMargin.
ASSUME StopAssumption ==
    AttemptTimeout + RecordTimeout + DisableTimeout < StopTimeout

VARIABLES
    \* message_deliveries
    state, deadReason, destinationId, attemptCount, budgetAttempts,
    budgetAge, nextIn, replays,
    \* destinations, and the recipient deliveries whose app has a publisher
    destId, enabled, disabledReason, nextId, publisher,
    \* claim loops
    pc, held, left, claim, target, result, tries, written,
    \* process
    proc, grace, ntfy, faults,
    \* history
    addressed, acked, lost, stale, made, goneIds

rowVars == <<state, deadReason, destinationId, attemptCount, budgetAttempts,
             budgetAge, nextIn, replays>>
regVars == <<destId, enabled, disabledReason, nextId, publisher>>
loopVars == <<pc, held, left, claim, target, result, tries, written>>
procVars == <<proc, grace, ntfy, faults>>
history == <<addressed, acked, lost, stale, made, goneIds>>
vars == <<rowVars, regVars, loopVars, procVars, history>>

-----------------------------------------------------------------------------
States == {"absent", "pending", "delivered", "dead"}
Outcomes == {"success", "gone", "blocked", "retryable", "terminal"}
Reasons == {"none", "gone", "blocked_address", "terminal_status",
            "budget_exhausted", "destination_deleted",
            "destination_disabled", "no_publisher", "unsupported_type"}
Busy == {"resolve", "send", "record", "disable"}

\* NewWorker: a lease below the floor is raised to it.
LeaseFloor == AttemptTimeout + RecordTimeout + DisableTimeout + LeaseMargin
LeaseAsConfigured == ConfiguredLease      \* mutant: trusted, not raised
Lease == IF ConfiguredLease < LeaseFloor THEN LeaseFloor ELSE ConfiguredLease

NoClaim == [id |-> NullId, budget |-> 0, age |-> 0, replay |-> 0]
NoResult == [outcome |-> "none", next |-> "none", reason |-> "none", due |-> 0]

IsRecipient(d) == DestName[d] = Recipient
Cap(n, bound) == IF n < bound THEN n ELSE bound

Init ==
    /\ state = [d \in Delivery |-> "absent"]
    /\ deadReason = [d \in Delivery |-> "none"]
    /\ destinationId = [d \in Delivery |-> NullId]
    /\ attemptCount = [d \in Delivery |-> 0]
    /\ budgetAttempts = [d \in Delivery |-> 0]
    /\ budgetAge = [d \in Delivery |-> 0]
    /\ nextIn = [d \in Delivery |-> 0]
    /\ replays = [d \in Delivery |-> 0]
    /\ destId = [n \in Name |-> NullId]
    /\ enabled = [n \in Name |-> FALSE]
    /\ disabledReason = [n \in Name |-> FALSE]
    /\ nextId = 1
    /\ publisher = {}
    /\ pc = [w \in Worker |-> "idle"]
    /\ held = [w \in Worker |-> NoWork]
    /\ left = [w \in Worker |-> 0]
    /\ claim = [w \in Worker |-> NoClaim]
    /\ target = [w \in Worker |-> NullId]
    /\ result = [w \in Worker |-> NoResult]
    /\ tries = [w \in Worker |-> 0]
    /\ written = [w \in Worker |-> FALSE]
    /\ proc = "up"
    /\ grace = 0
    /\ ntfy \in NtfyConfigs
    /\ faults = 0
    /\ addressed = [d \in Delivery |-> NullId]
    /\ acked = [d \in Delivery |-> FALSE]
    /\ lost = [d \in Delivery |-> FALSE]
    /\ stale = [d \in Delivery |-> FALSE]
    /\ made = [d \in Delivery |-> 0]
    /\ goneIds = {}

-----------------------------------------------------------------------------
(* The queue                                                               *)

\* Submit inserts a pending row, due now.  It resolved the destination in an
\* earlier statement, so the destination exists (foreign key) but need not be
\* enabled any more.
Enqueue(d) ==
    /\ state[d] = "absent"
    /\ ~IsRecipient(d) => destId[DestName[d]] # NullId
    /\ LET id == IF IsRecipient(d) THEN NullId ELSE destId[DestName[d]] IN
       /\ destinationId' = [destinationId EXCEPT ![d] = id]
       /\ addressed' = [addressed EXCEPT ![d] = id]
    /\ state' = [state EXCEPT ![d] = "pending"]
    /\ nextIn' = [nextIn EXCEPT ![d] = 0]
    /\ budgetAge' = [budgetAge EXCEPT ![d] = 0]
    /\ UNCHANGED <<deadReason, attemptCount, budgetAttempts, replays, regVars,
                   loopVars, procVars, acked, lost, stale, made, goneIds>>

\* ORDER BY next_attempt_at, id
Before(c, d) ==
    \/ nextIn[c] < nextIn[d]
    \/ nextIn[c] = nextIn[d] /\ c < d

\* The row ClaimDue's SELECT returns for a clock read lag ticks ago.
Claimable(d, lag) ==
    /\ state[d] = "pending"
    /\ nextIn[d] + lag <= 0
    /\ \A c \in Delivery \ {d} : state[c] = "pending" => ~Before(c, d)

\* mutant: the canceled context does not stop the loop from claiming
ClaimWhileDraining(w, d, lag) ==
    /\ proc # "down"
    /\ pc[w] = "idle"
    /\ Claimable(d, lag)
    /\ nextIn' = [nextIn EXCEPT ![d] = Lease - lag]
    /\ pc' = [pc EXCEPT ![w] = "resolve"]
    /\ held' = [held EXCEPT ![w] = d]
    /\ left' = [left EXCEPT ![w] = AttemptTimeout]
    /\ claim' = [claim EXCEPT ![w] =
                    [id |-> destinationId[d], budget |-> budgetAttempts[d],
                     age |-> budgetAge[d], replay |-> replays[d]]]
    /\ UNCHANGED <<state, deadReason, destinationId, attemptCount,
                   budgetAttempts, budgetAge, replays, regVars, target,
                   result, tries, written, procVars, history>>

\* ClaimDue, answered: the row is leased until (clock read) + lease and the
\* loop enters process, which starts the attempt context.
ClaimDue(w, d, lag) ==
    /\ proc = "up"
    /\ pc[w] = "idle"
    /\ Claimable(d, lag)
    /\ nextIn' = [nextIn EXCEPT ![d] = Lease - lag]
    /\ pc' = [pc EXCEPT ![w] = "resolve"]
    /\ held' = [held EXCEPT ![w] = d]
    /\ left' = [left EXCEPT ![w] = AttemptTimeout]
    /\ claim' = [claim EXCEPT ![w] =
                    [id |-> destinationId[d], budget |-> budgetAttempts[d],
                     age |-> budgetAge[d], replay |-> replays[d]]]
    /\ UNCHANGED <<state, deadReason, destinationId, attemptCount,
                   budgetAttempts, budgetAge, replays, regVars, target,
                   result, tries, written, procVars, history>>

\* ClaimDue committed but the loop saw an error (or its context was canceled):
\* the row is leased to nobody.
ClaimLost(d, lag) ==
    /\ proc # "down"
    /\ faults < MaxFaults
    /\ Claimable(d, lag)
    /\ nextIn' = [nextIn EXCEPT ![d] = Lease - lag]
    /\ faults' = faults + 1
    /\ UNCHANGED <<state, deadReason, destinationId, attemptCount,
                   budgetAttempts, budgetAge, replays, regVars, loopVars,
                   proc, grace, ntfy, history>>

-----------------------------------------------------------------------------
(* process: resolve, send, record, disable                                 *)

\* The loop is done with its claim.
BackToLoop(w) ==
    /\ pc' = [pc EXCEPT ![w] = "idle"]
    /\ held' = [held EXCEPT ![w] = NoWork]
    /\ left' = [left EXCEPT ![w] = 0]
    /\ claim' = [claim EXCEPT ![w] = NoClaim]
    /\ target' = [target EXCEPT ![w] = NullId]
    /\ result' = [result EXCEPT ![w] = NoResult]
    /\ tries' = [tries EXCEPT ![w] = 0]
    /\ written' = [written EXCEPT ![w] = FALSE]

\* record: its own context, and the attempt's result to write.
StartRecord(w, r) ==
    /\ pc' = [pc EXCEPT ![w] = "record"]
    /\ left' = [left EXCEPT ![w] = RecordTimeout]
    /\ result' = [result EXCEPT ![w] = r]
    /\ tries' = [tries EXCEPT ![w] = 0]
    /\ written' = [written EXCEPT ![w] = FALSE]
    /\ UNCHANGED <<held, claim>>

DeadResult(outcome, reason) ==
    [outcome |-> outcome, next |-> "dead", reason |-> reason, due |-> 0]

\* recordNeverSent: dead-letter without a send.
RecordNeverSent(w, reason) ==
    /\ StartRecord(w, DeadResult("terminal", reason))
    /\ UNCHANGED <<target, rowVars, regVars, procVars, history>>

\* mutant: resolved by name alone
ResolutionByName(w) ==
    LET n == DestName[held[w]] IN
    CASE IsRecipient(held[w]) -> "none"
      [] ~IsRecipient(held[w]) /\ destId[n] = NullId -> "destination_deleted"
      [] ~IsRecipient(held[w]) /\ destId[n] # NullId ->
           IF enabled[n] THEN "none" ELSE "destination_disabled"

\* resolveNamed, then the check that the name still means the destination the
\* delivery was addressed to; resolveRecipient for a to.recipient delivery;
\* then the sink lookup.  "none": it can be sent.
Resolution(w) ==
    LET d == held[w]
        n == DestName[d]
        found == destId[n] # NullId
        same == claim[w].id = destId[n] IN
    IF IsRecipient(d)
    THEN IF ntfy /\ d \in publisher THEN "none" ELSE "no_publisher"
    ELSE CASE ~found -> "destination_deleted"
           [] found /\ ~enabled[n] -> "destination_disabled"
           [] found /\ enabled[n] /\ ~same -> "destination_deleted"
           [] found /\ enabled[n] /\ same ->
                IF n \in NtfyNames /\ ~ntfy THEN "unsupported_type" ELSE "none"

\* The destination resolves: the send begins, under the same context.
ResolveOk(w) ==
    /\ pc[w] = "resolve"
    /\ Resolution(w) = "none"
    /\ LET d == held[w] IN
       /\ target' = [target EXCEPT ![w] =
                        IF IsRecipient(d) THEN NullId ELSE destId[DestName[d]]]
       /\ made' = [made EXCEPT ![d] = Cap(@ + 1, MaxBudgetAttempts + 1)]
    /\ pc' = [pc EXCEPT ![w] = "send"]
    /\ UNCHANGED <<rowVars, regVars, held, left, claim, result, tries, written,
                   procVars, addressed, acked, lost, stale, goneIds>>

\* The destination is known to be unusable.
ResolveDead(w) ==
    /\ pc[w] = "resolve"
    /\ Resolution(w) # "none"
    /\ RecordNeverSent(w, Resolution(w))

\* mutant: an unresolvable delivery is always left to its lease
ResolveErrorForever(w) ==
    /\ pc[w] = "resolve"
    /\ BackToLoop(w)
    /\ UNCHANGED <<rowVars, regVars, procVars, history>>

\* The state is unknown (a database, unseal or token error): with the budget's
\* age spent the delivery is dead-lettered, otherwise nothing is written and
\* the lease runs out.
ResolveError(w) ==
    /\ pc[w] = "resolve"
    /\ IF claim[w].age >= MaxBudgetAge
       THEN RecordNeverSent(w, "budget_exhausted")
       ELSE /\ BackToLoop(w)
            /\ UNCHANGED <<rowVars, regVars, procVars, history>>

\* mutant: the attempt being decided is not counted against the budget
DecideLate(c, outcome, backoff) ==
    CASE outcome = "success" ->
           [outcome |-> outcome, next |-> "delivered", reason |-> "none", due |-> 0]
      [] outcome = "gone" -> DeadResult(outcome, "gone")
      [] outcome = "blocked" -> DeadResult(outcome, "blocked_address")
      [] outcome = "terminal" -> DeadResult(outcome, "terminal_status")
      [] outcome = "retryable" ->
           IF c.budget >= MaxBudgetAttempts \/ c.age >= MaxBudgetAge
           THEN DeadResult(outcome, "budget_exhausted")
           ELSE [outcome |-> outcome, next |-> "pending", reason |-> "none",
                 due |-> backoff]

\* mutant: the budget is looked at before the outcome
DecideBudgetFirst(c, outcome, backoff) ==
    IF c.budget >= MaxBudgetAttempts - 1 \/ c.age >= MaxBudgetAge
    THEN DeadResult(outcome, "budget_exhausted")
    ELSE DecideLate(c, outcome, backoff)

\* Decide: the claim's snapshot of the budget, the sink's outcome and a backoff.
Decide(c, outcome, backoff) ==
    CASE outcome = "success" ->
           [outcome |-> outcome, next |-> "delivered", reason |-> "none", due |-> 0]
      [] outcome = "gone" -> DeadResult(outcome, "gone")
      [] outcome = "blocked" -> DeadResult(outcome, "blocked_address")
      [] outcome = "terminal" -> DeadResult(outcome, "terminal_status")
      [] outcome = "retryable" ->
           IF c.budget >= MaxBudgetAttempts - 1 \/ c.age >= MaxBudgetAge
           THEN DeadResult(outcome, "budget_exhausted")
           ELSE [outcome |-> outcome, next |-> "pending", reason |-> "none",
                 due |-> backoff]

\* The sink answered, failed, panicked or ran into the attempt's deadline.
Deliver(w, outcome, backoff) ==
    /\ pc[w] = "send"
    /\ LET d == held[w] IN
       /\ StartRecord(w, Decide(claim[w], outcome, backoff))
       /\ acked' = [acked EXCEPT ![d] = @ \/ outcome = "success"]
       /\ goneIds' = IF outcome = "gone" THEN goneIds \cup {target[w]} ELSE goneIds
    /\ UNCHANGED <<rowVars, regVars, target, procVars, addressed, lost, stale, made>>

\* RecordAttempt's transaction: a row that is no longer pending is left alone.
\* Nothing ties the write to the claim it belongs to.
WriteAttempt(w) ==
    LET d == held[w]
        r == result[w] IN
    IF state[d] # "pending"
    THEN UNCHANGED <<rowVars, stale>>
    ELSE /\ state' = [state EXCEPT ![d] = r.next]
         /\ deadReason' = [deadReason EXCEPT ![d] = r.reason]
         /\ attemptCount' = [attemptCount EXCEPT ![d] = @ + 1]
         /\ budgetAttempts' = [budgetAttempts EXCEPT ![d] = @ + 1]
         /\ nextIn' = [nextIn EXCEPT ![d] = IF r.next = "pending" THEN r.due ELSE @]
         /\ stale' = [stale EXCEPT ![d] = @ \/ claim[w].replay # replays[d]]
         /\ UNCHANGED <<destinationId, budgetAge, replays>>

\* After record returns: a 410 of a registry destination disables it, on a
\* context of its own; everything else ends the attempt.
AfterRecord(w) ==
    IF result[w].outcome = "gone" /\ ~IsRecipient(held[w])
    THEN /\ pc' = [pc EXCEPT ![w] = "disable"]
         /\ left' = [left EXCEPT ![w] = DisableTimeout]
         /\ UNCHANGED <<held, claim, target, result, tries, written>>
    ELSE BackToLoop(w)

RecordAttempt(w) ==
    /\ pc[w] = "record"
    /\ WriteAttempt(w)
    /\ AfterRecord(w)
    /\ UNCHANGED <<regVars, procVars, addressed, acked, lost, made, goneIds>>

\* A try that reported an error; committed says whether the transaction took
\* effect all the same.  record tries again until recordAttempts or its
\* deadline, then gives the outcome up.
RecordFailed(w, committed) ==
    /\ pc[w] = "record"
    /\ faults < MaxFaults
    /\ faults' = faults + 1
    /\ IF committed THEN WriteAttempt(w) ELSE UNCHANGED <<rowVars, stale>>
    /\ LET known == written[w] \/ committed
           again == tries[w] + 1 < RecordAttempts /\ left[w] > 0 IN
       IF again
       THEN /\ tries' = [tries EXCEPT ![w] = @ + 1]
            /\ written' = [written EXCEPT ![w] = known]
            /\ UNCHANGED <<pc, held, left, claim, target, result, lost>>
       ELSE /\ lost' = [lost EXCEPT ![held[w]] = @ \/ ~known]
            /\ AfterRecord(w)
    /\ UNCHANGED <<regVars, proc, grace, ntfy, addressed, acked, made, goneIds>>

\* mutant: whatever has the name now is disabled
DisableByName(w) ==
    /\ pc[w] = "disable"
    /\ LET n == DestName[held[w]] IN
       IF destId[n] # NullId
       THEN /\ enabled' = [enabled EXCEPT ![n] = FALSE]
            /\ disabledReason' = [disabledReason EXCEPT ![n] = TRUE]
       ELSE UNCHANGED <<enabled, disabledReason>>
    /\ BackToLoop(w)
    /\ UNCHANGED <<rowVars, destId, nextId, publisher, procVars, history>>

\* disableDestination: under the row's lock, only while the ID still matches.
DisableDestination(w) ==
    /\ pc[w] = "disable"
    /\ LET n == DestName[held[w]] IN
       IF destId[n] # NullId /\ destId[n] = target[w]
       THEN /\ enabled' = [enabled EXCEPT ![n] = FALSE]
            /\ disabledReason' = [disabledReason EXCEPT ![n] = TRUE]
       ELSE UNCHANGED <<enabled, disabledReason>>
    /\ BackToLoop(w)
    /\ UNCHANGED <<rowVars, destId, nextId, publisher, procVars, history>>

\* DisableDestination failed or timed out: logged, otherwise ignored.
DisableFailed(w) ==
    /\ pc[w] = "disable"
    /\ faults < MaxFaults
    /\ faults' = faults + 1
    /\ BackToLoop(w)
    /\ UNCHANGED <<rowVars, regVars, proc, grace, ntfy, history>>

\* Whatever a loop had not written is lost with it.
Unwritten(w, d) ==
    /\ held[w] = d
    /\ pc[w] = "send" \/ (pc[w] = "record" /\ ~written[w])

\* processGuarded: a panic outside the sink ends the attempt, not the loop.
Panic(w) ==
    /\ pc[w] \in Busy
    /\ faults < MaxFaults
    /\ faults' = faults + 1
    /\ lost' = [d \in Delivery |-> lost[d] \/ Unwritten(w, d)]
    /\ BackToLoop(w)
    /\ UNCHANGED <<rowVars, regVars, proc, grace, ntfy, addressed, acked, stale,
                   made, goneIds>>

-----------------------------------------------------------------------------
(* The operator                                                            *)

\* Replay: a dead delivery goes back to the queue with a fresh budget.
Replay(d) ==
    /\ proc # "down"
    /\ state[d] = "dead"
    /\ replays[d] < MaxReplays
    /\ state' = [state EXCEPT ![d] = "pending"]
    /\ deadReason' = [deadReason EXCEPT ![d] = "none"]
    /\ budgetAttempts' = [budgetAttempts EXCEPT ![d] = 0]
    /\ budgetAge' = [budgetAge EXCEPT ![d] = 0]
    /\ nextIn' = [nextIn EXCEPT ![d] = 0]
    /\ replays' = [replays EXCEPT ![d] = @ + 1]
    /\ made' = [made EXCEPT ![d] = 0]
    /\ UNCHANGED <<destinationId, attemptCount, regVars, loopVars, procVars,
                   addressed, acked, lost, stale, goneIds>>

\* InsertDestination: a fresh id, also for a name used before.
CreateDestination(n) ==
    /\ proc # "down"
    /\ destId[n] = NullId
    /\ nextId <= MaxIds
    /\ destId' = [destId EXCEPT ![n] = nextId]
    /\ enabled' = [enabled EXCEPT ![n] = TRUE]
    /\ disabledReason' = [disabledReason EXCEPT ![n] = FALSE]
    /\ nextId' = nextId + 1
    /\ UNCHANGED <<rowVars, publisher, loopVars, procVars, history>>

\* DeleteDestination; message_deliveries.destination_id is ON DELETE SET NULL.
DeleteDestination(n) ==
    /\ proc # "down"
    /\ destId[n] # NullId
    /\ destinationId' = [d \in Delivery |->
                            IF destinationId[d] = destId[n] THEN NullId
                            ELSE destinationId[d]]
    /\ destId' = [destId EXCEPT ![n] = NullId]
    /\ enabled' = [enabled EXCEPT ![n] = FALSE]
    /\ disabledReason' = [disabledReason EXCEPT ![n] = FALSE]
    /\ UNCHANGED <<state, deadReason, attemptCount, budgetAttempts, budgetAge,
                   nextIn, replays, nextId, publisher, loopVars, procVars, history>>

\* applyDestinationPatch: enabling clears the disabled reason.
PatchEnabled(n, on) ==
    /\ proc # "down"
    /\ destId[n] # NullId
    /\ enabled' = [enabled EXCEPT ![n] = on]
    /\ disabledReason' = [disabledReason EXCEPT ![n] = @ /\ ~on]
    /\ UNCHANGED <<rowVars, destId, nextId, publisher, loopVars, procVars, history>>

\* The ntfy publisher of the app of a recipient delivery is minted or removed.
SetPublisher(d) ==
    /\ proc # "down"
    /\ IsRecipient(d)
    /\ publisher' = IF d \in publisher THEN publisher \ {d} ELSE publisher \cup {d}
    /\ UNCHANGED <<rowVars, destId, enabled, disabledReason, nextId, loopVars,
                   procVars, history>>

-----------------------------------------------------------------------------
(* The process and time                                                    *)

\* Every goroutine is gone.
AllLoopsStop ==
    /\ pc' = [w \in Worker |-> "idle"]
    /\ held' = [w \in Worker |-> NoWork]
    /\ left' = [w \in Worker |-> 0]
    /\ claim' = [w \in Worker |-> NoClaim]
    /\ target' = [w \in Worker |-> NullId]
    /\ result' = [w \in Worker |-> NoResult]
    /\ tries' = [w \in Worker |-> 0]
    /\ written' = [w \in Worker |-> FALSE]
    /\ lost' = [d \in Delivery |-> lost[d] \/ \E w \in Worker : Unwritten(w, d)]
    /\ proc' = "down"
    /\ grace' = 0
    /\ UNCHANGED <<rowVars, regVars, ntfy, addressed, acked, stale, made, goneIds>>

Crash ==
    /\ proc # "down"
    /\ faults < MaxFaults
    /\ faults' = faults + 1
    /\ AllLoopsStop

\* SIGTERM cancels the background context at once: no loop claims any more.
Sigterm ==
    /\ proc = "up"
    /\ faults < MaxFaults
    /\ faults' = faults + 1
    /\ proc' = "draining"
    /\ grace' = StopTimeout
    /\ UNCHANGED <<rowVars, regVars, loopVars, ntfy, history>>

\* backgroundTasks.stop: every loop has returned, or the wait is over.
Exit ==
    /\ proc = "draining"
    /\ grace = 0 \/ \A w \in Worker : pc[w] = "idle"
    /\ AllLoopsStop
    /\ UNCHANGED faults

\* The ntfy sink and the recipient resolver exist only when ntfy is configured.
Restart ==
    /\ proc = "down"
    /\ proc' = "up"
    /\ ntfy' \in NtfyConfigs
    /\ UNCHANGED <<rowVars, regVars, loopVars, grace, faults, history>>

Down1(n) == IF n > 0 THEN n - 1 ELSE 0

Tick ==
    /\ \A w \in Worker : pc[w] \in Busy => left[w] > 0
    /\ proc = "draining" => grace > 0
    /\ nextIn' = [d \in Delivery |-> IF nextIn[d] > -MaxOverdue
                                     THEN nextIn[d] - 1 ELSE nextIn[d]]
    /\ budgetAge' = [d \in Delivery |-> Cap(budgetAge[d] + 1, MaxBudgetAge)]
    /\ left' = [w \in Worker |-> Down1(left[w])]
    /\ claim' = [w \in Worker |->
                   IF pc[w] = "idle" THEN claim[w]
                   ELSE [claim[w] EXCEPT !.age = Cap(@ + 1, MaxBudgetAge)]]
    /\ result' = [w \in Worker |-> [result[w] EXCEPT !.due = Down1(@)]]
    /\ grace' = Down1(grace)
    /\ UNCHANGED <<state, deadReason, destinationId, attemptCount, budgetAttempts,
                   replays, regVars, pc, held, target, tries, written, proc, ntfy,
                   faults, history>>

-----------------------------------------------------------------------------
\* One step of process for worker w, faults aside.
Attempt(w) ==
    \/ ResolveOk(w) \/ ResolveDead(w) \/ ResolveError(w)
    \/ \E outcome \in Outcomes, backoff \in MinBackoff..MaxBackoff :
          Deliver(w, outcome, backoff)
    \/ RecordAttempt(w)
    \/ DisableDestination(w)

Claim(w) == \E d \in Delivery, lag \in 0..MaxClaimLag : ClaimDue(w, d, lag)

Fault ==
    \/ \E w \in Worker : Panic(w) \/ DisableFailed(w)
    \/ \E w \in Worker, committed \in BOOLEAN : RecordFailed(w, committed)
    \/ \E d \in Delivery, lag \in 0..MaxClaimLag : ClaimLost(d, lag)
    \/ Crash \/ Sigterm

Operator ==
    \/ \E d \in Delivery : Enqueue(d) \/ Replay(d) \/ SetPublisher(d)
    \/ \E n \in Name : CreateDestination(n) \/ DeleteDestination(n)
    \/ \E n \in Name, on \in BOOLEAN : PatchEnabled(n, on)

Next ==
    \/ \E w \in Worker : Claim(w) \/ Attempt(w)
    \/ Fault \/ Operator
    \/ Exit \/ Restart \/ Tick

Spec == Init /\ [][Next]_vars

(* Fairness.  A loop whose process is alive keeps polling and its calls     *)
(* return by their deadlines; the compose file restarts the container; the *)
(* clock advances.  Faults are not fair and, being counted, finitely many; *)
(* resolve errors are an outcome of Attempt and may go on forever.         *)
FairSpec ==
    /\ Spec
    /\ \A w \in Worker : WF_vars(Claim(w)) /\ WF_vars(Attempt(w))
    /\ WF_vars(Exit) /\ WF_vars(Restart) /\ WF_vars(Tick)

-----------------------------------------------------------------------------
(* Properties                                                              *)

ClaimType == [id : 0..MaxIds, budget : Nat, age : 0..MaxBudgetAge, replay : 0..MaxReplays]
ResultType == [outcome : Outcomes \cup {"none"}, next : {"pending", "delivered", "dead", "none"},
               reason : Reasons, due : 0..MaxBackoff]

RowsOK ==
    /\ state \in [Delivery -> States]
    /\ deadReason \in [Delivery -> Reasons]
    /\ destinationId \in [Delivery -> 0..MaxIds]
    /\ attemptCount \in [Delivery -> Nat]
    /\ budgetAttempts \in [Delivery -> Nat]
    /\ budgetAge \in [Delivery -> 0..MaxBudgetAge]
    /\ nextIn \in [Delivery -> Int]
    /\ replays \in [Delivery -> 0..MaxReplays]

RegistryOK ==
    /\ destId \in [Name -> 0..MaxIds]
    /\ enabled \in [Name -> BOOLEAN]
    /\ disabledReason \in [Name -> BOOLEAN]
    /\ nextId \in 1..MaxIds + 1
    /\ publisher \subseteq Delivery

LoopsOK ==
    /\ pc \in [Worker -> Busy \cup {"idle"}]
    /\ held \in [Worker -> Delivery \cup {NoWork}]
    /\ \A w \in Worker : pc[w] = "idle" <=> held[w] = NoWork
    /\ \A w \in Worker : pc[w] = "record" => result[w].next # "none"
    /\ left \in [Worker -> Nat]
    /\ claim \in [Worker -> ClaimType]
    /\ target \in [Worker -> 0..MaxIds]
    /\ result \in [Worker -> ResultType]
    /\ tries \in [Worker -> 0..RecordAttempts - 1]
    /\ written \in [Worker -> BOOLEAN]

ProcessOK ==
    /\ proc \in {"up", "draining", "down"}
    /\ grace \in 0..StopTimeout
    /\ ntfy \in BOOLEAN
    /\ faults \in 0..MaxFaults

HistoryOK ==
    /\ addressed \in [Delivery -> 0..MaxIds]
    /\ acked \in [Delivery -> BOOLEAN]
    /\ lost \in [Delivery -> BOOLEAN]
    /\ stale \in [Delivery -> BOOLEAN]
    /\ made \in [Delivery -> Nat]
    /\ goneIds \subseteq 0..MaxIds

\* Every column, context and flag keeps its type and its range; a loop holds a
\* delivery exactly while it is processing one, and record stops retrying at
\* recordAttempts.
TypeOK == RowsOK /\ RegistryOK /\ LoopsOK /\ ProcessOK /\ HistoryOK

Sending(w, d) == held[w] = d /\ pc[w] \in {"resolve", "send"}

\* Two loops never have one delivery in flight: the lease, counted from a clock
\* read before the claim, outlasts the attempt, its record and its disable, and
\* the shortest backoff outlasts the record's retries.  The one way around it is
\* an old result written over a replayed row (stale).
NoConcurrentSend ==
    \A d \in Delivery : \A v, w \in Worker :
        Sending(v, d) /\ Sending(w, d) /\ ~stale[d] => v = w

\* What is being sent goes to the destination the delivery was addressed to when
\* it was queued, whatever has been deleted and re-created under its name.
SentOnlyToAddressee ==
    \A w \in Worker : pc[w] = "send" => target[w] = addressed[held[w]]

\* A destination that carries the 410 reason is one that answered 410: a late
\* disable never hits a destination re-created under the same name.
DisabledOnlyIfGone ==
    \A n \in Name : disabledReason[n] => destId[n] \in goneIds

\* A delivery its receiver has accepted is delivered, or the loop that saw the
\* acceptance is still writing it; it is sent again only after the outcome was
\* lost (a crash or panic before the record, every record try failing).
AcceptedIsKept ==
    \A d \in Delivery : acked[d] /\ ~lost[d] /\ ~stale[d] =>
        \/ state[d] = "delivered"
        \/ \E w \in Worker : /\ held[w] = d /\ pc[w] = "record"
                             /\ result[w].next = "delivered" /\ ~written[w]

\* Unless an outcome was lost, one budget never pays for more than
\* MaxBudgetAttempts sends.
SendsWithinBudget ==
    \A d \in Delivery : ~lost[d] /\ ~stale[d] => made[d] <= MaxBudgetAttempts

\* When the shutdown wait runs out every loop has finished and recorded its
\* attempt: SIGTERM alone never abandons one.
DrainFinishesAttempts ==
    proc = "draining" /\ grace = 0 => \A w \in Worker : pc[w] = "idle"

\* A final row is closed: only an operator's replay of a dead delivery reopens
\* it, and nothing is logged against it meanwhile, however late a record comes.
FinalRowsAreClosed ==
    [][\A d \in Delivery :
         state[d] \in {"delivered", "dead"} =>
            \/ state'[d] = state[d] /\ attemptCount'[d] = attemptCount[d]
            \/ /\ state[d] = "dead" /\ state'[d] = "pending"
               /\ replays'[d] = replays[d] + 1
               /\ attemptCount'[d] = attemptCount[d]]_vars

\* The loop may still move row d: it is sending it, has a result to write, or
\* has written a retry and may write it again.
Owns(w, d) ==
    /\ held[w] = d
    /\ \/ pc[w] \in {"resolve", "send"}
       \/ pc[w] = "record" /\ (~written[w] \/ result[w].next = "pending")

Phase(d) ==
    CASE stale[d] -> "overwritten"
      [] ~stale[d] /\ state[d] = "pending" -> "waiting"
      [] ~stale[d] /\ state[d] # "pending" -> state[d]

\* What the loop knows of its attempt.
Knows(w) ==
    CASE pc[w] # "record" -> "nothing"
      [] pc[w] = "record" /\ result[w].outcome = "success" -> "accepted"
      [] pc[w] = "record" /\ result[w].outcome # "success" -> "failed"

Task(w) ==
    IF Owns(w, held[w]) /\ ~stale[held[w]]
    THEN [on |-> held[w], knows |-> Knows(w)]
    ELSE [on |-> NoWork, knows |-> "nothing"]

\* The rows and the loops as DeliveryQueue sees them: a loop has a task while it
\* may still move its row, whatever its lease, its contexts and its retries.
Queue == INSTANCE DeliveryQueue WITH
    None <- NoWork,
    phase <- [d \in Delivery |-> Phase(d)],
    task <- [w \in Worker |-> Task(w)],
    reopened <- [d \in Delivery |-> replays[d] > 0]

\* Clocks, leases, backoffs and record retries keep the promise of DeliveryQueue:
\* a row is taken by one loop at a time; an accepted delivery ends as delivered
\* and a failed one as dead or queued again; an attempt vanishes only by a fault,
\* never by a drain, and leaves its row queued; only a record that outlived a
\* replay breaks this, for its row (ClaimDue, Decide, RecordAttempt, Replay).
ImplementsQueue == Queue!Spec

\* Every queued delivery comes to an end, even when its destination can never be
\* resolved.
EveryDeliveryEnds ==
    \A d \in Delivery : state[d] = "pending" ~> state[d] \in {"delivered", "dead"}

-----------------------------------------------------------------------------
(* Inductive strengthenings                                                *)

\* How long the loop can still own its row.
Tenure(w) == IF pc[w] = "record" THEN left[w] ELSE left[w] + RecordTimeout

\* An owner's row is pending, of the owner's replay, and not due while it owns it.
OwnerInv ==
    \A d \in Delivery : \A w \in Worker :
        Owns(w, d) /\ ~stale[d] =>
            /\ state[d] = "pending"
            /\ claim[w].replay = replays[d]
            /\ nextIn[d] > Tenure(w)

OneOwner ==
    \A d \in Delivery : \A v, w \in Worker :
        Owns(v, d) /\ Owns(w, d) /\ ~stale[d] => v = w

\* A final result that was written is the row's state until a replay.
WrittenInv ==
    \A d \in Delivery : \A w \in Worker :
        held[w] = d /\ ~stale[d] =>
            /\ claim[w].replay <= replays[d]
            /\ pc[w] = "record" /\ written[w] /\ claim[w].replay = replays[d] =>
                  state[d] = result[w].next

\* A retry is due after the loop that writes it has stopped writing.
RetryInv ==
    \A w \in Worker :
        pc[w] = "record" /\ result[w].next = "pending" => result[w].due > left[w]

LeaseInv == OwnerInv /\ OneOwner /\ WrittenInv /\ RetryInv

\* A result to be written says delivered exactly when the receiver accepted, and
\* a row is overwritten only after a replay.
QueueInv ==
    /\ \A w \in Worker : pc[w] = "record" =>
          (result[w].next = "delivered" <=> result[w].outcome = "success")
    /\ \A d \in Delivery : stale[d] => replays[d] > 0

\* Where a delivery, and so a claim of it, can point.
AddresseeInv ==
    /\ \A d \in Delivery :
          /\ destinationId[d] \in {NullId, addressed[d]}
          /\ IsRecipient(d) => addressed[d] = NullId
    /\ \A w \in Worker : pc[w] # "idle" =>
          /\ state[held[w]] # "absent"
          /\ claim[w].id \in {NullId, addressed[held[w]]}
          /\ pc[w] = "send" => target[w] = addressed[held[w]]

\* The loop about to disable a destination has seen it answer 410.
GoneInv ==
    /\ DisabledOnlyIfGone
    /\ \A w \in Worker :
          \/ pc[w] = "disable"
          \/ pc[w] = "record" /\ result[w].outcome = "gone"
          => target[w] \in goneIds

\* The longest an attempt in flight can still take.
InFlight(w) ==
    CASE pc[w] \in {"resolve", "send"} -> left[w] + RecordTimeout + DisableTimeout
      [] pc[w] = "record" -> left[w] + DisableTimeout
      [] pc[w] \in {"idle", "disable"} -> left[w]

DrainInv ==
    /\ \A w \in Worker : pc[w] # "idle" =>
          InFlight(w) <= AttemptTimeout + RecordTimeout + DisableTimeout
    /\ proc = "draining" =>
          \A w \in Worker : pc[w] # "idle" => InFlight(w) < grace
=============================================================================
