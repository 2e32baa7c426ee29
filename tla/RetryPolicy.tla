---------------------------- MODULE RetryPolicy ----------------------------
(***************************************************************************)
(* The retry policy (delivery-api/internal/dispatch/policy.go) over the    *)
(* life of one delivery: each attempt ends in a sink outcome, Decide turns *)
(* it into the next state, and the next attempt comes after the backoff    *)
(* and whatever delay the queue adds.  Beside it the pause of a claim loop *)
(* whose queue keeps failing (worker.go, claimBackoff).  Durations are     *)
(* integers of Width bits, as time.Duration is of 64.                      *)
(***************************************************************************)
EXTENDS Integers

CONSTANTS
    Outcome,            \* sink outcomes: [err, code, gone, retryAfter]
    Random,             \* what the jitter source may return, in 1/Unit
    Unit,
    Delay,              \* how much later than due the next attempt can start
    MaxBudgetAttempts, MaxBudgetAge, BaseBackoff, MaxBackoff, MaxRetryAfter,
    PollInterval,       \* the configured poll intervals
    MaxClaimBackoff, MaxClaimBackoffShift,
    MaxFailures,        \* bound: consecutive claim failures counted
    Width

NoRetryAfter == -1      \* a nil *time.Duration
BadRandom == -2         \* a nil source, or NaN

ASSUME PolicyAssumption ==
    /\ \A o \in Outcome :
          /\ o.err \in {"none", "blocked", "invalid", "other"}
          /\ o.code \in Int /\ o.gone \in BOOLEAN /\ o.retryAfter \in Int
    /\ Random \subseteq Int /\ Unit \in Nat \ {0}
    /\ Delay \subseteq Nat /\ Delay # {}
    /\ MaxBudgetAttempts \in Nat \ {0} /\ MaxBudgetAge \in Nat
    /\ BaseBackoff \in Nat \ {0} /\ MaxBackoff \in Nat \ {0} /\ MaxRetryAfter \in Nat
    /\ PollInterval \subseteq Nat \ {0} /\ MaxClaimBackoff \in Nat
    /\ MaxClaimBackoffShift \in Nat /\ MaxFailures \in Nat

\* The configured durations are ones a duration can hold; so is twice MaxBackoff.
ASSUME WidthAssumption ==
    /\ Width \in Nat \ {0}
    /\ 2 * MaxBackoff < 2^(Width - 1)
    /\ MaxClaimBackoff < 2^(Width - 1) /\ \A p \in PollInterval : p < 2^(Width - 1)

VARIABLES
    state, deadReason, budgetAttempts,
    age,                \* now - budget_started_at when the next attempt starts
    last, backoff,      \* the last outcome, and the backoff it led to
    poll, failures, pause   \* a claim loop and its pause after a failure

delivery == <<state, deadReason, budgetAttempts, age, last, backoff>>
loop == <<poll, failures, pause>>
policyVars == <<delivery, loop>>

NoOutcome == [err |-> "none", code |-> 0, gone |-> FALSE, retryAfter |-> NoRetryAfter]

PolicyInit ==
    /\ state = "pending" /\ deadReason = "none"
    /\ budgetAttempts = 0 /\ age = 0
    /\ last = NoOutcome /\ backoff = 0
    /\ poll \in PollInterval /\ failures = 0 /\ pause = 0

Least(a, b) == IF a < b THEN a ELSE b
Greatest(a, b) == IF a < b THEN b ELSE a

\* Two's complement arithmetic.
Wrap(n) == ((n + 2^(Width - 1)) % 2^Width) - 2^(Width - 1)

-----------------------------------------------------------------------------

\* The first case that applies; an error hides the status.
Classify(o) ==
    IF o.err # "none"
    THEN CASE o.err = "blocked" -> "blocked"
           [] o.err = "invalid" -> "terminal"
           [] OTHER -> "retryable"
    ELSE IF o.code \in 200..299 THEN "success"
    ELSE IF o.code = 410 \/ o.gone THEN "gone"
    ELSE IF o.code \in {408, 429} \cup 500..599 THEN "retryable"
    ELSE "terminal"

\* mutant: BaseBackoff << (budgetAttempts - 1)
CeilingShifted(n) == Least(Wrap(BaseBackoff * 2^(n - 1)), MaxBackoff)

\* The loop of Backoff, after i - 1 rounds: it doubles until it reaches the cap.
ceiling[i \in Nat] ==
    IF i <= 1 THEN BaseBackoff
    ELSE IF ceiling[i - 1] < MaxBackoff THEN Wrap(2 * ceiling[i - 1])
    ELSE ceiling[i - 1]

Ceiling(n) == Least(ceiling[n], MaxBackoff)

jitterFraction(random) == IF random < 0 THEN 0 ELSE Least(random, Unit)

Backoff(n, retryAfter, random) ==
    LET half == Ceiling(n) \div 2
        jittered == half + (jitterFraction(random) * half) \div Unit
    IN IF retryAfter > 0
       THEN Greatest(jittered, Least(retryAfter, MaxRetryAfter))
       ELSE jittered

deadResult(reason) ==
    /\ state' = "dead" /\ deadReason' = reason
    /\ UNCHANGED <<budgetAttempts, age, backoff>>

\* mutant: the age of the budget is not looked at
ExhaustedByAttempts == budgetAttempts >= MaxBudgetAttempts - 1

\* Compared before adding one, which could wrap.
Exhausted == budgetAttempts >= MaxBudgetAttempts - 1 \/ age >= MaxBudgetAge

\* Decide and RecordAttempt's update: next_attempt_at is the clock plus the
\* backoff, and the attempt after it starts that late or later.
Decide(o, random, delay) ==
    CASE Classify(o) = "success" ->
            /\ state' = "delivered"
            /\ UNCHANGED <<deadReason, budgetAttempts, age, backoff>>
      [] Classify(o) = "gone" -> deadResult("gone")
      [] Classify(o) = "blocked" -> deadResult("blocked_address")
      [] Classify(o) = "terminal" -> deadResult("terminal_status")
      [] Classify(o) = "retryable" /\ Exhausted -> deadResult("budget_exhausted")
      [] Classify(o) = "retryable" /\ ~Exhausted ->
            /\ backoff' = Backoff(budgetAttempts + 1, o.retryAfter, random)
            /\ budgetAttempts' = budgetAttempts + 1
            /\ age' = age + backoff' + delay
            /\ UNCHANGED <<state, deadReason>>

Attempt ==
    /\ state = "pending"
    /\ \E o \in Outcome, random \in Random, delay \in Delay :
          last' = o /\ Decide(o, random, delay)
    /\ UNCHANGED loop

-----------------------------------------------------------------------------

claimBackoff(p, n) ==
    LET shift == Least(Greatest(n - 1, 0), MaxClaimBackoffShift)
        most == Greatest(MaxClaimBackoff, p)
    IN IF p > most \div 2^shift THEN most ELSE Wrap(p * 2^shift)

ClaimFails ==
    /\ failures < MaxFailures
    /\ failures' = failures + 1
    /\ pause' = claimBackoff(poll, failures')
    /\ UNCHANGED <<poll, delivery>>

ClaimAnswers ==
    /\ failures > 0
    /\ failures' = 0 /\ pause' = 0
    /\ UNCHANGED <<poll, delivery>>

PolicyNext == Attempt \/ ClaimFails \/ ClaimAnswers

PolicySpec == PolicyInit /\ [][PolicyNext]_policyVars

-----------------------------------------------------------------------------
(* Properties *)

\* A delivery that keeps failing is not retried past its budget: its last attempt
\* starts no later than MaxBudgetAge, one backoff and one delay after its first,
\* and it is dead-lettered for its budget only when that is spent (Decide).
RetriesEndInTime ==
    LET longest == Greatest(MaxBackoff, MaxRetryAfter)
    IN /\ budgetAttempts < MaxBudgetAttempts
       /\ \E late \in Delay : age < MaxBudgetAge + longest + late
       /\ deadReason = "budget_exhausted" =>
              budgetAttempts = MaxBudgetAttempts - 1 \/ age >= MaxBudgetAge

Saturated(base, doublings, cap) == Least(base * 2^doublings, cap)

\* Waits double and saturate, never wrap: after the n-th failure a delivery waits
\* at least half and, unless Retry-After asks for more, at most all of
\* BaseBackoff * 2^(n-1) up to MaxBackoff, and a Retry-After is honoured up to
\* MaxRetryAfter (Backoff); a loop whose n-th claim in a row failed pauses for
\* its poll interval, doubled as often, at every interval a duration can hold
\* (claimBackoff).
WaitsInBounds ==
    /\ state = "pending" /\ budgetAttempts > 0 =>
          LET full == Saturated(BaseBackoff, budgetAttempts - 1, MaxBackoff)
              asked == Least(last.retryAfter, MaxRetryAfter)
          IN /\ full \div 2 <= backoff /\ asked <= backoff
             /\ backoff <= Greatest(full, asked)
    /\ failures > 0 =>
          pause = Saturated(poll, Least(failures - 1, MaxClaimBackoffShift),
                            Greatest(MaxClaimBackoff, poll))
=============================================================================
