------------------------------ MODULE Watchdog ------------------------------
(***************************************************************************)
(* The watchdog (watchdog/src): a cron run probes every target, compares   *)
(* the verdicts with the state of the last run, posts what changed and,    *)
(* once a day, a summary, and then stores the new state.  Post and store   *)
(* are two calls to two services: either can fail, succeed without saying  *)
(* so, or not happen because the run is cut off.                           *)
(*                                                                         *)
(* Runs do not overlap and none lasts into the next day: with its timeouts *)
(* a run takes less than the five minutes between two of them.             *)
(***************************************************************************)
EXTENDS Integers, FiniteSets

CONSTANTS
    Target,         \* TARGETS
    RunsPerDay,     \* how often the cron fires between two midnights (UTC)
    SummaryRun,     \* the first run of a day at or after SUMMARY_HOUR_UTC
    MaxFaults       \* bound: calls that fail although they should not

ASSUME WatchdogAssumption ==
    /\ RunsPerDay \in Nat \ {0} /\ SummaryRun \in 0..(RunsPerDay - 1)
    /\ MaxFaults \in Nat
    /\ Target # {} /\ "summary" \notin Target

VARIABLES
    run,            \* which run of the day this is, or was the last
    healthy,        \* the targets that would answer a probe well
    \* the KV document, and whether it can be parsed
    kv, invalid,
    \* the run: its step, what it read, its verdicts, its new state, and what its
    \* message says
    pc, stateRead, verdict, next, message,
    faults,
    \* history: what the channel was last told of each target, whether it had a
    \* summary today, and of what the document need not agree with the channel
    told, summarised, blind

env == <<run, healthy>>
document == <<kv, invalid>>
working == <<stateRead, verdict, next, message>>
channel == <<told, summarised, blind>>
vars == <<env, document, pc, working, faults, channel>>

\* A document: each target's status ("new": not in it), and whether
\* last_summary_date is today.
Blank == [status |-> [t \in Target |-> "new"], summary |-> FALSE]
Silence == [t \in Target |-> "nothing"]

Init ==
    /\ run = 0 /\ healthy = Target
    /\ kv = Blank /\ invalid \in BOOLEAN
    /\ pc = "idle" /\ stateRead = "loaded"
    /\ verdict = [t \in Target |-> "first"]
    /\ next = Blank /\ message = Silence
    /\ faults = 0
    /\ told = Silence /\ summarised = FALSE /\ blind = {}

Fault == faults < MaxFaults /\ faults' = faults + 1

-----------------------------------------------------------------------------
(* One run *)

\* The end of a run forgets it.
Return ==
    /\ pc' = "idle" /\ stateRead' = "loaded"
    /\ verdict' = [t \in Target |-> "first"]
    /\ next' = Blank /\ message' = Silence

\* The key is read once: the document is there, it is not a valid one, or the
\* read fails.
readState(read) ==
    /\ stateRead' = read
    /\ CASE read = "loaded" -> ~invalid /\ UNCHANGED faults
         [] read = "invalid" -> invalid /\ UNCHANGED faults
         [] read = "read_failed" -> Fault

\* The cron fires.  After midnight the last summary is of another day.
Start(read) ==
    /\ pc = "idle"
    /\ pc' = "probe"
    /\ run' = (run + 1) % RunsPerDay
    /\ kv' = [kv EXCEPT !.summary = @ /\ run' # 0]
    /\ summarised' = (summarised /\ run' # 0)
    /\ blind' = IF run' = 0 THEN blind \ {"summary"} ELSE blind
    /\ readState(read)
    /\ UNCHANGED <<healthy, invalid, verdict, next, message, told>>

\* What a target's evaluator says: it fails closed, so only a healthy target's
\* answer is good.
evaluate(t) == t \in healthy

\* A probe may also time out, fail or be turned away before it is evaluated.
probeTarget(t) == {evaluate(t), FALSE}

\* probeWithRetry: one more try after a failure, and its verdict counts.
probeWithRetry(t, ok) ==
    /\ pc = "probe" /\ verdict[t] \in {"first", "again"}
    /\ ok \in probeTarget(t)
    /\ verdict' = [verdict EXCEPT ![t] =
           IF ok THEN "ok" ELSE IF @ = "first" THEN "again" ELSE "failed"]
    /\ IF t \in healthy /\ ~ok THEN Fault ELSE UNCHANGED faults
    /\ UNCHANGED <<env, document, pc, stateRead, next, message, channel>>

Previous == IF stateRead = "loaded" THEN kv ELSE Blank

Status(t) == IF verdict[t] = "ok" THEN "up" ELSE "down"

\* The change lines: a target that went down, also one never seen before, and one
\* that came up again.
reconcile ==
    [t \in Target |->
        CASE Status(t) = "down" /\ Previous.status[t] # "down" -> "down"
          [] Status(t) = "up" /\ Previous.status[t] = "down" -> "up"
          [] OTHER -> "nothing"]

\* mutant: the date is set before it is compared
SummaryNeverDue == FALSE

\* Only a run that could read the state knows whether there was a summary.
summaryDue == stateRead = "loaded" /\ run >= SummaryRun /\ ~kv.summary

\* With a summary the message tells the status of every target.
buildMessage ==
    IF summaryDue THEN [t \in Target |-> Status(t)] ELSE reconcile

\* All probes have answered.  With nothing to post a run that could not read the
\* state ends here, for its new state knows nothing of the past.
Conclude ==
    /\ pc = "probe"
    /\ \A t \in Target : verdict[t] \in {"ok", "failed"}
    /\ IF buildMessage = Silence /\ stateRead = "read_failed"
       THEN Return
       ELSE /\ next' = [status |-> [t \in Target |-> Status(t)],
                        summary |-> Previous.summary \/ summaryDue]
            /\ message' = buildMessage
            /\ pc' = IF buildMessage = Silence THEN "write" ELSE "post"
            /\ UNCHANGED <<stateRead, verdict>>
    /\ UNCHANGED <<env, document, faults, channel>>

Summary == next.summary /\ ~Previous.summary

Said == {t \in Target : message[t] # "nothing"} \cup (IF Summary THEN {"summary"} ELSE {})

\* The channel has the message; until the state is stored the document disagrees.
Accept ==
    /\ told' = [t \in Target |-> IF message[t] = "nothing" THEN told[t] ELSE message[t]]
    /\ summarised' = (summarised \/ Summary)
    /\ blind' = blind \cup Said

\* mutant: the state is stored whether or not the post succeeded
postAndGoOn(accepted, answered) ==
    /\ pc = "post"
    /\ pc' = "write" /\ UNCHANGED working
    /\ IF accepted THEN Accept ELSE UNCHANGED channel
    /\ IF accepted /\ answered THEN UNCHANGED faults ELSE Fault
    /\ UNCHANGED <<env, document>>

\* A post that failed, or whose answer was lost, ends the run: the next one finds
\* the same transitions.
postToDiscord(accepted, answered) ==
    /\ pc = "post"
    /\ answered => accepted
    /\ IF answered THEN pc' = "write" /\ UNCHANGED working ELSE Return
    /\ IF accepted THEN Accept ELSE UNCHANGED channel
    /\ IF answered THEN UNCHANGED faults ELSE Fault
    /\ UNCHANGED <<env, document>>

\* The document is stored.  Made without the previous one, it takes every target
\* that is up for one that always was.
Stored ==
    /\ kv' = next /\ invalid' = FALSE
    /\ blind' = IF stateRead = "loaded" THEN blind \ Said
                ELSE (blind \ Said) \cup {t \in Target : next.status[t] = "up"} \cup {"summary"}
    /\ UNCHANGED <<told, summarised>>

Unchanged == stateRead = "loaded" /\ kv = next

\* Nothing is written if nothing changed; a failed write is logged, and may have
\* been stored.
writeState(stored, answered) ==
    /\ pc = "write"
    /\ answered => stored
    /\ Unchanged => answered
    /\ IF stored /\ ~Unchanged THEN Stored ELSE UNCHANGED <<document, channel>>
    /\ IF answered THEN UNCHANGED faults ELSE Fault
    /\ Return
    /\ UNCHANGED env

\* A run is cut off, or never gets to run (no webhook is configured).
CutOff ==
    /\ pc # "idle"
    /\ Fault /\ Return
    /\ UNCHANGED <<env, document, channel>>

\* A target fails or recovers.
Turn(t) ==
    /\ healthy' = IF t \in healthy THEN healthy \ {t} ELSE healthy \cup {t}
    /\ UNCHANGED <<run, document, pc, working, faults, channel>>

-----------------------------------------------------------------------------

runWatchdog ==
    \/ \E read \in {"loaded", "invalid", "read_failed"} : Start(read)
    \/ \E t \in Target, ok \in BOOLEAN : probeWithRetry(t, ok)
    \/ Conclude
    \/ \E accepted, answered \in BOOLEAN : postToDiscord(accepted, answered)
    \/ \E stored, answered \in BOOLEAN : writeState(stored, answered)

Next == runWatchdog \/ CutOff \/ \E t \in Target : Turn(t)

Spec == Init /\ [][Next]_vars

\* The cron keeps firing and a run, whose calls all have a timeout, goes on.
FairSpec == Spec /\ WF_vars(runWatchdog)

-----------------------------------------------------------------------------
(* Properties *)

\* What the document says of a target is what the channel was told: it never
\* records a failure or a recovery that nobody was told of, nor a summary that was
\* not posted, and forgets none that was.  Excepted are a target whose message
\* went out in a run that then stored nothing, and whatever was up when the
\* document was written anew by a run that could not read it (runWatchdog: post
\* first, then write).
RecordMatchesReports ==
    /\ \A t \in Target \ blind : kv.status[t] = "down" <=> told[t] = "down"
    /\ "summary" \notin blind => kv.summary = summarised

\* Even after such a run the channel learns the truth: once a target stays down,
\* or stays up, what was last said of it ends up so, at the latest by the next
\* daily summary (reconcile, summaryBlock).
ReportsSettle ==
    \A t \in Target :
        /\ <>[](t \notin healthy) => <>[](told[t] = "down")
        /\ <>[](t \in healthy) => <>[](told[t] # "down")
=============================================================================
