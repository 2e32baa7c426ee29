----------------------------- MODULE Heartbeat -----------------------------
(***************************************************************************)
(* Heartbeat checks (delivery-api/internal/heartbeat).  An app pings a     *)
(* push check, the prober requests a probe check's URL; a check that stays *)
(* silent past its deadline, reports a failure or fails enough probes goes *)
(* down.  A transition writes the alert it emits to an outbox column of    *)
(* the same row, and the checker's tick turns the outbox into messages.    *)
(*                                                                         *)
(* The machine (machine.go) is a set of functions from a row to a row.     *)
(* The store applies them under the row's lock, so each application is one *)
(* step, but with a now its caller read before it waited for the lock.     *)
(* A tick and a probe span several steps, and others run between them.     *)
(***************************************************************************)
EXTENDS Integers, FiniteSets

CONSTANTS
    Check,              \* ids of checks, integers: bigserial, never reused
    Probed,             \* the checks that are probe checks; a kind never changes
    Dest,               \* destinations
    Broken,             \* destinations a submit to which may fail forever
    Span,               \* period + grace of a push check
    Config,             \* probe configurations: [url, interval]
    ProbeFailureThreshold, StartupHoldOff, Concurrency,
    ProbeLimit,         \* the largest probe timeout and the result write's
    MaxLag,             \* bound: a now is read -> the call's row is locked
    MaxTime,            \* bound: the clock stops here
    MaxEdits,           \* bound: pings and operator requests
    MaxFaults           \* bound: crashes and failing calls

NoConfig == [url |-> "none", interval |-> 0]    \* a push check has no probe row
Time == 0..MaxTime

ASSUME HeartbeatAssumption ==
    /\ Check \subseteq Nat /\ IsFiniteSet(Check) /\ Probed \subseteq Check
    /\ Broken \subseteq Dest
    /\ Span \subseteq Nat
    /\ \A g \in Config : g.interval \in Nat /\ g # NoConfig
    /\ ProbeFailureThreshold \in Nat \ {0} /\ StartupHoldOff \in Nat
    /\ Concurrency \in Nat \ {0} /\ ProbeLimit \in Nat /\ MaxLag \in Nat
    /\ MaxTime \in Nat /\ MaxEdits \in Nat /\ MaxFaults \in Nat

\* MinProbeIntervalSeconds is 60 s, MaxProbeTimeoutSeconds and
\* ProbeResultWriteTimeout together 13 s.
ASSUME IntervalAssumption == \A g \in Config : MaxLag + ProbeLimit < g.interval

VARIABLES
    clock,
    row,                \* heartbeat_checks and heartbeat_check_probes
    enabled,            \* the destinations the registry has enabled
    holdOffUntil,
    tick, listed,       \* the checker: its step, and what it still has to flush
    scan, snapshot, scanNow, probes,    \* the prober: its step, its statement's
                                        \* snapshot, and the probes in flight
    edits, faults,
    \* history
    sent,               \* alerts in the message store
    owed,               \* who has not had a check's latest alert yet
    heard,              \* when a check's clock was last restarted
    streak,             \* failed results since the last success or reset
    epoch,              \* how often a check was paused or resumed
    mixed               \* was a result of another configuration applied?

checker == <<tick, listed>>
prober == <<scan, snapshot, scanNow, probes>>
process == <<holdOffUntil, checker, prober>>
bounds == <<edits, faults>>
watched == <<heard, streak, epoch, mixed>>
vars == <<clock, row, enabled, process, bounds, sent, owed, watched>>

Live == {"new", "up", "down"}
Exists(c) == row[c].state \in Live
NoRow == [state |-> "absent", paused |-> FALSE, anchor |-> 0, reason |-> "none",
          seq |-> 0, pending |-> "none", span |-> 0, links |-> {},
          config |-> NoConfig, version |-> 0, failures |-> 0, next |-> 0]

Init ==
    /\ clock = 0
    /\ row = [c \in Check |-> NoRow]
    /\ enabled = Dest
    /\ holdOffUntil = StartupHoldOff
    /\ tick = "idle" /\ listed = {}
    /\ scan = "idle" /\ snapshot = {} /\ scanNow = 0 /\ probes = {}
    /\ edits = 0 /\ faults = 0
    /\ sent = {} /\ owed = [c \in Check |-> {}]
    /\ heard = [c \in Check |-> 0] /\ streak = [c \in Check |-> 0]
    /\ epoch = [c \in Check |-> 0] /\ mixed = FALSE

\* What a caller's now can be when its statement gets the lock.
Now == {t \in Time : t <= clock /\ clock - t <= MaxLag}

-----------------------------------------------------------------------------
(* The state machine: rows to rows *)

Deadline(r) == r.anchor + r.span

\* mutant: an alert that overwrites an unflushed one takes its number
emitAlertInPlace(r, kind) ==
    [r EXCEPT !.seq = IF r.pending = "none" THEN @ + 1 ELSE @, !.pending = kind]
emitAlert(r, kind) == [r EXCEPT !.seq = @ + 1, !.pending = kind]

ApplyPing(r, kind, now) ==
    LET pinged == [r EXCEPT
            !.anchor = now,
            !.state = IF kind = "success" THEN "up" ELSE "down",
            !.reason = IF kind = "success" THEN "none"
                       ELSE IF r.state = "down" THEN @ ELSE "fail"]
    IN IF pinged.state = r.state THEN pinged
       ELSE IF r.paused THEN [pinged EXCEPT !.pending = "none"]
       ELSE IF pinged.state = "down" THEN emitAlert(pinged, "down")
       ELSE IF r.state = "down" THEN emitAlert(pinged, "recovered")
       ELSE pinged

\* mutant: a check nobody has ever pinged is left alone
AdvancesUp(r, now) == ~r.paused /\ r.state = "up" /\ now > Deadline(r)
Advances(r, now) == ~r.paused /\ r.state \in {"new", "up"} /\ now > Deadline(r)

AdvanceTick(r) == emitAlert([r EXCEPT !.state = "down", !.reason = "missed"], "down")

\* mutant: the version stays, and with it the claims in flight
ApplyProbeResetSameVersion(r, now) ==
    IF r.config = NoConfig THEN r
    ELSE [r EXCEPT !.failures = 0, !.next = now + r.config.interval, !.anchor = now]

ApplyProbeReset(r, now) ==
    IF r.config = NoConfig THEN r
    ELSE [r EXCEPT !.failures = 0, !.version = @ + 1,
                   !.next = now + r.config.interval, !.anchor = now]

\* mutant: the unflushed alert stays
ApplyPauseKeepsAlert(r) ==
    [r EXCEPT !.paused = TRUE,
              !.version = IF r.config # NoConfig /\ ~r.paused THEN @ + 1 ELSE @]

ApplyPause(r) ==
    [r EXCEPT !.paused = TRUE, !.pending = "none",
              !.version = IF r.config # NoConfig /\ ~r.paused THEN @ + 1 ELSE @]

\* mutant: the deadline clock is not restarted
ApplyResumeOldAnchor(r, now) == [r EXCEPT !.paused = FALSE]

ApplyResume(r, now) ==
    IF r.paused
    THEN ApplyProbeReset([r EXCEPT !.paused = FALSE, !.anchor = now], now)
    ELSE r

\* mutant: a success leaves the count
ApplyProbeResultKeepsCount(r, ok, now) ==
    LET heardOf == [r EXCEPT !.anchor = now]
        failing == [heardOf EXCEPT !.failures = @ + 1]
        down == [failing EXCEPT !.state = "down", !.reason = "probe"]
    IN IF ok
       THEN IF r.state = "down"
            THEN emitAlert([heardOf EXCEPT !.state = "up", !.reason = "none"], "recovered")
            ELSE [heardOf EXCEPT !.state = "up"]
       ELSE IF failing.failures < ProbeFailureThreshold \/ now < holdOffUntil
            THEN failing
            ELSE IF r.state = "down" THEN failing ELSE emitAlert(down, "down")

\* A failure of a check already down only names a better reason.
ApplyProbeResult(r, ok, now) ==
    LET recorded == [r EXCEPT !.anchor = now, !.failures = IF ok THEN 0 ELSE @ + 1]
    IN IF ok
       THEN IF r.state = "down"
            THEN emitAlert([recorded EXCEPT !.state = "up", !.reason = "none"], "recovered")
            ELSE [recorded EXCEPT !.state = "up"]
       ELSE IF r.state = "down"
       THEN [recorded EXCEPT !.reason = IF @ = "missed" THEN "probe" ELSE @]
       ELSE IF recorded.failures < ProbeFailureThreshold \/ now < holdOffUntil
       THEN recorded
       ELSE emitAlert([recorded EXCEPT !.state = "down", !.reason = "probe"], "down")

-----------------------------------------------------------------------------
(* The store's writes.  Save also keeps the history of the outbox: a newly  *)
(* emitted alert is owed to everyone, a cleared one to no one.              *)

Save(c, r) ==
    /\ row' = [row EXCEPT ![c] = r]
    /\ owed' = [owed EXCEPT ![c] =
            IF r.pending # "none" /\ <<r.seq, r.pending>> # <<row[c].seq, row[c].pending>>
            THEN Dest ELSE IF r.paused THEN {} ELSE @]

Edit == edits < MaxEdits /\ edits' = edits + 1 /\ UNCHANGED <<clock, process, faults, sent>>

\* A check has at least one destination, of those its app may use.
resolveDestinationIDs == (SUBSET Dest) \ {{}}

\* Period and grace of a probe check: enough for the failures that take it down.
DerivedSchedule(g) == g.interval * (ProbeFailureThreshold + 2)

Create(c) ==
    /\ row[c].state = "absent"
    /\ \E links \in resolveDestinationIDs, now \in Now :
          LET new == [NoRow EXCEPT !.state = "new", !.anchor = now, !.links = links]
          IN IF c \in Probed
             THEN \E g \in Config : Save(c,
                    [new EXCEPT !.config = g, !.version = 1, !.next = now + g.interval,
                                !.span = DerivedSchedule(g)])
             ELSE \E s \in Span : Save(c, [new EXCEPT !.span = s])
    /\ heard' = [heard EXCEPT ![c] = clock]
    /\ Edit /\ UNCHANGED <<enabled, streak, epoch, mixed>>

\* The fields a patch leaves out keep their value; which it names is free.
ApplyPatch(r, links, g) ==
    [r EXCEPT !.links = links, !.config = g, !.span = DerivedSchedule(g)]

ProbeConfigChanged(old, new, credential) == new # old \/ credential

\* A push check's schedule or a probe check's configuration, and the destinations.
\* Only a changed configuration (or credential) restarts the probing.
Patch(c) ==
    /\ Exists(c)
    /\ \E links \in resolveDestinationIDs, now \in Now :
          IF c \in Probed
          THEN \E g \in Config, credential \in BOOLEAN :
                 LET r == ApplyPatch(row[c], links, g)
                     reset == ProbeConfigChanged(row[c].config, g, credential)
                 IN /\ Save(c, IF reset THEN ApplyProbeReset(r, now) ELSE r)
                    /\ streak' = [streak EXCEPT ![c] = IF reset THEN 0 ELSE @]
                    /\ heard' = [heard EXCEPT ![c] = IF reset THEN clock ELSE @]
          ELSE \E s \in Span :
                 /\ Save(c, [row[c] EXCEPT !.links = links, !.span = s])
                 /\ UNCHANGED <<streak, heard>>
    /\ Edit /\ UNCHANGED <<enabled, epoch, mixed>>

Delete(c) ==
    /\ Exists(c)
    /\ row' = [row EXCEPT ![c] = [NoRow EXCEPT !.state = "deleted"]]
    /\ owed' = [owed EXCEPT ![c] = {}]
    /\ Edit /\ UNCHANGED <<enabled, watched>>

Pause(c) ==
    /\ Exists(c)
    /\ Save(c, ApplyPause(row[c]))
    /\ epoch' = [epoch EXCEPT ![c] = IF row[c].paused THEN @ ELSE @ + 1]
    /\ Edit /\ UNCHANGED <<enabled, heard, streak, mixed>>

Resume(c) ==
    /\ Exists(c) /\ row[c].paused
    /\ \E now \in Now : Save(c, ApplyResume(row[c], now))
    /\ epoch' = [epoch EXCEPT ![c] = @ + 1]
    /\ heard' = [heard EXCEPT ![c] = clock]
    /\ streak' = [streak EXCEPT ![c] = 0]
    /\ Edit /\ UNCHANGED <<enabled, mixed>>

\* ErrProbeCheckPing refuses a ping of a probe check.
RecordPing(c) ==
    /\ Exists(c) /\ c \notin Probed
    /\ \E kind \in {"success", "fail"}, now \in Now :
          Save(c, ApplyPing(row[c], kind, now))
    /\ heard' = [heard EXCEPT ![c] = clock]
    /\ Edit /\ UNCHANGED <<enabled, streak, epoch, mixed>>

\* The registry enables or disables a destination.
SetEnabled(d) ==
    /\ enabled' = IF d \in enabled THEN enabled \ {d} ELSE enabled \cup {d}
    /\ Edit /\ UNCHANGED <<row, owed, watched>>

-----------------------------------------------------------------------------
(* The checker's tick *)

\* Overdue checks go down, unless the process has just started.
AdvanceDue ==
    /\ tick = "idle"
    /\ \E now \in Now :
          LET due == {c \in Check : Advances(row[c], now) /\ now >= holdOffUntil}
          IN /\ row' = [c \in Check |-> IF c \in due THEN AdvanceTick(row[c]) ELSE row[c]]
             /\ owed' = [c \in Check |-> IF c \in due THEN Dest ELSE owed[c]]
    /\ tick' = "list"
    /\ UNCHANGED <<clock, enabled, holdOffUntil, listed, prober, bounds, sent, watched>>

Listing(c) == [check |-> c, kind |-> row[c].pending, seq |-> row[c].seq,
               todo |-> row[c].links \cap enabled, failed |-> FALSE]

ListPendingAlerts ==
    /\ tick = "list"
    /\ LET pending == {c \in Check : row[c].pending # "none"}
       IN /\ listed' = {Listing(c) : c \in pending}
          /\ owed' = [c \in Check |->
                IF c \in pending THEN owed[c] \cap row[c].links \cap enabled ELSE owed[c]]
    /\ tick' = "flush"
    /\ UNCHANGED <<clock, row, enabled, holdOffUntil, prober, bounds, sent, watched>>

\* AdvanceDue or ListPendingAlerts fails: the tick ends, the next one starts over.
TickFailed ==
    /\ tick = "list" /\ faults < MaxFaults
    /\ tick' = "idle" /\ faults' = faults + 1
    /\ UNCHANGED <<clock, row, enabled, holdOffUntil, listed, prober, edits, sent, owed, watched>>

\* The checks are flushed in the order of their ids.
First == CHOOSE f \in listed : \A g \in listed : f.check <= g.check

\* The message service stores one message per idempotency key (check, alert and
\* destination); a repeat is a duplicate of it.
Stored(f, d) ==
    IF \E m \in sent : m.check = f.check /\ m.seq = f.seq /\ m.dest = d THEN sent
    ELSE sent \cup {[check |-> f.check, seq |-> f.seq, dest |-> d, kind |-> f.kind]}

Served(f, d) ==
    [owed EXCEPT ![f.check] = IF f.seq = row[f.check].seq THEN @ \ {d} ELSE @]

\* One destination of the first check: submitted, or skipped when the registry has
\* disabled it since it was listed.
Submit ==
    /\ tick = "flush" /\ listed # {}
    /\ \E d \in First.todo :
          /\ listed' = (listed \ {First}) \cup {[First EXCEPT !.todo = @ \ {d}]}
          /\ sent' = IF d \in enabled THEN Stored(First, d) ELSE sent
          /\ owed' = Served(First, d)
    /\ UNCHANGED <<clock, row, enabled, holdOffUntil, tick, prober, bounds, watched>>

\* The submit fails; the message may have been stored all the same.
SubmitFails ==
    /\ tick = "flush" /\ listed # {}
    /\ \E d \in First.todo \cap enabled, stored \in BOOLEAN :
          /\ listed' = (listed \ {First})
                \cup {[First EXCEPT !.todo = @ \ {d}, !.failed = TRUE]}
          /\ sent' = IF stored THEN Stored(First, d) ELSE sent
          /\ \/ d \in Broken /\ UNCHANGED faults
             \/ faults < MaxFaults /\ faults' = faults + 1
    /\ UNCHANGED <<clock, row, enabled, holdOffUntil, tick, prober, edits, owed, watched>>

\* mutant: the alert is cleared whatever its number
ClearPendingAlertAny(f) == [row EXCEPT ![f.check].pending = "none"]

ClearPendingAlert(f) ==
    [row EXCEPT ![f.check].pending = IF row[f.check].seq = f.seq THEN "none" ELSE @]

\* mutant: the first failure ends the tick
EndFlushFirstFailure(f) == IF f.failed THEN {} ELSE listed \ {f}

\* One check's failed flush never blocks the others.
EndFlush(f) == listed \ {f}

\* Every destination was tried.  After a failure the alert stays pending; so it
\* does when ClearPendingAlert itself fails.
FlushDone ==
    /\ tick = "flush" /\ listed # {} /\ First.todo = {}
    /\ \/ ~First.failed /\ row' = ClearPendingAlert(First) /\ UNCHANGED faults
       \/ First.failed /\ UNCHANGED <<row, faults>>
       \/ ~First.failed /\ faults < MaxFaults /\ faults' = faults + 1 /\ UNCHANGED row
    /\ listed' = EndFlush(First)
    /\ UNCHANGED <<clock, enabled, holdOffUntil, tick, prober, edits, sent, owed, watched>>

TickDone ==
    /\ tick = "flush" /\ listed = {}
    /\ tick' = "idle"
    /\ UNCHANGED <<clock, row, enabled, holdOffUntil, listed, prober, bounds, sent, owed, watched>>

-----------------------------------------------------------------------------
(* The prober *)

Free == Concurrency - Cardinality(probes)

\* ClaimDueProbes takes its snapshot ...
Scan ==
    /\ scan = "idle" /\ Free > 0
    /\ \E now \in Now :
          /\ snapshot' = {c \in Probed : Exists(c) /\ ~row[c].paused /\ row[c].next <= now}
          /\ scanNow' = now
    /\ snapshot' # {}
    /\ scan' = "claim"
    /\ UNCHANGED <<clock, row, enabled, holdOffUntil, checker, probes, bounds, sent, owed, watched>>

Claimed(c) == [row[c] EXCEPT !.next = scanNow + row[c].config.interval]

\* ... then locks the probe rows that are still due.  It does not lock the checks,
\* so a pause since the snapshot goes unnoticed; rows others hold are skipped.
\* The claims can be lost with the answer.
ClaimDueProbes ==
    /\ scan = "claim"
    /\ \E due \in SUBSET {c \in snapshot : Exists(c) /\ row[c].next <= scanNow} :
          /\ Cardinality(due) <= Free
          /\ row' = [c \in Check |-> IF c \in due THEN Claimed(c) ELSE row[c]]
          /\ \/ /\ probes' = probes \cup
                      {[check |-> c, version |-> row[c].version, config |-> row[c].config,
                        since |-> clock, epoch |-> epoch[c]] : c \in due}
                /\ UNCHANGED faults
             \/ faults < MaxFaults /\ faults' = faults + 1 /\ UNCHANGED probes
    /\ scan' = "idle" /\ snapshot' = {} /\ scanNow' = 0
    /\ UNCHANGED <<clock, enabled, holdOffUntil, checker, edits, sent, owed, watched>>

\* A result of an older version, or for a paused check, is discarded.
Applies(p) ==
    /\ Exists(p.check) /\ ~row[p.check].paused
    /\ row[p.check].version = p.version

\* What a probe finds, a success or one of the reasons to fail, is the site's affair.
runProbe == BOOLEAN

RecordProbeResult ==
    /\ \E p \in probes, ok \in runProbe, now \in Now :
          LET c == p.check IN
          /\ probes' = probes \ {p}
          /\ IF Applies(p)
             THEN /\ Save(c, ApplyProbeResult(row[c], ok, now))
                  /\ heard' = [heard EXCEPT ![c] = clock]
                  /\ streak' = [streak EXCEPT ![c] = IF ok THEN 0 ELSE @ + 1]
                  /\ mixed' = (mixed \/ p.config # row[c].config \/ p.epoch # epoch[c])
             ELSE UNCHANGED <<row, owed, heard, streak, mixed>>
    /\ UNCHANGED <<clock, enabled, holdOffUntil, checker, scan, snapshot, scanNow, bounds,
                   sent, epoch>>

\* The write fails, or the probe panics.
ProbeLost ==
    /\ faults < MaxFaults /\ faults' = faults + 1
    /\ \E p \in probes : probes' = probes \ {p}
    /\ UNCHANGED <<clock, row, enabled, holdOffUntil, checker, scan, snapshot, scanNow,
                   edits, sent, owed, watched>>

-----------------------------------------------------------------------------

\* The process dies and starts again: flushes and probes in flight are gone, and
\* the hold-off begins.
Restart ==
    /\ faults < MaxFaults /\ faults' = faults + 1
    /\ holdOffUntil' = clock + StartupHoldOff
    /\ tick' = "idle" /\ listed' = {}
    /\ scan' = "idle" /\ snapshot' = {} /\ scanNow' = 0 /\ probes' = {}
    /\ UNCHANGED <<clock, row, enabled, edits, sent, owed, watched>>

\* A probe ends within its limit, and a statement within the lag.
Tick ==
    /\ clock < MaxTime
    /\ \A p \in probes : clock - p.since < ProbeLimit
    /\ scan = "claim" => clock - scanNow < MaxLag
    /\ clock' = clock + 1
    /\ UNCHANGED <<row, enabled, process, bounds, sent, owed, watched>>

Request ==
    \/ \E c \in Check :
          Create(c) \/ Patch(c) \/ Delete(c) \/ Pause(c) \/ Resume(c) \/ RecordPing(c)
    \/ \E d \in Dest : SetEnabled(d)

Checker == AdvanceDue \/ ListPendingAlerts \/ Submit \/ SubmitFails \/ FlushDone \/ TickDone
Prober == Scan \/ ClaimDueProbes \/ RecordProbeResult

Next == Request \/ Checker \/ Prober \/ TickFailed \/ ProbeLost \/ Restart \/ Tick

Spec == Init /\ [][Next]_vars

\* The checker's loop never stops while the process runs, its calls end, and time
\* passes.  Which answer a call gets is not assumed: a submit to a broken
\* destination may fail forever.
FairSpec == Spec /\ WF_vars(Checker) /\ WF_vars(Tick) /\ WF_vars(Prober)

-----------------------------------------------------------------------------
(* Properties *)

Row == [state : Live \cup {"absent", "deleted"}, paused : BOOLEAN, anchor : Time,
        reason : {"none", "missed", "fail", "probe"},
        seq : Nat, pending : {"none", "down", "recovered"},
        span : Nat, links : SUBSET Dest,
        config : Config \cup {NoConfig}, version : Nat, failures : Nat, next : Nat]

Kind == {"down", "recovered"}
Flush == [check : Check, kind : Kind, seq : Nat, todo : SUBSET Dest, failed : BOOLEAN]
Alert == [check : Check, seq : Nat, dest : Dest, kind : Kind]

\* The columns keep the types and the CHECKs of the tables: a check that is down
\* has a reason, and only a probe check has a probe row (migrations 0006, 0009).
TypeOK ==
    /\ clock \in Time /\ enabled \subseteq Dest /\ holdOffUntil \in Nat
    /\ row \in [Check -> Row]
    /\ \A c \in Check :
          /\ row[c].state = "down" <=> row[c].reason # "none"
          /\ Exists(c) => (c \in Probed <=> row[c].config # NoConfig)
    /\ tick \in {"idle", "list", "flush"} /\ scan \in {"idle", "claim"}
    /\ scanNow \in Time /\ snapshot \subseteq Probed
    /\ \A p \in probes : p.check \in Probed
    /\ listed \subseteq Flush /\ sent \subseteq Alert
    /\ owed \in [Check -> SUBSET Dest]

\* The outbox never contradicts the check: an unflushed alert announces the state
\* the check is in, whatever pings, probes, ticks, pauses and resumes came since it
\* was emitted, and a paused check has none (ApplyPing, ApplyPause, emitAlert).
OutboxMatchesState ==
    \A c \in Check :
        /\ row[c].pending = "down" => row[c].state = "down" /\ ~row[c].paused
        /\ row[c].pending = "recovered" => row[c].state = "up" /\ ~row[c].paused

\* No two destinations are told different things under one alert number, across
\* retried flushes, ambiguous submits and restarts: the idempotency key would
\* otherwise swallow the later one (emitAlert, buildAlertEnvelope).
OneKindPerAlert ==
    \A m, n \in sent : m.check = n.check /\ m.seq = n.seq => m.kind = n.kind

\* An alert leaves the outbox only when every destination it was listed for has it
\* or is disabled, or a pause withdraws it; a flush that is late never removes a
\* newer alert (ClearPendingAlert).
NoAlertLost == \A c \in Check : row[c].pending = "none" => owed[c] = {}

\* A check is declared missed only after it was silent for its period and grace,
\* counted from the last ping, result, reset or resume that was committed, less
\* what that call waited for its lock; and never in the hold-off (AdvanceDue).
NoFalseMiss ==
    [][\A c \in Check :
         row[c].state # "down" /\ row'[c].reason = "missed" =>
             /\ clock > heard[c] + row[c].span - MaxLag
             /\ clock >= holdOffUntil]_vars

\* Probes take a check down only after ProbeFailureThreshold failures in a row, of
\* one configuration and with no pause between, and not in the hold-off
\* (ApplyProbeResult, ApplyProbeReset).
ProbeDownIsEarned ==
    [][\A c \in Check :
         row[c].state # "down" /\ row'[c].reason = "probe" =>
             /\ streak'[c] >= ProbeFailureThreshold
             /\ clock >= holdOffUntil]_vars

\* A result counts only for the configuration it was obtained with, and not across
\* a pause: the config version turns away a late one (RecordProbeResult).
ResultsAreCurrent == ~mixed

\* A pending alert is flushed or withdrawn, also when the flush of another check
\* fails at every tick (Tick, flush).
PendingIsFlushed ==
    \A c \in Check :
        row[c].pending # "none" /\ row[c].links \cap Broken = {}
            ~> row[c].pending = "none" \/ row[c].links \cap Broken # {}

\* Overdue also for a tick that read its clock a lag ago.
Overdue(c) ==
    /\ row[c].state \in {"new", "up"} /\ ~row[c].paused
    /\ clock - MaxLag > Deadline(row[c]) /\ clock - MaxLag >= holdOffUntil

\* An overdue check goes down, unless it is heard of, paused, patched or deleted,
\* or the process restarts (RunChecker, AdvanceDue).
MissIsDetected == \A c \in Check : Overdue(c) ~> ~Overdue(c)
=============================================================================
