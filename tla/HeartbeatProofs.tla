-------------------------- MODULE HeartbeatProofs --------------------------
(***************************************************************************)
(* Proofs about Heartbeat, for every set of checks and destinations and    *)
(* every timing.  The machine's functions come first: what each of them    *)
(* may do to a row (Moves).  The invariants of the outbox then follow from *)
(* what a write of such a row does, whichever function it came from.       *)
(***************************************************************************)
EXTENDS Heartbeat, TLAPS, WellFoundedInduction

-----------------------------------------------------------------------------
(* Rows *)

\* The outbox of one row agrees with its state.
Consistent(r) ==
    /\ r.pending = "down" => r.state = "down" /\ ~r.paused
    /\ r.pending = "recovered" => r.state = "up" /\ ~r.paused

\* down_reason is set exactly while the check is down.
Reasoned(r) == r.state = "down" <=> r.reason # "none"

\* What a function of the machine may turn row r into: the outbox stays, is
\* cleared by a pause, or takes a new alert with the next number.
Moves(r, s) ==
    /\ s \in Row /\ s.state \in Live /\ s.config = r.config
    /\ Consistent(s) /\ Reasoned(s)
    /\ \/ s.seq = r.seq /\ s.pending = r.pending
       \/ s.seq = r.seq /\ s.pending = "none" /\ s.paused
       \/ s.seq = r.seq + 1 /\ s.pending # "none"

\* The rows the machine is applied to.
Good(r) == r \in Row /\ r.state \in Live /\ Consistent(r) /\ Reasoned(r)

\* An interval is a number also where there is no probe.
LEMMA IntervalIsNat == \A r \in Row : r.config.interval \in Nat
  BY HeartbeatAssumption DEF Row, NoConfig

\* emitAlert takes the next number and keeps the rest of the row.
LEMMA EmitRow ==
  ASSUME NEW r \in Row, NEW kind \in {"down", "recovered"},
         r.state \in Live, ~r.paused, Reasoned(r),
         kind = "down" => r.state = "down", kind = "recovered" => r.state = "up"
  PROVE  /\ Moves(r, emitAlert(r, kind))
         /\ emitAlert(r, kind).paused = r.paused
<1> DEFINE s == emitAlert(r, kind)
<1>1. r.seq + 1 \in Nat
  BY DEF Row
<1>2. s \in Row
  BY <1>1 DEF emitAlert, Row
<1>3. /\ s.seq = r.seq + 1 /\ s.pending = kind
      /\ s.state = r.state /\ s.reason = r.reason /\ s.paused = r.paused /\ s.config = r.config
  BY DEF emitAlert, Row
<1>4. Moves(r, s) /\ s.paused = r.paused
  <2> HIDE DEF s
  <2> QED
    BY <1>2, <1>3 DEF Moves, Consistent, Reasoned
<1> QED
  BY <1>4

\* A ping moves the row, paused or not.
LEMMA PingRow ==
  ASSUME NEW r, Good(r), NEW kind \in {"success", "fail"}, NEW now \in Time
  PROVE  Moves(r, ApplyPing(r, kind, now))
<1> DEFINE p == [r EXCEPT
            !.anchor = now,
            !.state = IF kind = "success" THEN "up" ELSE "down",
            !.reason = IF kind = "success" THEN "none"
                       ELSE IF r.state = "down" THEN @ ELSE "fail"]
<1>1. /\ p \in Row /\ p.state \in {"up", "down"} /\ Reasoned(p)
      /\ p.seq = r.seq /\ p.pending = r.pending /\ p.paused = r.paused /\ p.config = r.config
  BY DEF Good, Row, Live, Reasoned
<1>2. CASE p.state = r.state
  <2>1. ApplyPing(r, kind, now) = p
    BY <1>2 DEF ApplyPing
  <2> QED
    BY <1>1, <1>2, <2>1 DEF Moves, Good, Consistent, Live
<1>3. CASE p.state # r.state /\ r.paused
  <2>1. ApplyPing(r, kind, now) = [p EXCEPT !.pending = "none"]
    BY <1>3 DEF ApplyPing
  <2>2. [p EXCEPT !.pending = "none"] \in Row
    BY <1>1 DEF Row
  <2> HIDE DEF p
  <2> QED
    BY <1>1, <1>3, <2>1, <2>2 DEF Moves, Good, Consistent, Reasoned, Live, Row
<1>4. CASE p.state # r.state /\ ~r.paused /\ p.state = "down"
  <2>1. ApplyPing(r, kind, now) = emitAlert(p, "down")
    BY <1>4 DEF ApplyPing
  <2> HIDE DEF p
  <2>2. Moves(p, emitAlert(p, "down"))
    BY <1>1, <1>4, EmitRow DEF Live
  <2> QED
    BY <1>1, <2>1, <2>2 DEF Moves
<1>5. CASE p.state # r.state /\ ~r.paused /\ p.state = "up" /\ r.state = "down"
  <2>1. ApplyPing(r, kind, now) = emitAlert(p, "recovered")
    BY <1>5 DEF ApplyPing
  <2> HIDE DEF p
  <2>2. Moves(p, emitAlert(p, "recovered"))
    BY <1>1, <1>5, EmitRow DEF Live
  <2> QED
    BY <1>1, <2>1, <2>2 DEF Moves
<1>6. CASE p.state # r.state /\ ~r.paused /\ p.state = "up" /\ r.state # "down"
  <2>1. ApplyPing(r, kind, now) = p
    BY <1>6 DEF ApplyPing
  <2> QED
    BY <1>1, <1>6, <2>1 DEF Moves, Good, Consistent, Live
<1> QED
  BY <1>1, <1>2, <1>3, <1>4, <1>5, <1>6

\* The checker's tick moves an overdue row.
LEMMA TickRow ==
  ASSUME NEW r, Good(r), NEW now, Advances(r, now)
  PROVE  /\ Moves(r, AdvanceTick(r))
         /\ AdvanceTick(r).seq = r.seq + 1 /\ AdvanceTick(r).pending = "down"
<1> DEFINE p == [r EXCEPT !.state = "down", !.reason = "missed"]
<1>1. /\ p \in Row /\ p.state = "down" /\ Reasoned(p) /\ ~p.paused
      /\ p.seq = r.seq /\ p.pending = r.pending /\ p.config = r.config
  BY DEF Good, Row, Live, Reasoned, Advances
<1>2. AdvanceTick(r) = emitAlert(p, "down")
  BY DEF AdvanceTick
<1> HIDE DEF p
<1>3. Moves(p, emitAlert(p, "down"))
  BY <1>1, EmitRow DEF Live
<1>4. emitAlert(p, "down").seq = p.seq + 1 /\ emitAlert(p, "down").pending = "down"
  BY <1>1 DEF emitAlert, Row
<1> QED
  BY <1>1, <1>2, <1>3, <1>4 DEF Moves

\* A reset of the probing keeps the outbox.
LEMMA ResetRow ==
  ASSUME NEW r, Good(r), NEW now \in Time
  PROVE  /\ Moves(r, ApplyProbeReset(r, now)) /\ ApplyProbeReset(r, now).seq = r.seq
         /\ ApplyProbeReset(r, now).pending = r.pending
<1>1. CASE r.config = NoConfig
  BY <1>1 DEF ApplyProbeReset, Moves, Good
<1>2. CASE r.config # NoConfig
  <2> DEFINE s == [r EXCEPT !.failures = 0, !.version = @ + 1,
                   !.next = now + r.config.interval, !.anchor = now]
  <2>1. r.version + 1 \in Nat /\ now + r.config.interval \in Nat
    BY IntervalIsNat, HeartbeatAssumption DEF Good, Row, Time
  <2>2. s \in Row
    BY <2>1 DEF Good, Row
  <2>3. /\ s.seq = r.seq /\ s.pending = r.pending /\ s.state = r.state
        /\ s.reason = r.reason /\ s.paused = r.paused /\ s.config = r.config
    BY DEF Good, Row
  <2>4. ApplyProbeReset(r, now) = s
    BY <1>2 DEF ApplyProbeReset
  <2> HIDE DEF s
  <2> QED
    BY <2>2, <2>3, <2>4 DEF Moves, Good, Consistent, Reasoned
<1> QED
  BY <1>1, <1>2

\* A pause empties the outbox.
LEMMA PauseRow ==
  ASSUME NEW r, Good(r)
  PROVE  Moves(r, ApplyPause(r))
<1> DEFINE s == ApplyPause(r)
<1>1. r.version + 1 \in Nat /\ r.version \in Nat
  BY DEF Good, Row
<1>2. s \in Row
  BY <1>1 DEF Good, Row, ApplyPause
<1>3. /\ s.seq = r.seq /\ s.pending = "none" /\ s.state = r.state
      /\ s.reason = r.reason /\ s.paused = TRUE /\ s.config = r.config
  BY DEF Good, Row, ApplyPause
<1> HIDE DEF s
<1>4. Moves(r, s)
  BY <1>2, <1>3 DEF Moves, Good, Consistent, Reasoned
<1> QED
  BY <1>4 DEF s

\* A resume moves the row; the outbox of a paused row is empty and stays so.
LEMMA ResumeRow ==
  ASSUME NEW r, Good(r), NEW now \in Time
  PROVE  Moves(r, ApplyResume(r, now))
<1> DEFINE p == [r EXCEPT !.paused = FALSE, !.anchor = now]
<1>1. CASE r.paused
  <2>1. p \in Row
    BY DEF Good, Row
  <2>2. /\ p.seq = r.seq /\ p.pending = r.pending /\ p.state = r.state
        /\ p.reason = r.reason /\ p.config = r.config
    BY DEF Good, Row
  <2>3. ApplyResume(r, now) = ApplyProbeReset(p, now)
    BY <1>1 DEF ApplyResume
  <2> HIDE DEF p
  <2>4. Good(p)
    BY <1>1, <2>1, <2>2 DEF Good, Consistent, Reasoned
  <2> QED
    BY <2>2, <2>3, <2>4, ResetRow DEF Moves
<1>2. CASE ~r.paused
  BY <1>2 DEF ApplyResume, Moves, Good
<1> QED
  BY <1>1, <1>2

\* A probe's result moves a row that is not paused.
LEMMA ResultRow ==
  ASSUME NEW r, Good(r), ~r.paused, NEW ok \in BOOLEAN, NEW now \in Time
  PROVE  Moves(r, ApplyProbeResult(r, ok, now))
<1> DEFINE p == [r EXCEPT !.anchor = now, !.failures = IF ok THEN 0 ELSE @ + 1]
           u == [p EXCEPT !.state = "up", !.reason = "none"]
           v == [p EXCEPT !.state = "up"]
           w == [p EXCEPT !.reason = IF @ = "missed" THEN "probe" ELSE @]
           x == [p EXCEPT !.state = "down", !.reason = "probe"]
<1>0. r.failures + 1 \in Nat
  BY DEF Good, Row
<1>1. /\ p \in Row /\ p.state = r.state /\ p.reason = r.reason /\ p.paused = r.paused
      /\ p.seq = r.seq /\ p.pending = r.pending /\ p.config = r.config
  BY <1>0 DEF Good, Row
<1>2. ApplyProbeResult(r, ok, now) =
         IF ok THEN IF r.state = "down" THEN emitAlert(u, "recovered") ELSE v
         ELSE IF r.state = "down" THEN w
         ELSE IF p.failures < ProbeFailureThreshold \/ now < holdOffUntil THEN p
         ELSE emitAlert(x, "down")
  BY DEF ApplyProbeResult
<1> HIDE DEF p
<1>3. u \in Row /\ v \in Row /\ w \in Row /\ x \in Row
  BY <1>1 DEF Row, Live
<1>4. \A s \in {u, v, w, x} : /\ s.paused = r.paused /\ s.seq = r.seq
                               /\ s.pending = r.pending /\ s.config = r.config
  BY <1>1 DEF Row
<1>5. /\ u.state = "up" /\ u.reason = "none" /\ v.state = "up" /\ v.reason = r.reason
      /\ w.state = r.state /\ w.reason = (IF r.reason = "missed" THEN "probe" ELSE r.reason)
      /\ x.state = "down" /\ x.reason = "probe"
  BY <1>1 DEF Row
<1> HIDE DEF u, v, w, x
<1>6. CASE ok /\ r.state = "down"
  <2>1. Moves(u, emitAlert(u, "recovered"))
    BY <1>3, <1>4, <1>5, EmitRow DEF Reasoned, Live
  <2> QED
    BY <1>2, <1>4, <1>6, <2>1 DEF Moves
<1>7. CASE ok /\ r.state # "down"
  BY <1>2, <1>3, <1>4, <1>5, <1>7 DEF Moves, Good, Consistent, Reasoned, Live
<1>8. CASE ~ok /\ r.state = "down"
  BY <1>2, <1>3, <1>4, <1>5, <1>8 DEF Moves, Good, Consistent, Reasoned, Live
<1>9. CASE ~ok /\ r.state # "down" /\ (p.failures < ProbeFailureThreshold \/ now < holdOffUntil)
  BY <1>1, <1>2, <1>9 DEF Moves, Good, Consistent, Reasoned
<1>10. CASE ~ok /\ r.state # "down" /\ ~(p.failures < ProbeFailureThreshold \/ now < holdOffUntil)
  <2>1. Moves(x, emitAlert(x, "down"))
    BY <1>3, <1>4, <1>5, EmitRow DEF Reasoned, Live
  <2> QED
    BY <1>2, <1>4, <1>10, <2>1 DEF Moves
<1> QED
  BY <1>6, <1>7, <1>8, <1>9, <1>10

-----------------------------------------------------------------------------
(* The inductive invariant *)

\* Alerts that have left the outbox: stored as messages, or listed by the tick.
Told == sent \cup listed

\* A check that was told of has existed, its numbers only grow, and its latest
\* number means what the outbox says; one number means one thing.
ToldInv ==
    /\ \A m \in Told :
          /\ row[m.check].state # "absent"
          /\ Exists(m.check) =>
                /\ m.seq <= row[m.check].seq
                /\ m.seq = row[m.check].seq /\ row[m.check].pending # "none" =>
                      m.kind = row[m.check].pending
    /\ \A m, n \in Told : m.check = n.check /\ m.seq = n.seq => m.kind = n.kind

\* Until a submit fails, whoever is still owed the listed alert is still to be tried.
ListedInv ==
    \A f \in listed :
        f.seq = row[f.check].seq /\ ~f.failed => owed[f.check] \subseteq f.todo

AlertInv == ToldInv /\ ListedInv /\ NoAlertLost

Inv == TypeOK /\ OutboxMatchesState /\ AlertInv

\* TypeOK without the rows and the alerts.
Registers ==
    /\ clock \in Time /\ enabled \subseteq Dest /\ holdOffUntil \in Nat
    /\ tick \in {"idle", "list", "flush"} /\ scan \in {"idle", "claim"}
    /\ scanNow \in Time /\ snapshot \subseteq Probed
    /\ \A p \in probes : p.check \in Probed

-----------------------------------------------------------------------------
(* Writes of rows *)

\* What a step may do to check c's row: nothing to its outbox, withdraw the alert,
\* emit the next one, delete the check or create it.
RowStep(c) ==
    /\ row'[c] \in Row /\ Consistent(row'[c]) /\ Reasoned(row'[c])
    /\ Exists(c)' => (c \in Probed <=> row'[c].config # NoConfig)
    /\ owed'[c] \subseteq Dest
    /\ row'[c].state = "absent" => row[c].state = "absent"
    /\ Exists(c)' => row[c].state # "deleted"
    /\ \/ /\ row'[c].seq = row[c].seq /\ row'[c].pending = row[c].pending
          /\ owed'[c] \subseteq owed[c]
       \/ row'[c].seq = row[c].seq /\ row'[c].pending = "none" /\ owed'[c] = {}
       \/ row'[c].seq = row[c].seq + 1 /\ row'[c].pending # "none" /\ Exists(c)
       \/ row'[c].state = "deleted" /\ row'[c].pending = "none" /\ owed'[c] = {}
       \/ row[c].state = "absent" /\ row'[c].pending = "none" /\ owed'[c] \subseteq owed[c]

StoreStep ==
    /\ row' = [c \in Check |-> row'[c]] /\ owed' = [c \in Check |-> owed'[c]]
    /\ \A c \in Check : RowStep(c)

\* Rows of existing checks are rows the machine is applied to.
LEMMA GoodRow ==
  ASSUME Inv, NEW c \in Check, Exists(c)
  PROVE  Good(row[c])
  BY DEF Inv, TypeOK, OutboxMatchesState, Exists, Good, Consistent, Reasoned

\* A row that does not change takes a RowStep.
LEMMA SameRow ==
  ASSUME Inv, NEW c \in Check, row'[c] = row[c], owed'[c] \subseteq owed[c]
  PROVE  RowStep(c)
<1>1. row[c] \in Row /\ Consistent(row[c]) /\ Reasoned(row[c]) /\ owed[c] \subseteq Dest
  BY DEF Inv, TypeOK, OutboxMatchesState, Consistent, Reasoned
<1> QED
  BY <1>1 DEF RowStep, Inv, TypeOK, Exists, Live

\* Saving what the machine made of the row, or of the row with other columns than
\* the outbox changed first, is a StoreStep.
LEMMA SaveStep ==
  ASSUME Inv, NEW c \in Check, Exists(c), NEW b, NEW s,
         b.seq = row[c].seq, b.pending = row[c].pending,
         c \in Probed <=> b.config # NoConfig,
         Moves(b, s), Save(c, s)
  PROVE  StoreStep
<1>1. /\ row \in [Check -> Row] /\ owed \in [Check -> SUBSET Dest]
      /\ row' = [row EXCEPT ![c] = s]
      /\ owed' = [owed EXCEPT ![c] =
            IF s.pending # "none" /\ <<s.seq, s.pending>> # <<row[c].seq, row[c].pending>>
            THEN Dest ELSE IF s.paused THEN {} ELSE owed[c]]
  BY DEF Save, Inv, TypeOK
<1>2. row' = [d \in Check |-> row'[d]] /\ owed' = [d \in Check |-> owed'[d]]
  BY <1>1
<1>3. row'[c] = s
  BY <1>1
<1>4. owed'[c] = IF s.pending # "none" /\ <<s.seq, s.pending>> # <<row[c].seq, row[c].pending>>
                 THEN Dest ELSE IF s.paused THEN {} ELSE owed[c]
  BY <1>1
<1>5. RowStep(c)
  <2>1. /\ s \in Row /\ s.state \in Live /\ s.config = b.config
        /\ Consistent(s) /\ Reasoned(s)
    BY DEF Moves
  <2>2. owed[c] \subseteq Dest /\ row[c].seq \in Nat
    BY <1>1 DEF Row
  <2>3. row[c].state \notin {"absent", "deleted"} /\ s.state \notin {"absent", "deleted"}
    BY <2>1 DEF Exists, Live
  <2>4. CASE s.seq = b.seq /\ s.pending = b.pending
    BY <1>3, <1>4, <2>1, <2>2, <2>3, <2>4 DEF RowStep, Exists
  <2>5. CASE s.seq = b.seq /\ s.pending = "none" /\ s.paused
    BY <1>3, <1>4, <2>1, <2>2, <2>3, <2>5 DEF RowStep, Exists
  <2>6. CASE s.seq = b.seq + 1 /\ s.pending # "none"
    BY <1>3, <1>4, <2>1, <2>2, <2>3, <2>6 DEF RowStep, Exists
  <2> QED
    BY <2>4, <2>5, <2>6 DEF Moves
<1>6. ASSUME NEW d \in Check, d # c
      PROVE  RowStep(d)
  BY <1>1, <1>6, SameRow
<1> QED
  BY <1>2, <1>5, <1>6 DEF StoreStep

\* A StoreStep keeps the invariant of the rows and of the alerts.
LEMMA StoreStepInv ==
  ASSUME Inv, StoreStep, listed' \subseteq listed, sent' = sent
  PROVE  /\ row' \in [Check -> Row] /\ owed' \in [Check -> SUBSET Dest]
         /\ \A c \in Check :
               /\ row'[c].state = "down" <=> row'[c].reason # "none"
               /\ Exists(c)' => (c \in Probed <=> row'[c].config # NoConfig)
         /\ (listed \subseteq Flush)' /\ (sent \subseteq Alert)'
         /\ OutboxMatchesState' /\ AlertInv'
<1>1. /\ row' \in [Check -> Row] /\ owed' \in [Check -> SUBSET Dest]
      /\ row \in [Check -> Row] /\ owed \in [Check -> SUBSET Dest]
  BY DEF StoreStep, RowStep, Inv, TypeOK
<1>2. \A c \in Check :
        /\ row'[c].state = "down" <=> row'[c].reason # "none"
        /\ Exists(c)' => (c \in Probed <=> row'[c].config # NoConfig)
  BY DEF StoreStep, RowStep, Reasoned
<1>3. OutboxMatchesState'
  BY DEF StoreStep, RowStep, Consistent, OutboxMatchesState
<1>4. (listed \subseteq Flush)' /\ (sent \subseteq Alert)'
  BY DEF Inv, TypeOK
<1>5. \A m \in Told : m.check \in Check /\ m.seq \in Nat
  BY DEF Inv, TypeOK, Told, Flush, Alert
<1>6. Told' \subseteq Told
  BY DEF Told
<1>7. ToldInv'
  <2>1. ASSUME NEW m \in Told'
        PROVE  /\ row'[m.check].state # "absent"
               /\ Exists(m.check)' =>
                    /\ m.seq <= row'[m.check].seq
                    /\ m.seq = row'[m.check].seq /\ row'[m.check].pending # "none" =>
                          m.kind = row'[m.check].pending
    <3>1. /\ row[m.check].state # "absent"
          /\ Exists(m.check) =>
               /\ m.seq <= row[m.check].seq
               /\ m.seq = row[m.check].seq /\ row[m.check].pending # "none" =>
                     m.kind = row[m.check].pending
      BY <1>6 DEF Inv, AlertInv, ToldInv
    <3>2. m.check \in Check /\ m.seq \in Nat /\ row[m.check].seq \in Nat
      BY <1>1, <1>5, <1>6 DEF Row
    <3>3. row[m.check] \in Row
      BY <1>1, <3>2
    <3>4. Exists(m.check)' => Exists(m.check)
      BY <3>1, <3>2, <3>3 DEF StoreStep, RowStep, Exists, Row
    <3> QED
      BY <3>1, <3>2, <3>4 DEF StoreStep, RowStep, Exists, Live
  <2> QED
    BY <1>6, <2>1 DEF Inv, AlertInv, ToldInv
<1>8. ListedInv'
  <2>1. SUFFICES ASSUME NEW f \in listed', f.seq = row'[f.check].seq, ~f.failed
                 PROVE  owed'[f.check] \subseteq f.todo
    BY DEF ListedInv
  <2>2. /\ f.check \in Check /\ f.seq \in Nat /\ row[f.check].seq \in Nat
        /\ row[f.check].state # "absent"
        /\ Exists(f.check) => f.seq <= row[f.check].seq
        /\ f.seq = row[f.check].seq => owed[f.check] \subseteq f.todo
    BY <1>1, <1>5, <2>1 DEF Inv, AlertInv, ToldInv, ListedInv, Told, Row
  <2> QED
    BY <2>1, <2>2 DEF StoreStep, RowStep
<1>9. NoAlertLost'
  <2>1. ASSUME NEW c \in Check, row'[c].pending = "none"
        PROVE  owed'[c] = {}
    <3>1. row[c].pending = "none" => owed[c] = {}
      BY DEF Inv, AlertInv, NoAlertLost
    <3>2. row[c].state = "absent" => row[c].pending = "none"
      BY <1>1 DEF Inv, OutboxMatchesState, Row
    <3> QED
      BY <2>1, <3>1, <3>2 DEF StoreStep, RowStep
  <2> QED
    BY <2>1 DEF NoAlertLost
<1> QED
  BY <1>1, <1>2, <1>3, <1>4, <1>7, <1>8, <1>9 DEF AlertInv

-----------------------------------------------------------------------------
(* Requests *)

\* A now is a time.
LEMMA NowIsTime == Now \subseteq Time
  BY DEF Now

\* The time of a probe check's deadline is a number.
LEMMA SpanIsNat == \A g \in Config : g.interval * (ProbeFailureThreshold + 2) \in Nat
<1>1. \A a, b \in Nat : a * b \in Nat
  OBVIOUS
<1>2. ProbeFailureThreshold + 2 \in Nat
  BY HeartbeatAssumption
<1> QED
  BY <1>1, <1>2, HeartbeatAssumption

\* A new check's row has nothing in its outbox.
LEMMA CreateStep ==
  ASSUME Inv, NEW c \in Check, Create(c)
  PROVE  StoreStep
<1> DEFINE New(links, now) == [NoRow EXCEPT !.state = "new", !.anchor = now, !.links = links]
<1>1. PICK links \in (SUBSET Dest) \ {{}}, now \in Now :
          IF c \in Probed
          THEN \E g \in Config : Save(c,
                 [New(links, now) EXCEPT !.config = g, !.version = 1, !.next = now + g.interval,
                                !.span = g.interval * (ProbeFailureThreshold + 2)])
          ELSE \E s \in Span : Save(c, [New(links, now) EXCEPT !.span = s])
  BY DEF Create, resolveDestinationIDs, DerivedSchedule
<1>2. \E s \in Row : /\ Save(c, s) /\ s.state = "new" /\ s.reason = "none" /\ s.pending = "none"
                     /\ ~s.paused /\ (c \in Probed <=> s.config # NoConfig)
  <2>1. CASE c \in Probed
    <3>1. PICK g \in Config : Save(c,
                 [New(links, now) EXCEPT !.config = g, !.version = 1, !.next = now + g.interval,
                                !.span = g.interval * (ProbeFailureThreshold + 2)])
      BY <1>1, <2>1
    <3> DEFINE s == [New(links, now) EXCEPT !.config = g, !.version = 1, !.next = now + g.interval,
                                !.span = g.interval * (ProbeFailureThreshold + 2)]
    <3>2. /\ now \in Time /\ now + g.interval \in Nat
          /\ g.interval * (ProbeFailureThreshold + 2) \in Nat
      BY NowIsTime, SpanIsNat, HeartbeatAssumption DEF Time
    <3>3. s \in Row
      BY <3>2 DEF NoRow, Row, Live
    <3>4. /\ s.state = "new" /\ s.reason = "none" /\ s.pending = "none" /\ ~s.paused
          /\ s.config = g
      BY DEF NoRow
    <3>5. g # NoConfig
      BY HeartbeatAssumption
    <3> HIDE DEF s
    <3> QED
      BY <2>1, <3>1, <3>3, <3>4, <3>5 DEF s
  <2>2. CASE c \notin Probed
    <3>1. PICK t \in Span : Save(c, [New(links, now) EXCEPT !.span = t])
      BY <1>1, <2>2
    <3> DEFINE s == [New(links, now) EXCEPT !.span = t]
    <3>2. now \in Time /\ t \in Nat
      BY NowIsTime, HeartbeatAssumption
    <3>3. s \in Row
      BY <3>2 DEF NoRow, Row, Live
    <3>4. /\ s.state = "new" /\ s.reason = "none" /\ s.pending = "none" /\ ~s.paused
          /\ s.config = NoConfig
      BY DEF NoRow
    <3> HIDE DEF s
    <3> QED
      BY <2>2, <3>1, <3>3, <3>4 DEF s
  <2> QED
    BY <2>1, <2>2
<1>3. PICK s \in Row : /\ Save(c, s) /\ s.state = "new" /\ s.reason = "none" /\ s.pending = "none"
                       /\ ~s.paused /\ (c \in Probed <=> s.config # NoConfig)
  BY <1>2
<1>4. /\ row \in [Check -> Row] /\ owed \in [Check -> SUBSET Dest]
      /\ row' = [row EXCEPT ![c] = s] /\ owed' = [owed EXCEPT ![c] = owed[c]]
  BY <1>3 DEF Save, Inv, TypeOK
<1>5. row[c].state = "absent"
  BY DEF Create
<1>6. RowStep(c)
  BY <1>3, <1>4, <1>5 DEF RowStep, Consistent, Reasoned, Exists, Live
<1>7. ASSUME NEW d \in Check, d # c
      PROVE  RowStep(d)
  BY <1>4, <1>7, SameRow
<1>8. row' = [d \in Check |-> row'[d]] /\ owed' = [d \in Check |-> owed'[d]]
  BY <1>4
<1> QED
  BY <1>6, <1>7, <1>8 DEF StoreStep

\* A patch changes no column of the outbox, with or without a reset of the probing.
LEMMA PatchStep ==
  ASSUME Inv, NEW c \in Check, Patch(c)
  PROVE  StoreStep
<1>1. Exists(c) /\ Good(row[c])
  BY GoodRow DEF Patch
<1>2. PICK links \in (SUBSET Dest) \ {{}}, now \in Now :
          IF c \in Probed
          THEN \E g \in Config, credential \in BOOLEAN :
                 LET r == [row[c] EXCEPT !.links = links, !.config = g,
                                !.span = g.interval * (ProbeFailureThreshold + 2)]
                     reset == g # row[c].config \/ credential
                 IN Save(c, IF reset THEN ApplyProbeReset(r, now) ELSE r)
          ELSE \E s \in Span : Save(c, [row[c] EXCEPT !.links = links, !.span = s])
  BY DEF Patch, resolveDestinationIDs, DerivedSchedule, ApplyPatch, ProbeConfigChanged
<1>3. CASE c \in Probed
  <2>1. PICK g \in Config, credential \in BOOLEAN :
                 LET r == [row[c] EXCEPT !.links = links, !.config = g,
                                !.span = g.interval * (ProbeFailureThreshold + 2)]
                     reset == g # row[c].config \/ credential
                 IN Save(c, IF reset THEN ApplyProbeReset(r, now) ELSE r)
    BY <1>2, <1>3
  <2> DEFINE r == [row[c] EXCEPT !.links = links, !.config = g,
                                !.span = g.interval * (ProbeFailureThreshold + 2)]
             s == IF g # row[c].config \/ credential THEN ApplyProbeReset(r, now) ELSE r
  <2>2. Save(c, s)
    BY <2>1
  <2>3. r \in Row
    BY <1>1, SpanIsNat DEF Good, Row
  <2>4. /\ r.seq = row[c].seq /\ r.pending = row[c].pending /\ r.state = row[c].state
        /\ r.reason = row[c].reason /\ r.paused = row[c].paused /\ r.config = g
    BY <1>1 DEF Good, Row
  <2>5. g # NoConfig
    BY HeartbeatAssumption
  <2> HIDE DEF r
  <2>6. Good(r)
    BY <1>1, <2>3, <2>4 DEF Good, Consistent, Reasoned
  <2>7. Moves(r, r) /\ Moves(r, ApplyProbeReset(r, now))
    BY <2>6, NowIsTime, ResetRow DEF Moves, Good
  <2>8. Moves(r, s)
    BY <2>7
  <2> HIDE DEF s
  <2> QED
    BY <1>1, <1>3, <2>2, <2>4, <2>5, <2>8, SaveStep
<1>4. CASE c \notin Probed
  <2>1. PICK t \in Span : Save(c, [row[c] EXCEPT !.links = links, !.span = t])
    BY <1>2, <1>4
  <2> DEFINE r == [row[c] EXCEPT !.links = links, !.span = t]
  <2>2. r \in Row
    BY <1>1, HeartbeatAssumption DEF Good, Row
  <2>3. /\ r.seq = row[c].seq /\ r.pending = row[c].pending /\ r.state = row[c].state
        /\ r.reason = row[c].reason /\ r.paused = row[c].paused /\ r.config = row[c].config
    BY <1>1 DEF Good, Row
  <2>4. row[c].config = NoConfig
    BY <1>1, <1>4 DEF Inv, TypeOK
  <2> HIDE DEF r
  <2>5. Moves(r, r)
    BY <1>1, <2>2, <2>3 DEF Good, Consistent, Reasoned, Moves
  <2>6. Save(c, r)
    BY <2>1 DEF r
  <2> QED
    BY <1>1, <1>4, <2>3, <2>4, <2>5, <2>6, SaveStep
<1> QED
  BY <1>3, <1>4

\* A deleted check owes nothing.
LEMMA DeleteStep ==
  ASSUME Inv, NEW c \in Check, Delete(c)
  PROVE  StoreStep
<1> DEFINE s == [NoRow EXCEPT !.state = "deleted"]
<1>1. /\ row \in [Check -> Row] /\ owed \in [Check -> SUBSET Dest]
      /\ row' = [row EXCEPT ![c] = s] /\ owed' = [owed EXCEPT ![c] = {}]
  BY DEF Delete, Inv, TypeOK
<1>2. s \in Row /\ s.state = "deleted" /\ s.pending = "none" /\ s.reason = "none"
  <2>1. 0 \in Time
    BY HeartbeatAssumption DEF Time
  <2>2. s \in Row
    BY <2>1 DEF NoRow, Row
  <2>3. s.state = "deleted" /\ s.pending = "none" /\ s.reason = "none"
    BY DEF NoRow
  <2> QED
    BY <2>2, <2>3
<1> HIDE DEF s
<1>3. RowStep(c)
  BY <1>1, <1>2 DEF RowStep, Consistent, Reasoned, Exists, Live
<1>4. ASSUME NEW d \in Check, d # c
      PROVE  RowStep(d)
  BY <1>1, <1>4, SameRow
<1>5. row' = [d \in Check |-> row'[d]] /\ owed' = [d \in Check |-> owed'[d]]
  BY <1>1
<1> QED
  BY <1>3, <1>4, <1>5 DEF StoreStep

\* Pauses, resumes and pings save what the machine makes of the row.
LEMMA MachineStep ==
  ASSUME Inv, NEW c \in Check, Pause(c) \/ Resume(c) \/ RecordPing(c)
  PROVE  StoreStep
<1>1. Exists(c) /\ Good(row[c]) /\ (c \in Probed <=> row[c].config # NoConfig)
  BY GoodRow DEF Pause, Resume, RecordPing, Inv, TypeOK
<1>2. \E s : Moves(row[c], s) /\ Save(c, s)
  <2>1. CASE Pause(c)
    BY <1>1, <2>1, PauseRow DEF Pause
  <2>2. CASE Resume(c)
    BY <1>1, <2>2, NowIsTime, ResumeRow DEF Resume
  <2>3. CASE RecordPing(c)
    BY <1>1, <2>3, NowIsTime, PingRow DEF RecordPing
  <2> QED
    BY <2>1, <2>2, <2>3
<1> QED
  BY <1>1, <1>2, SaveStep

-----------------------------------------------------------------------------
(* The checker and the prober *)

\* The overdue checks take the next number, and the others stay.
LEMMA AdvanceStep ==
  ASSUME Inv, AdvanceDue
  PROVE  StoreStep
<1>1. PICK now \in Now :
          LET due == {c \in Check : Advances(row[c], now) /\ now >= holdOffUntil}
          IN /\ row' = [c \in Check |-> IF c \in due THEN AdvanceTick(row[c]) ELSE row[c]]
             /\ owed' = [c \in Check |-> IF c \in due THEN Dest ELSE owed[c]]
  BY DEF AdvanceDue
<1>2. row' = [d \in Check |-> row'[d]] /\ owed' = [d \in Check |-> owed'[d]]
  BY <1>1
<1>3. ASSUME NEW c \in Check
      PROVE  RowStep(c)
  <2>1. CASE Advances(row[c], now) /\ now >= holdOffUntil
    <3>1. Exists(c) /\ Good(row[c]) /\ (c \in Probed <=> row[c].config # NoConfig)
      BY <2>1, GoodRow DEF Advances, Exists, Live, Inv, TypeOK
    <3>2. row'[c] = AdvanceTick(row[c]) /\ owed'[c] = Dest
      BY <1>1, <2>1
    <3>3. /\ Moves(row[c], row'[c])
          /\ row'[c].seq = row[c].seq + 1 /\ row'[c].pending = "down"
      BY <2>1, <3>1, <3>2, TickRow
    <3> QED
      BY <3>1, <3>2, <3>3 DEF RowStep, Moves, Exists, Live
  <2>2. CASE ~(Advances(row[c], now) /\ now >= holdOffUntil)
    <3>1. row'[c] = row[c] /\ owed'[c] = owed[c]
      BY <1>1, <2>2
    <3> QED
      BY <3>1, SameRow
  <2> QED
    BY <2>1, <2>2
<1> QED
  BY <1>2, <1>3 DEF StoreStep

\* A claim moves only the time of the next probe.
LEMMA ClaimStep ==
  ASSUME Inv, ClaimDueProbes
  PROVE  StoreStep
<1>1. PICK due \in SUBSET {c \in snapshot : Exists(c) /\ row[c].next <= scanNow} :
          row' = [c \in Check |-> IF c \in due THEN Claimed(c) ELSE row[c]]
  BY DEF ClaimDueProbes
<1>2. owed' = owed /\ owed \in [Check -> SUBSET Dest]
  BY DEF ClaimDueProbes, Inv, TypeOK
<1>3. row' = [d \in Check |-> row'[d]] /\ owed' = [d \in Check |-> owed'[d]]
  BY <1>1, <1>2
<1>4. ASSUME NEW c \in Check
      PROVE  RowStep(c)
  <2>1. CASE c \in due
    <3>1. row'[c] = Claimed(c) /\ Exists(c)
      BY <1>1, <2>1
    <3>2. Good(row[c]) /\ (c \in Probed <=> row[c].config # NoConfig) /\ scanNow \in Time
      BY <3>1, GoodRow DEF Inv, TypeOK
    <3>3. scanNow + row[c].config.interval \in Nat
      BY <3>2, IntervalIsNat, HeartbeatAssumption DEF Good, Time
    <3>4. Claimed(c) \in Row
      BY <3>2, <3>3 DEF Claimed, Good, Row
    <3>5. /\ Claimed(c).seq = row[c].seq /\ Claimed(c).pending = row[c].pending
          /\ Claimed(c).state = row[c].state /\ Claimed(c).reason = row[c].reason
          /\ Claimed(c).paused = row[c].paused /\ Claimed(c).config = row[c].config
      BY <3>2 DEF Claimed, Good, Row
    <3> QED
      BY <1>2, <3>1, <3>2, <3>4, <3>5 DEF RowStep, Good, Consistent, Reasoned, Exists, Live
  <2>2. CASE c \notin due
    BY <1>1, <1>2, <2>2, SameRow
  <2> QED
    BY <2>1, <2>2
<1> QED
  BY <1>3, <1>4 DEF StoreStep

\* A result that applies moves the row; another one changes nothing.
LEMMA ResultStep ==
  ASSUME Inv, RecordProbeResult
  PROVE  StoreStep
<1>1. PICK p \in probes, ok \in BOOLEAN, now \in Now :
          IF Applies(p) THEN Save(p.check, ApplyProbeResult(row[p.check], ok, now))
          ELSE UNCHANGED <<row, owed>>
  BY DEF RecordProbeResult, runProbe
<1>2. CASE Applies(p)
  <2>1. p.check \in Check /\ Exists(p.check) /\ ~row[p.check].paused
    BY <1>2, HeartbeatAssumption DEF Applies, Inv, TypeOK
  <2>2. Good(row[p.check]) /\ (p.check \in Probed <=> row[p.check].config # NoConfig)
    BY <2>1, GoodRow DEF Inv, TypeOK
  <2>3. Moves(row[p.check], ApplyProbeResult(row[p.check], ok, now))
    BY <2>1, <2>2, NowIsTime, ResultRow
  <2> QED
    BY <1>1, <1>2, <2>1, <2>2, <2>3, SaveStep
<1>3. CASE ~Applies(p)
  BY <1>1, <1>3, SameRow DEF StoreStep, Inv, TypeOK
<1> QED
  BY <1>2, <1>3

\* The list of alerts has a first one.
LEMMA FirstIsListed ==
  ASSUME Inv, listed # {}
  PROVE  First \in listed
<1> DEFINE T == {f.check : f \in listed}
<1>1. T \subseteq Nat /\ T # {}
  <2>1. \A f \in listed : f.check \in Nat
    BY HeartbeatAssumption DEF Inv, TypeOK, Flush
  <2> QED
    BY <2>1
<1>2. PICK x \in T : \A y \in T : ~(<<y, x>> \in OpToRel(<, Nat))
  BY <1>1, NatLessThanWellFounded, WFMin, Zenon
<1>3. \A y \in T : x <= y
  <2>1. \A y \in T : ~(y < x)
    BY <1>1, <1>2, Zenon DEF OpToRel
  <2> QED
    BY <1>1, <2>1
<1>4. \E f \in listed : \A g \in listed : f.check <= g.check
  BY <1>2, <1>3
<1> QED
  BY <1>4 DEF First

\* The tick lists what the rows hold: the owed destinations are among those to try.
LEMMA ListStep ==
  ASSUME Inv, ListPendingAlerts
  PROVE  /\ (listed \subseteq Flush)' /\ (sent \subseteq Alert)'
         /\ owed' \in [Check -> SUBSET Dest] /\ AlertInv'
<1> DEFINE pending == {c \in Check : row[c].pending # "none"}
<1>1. /\ listed' = {Listing(c) : c \in pending}
      /\ owed' = [c \in Check |->
            IF c \in pending THEN owed[c] \cap row[c].links \cap enabled ELSE owed[c]]
      /\ row' = row /\ sent' = sent /\ enabled' = enabled
  BY DEF ListPendingAlerts
<1>2. row \in [Check -> Row] /\ owed \in [Check -> SUBSET Dest] /\ enabled \subseteq Dest
  BY DEF Inv, TypeOK
<1>3. \A c \in pending :
         /\ Listing(c).check = c /\ Listing(c).kind = row[c].pending
         /\ Listing(c).seq = row[c].seq /\ Listing(c).todo = row[c].links \cap enabled
         /\ Listing(c) \in Flush /\ row[c].state \in Live
  BY <1>2 DEF Listing, Flush, Kind, Row, Inv, OutboxMatchesState, Live
<1>4. (listed \subseteq Flush)' /\ (sent \subseteq Alert)'
  BY <1>1, <1>3 DEF Inv, TypeOK
<1>5. owed' \in [Check -> SUBSET Dest]
  BY <1>1, <1>2
<1>6. ListedInv'
  BY <1>1, <1>3 DEF ListedInv
<1>7. NoAlertLost'
  BY <1>1 DEF NoAlertLost, Inv, AlertInv
<1>8. ToldInv'
  <2>1. \A m \in Told' : m \in sent \/ \E c \in pending : m = Listing(c)
    BY <1>1 DEF Told
  <2>2. \A m \in sent : m.check \in Check /\ m.seq \in Nat
    BY DEF Inv, TypeOK, Alert
  <2>3. ASSUME NEW m \in Told'
        PROVE  /\ row[m.check].state # "absent"
               /\ Exists(m.check) =>
                    /\ m.seq <= row[m.check].seq
                    /\ m.seq = row[m.check].seq /\ row[m.check].pending # "none" =>
                          m.kind = row[m.check].pending
    <3>1. CASE m \in sent
      BY <3>1 DEF Inv, AlertInv, ToldInv, Told
    <3>2. CASE \E c \in pending : m = Listing(c)
      <4>1. PICK c \in pending : m = Listing(c)
        BY <3>2
      <4>2. row[c].seq \in Nat
        BY <1>2 DEF Row
      <4> QED
        BY <1>3, <4>1, <4>2 DEF Live
    <3> QED
      BY <2>1, <3>1, <3>2
  <2>4. ASSUME NEW m \in Told', NEW n \in Told', m.check = n.check, m.seq = n.seq
        PROVE  m.kind = n.kind
    <3>1. CASE m \in sent /\ n \in sent
      BY <2>4, <3>1 DEF Inv, AlertInv, ToldInv, Told
    <3>2. ASSUME NEW a \in Told', NEW b \in Told', a.check = b.check, a.seq = b.seq,
                 NEW c \in pending, a = Listing(c)
          PROVE  b.kind = a.kind
      <4>1. /\ a.check = c /\ a.kind = row[c].pending /\ a.seq = row[c].seq
            /\ row[c].pending # "none" /\ Exists(c)
        BY <1>3, <3>2 DEF Exists
      <4> QED
        BY <2>3, <3>2, <4>1
    <3> QED
      BY <2>1, <2>4, <3>1, <3>2
  <2> QED
    BY <1>1, <2>3, <2>4 DEF ToldInv, Exists
<1> QED
  BY <1>4, <1>5, <1>6, <1>7, <1>8 DEF AlertInv

\* A submit, successful or not, says of its alert what the listing says.
LEMMA SubmitStep ==
  ASSUME Inv, Submit \/ SubmitFails
  PROVE  /\ (listed \subseteq Flush)' /\ (sent \subseteq Alert)'
         /\ owed' \in [Check -> SUBSET Dest] /\ AlertInv'
<1>1. First \in listed /\ First \in Flush
  BY FirstIsListed DEF Submit, SubmitFails, Inv, TypeOK
<1>2. /\ row' = row /\ row \in [Check -> Row] /\ owed \in [Check -> SUBSET Dest]
      /\ First.check \in Check
  BY <1>1 DEF Submit, SubmitFails, Inv, TypeOK, Flush
<1>3. PICK d \in First.todo, g \in Flush :
         /\ listed' = (listed \ {First}) \cup {g}
         /\ g.check = First.check /\ g.seq = First.seq /\ g.kind = First.kind
         /\ g.todo = First.todo \ {d}
         /\ sent' = sent \/ sent' = Stored(First, d)
         /\ \/ g.failed = First.failed /\ owed' = Served(First, d)
            \/ g.failed /\ owed' = owed
  <2>1. CASE Submit
    <3>1. PICK d \in First.todo :
          /\ listed' = (listed \ {First}) \cup {[First EXCEPT !.todo = @ \ {d}]}
          /\ sent' = IF d \in enabled THEN Stored(First, d) ELSE sent
          /\ owed' = Served(First, d)
      BY <2>1 DEF Submit
    <3> DEFINE g == [First EXCEPT !.todo = @ \ {d}]
    <3>2. /\ g \in Flush /\ g.check = First.check /\ g.seq = First.seq
          /\ g.kind = First.kind /\ g.todo = First.todo \ {d} /\ g.failed = First.failed
      BY <1>1 DEF Flush
    <3> HIDE DEF g
    <3> QED
      BY <3>1, <3>2 DEF g
  <2>2. CASE SubmitFails
    <3>1. PICK d \in First.todo \cap enabled, stored \in BOOLEAN :
          /\ listed' = (listed \ {First})
                \cup {[First EXCEPT !.todo = @ \ {d}, !.failed = TRUE]}
          /\ sent' = IF stored THEN Stored(First, d) ELSE sent
      BY <2>2 DEF SubmitFails
    <3> DEFINE g == [First EXCEPT !.todo = @ \ {d}, !.failed = TRUE]
    <3>2. /\ g \in Flush /\ g.check = First.check /\ g.seq = First.seq
          /\ g.kind = First.kind /\ g.todo = First.todo \ {d} /\ g.failed
      BY <1>1 DEF Flush
    <3>3. owed' = owed
      BY <2>2 DEF SubmitFails
    <3> HIDE DEF g
    <3>4. /\ d \in First.todo /\ listed' = (listed \ {First}) \cup {g}
          /\ sent' = sent \/ sent' = Stored(First, d)
      BY <3>1 DEF g
    <3> QED
      BY <3>2, <3>3, <3>4
  <2> QED
    BY <2>1, <2>2
<1>4. (listed \subseteq Flush)'
  BY <1>3 DEF Inv, TypeOK
<1>5. \A m \in sent' : \/ m \in sent
                      \/ /\ m \in Alert /\ m.check = First.check
                         /\ m.seq = First.seq /\ m.kind = First.kind
  BY <1>1, <1>3 DEF Stored, Alert, Flush
<1>6. (sent \subseteq Alert)'
  BY <1>5 DEF Inv, TypeOK
<1>7. /\ owed' \in [Check -> SUBSET Dest]
      /\ \A c \in Check : owed'[c] \subseteq owed[c]
      /\ ~g.failed /\ g.seq = row[g.check].seq => owed'[g.check] = owed[g.check] \ {d}
  BY <1>2, <1>3 DEF Served
<1>8. ToldInv'
  <2>1. \A m \in Told' : \E n \in Told : m.check = n.check /\ m.seq = n.seq /\ m.kind = n.kind
    BY <1>1, <1>3, <1>5 DEF Told
  <2> QED
    BY <1>2, <2>1 DEF Inv, AlertInv, ToldInv, Exists
<1>9. ListedInv'
  <2>1. SUFFICES ASSUME NEW f \in listed', f.seq = row'[f.check].seq, ~f.failed
                 PROVE  owed'[f.check] \subseteq f.todo
    BY DEF ListedInv
  <2>2. CASE f = g
    <3>1. ~First.failed /\ First.seq = row[First.check].seq
      BY <1>2, <1>3, <2>1, <2>2
    <3>2. owed[First.check] \subseteq First.todo
      BY <1>1, <3>1 DEF Inv, AlertInv, ListedInv
    <3> QED
      BY <1>2, <1>3, <1>7, <2>1, <2>2, <3>2
  <2>3. CASE f \in listed
    <3>1. f.check \in Check /\ owed[f.check] \subseteq f.todo
      BY <1>2, <2>1, <2>3 DEF Inv, AlertInv, ListedInv, TypeOK, Flush
    <3> QED
      BY <1>7, <3>1
  <2> QED
    BY <1>3, <2>2, <2>3
<1>10. NoAlertLost'
  BY <1>2, <1>7 DEF NoAlertLost, Inv, AlertInv
<1> QED
  BY <1>4, <1>6, <1>7, <1>8, <1>9, <1>10 DEF AlertInv

\* A flush that ends clears the row only when nobody is owed its latest alert.
LEMMA FlushStep ==
  ASSUME Inv, FlushDone
  PROVE  StoreStep
<1>1. First \in listed /\ First.check \in Check /\ First.todo = {}
  BY FirstIsListed DEF FlushDone, Inv, TypeOK, Flush
<1>2. /\ row \in [Check -> Row] /\ owed \in [Check -> SUBSET Dest] /\ owed' = owed
      /\ row' = row \/ (~First.failed /\ row' = ClearPendingAlert(First))
  BY DEF FlushDone, Inv, TypeOK
<1>3. CASE row' = row \/ row[First.check].seq # First.seq
  <2>1. row' = row
    <3>1. \A r \in Row : [r EXCEPT !.pending = r.pending] = r
      BY DEF Row
    <3>2. row[First.check] \in Row
      BY <1>1, <1>2
    <3>3. CASE row[First.check].seq # First.seq /\ row' = ClearPendingAlert(First)
      <4>1. row' = [row EXCEPT ![First.check] =
                      [row[First.check] EXCEPT !.pending = row[First.check].pending]]
        BY <3>3 DEF ClearPendingAlert
      <4> QED
        BY <1>1, <1>2, <3>1, <3>2, <4>1
    <3> QED
      BY <1>2, <1>3, <3>3
  <2> QED
    BY <1>2, <2>1, SameRow DEF StoreStep
<1>4. CASE ~First.failed /\ row' = ClearPendingAlert(First) /\ row[First.check].seq = First.seq
  <2>0. PICK c \in Check : c = First.check
    BY <1>1
  <2> DEFINE s == [row[c] EXCEPT !.pending = "none"]
  <2>1. row' = [row EXCEPT ![c] = s]
    BY <1>4, <2>0 DEF ClearPendingAlert
  <2>2. s \in Row
    BY <1>1, <1>2 DEF Row
  <2>3. /\ s.seq = row[c].seq /\ s.pending = "none" /\ s.state = row[c].state
        /\ s.reason = row[c].reason /\ s.paused = row[c].paused /\ s.config = row[c].config
    BY <1>1, <1>2 DEF Row
  <2>4. owed[c] = {}
    BY <1>1, <1>4, <2>0 DEF Inv, AlertInv, ListedInv
  <2>5. Reasoned(row[c]) /\ (Exists(c) => (c \in Probed <=> row[c].config # NoConfig))
    BY <1>1 DEF Inv, TypeOK, Reasoned
  <2> HIDE DEF s
  <2>6. RowStep(c)
    <3>1. row'[c] = s /\ owed'[c] = {}
      BY <1>1, <1>2, <2>1, <2>4
    <3> QED
      BY <2>2, <2>3, <2>5, <3>1 DEF RowStep, Consistent, Reasoned, Exists, Live
  <2>7. ASSUME NEW d \in Check, d # c
        PROVE  RowStep(d)
    BY <1>1, <1>2, <2>1, <2>7, SameRow
  <2>8. row' = [d \in Check |-> row'[d]] /\ owed' = [d \in Check |-> owed'[d]]
    BY <1>1, <1>2, <2>1
  <2> QED
    BY <2>6, <2>7, <2>8 DEF StoreStep
<1> QED
  BY <1>2, <1>3, <1>4

-----------------------------------------------------------------------------
(* The theorems *)

\* The registers keep their types whatever the rows do.
LEMMA RegistersStep ==
  ASSUME Inv, [Next]_vars
  PROVE  Registers'
<1> USE DEF Registers
<1>1. /\ Registers /\ clock \in Nat /\ StartupHoldOff \in Nat
      /\ MaxTime \in Nat /\ 0 \in Time
  BY HeartbeatAssumption DEF Inv, TypeOK, Time
<1>2. CASE Request
  <2>1. CASE \E d \in Dest : SetEnabled(d)
    BY <1>1, <2>1 DEF SetEnabled, Edit, process, checker, prober
  <2>2. CASE \E c \in Check :
              Create(c) \/ Patch(c) \/ Delete(c) \/ Pause(c) \/ Resume(c) \/ RecordPing(c)
    BY <1>1, <2>2 DEF Create, Patch, Delete, Pause, Resume, RecordPing, Edit,
                      process, checker, prober
  <2> QED
    BY <1>2, <2>1, <2>2 DEF Request
<1>3. CASE Checker \/ TickFailed
  BY <1>1, <1>3 DEF Checker, TickFailed, AdvanceDue, ListPendingAlerts, Submit, SubmitFails,
                    FlushDone, TickDone, prober
<1>4. CASE Scan
  BY <1>1, <1>4, NowIsTime DEF Scan, checker
<1>5. CASE ClaimDueProbes
  <2>1. \A p \in probes' : p.check \in Probed
    BY <1>1, <1>5 DEF ClaimDueProbes
  <2> QED
    BY <1>1, <1>5, <2>1 DEF ClaimDueProbes, checker
<1>6. CASE RecordProbeResult
  BY <1>1, <1>6 DEF RecordProbeResult, checker
<1>7. CASE ProbeLost
  BY <1>1, <1>7 DEF ProbeLost, checker
<1>8. CASE Restart
  BY <1>1, <1>8 DEF Restart
<1>9. CASE Tick
  BY <1>1, <1>9 DEF Tick, Time, process, checker, prober
<1>10. CASE UNCHANGED vars
  BY <1>1, <1>10 DEF vars, process, checker, prober
<1> QED
  BY <1>2, <1>3, <1>4, <1>5, <1>6, <1>7, <1>8, <1>9, <1>10 DEF Next, Prober

\* The invariant holds at the start: no check exists and nothing was told.
LEMMA InitInv ==
  ASSUME Init
  PROVE  Inv
<1>1. 0 \in Time /\ StartupHoldOff \in Nat
  BY HeartbeatAssumption DEF Time
<1>2. NoRow \in Row /\ NoRow.state = "absent" /\ NoRow.reason = "none" /\ NoRow.pending = "none"
  BY <1>1 DEF NoRow, Row
<1>3. TypeOK
  BY <1>1, <1>2 DEF Init, TypeOK, Exists, Live
<1>4. OutboxMatchesState
  BY <1>2 DEF Init, OutboxMatchesState
<1>5. AlertInv
  BY DEF Init, AlertInv, ToldInv, ListedInv, NoAlertLost, Told
<1> QED
  BY <1>3, <1>4, <1>5 DEF Inv

\* Every step keeps the invariant.
LEMMA StepInv ==
  ASSUME Inv, [Next]_vars
  PROVE  Inv'
<1>1. Registers'
  BY RegistersStep
<1>2. CASE StoreStep /\ listed' \subseteq listed /\ sent' = sent
  BY <1>1, <1>2, StoreStepInv DEF Inv, TypeOK, Registers
<1>3. CASE ListPendingAlerts \/ Submit \/ SubmitFails
  <2>1. /\ (listed \subseteq Flush)' /\ (sent \subseteq Alert)'
        /\ owed' \in [Check -> SUBSET Dest] /\ AlertInv'
    BY <1>3, ListStep, SubmitStep
  <2>2. row' = row
    BY <1>3 DEF ListPendingAlerts, Submit, SubmitFails
  <2> QED
    BY <1>1, <2>1, <2>2 DEF Inv, TypeOK, Registers, OutboxMatchesState, Exists
<1>4. CASE Request
  <2>1. listed' = listed /\ sent' = sent
    BY <1>4 DEF Request, SetEnabled, Create, Patch, Delete, Pause, Resume, RecordPing, Edit,
                process, checker
  <2>2. StoreStep
    <3>1. CASE \E d \in Dest : SetEnabled(d)
      BY <3>1, SameRow DEF SetEnabled, StoreStep, Inv, TypeOK
    <3> QED
      BY <1>4, <3>1, CreateStep, PatchStep, DeleteStep, MachineStep DEF Request
  <2> QED
    BY <1>2, <2>1, <2>2
<1>5. CASE AdvanceDue
  BY <1>2, <1>5, AdvanceStep DEF AdvanceDue
<1>6. CASE FlushDone
  BY <1>2, <1>6, FlushStep DEF FlushDone, EndFlush
<1>7. CASE ClaimDueProbes
  BY <1>2, <1>7, ClaimStep DEF ClaimDueProbes, checker
<1>8. CASE RecordProbeResult
  BY <1>2, <1>8, ResultStep DEF RecordProbeResult, checker
<1>9. CASE TickDone \/ TickFailed \/ Scan \/ ProbeLost \/ Restart \/ Tick \/ UNCHANGED vars
  <2>1. row' = row /\ owed' = owed /\ listed' \subseteq listed /\ sent' = sent
    BY <1>9 DEF TickDone, TickFailed, Scan, ProbeLost, Restart, Tick, vars, process, checker
  <2>2. StoreStep
    BY <2>1, SameRow DEF StoreStep, Inv, TypeOK
  <2> QED
    BY <1>2, <2>1, <2>2
<1> QED
  BY <1>3, <1>4, <1>5, <1>6, <1>7, <1>8, <1>9 DEF Next, Checker, Prober

\* The invariant always holds.
LEMMA InvAlways == Spec => []Inv
  BY InitInv, StepInv, PTL DEF Spec

\* The tables keep their types and CHECKs whatever runs concurrently.
THEOREM TypeCorrect == Spec => []TypeOK
<1>1. Inv => TypeOK
  BY DEF Inv
<1> QED
  BY <1>1, InvAlways, PTL

\* An unflushed alert announces the state its check is in, for any number of
\* checks, pings, ticks, probes, pauses and resumes.
THEOREM OutboxCorrect == Spec => []OutboxMatchesState
<1>1. Inv => OutboxMatchesState
  BY DEF Inv
<1> QED
  BY <1>1, InvAlways, PTL

\* One alert number tells every destination the same, across retried flushes,
\* ambiguous submits and restarts.
THEOREM AlertNumbersCorrect == Spec => []OneKindPerAlert
<1>1. Inv => OneKindPerAlert
  BY DEF Inv, AlertInv, ToldInv, Told, OneKindPerAlert
<1> QED
  BY <1>1, InvAlways, PTL

\* No flush, however late, clears an alert somebody has not had.
THEOREM FlushCorrect == Spec => []NoAlertLost
<1>1. Inv => NoAlertLost
  BY DEF Inv, AlertInv
<1> QED
  BY <1>1, InvAlways, PTL
-----------------------------------------------------------------------------
(***************************************************************************)
(* The action properties.  NoFalseMiss and ProbeDownIsEarned say when a    *)
(* check may go down; both need an invariant between the columns and what  *)
(* really happened: the anchor is at most a lag behind the time a check    *)
(* was last heard of, and the failure count never exceeds the failures in  *)
(* a row.  The last section is about late results (ResultsAreCurrent).     *)
(***************************************************************************)

\* The columns of check c keep up with what happened to it.
Timely(c) ==
    /\ heard[c] \in Nat /\ streak[c] \in Nat
    /\ Exists(c) =>
          /\ heard[c] <= row[c].anchor + MaxLag
          /\ row[c].failures <= streak[c]
          /\ c \notin Probed => row[c].failures = 0

TimelyInv ==
    /\ heard \in [Check -> Nat] /\ streak \in [Check -> Nat]
    /\ \A c \in Check : Timely(c)

\* What the two properties ask of a step of check c.
Earned(c) ==
    /\ row[c].state # "down" /\ row'[c].reason = "missed" =>
          clock > heard[c] + row[c].span - MaxLag /\ clock >= holdOffUntil
    /\ row[c].state # "down" /\ row'[c].reason = "probe" =>
          streak'[c] >= ProbeFailureThreshold /\ clock >= holdOffUntil

TimelyStep == /\ heard' \in [Check -> Nat] /\ streak' \in [Check -> Nat]
              /\ \A c \in Check : Timely(c)' /\ Earned(c)

\* The two columns the properties look at, and the reason, of a row.
Kept(r, s) == s.anchor = r.anchor /\ s.failures = r.failures /\ s.reason = r.reason

-----------------------------------------------------------------------------
(* What the machine does to these columns *)

\* A ping restarts the clock, and a check it takes down has failed.
LEMMA PingTiming ==
  ASSUME NEW r, Good(r), NEW kind \in {"success", "fail"}, NEW now \in Time
  PROVE  LET s == ApplyPing(r, kind, now) IN
         /\ s.anchor = now /\ s.failures = r.failures
         /\ r.state # "down" => s.reason \in {"none", "fail"}
<1> DEFINE p == [r EXCEPT
            !.anchor = now,
            !.state = IF kind = "success" THEN "up" ELSE "down",
            !.reason = IF kind = "success" THEN "none"
                       ELSE IF r.state = "down" THEN @ ELSE "fail"]
<1>1. /\ p \in Row /\ p.anchor = now /\ p.failures = r.failures
      /\ r.state # "down" => p.reason \in {"none", "fail"}
  BY DEF Good, Row, Live
<1>2. ApplyPing(r, kind, now) \in
          {p, [p EXCEPT !.pending = "none"], emitAlert(p, "down"), emitAlert(p, "recovered")}
  BY DEF ApplyPing
<1> HIDE DEF p
<1>3. /\ Kept(p, [p EXCEPT !.pending = "none"])
      /\ Kept(p, emitAlert(p, "down")) /\ Kept(p, emitAlert(p, "recovered"))
  BY <1>1 DEF Kept, emitAlert, Row
<1> QED
  BY <1>1, <1>2, <1>3 DEF Kept

\* The tick keeps the clock and the count.
LEMMA TickTiming ==
  ASSUME NEW r, Good(r)
  PROVE  LET s == AdvanceTick(r) IN
         s.anchor = r.anchor /\ s.failures = r.failures /\ s.reason = "missed"
  BY DEF AdvanceTick, emitAlert, Good, Row

\* A reset of the probing starts the count and the clock over.
LEMMA ResetTiming ==
  ASSUME NEW r \in Row, NEW now \in Time
  PROVE  LET s == ApplyProbeReset(r, now) IN
         /\ s.reason = r.reason
         /\ r.config # NoConfig => s.anchor = now /\ s.failures = 0
         /\ r.config = NoConfig => s = r
  BY DEF ApplyProbeReset, Row

\* A pause keeps the clock and the count.
LEMMA PauseTiming ==
  ASSUME NEW r, Good(r)
  PROVE  Kept(r, ApplyPause(r))
  BY DEF Kept, ApplyPause, Good, Row

\* A resume restarts the clock, and of a probe check the count.
LEMMA ResumeTiming ==
  ASSUME NEW r, Good(r), r.paused, NEW now \in Time
  PROVE  LET s == ApplyResume(r, now) IN
         /\ s.anchor = now /\ s.reason = r.reason
         /\ s.failures = IF r.config # NoConfig THEN 0 ELSE r.failures
<1> DEFINE p == [r EXCEPT !.paused = FALSE, !.anchor = now]
<1>1. /\ p \in Row /\ p.anchor = now /\ p.reason = r.reason
      /\ p.failures = r.failures /\ p.config = r.config
  BY DEF Good, Row
<1>2. ApplyResume(r, now) = ApplyProbeReset(p, now)
  BY DEF ApplyResume
<1> HIDE DEF p
<1> QED
  BY <1>1, <1>2, ResetTiming

\* A result restarts the clock and counts; only enough failures, outside the
\* hold-off, take a check down.
LEMMA ResultTiming ==
  ASSUME NEW r, Good(r), NEW ok \in BOOLEAN, NEW now \in Time, holdOffUntil \in Nat
  PROVE  LET s == ApplyProbeResult(r, ok, now) IN
         /\ s.anchor = now
         /\ s.failures = IF ok THEN 0 ELSE r.failures + 1
         /\ r.state # "down" => s.reason # "missed"
         /\ r.state # "down" /\ s.reason = "probe" =>
               ~ok /\ s.failures >= ProbeFailureThreshold /\ now >= holdOffUntil
<1> DEFINE p == [r EXCEPT !.anchor = now, !.failures = IF ok THEN 0 ELSE @ + 1]
           up == [p EXCEPT !.state = "up", !.reason = "none"]
           down == [p EXCEPT !.state = "down", !.reason = "probe"]
           s == ApplyProbeResult(r, ok, now)
<1>1. /\ r.failures \in Nat /\ r.failures + 1 \in Nat
      /\ r.state # "down" => r.reason = "none"
  BY DEF Good, Row, Reasoned
<1>2. /\ p \in Row /\ p.anchor = now /\ p.reason = r.reason
      /\ p.failures = IF ok THEN 0 ELSE r.failures + 1
  BY <1>1 DEF Good, Row
<1>3. CASE ok
  <2>1. s = IF r.state = "down" THEN emitAlert(up, "recovered") ELSE [p EXCEPT !.state = "up"]
    BY <1>3 DEF ApplyProbeResult
  <2> HIDE DEF p
  <2>2. /\ Kept(p, [p EXCEPT !.state = "up"])
        /\ emitAlert(up, "recovered").anchor = p.anchor
        /\ emitAlert(up, "recovered").failures = p.failures
    BY <1>2 DEF Kept, emitAlert, Row
  <2> HIDE DEF s, up
  <2> QED
    BY <1>1, <1>2, <1>3, <2>1, <2>2 DEF Kept, s
<1>4. CASE ~ok
  <2>1. s = IF r.state = "down"
            THEN [p EXCEPT !.reason = IF @ = "missed" THEN "probe" ELSE @]
            ELSE IF p.failures < ProbeFailureThreshold \/ now < holdOffUntil
            THEN p ELSE emitAlert(down, "down")
    BY <1>4 DEF ApplyProbeResult
  <2> HIDE DEF p
  <2>2. /\ emitAlert(down, "down").anchor = p.anchor
        /\ emitAlert(down, "down").failures = p.failures
        /\ emitAlert(down, "down").reason = "probe"
        /\ [p EXCEPT !.reason = IF @ = "missed" THEN "probe" ELSE @].anchor = p.anchor
        /\ [p EXCEPT !.reason = IF @ = "missed" THEN "probe" ELSE @].failures = p.failures
    BY <1>2 DEF emitAlert, Row
  <2> HIDE DEF s, down
  <2>3. p.failures \in Nat /\ ProbeFailureThreshold \in Nat
    BY <1>2, HeartbeatAssumption DEF Row
  <2>4. CASE r.state = "down"
    BY <1>2, <1>4, <2>1, <2>2, <2>4 DEF s
  <2>5. CASE r.state # "down" /\ (p.failures < ProbeFailureThreshold \/ now < holdOffUntil)
    BY <1>1, <1>2, <1>4, <2>1, <2>5 DEF s
  <2>6. CASE r.state # "down" /\ ~(p.failures < ProbeFailureThreshold \/ now < holdOffUntil)
    <3>1. s = emitAlert(down, "down")
      BY <2>1, <2>6
    <3>2. p.failures >= ProbeFailureThreshold /\ now >= holdOffUntil
      BY <2>3, <2>6, HeartbeatAssumption DEF Time
    <3> QED
      BY <1>2, <1>4, <2>2, <2>6, <3>1, <3>2 DEF s
  <2> QED
    BY <2>4, <2>5, <2>6
<1> QED
  BY <1>3, <1>4

-----------------------------------------------------------------------------
(* Steps *)

\* A check whose row, clock and count do not change stays timely.
LEMMA SameTiming ==
  ASSUME Inv, TimelyInv, NEW c \in Check,
         row'[c] = row[c], heard'[c] = heard[c], streak'[c] = streak[c]
  PROVE  Timely(c)' /\ Earned(c)
<1>1. row[c].state # "down" => row[c].reason = "none"
  BY DEF Inv, TypeOK
<1> QED
  BY <1>1 DEF TimelyInv, Timely, Earned, Exists

\* A step that keeps the rows and the history.
LEMMA IdleTiming ==
  ASSUME Inv, TimelyInv, UNCHANGED <<row, heard, streak>>
  PROVE  TimelyStep
  BY SameTiming DEF TimelyStep, TimelyInv

\* A saved row is timely if its columns are, and the other checks stay.
LEMMA SaveTiming ==
  ASSUME Inv, TimelyInv, NEW c \in Check, NEW s, NEW h \in Nat, NEW n \in Nat,
         Save(c, s), heard' = [heard EXCEPT ![c] = h], streak' = [streak EXCEPT ![c] = n],
         h <= s.anchor + MaxLag, s.failures <= n, c \notin Probed => s.failures = 0,
         row[c].state # "down" => s.reason # "missed",
         row[c].state # "down" /\ s.reason = "probe" =>
             n >= ProbeFailureThreshold /\ clock >= holdOffUntil
  PROVE  TimelyStep
<1>1. /\ row \in [Check -> Row] /\ row' = [row EXCEPT ![c] = s]
      /\ heard \in [Check -> Nat] /\ streak \in [Check -> Nat]
  BY DEF Inv, TypeOK, Save, TimelyInv
<1>2. heard' \in [Check -> Nat] /\ streak' \in [Check -> Nat]
  BY <1>1
<1>3. row'[c] = s /\ heard'[c] = h /\ streak'[c] = n
  BY <1>1
<1>4. Timely(c)' /\ Earned(c)
  BY <1>3 DEF Timely, Earned
<1>5. ASSUME NEW d \in Check, d # c
      PROVE  Timely(d)' /\ Earned(d)
  BY <1>1, <1>5, SameTiming
<1> QED
  BY <1>2, <1>4, <1>5 DEF TimelyStep

\* The clock is at most a lag ahead of a caller's now.
LEMMA NowTiming ==
  ASSUME Inv, NEW now \in Now
  PROVE  /\ now \in Time /\ now \in Nat /\ clock \in Nat /\ MaxLag \in Nat
         /\ now <= clock /\ clock <= now + MaxLag
  BY HeartbeatAssumption DEF Inv, TypeOK, Now, Time

\* A new check was heard of when it was created, and has failed no probe.
LEMMA CreateTiming ==
  ASSUME Inv, TimelyInv, NEW c \in Check, Create(c)
  PROVE  TimelyStep
<1>1. \E s : Save(c, s) /\ s.anchor \in Now /\ s.failures = 0 /\ s.reason = "none"
  <2>1. PICK links \in resolveDestinationIDs, now \in Now :
          LET new == [NoRow EXCEPT !.state = "new", !.anchor = now, !.links = links]
          IN IF c \in Probed
             THEN \E g \in Config : Save(c,
                    [new EXCEPT !.config = g, !.version = 1, !.next = now + g.interval,
                                !.span = DerivedSchedule(g)])
             ELSE \E s \in Span : Save(c, [new EXCEPT !.span = s])
    BY DEF Create
  <2> DEFINE new == [NoRow EXCEPT !.state = "new", !.anchor = now, !.links = links]
             probe(g) == [new EXCEPT !.config = g, !.version = 1, !.next = now + g.interval,
                                     !.span = DerivedSchedule(g)]
             push(t) == [new EXCEPT !.span = t]
  <2>2. /\ \A g : probe(g).anchor = now /\ probe(g).failures = 0 /\ probe(g).reason = "none"
        /\ \A t : push(t).anchor = now /\ push(t).failures = 0 /\ push(t).reason = "none"
    BY DEF NoRow
  <2>3. (\E g \in Config : Save(c, probe(g))) \/ (\E t \in Span : Save(c, push(t)))
    BY <2>1
  <2> HIDE DEF probe, push
  <2> QED
    BY <2>2, <2>3
<1>2. PICK s : Save(c, s) /\ s.anchor \in Now /\ s.failures = 0 /\ s.reason = "none"
  BY <1>1
<1>3. /\ heard' = [heard EXCEPT ![c] = clock] /\ streak' = [streak EXCEPT ![c] = streak[c]]
      /\ streak[c] \in Nat
  BY DEF Create, TimelyInv
<1>4. clock \in Nat /\ clock <= s.anchor + MaxLag /\ s.failures <= streak[c]
  BY <1>2, <1>3, NowTiming
<1> QED
  BY <1>2, <1>3, <1>4, SaveTiming

\* A patch that resets the probing starts over; another one keeps the columns.
LEMMA PatchTiming ==
  ASSUME Inv, TimelyInv, NEW c \in Check, Patch(c)
  PROVE  TimelyStep
<1>1. Exists(c) /\ Good(row[c]) /\ Timely(c)
  BY GoodRow DEF Patch, TimelyInv
<1>2. PICK links \in resolveDestinationIDs, now \in Now :
          IF c \in Probed
          THEN \E g \in Config, credential \in BOOLEAN :
                 LET r == ApplyPatch(row[c], links, g)
                     reset == ProbeConfigChanged(row[c].config, g, credential)
                 IN /\ Save(c, IF reset THEN ApplyProbeReset(r, now) ELSE r)
                    /\ streak' = [streak EXCEPT ![c] = IF reset THEN 0 ELSE @]
                    /\ heard' = [heard EXCEPT ![c] = IF reset THEN clock ELSE @]
          ELSE \E s \in Span :
                 /\ Save(c, [row[c] EXCEPT !.links = links, !.span = s])
                 /\ UNCHANGED <<streak, heard>>
  BY DEF Patch
<1>3. row[c].reason # "none" => row[c].state = "down"
  BY <1>1 DEF Good, Reasoned
<1>4. CASE c \in Probed
  <2>1. PICK g \in Config, credential \in BOOLEAN :
                 LET r == ApplyPatch(row[c], links, g)
                     reset == ProbeConfigChanged(row[c].config, g, credential)
                 IN /\ Save(c, IF reset THEN ApplyProbeReset(r, now) ELSE r)
                    /\ streak' = [streak EXCEPT ![c] = IF reset THEN 0 ELSE @]
                    /\ heard' = [heard EXCEPT ![c] = IF reset THEN clock ELSE @]
    BY <1>2, <1>4
  <2> DEFINE r == ApplyPatch(row[c], links, g)
             reset == ProbeConfigChanged(row[c].config, g, credential)
  <2>2. r \in Row /\ r.config = g /\ Kept(row[c], r)
    BY <1>1, SpanIsNat DEF ApplyPatch, DerivedSchedule, resolveDestinationIDs, Good, Row, Kept
  <2>3. g # NoConfig
    BY HeartbeatAssumption
  <2> HIDE DEF r, reset
  <2>4. CASE reset
    <3> DEFINE s == ApplyProbeReset(r, now)
    <3>1. /\ Save(c, s) /\ streak' = [streak EXCEPT ![c] = 0]
          /\ heard' = [heard EXCEPT ![c] = clock]
      BY <2>1, <2>4 DEF r, reset
    <3>2. s.reason = row[c].reason /\ s.anchor = now /\ s.failures = 0
      BY <2>2, <2>3, NowIsTime, ResetTiming DEF Kept
    <3> HIDE DEF s
    <3>3. clock \in Nat /\ clock <= s.anchor + MaxLag
      BY <3>2, NowTiming
    <3>4. /\ 0 \in Nat /\ s.failures <= 0
          /\ row[c].state # "down" => s.reason # "missed" /\ s.reason # "probe"
      BY <1>3, <3>2
    <3> QED
      BY <3>1, <3>2, <3>3, <3>4, SaveTiming
  <2>5. CASE ~reset
    <3>1. /\ Save(c, r) /\ streak' = [streak EXCEPT ![c] = streak[c]]
          /\ heard' = [heard EXCEPT ![c] = heard[c]]
      BY <2>1, <2>5 DEF r, reset
    <3> QED
      BY <1>1, <1>3, <2>2, <3>1, SaveTiming DEF Timely, Kept
  <2> QED
    BY <2>4, <2>5
<1>5. CASE c \notin Probed
  <2>1. PICK t \in Span : /\ Save(c, [row[c] EXCEPT !.links = links, !.span = t])
                          /\ UNCHANGED <<streak, heard>>
    BY <1>2, <1>5
  <2> DEFINE r == [row[c] EXCEPT !.links = links, !.span = t]
  <2>2. Kept(row[c], r)
    BY <1>1 DEF Good, Row, Kept
  <2>3. Save(c, r)
    BY <2>1
  <2> HIDE DEF r
  <2>4. /\ streak' = [streak EXCEPT ![c] = streak[c]]
        /\ heard' = [heard EXCEPT ![c] = heard[c]]
    BY <2>1 DEF TimelyInv
  <2> QED
    BY <1>1, <1>3, <1>5, <2>2, <2>3, <2>4, SaveTiming DEF Timely, Kept
<1> QED
  BY <1>4, <1>5

\* A deleted check no longer exists.
LEMMA DeleteTiming ==
  ASSUME Inv, TimelyInv, NEW c \in Check, Delete(c)
  PROVE  TimelyStep
<1>1. /\ row \in [Check -> Row] /\ row' = [row EXCEPT ![c] = [NoRow EXCEPT !.state = "deleted"]]
      /\ heard' = heard /\ streak' = streak
  BY DEF Delete, Inv, TypeOK, watched
<1>2. row'[c].state = "deleted" /\ row'[c].reason = "none"
  BY <1>1 DEF NoRow
<1>3. Timely(c)' /\ Earned(c)
  BY <1>1, <1>2 DEF Timely, Earned, TimelyInv, Exists, Live
<1>4. ASSUME NEW d \in Check, d # c
      PROVE  Timely(d)' /\ Earned(d)
  BY <1>1, <1>4, SameTiming
<1> QED
  BY <1>1, <1>3, <1>4 DEF TimelyStep, TimelyInv

\* A pause keeps the columns; a resume and a ping restart the clock.
LEMMA MachineTiming ==
  ASSUME Inv, TimelyInv, NEW c \in Check, Pause(c) \/ Resume(c) \/ RecordPing(c)
  PROVE  TimelyStep
<1>1. Exists(c) /\ Good(row[c]) /\ Timely(c) /\ (c \in Probed <=> row[c].config # NoConfig)
  BY GoodRow DEF Pause, Resume, RecordPing, TimelyInv, Inv, TypeOK
<1>2. row[c].reason # "none" => row[c].state = "down"
  BY <1>1 DEF Good, Reasoned
<1>3. CASE Pause(c)
  <2>1. /\ Save(c, ApplyPause(row[c])) /\ Kept(row[c], ApplyPause(row[c]))
        /\ streak' = [streak EXCEPT ![c] = streak[c]]
        /\ heard' = [heard EXCEPT ![c] = heard[c]]
    BY <1>1, <1>3, PauseTiming DEF Pause, TimelyInv
  <2> QED
    BY <1>1, <1>2, <2>1, SaveTiming DEF Timely, Kept
<1>4. CASE Resume(c)
  <2>1. PICK now \in Now : Save(c, ApplyResume(row[c], now))
    BY <1>4 DEF Resume
  <2> DEFINE s == ApplyResume(row[c], now)
  <2>2. /\ s.anchor = now /\ s.reason = row[c].reason /\ s.failures = 0
    <3>1. row[c].paused
      BY <1>4 DEF Resume
    <3> QED
      BY <1>1, <3>1, NowIsTime, ResumeTiming DEF Timely
  <2>3. Save(c, s)
    BY <2>1
  <2> HIDE DEF s
  <2>4. clock \in Nat /\ clock <= s.anchor + MaxLag
    BY <2>2, NowTiming
  <2>5. heard' = [heard EXCEPT ![c] = clock] /\ streak' = [streak EXCEPT ![c] = 0]
    BY <1>4 DEF Resume
  <2>6. /\ 0 \in Nat /\ s.failures <= 0
        /\ row[c].state # "down" => s.reason # "missed" /\ s.reason # "probe"
    BY <1>2, <2>2
  <2> QED
    BY <2>2, <2>3, <2>4, <2>5, <2>6, SaveTiming
<1>5. CASE RecordPing(c)
  <2>1. PICK kind \in {"success", "fail"}, now \in Now : Save(c, ApplyPing(row[c], kind, now))
    BY <1>5 DEF RecordPing
  <2> DEFINE s == ApplyPing(row[c], kind, now)
  <2>2. /\ s.anchor = now /\ s.failures = row[c].failures
        /\ row[c].state # "down" => s.reason \in {"none", "fail"}
    BY <1>1, NowIsTime, PingTiming
  <2>3. Save(c, s)
    BY <2>1
  <2> HIDE DEF s
  <2>4. clock \in Nat /\ clock <= s.anchor + MaxLag
    BY <2>2, NowTiming
  <2>5. /\ heard' = [heard EXCEPT ![c] = clock]
        /\ streak' = [streak EXCEPT ![c] = streak[c]]
    BY <1>5 DEF RecordPing, TimelyInv
  <2> QED
    BY <1>1, <2>2, <2>3, <2>4, <2>5, SaveTiming DEF Timely
<1> QED
  BY <1>3, <1>4, <1>5

\* The checker declares missed what was silent past its deadline.
LEMMA AdvanceTiming ==
  ASSUME Inv, TimelyInv, AdvanceDue
  PROVE  TimelyStep
<1>1. PICK now \in Now :
          LET due == {c \in Check : Advances(row[c], now) /\ now >= holdOffUntil}
          IN row' = [c \in Check |-> IF c \in due THEN AdvanceTick(row[c]) ELSE row[c]]
  BY DEF AdvanceDue
<1>2. heard' = heard /\ streak' = streak
  BY DEF AdvanceDue, watched
<1>3. ASSUME NEW c \in Check
      PROVE  Timely(c)' /\ Earned(c)
  <2>1. CASE Advances(row[c], now) /\ now >= holdOffUntil
    <3>1. Exists(c) /\ Good(row[c]) /\ Timely(c)
      BY <2>1, GoodRow DEF Advances, Exists, Live, TimelyInv
    <3>2. row'[c] = AdvanceTick(row[c])
      BY <1>1, <2>1
    <3>3. /\ row'[c].anchor = row[c].anchor /\ row'[c].failures = row[c].failures
          /\ row'[c].reason = "missed"
      BY <3>1, <3>2, TickTiming
    <3>4. /\ row[c].anchor \in Nat /\ row[c].span \in Nat /\ heard[c] \in Nat
          /\ holdOffUntil \in Nat
      BY <3>1, HeartbeatAssumption DEF Good, Row, Time, Timely, Inv, TypeOK
    <3>5. clock > heard[c] + row[c].span - MaxLag /\ clock >= holdOffUntil
      BY <2>1, <3>1, <3>4, NowTiming DEF Advances, Deadline, Timely
    <3> QED
      BY <1>2, <3>1, <3>3, <3>5 DEF Timely, Earned
  <2>2. CASE ~(Advances(row[c], now) /\ now >= holdOffUntil)
    <3>1. row'[c] = row[c]
      BY <1>1, <2>2
    <3> QED
      BY <1>2, <3>1, SameTiming
  <2> QED
    BY <2>1, <2>2
<1> QED
  BY <1>2, <1>3 DEF TimelyStep, TimelyInv

\* A flush touches only the outbox, a claim only the time of the next probe.
LEMMA KeptTiming ==
  ASSUME Inv, TimelyInv, heard' = heard, streak' = streak,
         \A c \in Check : Kept(row[c], row'[c]) /\ row'[c].state = row[c].state
  PROVE  TimelyStep
<1>1. \A c \in Check : row[c].state # "down" => row[c].reason = "none"
  BY DEF Inv, TypeOK
<1> QED
  BY <1>1 DEF TimelyStep, TimelyInv, Timely, Earned, Exists, Kept

LEMMA FlushTiming ==
  ASSUME Inv, TimelyInv, FlushDone
  PROVE  TimelyStep
<1>1. heard' = heard /\ streak' = streak
  BY DEF FlushDone, watched
<1>2. row \in [Check -> Row]
  BY DEF Inv, TypeOK
<1>3. \A c \in Check : Kept(row[c], row'[c]) /\ row'[c].state = row[c].state
  <2>1. CASE row' = ClearPendingAlert(First)
    BY <1>2, <2>1 DEF ClearPendingAlert, Kept, Row
  <2>2. CASE row' = row
    BY <2>2 DEF Kept
  <2> QED
    BY <2>1, <2>2 DEF FlushDone
<1> QED
  BY <1>1, <1>3, KeptTiming

LEMMA ClaimTiming ==
  ASSUME Inv, TimelyInv, ClaimDueProbes
  PROVE  TimelyStep
<1>1. PICK due \in SUBSET {c \in snapshot : Exists(c) /\ row[c].next <= scanNow} :
          row' = [c \in Check |-> IF c \in due THEN Claimed(c) ELSE row[c]]
  BY DEF ClaimDueProbes
<1>2. heard' = heard /\ streak' = streak
  BY DEF ClaimDueProbes, watched
<1>3. row \in [Check -> Row]
  BY DEF Inv, TypeOK
<1>4. \A c \in Check : Kept(row[c], Claimed(c)) /\ Claimed(c).state = row[c].state
  BY <1>3 DEF Claimed, Kept, Row
<1>5. \A c \in Check : Kept(row[c], row'[c]) /\ row'[c].state = row[c].state
  BY <1>1, <1>4 DEF Kept
<1> QED
  BY <1>2, <1>5, KeptTiming

\* A result that applies restarts the clock and counts.
LEMMA ResultTimingStep ==
  ASSUME Inv, TimelyInv, RecordProbeResult
  PROVE  TimelyStep
<1>1. PICK p \in probes, ok \in BOOLEAN, now \in Now :
          IF Applies(p)
          THEN /\ Save(p.check, ApplyProbeResult(row[p.check], ok, now))
               /\ heard' = [heard EXCEPT ![p.check] = clock]
               /\ streak' = [streak EXCEPT ![p.check] = IF ok THEN 0 ELSE @ + 1]
          ELSE UNCHANGED <<row, heard, streak>>
  BY DEF RecordProbeResult, runProbe
<1>2. CASE Applies(p)
  <2> DEFINE c == p.check
             s == ApplyProbeResult(row[c], ok, now)
  <2>1. c \in Check /\ c \in Probed /\ Exists(c) /\ holdOffUntil \in Nat
    BY <1>2, HeartbeatAssumption DEF Applies, Inv, TypeOK
  <2>2. Good(row[c]) /\ Timely(c) /\ row[c].failures \in Nat
    BY <2>1, GoodRow DEF TimelyInv, Good, Row
  <2>3. /\ s.anchor = now
        /\ s.failures = IF ok THEN 0 ELSE row[c].failures + 1
        /\ row[c].state # "down" => s.reason # "missed"
        /\ row[c].state # "down" /\ s.reason = "probe" =>
               ~ok /\ s.failures >= ProbeFailureThreshold /\ now >= holdOffUntil
    BY <2>1, <2>2, NowIsTime, ResultTiming
  <2>4. Save(c, s)
    BY <1>1, <1>2
  <2> DEFINE n == IF ok THEN 0 ELSE streak[c] + 1
  <2>5. heard' = [heard EXCEPT ![c] = clock] /\ streak' = [streak EXCEPT ![c] = n]
    BY <1>1, <1>2
  <2> HIDE DEF c, s
  <2>6. n \in Nat /\ s.failures \in Nat /\ s.failures <= n
    BY <2>1, <2>2, <2>3 DEF Timely
  <2>7. clock \in Nat /\ clock <= s.anchor + MaxLag
    BY <2>3, NowTiming
  <2>8. row[c].state # "down" /\ s.reason = "probe" =>
            n >= ProbeFailureThreshold /\ clock >= holdOffUntil
    BY <2>1, <2>3, <2>6, NowTiming, HeartbeatAssumption
  <2> HIDE DEF n
  <2> QED
    BY <2>1, <2>3, <2>4, <2>5, <2>6, <2>7, <2>8, SaveTiming
<1>3. CASE ~Applies(p)
  BY <1>1, <1>3, IdleTiming
<1> QED
  BY <1>2, <1>3

\* Every step is timely, and takes a check down only as the properties allow.
LEMMA StepTiming ==
  ASSUME Inv, TimelyInv, [Next]_vars
  PROVE  TimelyStep
<1>1. CASE Request
  <2>1. CASE \E d \in Dest : SetEnabled(d)
    BY <2>1, IdleTiming DEF SetEnabled, watched
  <2> QED
    BY <1>1, <2>1, CreateTiming, PatchTiming, DeleteTiming, MachineTiming DEF Request
<1>2. CASE ListPendingAlerts \/ Submit \/ SubmitFails \/ TickDone \/ TickFailed \/ Scan
           \/ ProbeLost \/ Restart \/ Tick \/ UNCHANGED vars
  BY <1>2, IdleTiming DEF ListPendingAlerts, Submit, SubmitFails, TickDone, TickFailed, Scan,
                          ProbeLost, Restart, Tick, vars, watched
<1> QED
  BY <1>1, <1>2, AdvanceTiming, FlushTiming, ClaimTiming, ResultTimingStep
  DEF Next, Checker, Prober

\* At the start no check exists.
LEMMA InitTiming ==
  ASSUME Init
  PROVE  TimelyInv
<1>1. NoRow.state = "absent"
  BY DEF NoRow
<1> QED
  BY <1>1 DEF Init, TimelyInv, Timely, Exists, Live

-----------------------------------------------------------------------------
(* The theorems *)

\* The columns always keep up with what happened.
LEMMA TimelyAlways == Spec => []TimelyInv
<1>1. Inv /\ TimelyInv /\ [Next]_vars => TimelyInv'
  BY StepTiming DEF TimelyStep, TimelyInv
<1> QED
  BY <1>1, InitTiming, InvAlways, PTL DEF Spec

\* No check is declared missed before it was silent for its period and grace, less
\* the lag of the call it was last heard in, nor in the hold-off after a restart:
\* for any number of checks, any schedules, any lag and any interleaving.
THEOREM MissCorrect == Spec => NoFalseMiss
<1>1. Inv /\ TimelyInv /\ [Next]_vars =>
          [\A c \in Check :
             row[c].state # "down" /\ row'[c].reason = "missed" =>
                 /\ clock > heard[c] + row[c].span - MaxLag
                 /\ clock >= holdOffUntil]_vars
  BY StepTiming DEF TimelyStep, Earned
<1> QED
  BY <1>1, InvAlways, TimelyAlways, PTL DEF Spec, NoFalseMiss

\* Probes take no check down before ProbeFailureThreshold failures in a row, of one
\* configuration and without a pause between, nor in the hold-off.
THEOREM ProbeDownCorrect == Spec => ProbeDownIsEarned
<1>1. Inv /\ TimelyInv /\ [Next]_vars =>
          [\A c \in Check :
             row[c].state # "down" /\ row'[c].reason = "probe" =>
                 /\ streak'[c] >= ProbeFailureThreshold
                 /\ clock >= holdOffUntil]_vars
  BY StepTiming DEF TimelyStep, Earned
<1> QED
  BY <1>1, InvAlways, TimelyAlways, PTL DEF Spec, ProbeDownIsEarned

-----------------------------------------------------------------------------
(* Late results *)

\* A probe in flight whose version is still the row's was claimed with the row's
\* configuration, and no pause or resume came since.
CurrentInv ==
    /\ ~mixed
    /\ \A p \in probes :
          /\ row[p.check].state # "absent" /\ p.version \in Nat
          /\ Exists(p.check) =>
                /\ p.version <= row[p.check].version
                /\ p.version = row[p.check].version =>
                      p.config = row[p.check].config /\ p.epoch = epoch[p.check]

\* What a step may do to the row of a probe check: a new configuration, a pause
\* and a resume all take a new version.
Versioned(c) ==
    /\ row[c].state # "absent" => row'[c].state # "absent"
    /\ Exists(c)' /\ row[c].state # "absent" =>
          /\ Exists(c)
          /\ row[c].version <= row'[c].version
          /\ row[c].version = row'[c].version =>
                row'[c].config = row[c].config /\ epoch'[c] = epoch[c]

\* A row that keeps state, version and configuration is versioned.
LEMMA SameVersion ==
  ASSUME Inv, NEW c \in Check, epoch'[c] = epoch[c],
         row'[c].version = row[c].version, row'[c].config = row[c].config,
         row'[c].state = row[c].state \/ (Exists(c) /\ row'[c].state \in Live)
  PROVE  Versioned(c)
<1>1. row[c].version \in Nat
  BY DEF Inv, TypeOK, Row
<1> QED
  BY <1>1 DEF Versioned, Exists, Live

\* emitAlert, and with it the tick and a result, leaves version and configuration.
LEMMA MachineVersion ==
  ASSUME NEW r, Good(r)
  PROVE  /\ AdvanceTick(r).version = r.version /\ AdvanceTick(r).config = r.config
         /\ AdvanceTick(r).state = "down"
         /\ \A ok \in BOOLEAN, now \in Time :
               LET s == ApplyProbeResult(r, ok, now) IN
               s.version = r.version /\ s.config = r.config /\ s.state \in Live
<1>1. AdvanceTick(r).version = r.version /\ AdvanceTick(r).config = r.config
      /\ AdvanceTick(r).state = "down"
  BY DEF AdvanceTick, emitAlert, Good, Row
<1>2. ASSUME NEW ok \in BOOLEAN, NEW now \in Time
      PROVE  LET s == ApplyProbeResult(r, ok, now) IN
             s.version = r.version /\ s.config = r.config /\ s.state \in Live
  <2> DEFINE p == [r EXCEPT !.anchor = now, !.failures = IF ok THEN 0 ELSE @ + 1]
             up == [p EXCEPT !.state = "up", !.reason = "none"]
             down == [p EXCEPT !.state = "down", !.reason = "probe"]
             Alike(s) == s.version = r.version /\ s.config = r.config /\ s.state \in Live
  <2>1. r.failures + 1 \in Nat
    BY DEF Good, Row
  <2>2. p \in Row /\ Alike(p)
    BY <2>1 DEF Good, Row
  <2>3. ApplyProbeResult(r, ok, now) \in
            {emitAlert(up, "recovered"), [p EXCEPT !.state = "up"], p, emitAlert(down, "down"),
             [p EXCEPT !.reason = IF @ = "missed" THEN "probe" ELSE @]}
    BY DEF ApplyProbeResult
  <2> HIDE DEF p
  <2>4. /\ Alike(emitAlert(up, "recovered")) /\ Alike([p EXCEPT !.state = "up"])
        /\ Alike(emitAlert(down, "down"))
        /\ Alike([p EXCEPT !.reason = IF @ = "missed" THEN "probe" ELSE @])
    BY <2>2 DEF emitAlert, Row, Live
  <2> HIDE DEF up, down
  <2> QED
    BY <2>2, <2>3, <2>4
<1> QED
  BY <1>1, <1>2

\* A pause and a resume of a probe check, and a reset of its probing, take a new
\* version.
LEMMA ResetVersion ==
  ASSUME NEW r, Good(r), r.config # NoConfig, NEW now \in Time
  PROVE  /\ ApplyProbeReset(r, now).version = r.version + 1
         /\ r.paused => ApplyResume(r, now).version = r.version + 1
         /\ ApplyPause(r).config = r.config
         /\ ApplyPause(r).version = IF r.paused THEN r.version ELSE r.version + 1
<1>1. ApplyProbeReset(r, now).version = r.version + 1
  BY DEF ApplyProbeReset, Good, Row
<1>2. ASSUME r.paused
      PROVE  ApplyResume(r, now).version = r.version + 1
  <2> DEFINE p == [r EXCEPT !.paused = FALSE, !.anchor = now]
  <2>1. p \in Row /\ p.version = r.version /\ p.config = r.config
    BY DEF Good, Row
  <2>2. ApplyResume(r, now) = ApplyProbeReset(p, now)
    BY <1>2 DEF ApplyResume
  <2> HIDE DEF p
  <2> QED
    BY <2>1, <2>2 DEF ApplyProbeReset, Row
<1>3. /\ ApplyPause(r).config = r.config
      /\ ApplyPause(r).version = IF r.paused THEN r.version ELSE r.version + 1
  BY DEF ApplyPause, Good, Row
<1> QED
  BY <1>1, <1>2, <1>3

\* A request that touches the row of a probe check versions it.
LEMMA RequestVersion ==
  ASSUME Inv, Inv', NEW c \in Probed, epoch \in [Check -> Nat], Request
  PROVE  Versioned(c)
<1>1. /\ c \in Check /\ row \in [Check -> Row] /\ row[c].version \in Nat
      /\ Exists(c) => Good(row[c]) /\ row[c].config # NoConfig
  BY GoodRow, HeartbeatAssumption DEF Inv, TypeOK, Row
<1>2. CASE \E d \in Check : d # c /\ (Create(d) \/ Patch(d) \/ Delete(d) \/ Pause(d)
                                        \/ Resume(d) \/ RecordPing(d))
  <2>1. row'[c] = row[c] /\ epoch'[c] = epoch[c]
    <3>1. PICK d \in Check : d # c /\ (Create(d) \/ Patch(d) \/ Delete(d) \/ Pause(d)
                                        \/ Resume(d) \/ RecordPing(d))
      BY <1>2
    <3>2. \E s : row' = [row EXCEPT ![d] = s]
      <4>1. CASE Create(d)
        BY <4>1 DEF Create, Save
      <4>2. CASE Patch(d)
        <5>1. \E s : Save(d, s)
          <6>1. CASE d \in Probed
            BY <4>2, <6>1 DEF Patch
          <6>2. CASE d \notin Probed
            BY <4>2, <6>2 DEF Patch
          <6> QED
            BY <6>1, <6>2
        <5> QED
          BY <5>1 DEF Save
      <4>3. CASE Delete(d) \/ Pause(d) \/ Resume(d) \/ RecordPing(d)
        BY <4>3 DEF Delete, Pause, Resume, RecordPing, Save
      <4> QED
        BY <3>1, <4>1, <4>2, <4>3
    <3>3. \E e : epoch' = [epoch EXCEPT ![d] = e]
      BY <3>1 DEF Create, Patch, Delete, Pause, Resume, RecordPing, watched
    <3> QED
      BY <1>1, <3>1, <3>2, <3>3
  <2> QED
    BY <1>1, <2>1, SameVersion
<1>3. CASE \E d \in Dest : SetEnabled(d)
  BY <1>1, <1>3, SameVersion DEF SetEnabled, watched
<1>4. CASE Create(c)
  <2>1. row[c].state = "absent"
    BY <1>4 DEF Create
  <2> QED
    BY <2>1 DEF Versioned
<1>5. CASE Patch(c)
  <2>1. PICK links \in resolveDestinationIDs, now \in Now, g \in Config, credential \in BOOLEAN :
                 LET r == ApplyPatch(row[c], links, g)
                     reset == ProbeConfigChanged(row[c].config, g, credential)
                 IN Save(c, IF reset THEN ApplyProbeReset(r, now) ELSE r)
    BY <1>5 DEF Patch
  <2> DEFINE r == ApplyPatch(row[c], links, g)
  <2>2. /\ Exists(c) /\ Good(row[c]) /\ epoch' = epoch /\ now \in Time /\ g # NoConfig
    <3>1. Exists(c) /\ epoch' = epoch
      BY <1>5 DEF Patch
    <3> QED
      BY <1>1, <3>1, NowIsTime, HeartbeatAssumption
  <2>3. /\ r \in Row /\ r.config = g /\ r.version = row[c].version /\ r.state = row[c].state
    BY <2>2, SpanIsNat DEF ApplyPatch, DerivedSchedule, resolveDestinationIDs, Good, Row
  <2>4. CASE ProbeConfigChanged(row[c].config, g, credential)
    <3>1. row'[c] = ApplyProbeReset(r, now)
      BY <1>1, <2>1, <2>4 DEF Save
    <3> HIDE DEF r
    <3>2. row'[c].version = row[c].version + 1 /\ row'[c].state = row[c].state
      BY <2>2, <2>3, <3>1 DEF ApplyProbeReset, Row
    <3> QED
      BY <1>1, <2>2, <3>2 DEF Versioned, Exists, Live
  <2>5. CASE ~ProbeConfigChanged(row[c].config, g, credential)
    <3>1. row'[c] = r /\ g = row[c].config
      BY <1>1, <2>1, <2>5 DEF Save, ProbeConfigChanged
    <3> HIDE DEF r
    <3> QED
      BY <1>1, <2>2, <2>3, <3>1, SameVersion
  <2> QED
    BY <2>4, <2>5
<1>6. CASE Delete(c)
  <2>1. row'[c].state = "deleted"
    BY <1>1, <1>6 DEF Delete, NoRow
  <2> QED
    BY <2>1 DEF Versioned, Exists, Live
<1>7. CASE Pause(c)
  <2>1. /\ Exists(c) /\ row'[c] = ApplyPause(row[c])
        /\ epoch'[c] = IF row[c].paused THEN epoch[c] ELSE epoch[c] + 1
    BY <1>1, <1>7 DEF Pause, Save
  <2>2. /\ row'[c].config = row[c].config /\ row'[c].state = row[c].state
        /\ row'[c].version = IF row[c].paused THEN row[c].version ELSE row[c].version + 1
    <3>1. \E t : t \in Time
      BY <1>1, <2>1 DEF Good, Row
    <3>2. row'[c].state = row[c].state
      BY <1>1, <2>1 DEF ApplyPause, Good, Row
    <3> QED
      BY <1>1, <2>1, <3>1, <3>2, ResetVersion
  <2> QED
    BY <1>1, <2>1, <2>2 DEF Versioned, Exists, Live
<1>8. CASE Resume(c)
  <2>1. PICK now \in Now : Save(c, ApplyResume(row[c], now))
    BY <1>8 DEF Resume
  <2>2. Exists(c) /\ row[c].paused /\ row'[c] = ApplyResume(row[c], now)
    BY <1>1, <1>8, <2>1 DEF Resume, Save
  <2>3. row'[c].version = row[c].version + 1
    BY <1>1, <2>2, NowIsTime, ResetVersion
  <2>4. row'[c].state \in Live
    BY <1>1, <2>2, NowIsTime, ResumeRow DEF Moves
  <2> QED
    BY <1>1, <2>2, <2>3, <2>4 DEF Versioned, Exists, Live
<1>9. ~RecordPing(c)
  BY DEF RecordPing
<1> QED
  BY <1>1, <1>2, <1>3, <1>4, <1>5, <1>6, <1>7, <1>8, <1>9 DEF Request

\* Checker and prober keep version and configuration.
LEMMA LoopVersion ==
  ASSUME Inv, NEW c \in Probed,
         AdvanceDue \/ FlushDone \/ ClaimDueProbes \/ RecordProbeResult
  PROVE  Versioned(c)
<1>1. /\ c \in Check /\ row \in [Check -> Row] /\ row[c].version \in Nat /\ epoch' = epoch
  BY HeartbeatAssumption
  DEF Inv, TypeOK, Row, AdvanceDue, FlushDone, ClaimDueProbes, RecordProbeResult, watched
<1>2. CASE AdvanceDue
  <2>1. PICK now \in Now :
          LET due == {d \in Check : Advances(row[d], now) /\ now >= holdOffUntil}
          IN row' = [d \in Check |-> IF d \in due THEN AdvanceTick(row[d]) ELSE row[d]]
    BY <1>2 DEF AdvanceDue
  <2>2. CASE Advances(row[c], now) /\ now >= holdOffUntil
    <3>1. Exists(c) /\ Good(row[c]) /\ row'[c] = AdvanceTick(row[c])
      BY <1>1, <2>1, <2>2, GoodRow DEF Advances, Exists, Live
    <3> QED
      BY <1>1, <3>1, MachineVersion, SameVersion DEF Live
  <2>3. CASE ~(Advances(row[c], now) /\ now >= holdOffUntil)
    <3>1. row'[c] = row[c]
      BY <1>1, <2>1, <2>3
    <3> QED
      BY <1>1, <3>1, SameVersion
  <2> QED
    BY <2>2, <2>3
<1>3. CASE FlushDone
  <2>1. /\ row'[c].version = row[c].version /\ row'[c].config = row[c].config
        /\ row'[c].state = row[c].state
    <3>1. CASE row' = ClearPendingAlert(First)
      BY <1>1, <3>1 DEF ClearPendingAlert, Row
    <3> QED
      BY <1>3, <3>1 DEF FlushDone
  <2> QED
    BY <1>1, <2>1, SameVersion
<1>4. CASE ClaimDueProbes
  <2>1. /\ row'[c].version = row[c].version /\ row'[c].config = row[c].config
        /\ row'[c].state = row[c].state
    <3>1. PICK due \in SUBSET {d \in snapshot : Exists(d) /\ row[d].next <= scanNow} :
            row' = [d \in Check |-> IF d \in due THEN Claimed(d) ELSE row[d]]
      BY <1>4 DEF ClaimDueProbes
    <3>2. row'[c] \in {Claimed(c), row[c]}
      BY <1>1, <3>1
    <3> QED
      BY <1>1, <3>2 DEF Claimed, Row
  <2> QED
    BY <1>1, <2>1, SameVersion
<1>5. CASE RecordProbeResult
  <2>1. PICK p \in probes, ok \in BOOLEAN, now \in Now :
          IF Applies(p) THEN Save(p.check, ApplyProbeResult(row[p.check], ok, now))
          ELSE UNCHANGED row
    BY <1>5 DEF RecordProbeResult, runProbe
  <2>2. CASE Applies(p) /\ p.check = c
    <3>1. Exists(c) /\ Good(row[c]) /\ row'[c] = ApplyProbeResult(row[c], ok, now)
      BY <1>1, <2>1, <2>2, GoodRow DEF Applies, Save
    <3> QED
      BY <1>1, <3>1, NowIsTime, MachineVersion, SameVersion
  <2>3. CASE ~(Applies(p) /\ p.check = c)
    <3>1. row'[c] = row[c]
      BY <1>1, <2>1, <2>3 DEF Save
    <3> QED
      BY <1>1, <3>1, SameVersion
  <2> QED
    BY <2>2, <2>3
<1> QED
  BY <1>2, <1>3, <1>4, <1>5

\* Every step versions the rows of probe checks.
LEMMA StepVersion ==
  ASSUME Inv, Inv', epoch \in [Check -> Nat], NEW c \in Probed, [Next]_vars
  PROVE  Versioned(c)
<1>1. CASE ListPendingAlerts \/ Submit \/ SubmitFails \/ TickDone \/ TickFailed \/ Scan
           \/ ProbeLost \/ Restart \/ Tick \/ UNCHANGED vars
  <2>1. row' = row /\ epoch' = epoch /\ c \in Check
    BY <1>1, HeartbeatAssumption
    DEF ListPendingAlerts, Submit, SubmitFails, TickDone, TickFailed, Scan,
        ProbeLost, Restart, Tick, vars, watched
  <2> QED
    BY <2>1, SameVersion
<1> QED
  BY <1>1, RequestVersion, LoopVersion DEF Next, Checker, Prober

\* The claims in flight stay current or recognisable as late.
LEMMA StepCurrent ==
  ASSUME Inv, Inv', CurrentInv, epoch \in [Check -> Nat], [Next]_vars
  PROVE  CurrentInv' /\ epoch' \in [Check -> Nat]
<1>1. \A c \in Probed : Versioned(c)
  BY StepVersion
<1>2. \A p \in probes : p.check \in Probed /\ p.check \in Check
  BY HeartbeatAssumption DEF Inv, TypeOK
<1>3. \A c \in Check : row[c].version \in Nat /\ row'[c].version \in Nat
  BY DEF Inv, TypeOK, Row
<1>4. ASSUME NEW p \in probes
      PROVE  /\ row'[p.check].state # "absent" /\ p.version \in Nat
             /\ Exists(p.check)' =>
                /\ p.version <= row'[p.check].version
                /\ p.version = row'[p.check].version =>
                      p.config = row'[p.check].config /\ p.epoch = epoch'[p.check]
  <2>1. Versioned(p.check) /\ row[p.check].version \in Nat /\ row'[p.check].version \in Nat
    BY <1>1, <1>2, <1>3
  <2> QED
    BY <2>1 DEF CurrentInv, Versioned
<1>5. epoch' \in [Check -> Nat]
  <2>1. CASE \E c \in Check : Pause(c) \/ Resume(c)
    <3>1. PICK c \in Check : \/ epoch' = [epoch EXCEPT ![c] = epoch[c]]
                             \/ epoch' = [epoch EXCEPT ![c] = epoch[c] + 1]
      BY <2>1 DEF Pause, Resume
    <3>2. epoch[c] \in Nat /\ epoch[c] + 1 \in Nat
      OBVIOUS
    <3> QED
      BY <3>1, <3>2
  <2>2. CASE ~\E c \in Check : Pause(c) \/ Resume(c)
    <3>1. epoch' = epoch
      BY <2>2 DEF Next, Request, Checker, Prober, Create, Patch, Delete, RecordPing,
             SetEnabled, AdvanceDue, ListPendingAlerts, Submit, SubmitFails, FlushDone, TickDone,
             Scan, ClaimDueProbes, RecordProbeResult, TickFailed, ProbeLost, Restart, Tick,
             vars, watched
    <3> QED
      BY <3>1
  <2> QED
    BY <2>1, <2>2
<1>6. CASE ClaimDueProbes
  <2>1. mixed' = mixed /\ epoch' = epoch
    BY <1>6 DEF ClaimDueProbes, watched
  <2>2. PICK due \in SUBSET {c \in snapshot : Exists(c) /\ row[c].next <= scanNow} :
          /\ row' = [c \in Check |-> IF c \in due THEN Claimed(c) ELSE row[c]]
          /\ probes' \subseteq probes \cup
                  {[check |-> c, version |-> row[c].version, config |-> row[c].config,
                    since |-> clock, epoch |-> epoch[c]] : c \in due}
    BY <1>6 DEF ClaimDueProbes
  <2>3. ASSUME NEW c \in due
        PROVE  /\ row'[c].state # "absent" /\ row[c].version \in Nat
               /\ row'[c].version = row[c].version /\ row'[c].config = row[c].config
    <3>1. c \in Check /\ Exists(c) /\ row[c] \in Row
      BY HeartbeatAssumption DEF Inv, TypeOK
    <3>2. row'[c] = Claimed(c)
      BY <2>2, <3>1
    <3> QED
      BY <3>1, <3>2 DEF Claimed, Row, Exists, Live
  <2>4. ASSUME NEW p \in probes'
        PROVE  /\ row'[p.check].state # "absent" /\ p.version \in Nat
               /\ Exists(p.check)' =>
                /\ p.version <= row'[p.check].version
                /\ p.version = row'[p.check].version =>
                      p.config = row'[p.check].config /\ p.epoch = epoch'[p.check]
    <3>1. CASE p \in probes
      BY <1>4, <3>1
    <3>2. CASE p \notin probes
      <4>1. PICK c \in due : p = [check |-> c, version |-> row[c].version,
                                  config |-> row[c].config, since |-> clock, epoch |-> epoch[c]]
        BY <2>2, <3>2
      <4>2. /\ p.check = c /\ p.version = row[c].version /\ p.config = row[c].config
            /\ p.epoch = epoch[c]
        BY <4>1
      <4> QED
        BY <2>1, <2>3, <4>2
    <3> QED
      BY <3>1, <3>2
  <2> QED
    BY <1>5, <2>1, <2>4 DEF CurrentInv
<1>7. CASE RecordProbeResult
  <2>1. probes' \subseteq probes
    BY <1>7 DEF RecordProbeResult
  <2>2. ~mixed'
    <3>1. PICK p \in probes :
            \/ Applies(p) /\ mixed' = (mixed \/ p.config # row[p.check].config
                                             \/ p.epoch # epoch[p.check])
            \/ mixed' = mixed
      BY <1>7 DEF RecordProbeResult
    <3>2. ~mixed
      BY DEF CurrentInv
    <3>3. Applies(p) => p.config = row[p.check].config /\ p.epoch = epoch[p.check]
      BY DEF CurrentInv, Applies
    <3> QED
      BY <3>1, <3>2, <3>3
  <2> QED
    BY <1>4, <1>5, <2>1, <2>2 DEF CurrentInv
<1>8. CASE ~ClaimDueProbes /\ ~RecordProbeResult
  <2>1. probes' \subseteq probes /\ mixed' = mixed
    BY <1>8 DEF Next, Request, Checker, Prober, Create, Patch, Delete, Pause, Resume, RecordPing,
         SetEnabled, Edit, AdvanceDue, ListPendingAlerts, Submit, SubmitFails, FlushDone, TickDone,
         Scan, TickFailed, ProbeLost, Restart, Tick, vars, watched, process, prober
  <2> QED
    BY <1>4, <1>5, <2>1 DEF CurrentInv
<1> QED
  BY <1>6, <1>7, <1>8

\* A result counts only for the configuration it was obtained with, and never across
\* a pause, however late it comes and whatever patches, pauses and claims race it.
THEOREM ResultsCorrect == Spec => []ResultsAreCurrent
<1>1. Init => CurrentInv /\ epoch \in [Check -> Nat]
  BY DEF Init, CurrentInv
<1>2. Inv /\ Inv' /\ (CurrentInv /\ epoch \in [Check -> Nat]) /\ [Next]_vars =>
          (CurrentInv /\ epoch \in [Check -> Nat])'
  BY StepCurrent
<1>3. CurrentInv => ResultsAreCurrent
  BY DEF CurrentInv, ResultsAreCurrent
<1> QED
  BY <1>1, <1>2, <1>3, InvAlways, PTL DEF Spec
=============================================================================
