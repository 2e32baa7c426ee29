---------------------------- MODULE Provisioning ----------------------------
(***************************************************************************)
(* The person flows of provisioning-api: Provision, SetPassword,           *)
(* ResetPassword, Deprovision, DeprovisionApp and DeleteUser, over the     *)
(* three places that hold a person: the ntfy user database (one CLI        *)
(* process per call, one call at a time), the person service (one D1       *)
(* transaction per request) and the locks and counters of this process.    *)
(*                                                                         *)
(* A request is a program counter over its external calls.  Every call may *)
(* fail, and a failed call may have taken effect (a killed CLI process, a  *)
(* lost answer); a call that was given up takes no effect later.  Each     *)
(* operation has a number, and the password, stamp, token or reset slot it *)
(* creates is that number.                                                 *)
(***************************************************************************)
EXTENDS Naturals, FiniteSets

CONSTANTS Persons, Apps, Requests,
          None,          \* no request, person or app
          Configs,       \* deployments: AppGrantMode, person service configured or not
          ResetLimit,    \* RESET_LIMIT of the person service
          AttemptLimit,  \* resetAttemptLimit
          Window,        \* the rolling hour of both limits
          MaxOps,        \* bound: operations started
          MaxFaults,     \* bound: failed calls and crashes
          MaxClock       \* bound: time

ASSUME NoneAssumption == None \notin Requests \cup Persons \cup Apps
ASSUME ConfigAssumption == Configs \subseteq [mode : {"enforce", "log-only"}, store : BOOLEAN]
ASSUME LimitAssumption == ResetLimit \in Nat /\ AttemptLimit \in Nat /\ Window \in Nat \ {0}

VARIABLES
  ntfy,       \* ntfy users of persons: existence, password, grants, tokens
  publishers, \* apps whose publisher identity exists in ntfy
  store,      \* person rows: existence and password_set_at
  registry,   \* app rows of the person service
  slots,      \* password_reset rows: reset_id and reset_at
  attempts,   \* attemptThrottle: counted attempts of a person and an app
  lock,       \* keyedLock: the request that holds a person's lock
  req,        \* the requests being served
  config,     \* AppGrantMode and whether a person service is configured
  clock, ops, faults,
  known,      \* history: the password last given to the person by a 200 answer
  doubt,      \* history: a fault may have parted stamp and known password
  kept,       \* history: the known password was stamped, the user not deleted since
  served,     \* history: <<p, a, token>> provisioned and not taken away since
  granted     \* history: slots of the resets that succeeded

procVars == <<attempts, lock>>
extVars == <<ntfy, publishers, store, registry, slots>>
histVars == <<known, doubt, kept, served, granted>>
vars == <<extVars, procVars, req, config, clock, ops, faults, histVars>>

Null == 0         \* password_set_at IS NULL; no claim held
Throwaway == 0    \* a generated password that nobody is told
NoUser == [exists |-> FALSE, pw |-> Throwaway, grants |-> {}, tokens |-> {}]
NoRow == [row |-> FALSE, stamp |-> Null]

Removals == {"deprovision", "deprovisionApp", "deleteUser"}
Ops == {"provision", "setPassword", "resetPassword"} \cup Removals

Idle(r) == req[r].pc = "idle"
IdleRequest ==
  [pc |-> "idle", op |-> "none", p |-> None, a |-> None, n |-> 0, held |-> Null, prev |-> Null,
   row |-> FALSE, usable |-> FALSE, toks |-> {}, slot |-> FALSE, todo |-> {}, raced |-> FALSE]

(***************************************************************************)
(* What the two external services do.                                      *)
(***************************************************************************)
TopicPattern(a) == <<a, "scoped">>
BroadcastTopicPattern(a) == <<a, "broadcast">>

userHasAppGrant(u, a) == {TopicPattern(a), BroadcastTopicPattern(a)} \cap u.grants # {}
TokensOf(u, a) == {t \in u.tokens : t[1] = a}

\* The person row after a password claim, by mode.
Claimed(mode, row) ==
  CASE mode = "if_unset"    -> ~(row.row /\ row.stamp # Null)
    [] mode = "always"      -> TRUE
    [] mode = "update_only" -> row.row

ClaimPassword(mode, row, stamp) ==
  IF Claimed(mode, row) THEN [row |-> TRUE, stamp |-> stamp] ELSE row

\* Mutant: a release that does not compare the stamp.
ReleaseAnyStamp(row, stamp, restoreTo) == [row EXCEPT !.stamp = IF row.row THEN restoreTo ELSE @]

\* A release writes back only over the stamp it names.
ReleasePasswordClaim(row, stamp, restoreTo) ==
  IF row.row /\ row.stamp = stamp THEN [row EXCEPT !.stamp = restoreTo] ELSE row

InWindow(s) == {x \in s : x.at + Window > clock}

\* Mutant: the count may reach the limit before the insert.
ClaimResetSlotLate(s, n) ==
  IF Cardinality(InWindow(s)) <= ResetLimit THEN InWindow(s) \cup {[id |-> n, at |-> clock]}
                                            ELSE InWindow(s)

ClaimResetSlot(s, n) ==
  IF Cardinality(InWindow(s)) < ResetLimit THEN InWindow(s) \cup {[id |-> n, at |-> clock]}
                                           ELSE InWindow(s)

(***************************************************************************)
(* Initial states: a person who is unknown, who predates password stamps   *)
(* (with or without a row), who has a stamped password, or whose ntfy user *)
(* is gone while the row stayed.                                           *)
(***************************************************************************)
Subscribed(a) ==
  [exists |-> TRUE, pw |-> 1, grants |-> {TopicPattern(a), BroadcastTopicPattern(a)},
   tokens |-> {<<a, 1>>}]

Unknown == [user |-> NoUser, row |-> NoRow, kept |-> FALSE]
Legacy(a) == [user |-> Subscribed(a), row |-> [row |-> TRUE, stamp |-> Null], kept |-> FALSE]
LegacyNoRow(a) == [user |-> Subscribed(a), row |-> NoRow, kept |-> FALSE]
Settled(a) == [user |-> Subscribed(a), row |-> [row |-> TRUE, stamp |-> 1], kept |-> TRUE]
StaleStamp == [user |-> NoUser, row |-> [row |-> TRUE, stamp |-> 1], kept |-> FALSE]
InitialPersons ==
  {Unknown, StaleStamp} \cup UNION {{Legacy(a), LegacyNoRow(a), Settled(a)} : a \in Apps}

Init ==
  /\ \E f \in [Persons -> InitialPersons] :
       /\ ntfy = [p \in Persons |-> f[p].user]
       /\ store = [p \in Persons |-> f[p].row]
       /\ kept = [p \in Persons |-> f[p].kept]
       /\ served = UNION {{<<p, t[1], t[2]>> : t \in f[p].user.tokens} : p \in Persons}
       /\ config \in Configs
       /\ config.store \/ \A p \in Persons : f[p].row = NoRow
  /\ publishers = Apps /\ registry = Apps
  /\ slots = [p \in Persons |-> {}]
  /\ attempts = [p \in Persons |-> [a \in Apps |-> {}]]
  /\ lock = [p \in Persons |-> None]
  /\ req = [r \in Requests |-> IdleRequest]
  /\ clock = Window /\ ops = 1 /\ faults = 0
  /\ known = [p \in Persons |-> 1]
  /\ doubt = [p \in Persons |-> FALSE]
  /\ granted = [p \in Persons |-> {}]

(***************************************************************************)
(* Requests.  A handler validates its body and calls the service; what it  *)
(* refuses changes nothing and is left out.                                *)
(***************************************************************************)
Takes(q, p, a) ==   \* request q may take p's access to a away
  \/ q.op = "deprovision" /\ q.p = p /\ q.a = a
  \/ q.op = "deprovisionApp" /\ q.a = a
  \/ q.op = "deleteUser" /\ q.p = p

Begin(r, op, p, a, first) ==
  LET q == [IdleRequest EXCEPT !.pc = first, !.op = op, !.p = p, !.a = a, !.n = ops + 1,
              !.raced = \E o \in Requests : Takes(req[o], p, a)]
  IN /\ Idle(r) /\ ops < MaxOps + 1
     /\ ops' = ops + 1
     /\ req' = [o \in Requests |->
                  IF o = r THEN q
                  ELSE [req[o] EXCEPT !.raced = @ \/ Takes(q, req[o].p, req[o].a)]]
     /\ served' = {s \in served : ~Takes(q, s[1], s[2])}
     /\ UNCHANGED <<extVars, procVars, config, clock, faults, known, doubt, kept, granted>>

HandleProvision(r) == \E p \in Persons, a \in Apps : Begin(r, "provision", p, a, "lock")
HandleSetPassword(r) == \E p \in Persons, a \in Apps : Begin(r, "setPassword", p, a, "check")
HandleResetPassword(r) == \E p \in Persons, a \in Apps : Begin(r, "resetPassword", p, a, "throttle")
HandleDeprovision(r) == \E p \in Persons, a \in Apps : Begin(r, "deprovision", p, a, "check")
HandleDeprovisionApp(r) ==
  \E a \in Apps : Begin(r, "deprovisionApp", None, a, "listUsers")
HandleDeleteUser(r) == \E p \in Persons : Begin(r, "deleteUser", p, None, "lock")

Handle(r) ==
  \/ HandleProvision(r) \/ HandleSetPassword(r) \/ HandleResetPassword(r)
  \/ HandleDeprovision(r) \/ HandleDeprovisionApp(r) \/ HandleDeleteUser(r)

(***************************************************************************)
(* Calls.                                                                  *)
(***************************************************************************)
At(r, pc) == req[r].pc = pc
Goto(r, pc) == req' = [req EXCEPT ![r].pc = pc]
Fault == faults < MaxFaults /\ faults' = faults + 1
Doubt(p, b) == doubt' = [doubt EXCEPT ![p] = @ \/ b]

\* A call that leaves a stamped person with a password nobody knows, which no
\* later step of its request repairs.
Strands(r, lost) ==
  LET q == req[r] IN
  \/ At(r, "addUser") /\ q.held = Null /\ store[q.p].stamp # Null /\ (lost \/ ~q.usable)
  \/ At(r, "change") /\ q.op # "provision" /\ q.prev # Null /\ lost

\* A CLI call on the request's user: it takes effect and answers, or it fails,
\* maybe after it took effect.
Run(r, user, next) ==
  LET p == req[r].p IN
  \/ /\ ntfy' = [ntfy EXCEPT ![p] = user]
     /\ Goto(r, next)
     /\ Doubt(p, Strands(r, FALSE))
     /\ UNCHANGED faults
  \/ /\ Fault
     /\ ntfy' \in {ntfy, [ntfy EXCEPT ![p] = user]}
     /\ Goto(r, "fail")
     /\ Doubt(p, ntfy' # ntfy /\ Strands(r, TRUE))

\* The CLI's answer that the user or grant it needs does not exist.
NotFound(r, next) == Goto(r, next) /\ UNCHANGED <<ntfy, faults, doubt>>

cliUnchanged == UNCHANGED <<publishers, store, registry, slots, procVars, config, clock, ops,
                            known, served, granted>>

\* A request to the person service about the row: answered, or failed with or
\* without effect.
Answered(p, row) == store' = [store EXCEPT ![p] = row] /\ UNCHANGED <<faults, doubt>>
Ambiguous(p, row) == Fault /\ store' \in {store, [store EXCEPT ![p] = row]}

storeUnchanged == UNCHANGED <<ntfy, publishers, registry, slots, procVars, config, clock, ops,
                              known, kept, served, granted>>

(***************************************************************************)
(* The person lock, the grant check and the reset limits.                  *)
(***************************************************************************)
AfterLock(op) ==
  CASE op \in {"provision", "setPassword", "resetPassword"} -> "claim"
    [] op \in {"deprovision", "deprovisionApp"} -> "last"
    [] op = "deleteUser" -> "deleteUser"

\* Mutant: the last-app check takes no lock.
TakesLockUnlessLast(r) ==
  IF AfterLock(req[r].op) = "last" THEN UNCHANGED lock
  ELSE lock[req[r].p] = None /\ lock' = [lock EXCEPT ![req[r].p] = r]

TakesLock(r) == lock[req[r].p] = None /\ lock' = [lock EXCEPT ![req[r].p] = r]

LockPerson(r) ==
  LET q == req[r] IN
  /\ At(r, "lock")
  /\ TakesLock(r)
  /\ Goto(r, AfterLock(q.op))
  /\ served' = IF q.op = "provision" THEN {s \in served : <<s[1], s[2]>> # <<q.p, q.a>>} ELSE served
  /\ UNCHANGED <<extVars, attempts, config, clock, ops, faults, known, doubt, kept, granted>>

AfterCheck(op) ==
  CASE op = "setPassword" -> "lock"
    [] op = "resetPassword" -> "slot"
    [] OTHER -> "reset"

checkAppGrant(r) ==
  LET q == req[r]
      u == ntfy[q.p]
      lenient == config.mode = "log-only"
  IN /\ At(r, "check")
     /\ \/ /\ u.exists
           /\ Goto(r, IF userHasAppGrant(u, q.a) \/ lenient THEN AfterCheck(q.op) ELSE "fail")
           /\ UNCHANGED faults
        \/ /\ ~u.exists
           /\ Goto(r, IF q.op \in Removals THEN "answer" ELSE "fail")
           /\ UNCHANGED faults
        \/ Fault /\ Goto(r, IF lenient THEN AfterCheck(q.op) ELSE "fail")
     /\ UNCHANGED <<extVars, procVars, config, clock, ops, histVars>>

\* attemptThrottle.allow: a refused attempt is not counted.
Allow(r) ==
  LET q == req[r]
      recent == InWindow(attempts[q.p][q.a])
  IN /\ At(r, "throttle")
     /\ IF Cardinality(recent) >= AttemptLimit
        THEN Goto(r, "fail") /\ attempts' = [attempts EXCEPT ![q.p][q.a] = recent]
        ELSE /\ Goto(r, "check")
             /\ attempts' = [attempts EXCEPT ![q.p][q.a] = recent \cup {[id |-> q.n, at |-> clock]}]
     /\ UNCHANGED <<extVars, lock, config, clock, ops, faults, histVars>>

ClaimSlot(r) ==
  LET q == req[r]
      s == ClaimResetSlot(slots[q.p], q.n)
      got == \E x \in s : x.id = q.n
  IN /\ At(r, "slot")
     /\ \/ /\ config.store
           /\ slots' = [slots EXCEPT ![q.p] = s]
           /\ req' = [req EXCEPT ![r] = [@ EXCEPT !.pc = IF got THEN "lock" ELSE "fail", !.slot = got]]
           /\ UNCHANGED faults
        \/ /\ config.store /\ Fault
           /\ slots' \in {slots, [slots EXCEPT ![q.p] = s]}
           /\ Goto(r, "fail")
        \/ ~config.store /\ Goto(r, "fail") /\ UNCHANGED <<slots, faults>>
     /\ UNCHANGED <<ntfy, publishers, store, registry, procVars, config, clock, ops, histVars>>

\* The slot of a failed reset, after the lock was released.
ReleaseResetSlot(r) ==
  LET q == req[r]
      s == {x \in slots[q.p] : x.id # q.n}
  IN /\ At(r, "giveBack")
     /\ \/ slots' = [slots EXCEPT ![q.p] = s] /\ UNCHANGED faults
        \/ Fault /\ slots' \in {slots, [slots EXCEPT ![q.p] = s]}
     /\ req' = [req EXCEPT ![r] = IdleRequest]
     /\ UNCHANGED <<ntfy, publishers, store, registry, procVars, config, clock, ops, histVars>>

(***************************************************************************)
(* The password: stamp claimed before the password is applied.             *)
(***************************************************************************)
ClaimIfUnset(r) ==
  LET q == req[r]
      row == ClaimPassword("if_unset", store[q.p], q.n)
      won == Claimed("if_unset", store[q.p])
  IN /\ At(r, "claim") /\ q.op = "provision"
     /\ \/ /\ config.store /\ Answered(q.p, row)
           /\ req' = [req EXCEPT ![r] = [@ EXCEPT !.pc = "addUser", !.usable = TRUE,
                                                 !.held = IF won THEN q.n ELSE Null]]
        \/ config.store /\ Ambiguous(q.p, row) /\ Goto(r, "releaseLost") /\ UNCHANGED doubt
        \/ config.store /\ Fault /\ Goto(r, "addUser") /\ UNCHANGED <<store, doubt>>
        \/ ~config.store /\ Goto(r, "addUser") /\ UNCHANGED <<store, faults, doubt>>
     /\ storeUnchanged

\* A claim whose answer was lost is released by its own stamp.
ReleaseLostClaim(r) ==
  LET q == req[r]
      row == ReleasePasswordClaim(store[q.p], q.n, Null)
  IN /\ At(r, "releaseLost")
     /\ Answered(q.p, row) \/ (Ambiguous(q.p, row) /\ Doubt(q.p, TRUE))
     /\ Goto(r, "addUser")
     /\ storeUnchanged

\* With a claim the new user gets the subscriber password and an existing one
\* is rotated; without one a new user gets a throwaway, and is healed when the
\* row was stamped although there was no user.
AddUser(r) ==
  LET q == req[r]
      u == ntfy[q.p]
      user == [NoUser EXCEPT !.exists = TRUE, !.pw = IF q.held # Null THEN q.n ELSE Throwaway]
  IN /\ At(r, "addUser")
     /\ \/ u.exists /\ NotFound(r, IF q.held # Null THEN "change" ELSE "grant")
        \/ ~u.exists /\ Run(r, user, IF q.held = Null /\ q.usable THEN "heal" ELSE "grant")
     /\ UNCHANGED kept
     /\ cliUnchanged

healStaleStamp(r) ==
  LET q == req[r]
      row == ClaimPassword("always", store[q.p], q.n)
  IN /\ At(r, "heal")
     /\ \/ /\ Answered(q.p, row)
           /\ req' = [req EXCEPT ![r] = [@ EXCEPT !.pc = "change", !.held = q.n]]
        \/ Ambiguous(q.p, row) /\ Doubt(q.p, TRUE) /\ Goto(r, "grant")
     /\ storeUnchanged

\* SetPassword and ResetPassword never create a row.
ClaimUpdateOnly(r) ==
  LET q == req[r]
      row == ClaimPassword("update_only", store[q.p], q.n)
      won == Claimed("update_only", store[q.p])
  IN /\ At(r, "claim") /\ q.op # "provision"
     /\ \/ /\ config.store /\ Answered(q.p, row)
           /\ req' = [req EXCEPT ![r] = [@ EXCEPT !.pc = "change", !.row = won,
                                                 !.held = IF won THEN q.n ELSE Null,
                                                 !.prev = IF won THEN store[q.p].stamp ELSE Null]]
        \/ config.store /\ Ambiguous(q.p, row) /\ Doubt(q.p, store' # store) /\ Goto(r, "fail")
        \/ ~config.store /\ Goto(r, "fail") /\ UNCHANGED <<store, faults, doubt>>
     /\ storeUnchanged

ChangePassword(r) ==
  LET q == req[r]
      u == ntfy[q.p]
      next == IF q.op = "provision" THEN "grant" ELSE IF q.row THEN "answer" ELSE "record"
  IN /\ At(r, "change")
     /\ \/ u.exists /\ Run(r, [u EXCEPT !.pw = q.n], next)
        \/ ~u.exists /\ NotFound(r, "fail")
     /\ UNCHANGED kept
     /\ cliUnchanged

recordStampAfterChange(r) ==
  LET q == req[r]
      row == ClaimPassword("always", store[q.p], q.n)
  IN /\ At(r, "record")
     /\ Answered(q.p, row) \/ (Ambiguous(q.p, row) /\ UNCHANGED doubt)
     /\ Goto(r, "answer")
     /\ storeUnchanged

(***************************************************************************)
(* Grants and tokens.                                                      *)
(***************************************************************************)
GrantAccess(r) ==
  LET q == req[r]
      u == ntfy[q.p]
  IN /\ \/ /\ At(r, "grant")
           /\ Run(r, [u EXCEPT !.grants = @ \cup {TopicPattern(q.a)}], "broadcast")
        \/ /\ At(r, "broadcast")
           /\ Run(r, [u EXCEPT !.grants = @ \cup {BroadcastTopicPattern(q.a)}], "list")
     /\ UNCHANGED kept
     /\ cliUnchanged

\* Deprovision's resets hold no lock.  A grant or user that is missing may be
\* answered as success or as not found, which the second reset tolerates.
ResetAccess(r) ==
  LET q == req[r]
      u == ntfy[q.p]
      has(g) == g \in u.grants
  IN /\ \/ /\ At(r, "reset")
           /\ \/ Run(r, [u EXCEPT !.grants = @ \ {TopicPattern(q.a)}], "resetBroadcast")
              \/ ~has(TopicPattern(q.a)) /\ NotFound(r, "fail")
        \/ /\ At(r, "resetBroadcast")
           /\ Run(r, [u EXCEPT !.grants = @ \ {BroadcastTopicPattern(q.a)}], "list")
     /\ UNCHANGED kept
     /\ cliUnchanged

AfterTokens(op) == IF op = "provision" THEN "addToken" ELSE "lock"

ListTokens(r) ==
  LET q == req[r]
      u == ntfy[q.p]
      toks == TokensOf(u, q.a)
  IN /\ At(r, "list")
     /\ \/ /\ u.exists
           /\ req' = [req EXCEPT ![r] = [@ EXCEPT !.pc = IF toks = {} THEN AfterTokens(q.op) ELSE "remove",
                                                 !.toks = toks]]
           /\ UNCHANGED faults
        \/ ~u.exists /\ Goto(r, "fail") /\ UNCHANGED faults
        \/ Fault /\ Goto(r, "fail")
     /\ UNCHANGED <<extVars, procVars, config, clock, ops, histVars>>

RemoveToken(r) ==
  LET q == req[r]
      u == ntfy[q.p]
  IN /\ At(r, "remove")
     /\ \E t \in q.toks :
          \/ /\ ntfy' = [ntfy EXCEPT ![q.p].tokens = @ \ {t}]
             /\ req' = [req EXCEPT ![r] =
                         [@ EXCEPT !.toks = q.toks \ {t},
                                   !.pc = IF q.toks = {t} THEN AfterTokens(q.op) ELSE "remove"]]
             /\ UNCHANGED faults
          \/ t \notin u.tokens /\ Goto(r, "fail") /\ UNCHANGED <<ntfy, faults>>
          \/ /\ Fault /\ Goto(r, "fail")
             /\ ntfy' \in {ntfy, [ntfy EXCEPT ![q.p].tokens = @ \ {t}]}
     /\ UNCHANGED <<doubt, kept>>
     /\ cliUnchanged

AddToken(r) ==
  LET q == req[r] IN
  /\ At(r, "addToken")
  /\ Run(r, [ntfy[q.p] EXCEPT !.tokens = @ \cup {<<q.a, q.n>>}], "upsert")
  /\ UNCHANGED kept
  /\ cliUnchanged

dualWritePerson(r) ==
  LET q == req[r]
      row == [store[q.p] EXCEPT !.row = TRUE]
  IN /\ At(r, "upsert")
     /\ \/ config.store /\ (Answered(q.p, row) \/ (Ambiguous(q.p, row) /\ UNCHANGED doubt))
        \/ ~config.store /\ UNCHANGED <<store, faults, doubt>>
     /\ Goto(r, "answer")
     /\ storeUnchanged

(***************************************************************************)
(* Taking a person away.  Only the last-app check and what follows hold    *)
(* the lock.                                                               *)
(***************************************************************************)
GetRemaining(r) ==
  LET u == ntfy[req[r].p] IN
  /\ At(r, "last")
  /\ \/ Goto(r, IF u.exists /\ u.grants = {} THEN "deleteUser" ELSE "answer") /\ UNCHANGED faults
     \/ Fault /\ Goto(r, "fail")
  /\ UNCHANGED <<extVars, procVars, config, clock, ops, histVars>>

DeleteUser(r) ==
  LET q == req[r]
      u == ntfy[q.p]
  IN /\ At(r, "deleteUser")
     /\ \/ u.exists /\ Run(r, NoUser, "deletePerson")
        \/ ~u.exists /\ NotFound(r, "deletePerson")
     /\ kept' = [kept EXCEPT ![q.p] = @ /\ ntfy'[q.p].exists]
     /\ cliUnchanged

\* The person row and its reset history go together.  Only DeleteUser reports
\* a failure.
DeletePerson(r) ==
  LET q == req[r]
      gone == /\ store' = [store EXCEPT ![q.p] = NoRow]
              /\ slots' = [slots EXCEPT ![q.p] = {}]
              /\ granted' = [granted EXCEPT ![q.p] = {}]
  IN /\ At(r, "deletePerson")
     /\ \/ config.store /\ gone /\ Goto(r, "answer") /\ UNCHANGED faults
        \/ /\ config.store /\ Fault
           /\ gone \/ UNCHANGED <<store, slots, granted>>
           /\ Goto(r, IF q.op = "deleteUser" THEN "fail" ELSE "answer")
        \/ ~config.store /\ Goto(r, "answer") /\ UNCHANGED <<store, slots, granted, faults>>
     /\ UNCHANGED <<ntfy, publishers, registry, procVars, config, clock, ops,
                    known, doubt, kept, served>>

\* DeprovisionApp deprovisions the users it listed, one after the other.
ListUsers(r) ==
  LET a == req[r].a IN
  /\ At(r, "listUsers")
  /\ \/ /\ req' = [req EXCEPT ![r] = [@ EXCEPT !.pc = "next",
                                         !.todo = {p \in Persons : userHasAppGrant(ntfy[p], a)}]]
        /\ UNCHANGED faults
     \/ Fault /\ Goto(r, "fail")
  /\ UNCHANGED <<extVars, procVars, config, clock, ops, histVars>>

DeprovisionNext(r) ==
  /\ At(r, "next")
  /\ \/ \E p \in req[r].todo :
          req' = [req EXCEPT ![r] = [@ EXCEPT !.pc = "check", !.p = p, !.todo = req[r].todo \ {p},
                                                !.toks = {}]]
     \/ req[r].todo = {} /\ Goto(r, "publisher")
  /\ UNCHANGED <<extVars, procVars, config, clock, ops, faults, histVars>>

DeletePublisher(r) ==
  /\ At(r, "publisher")
  /\ \/ publishers' = publishers \ {req[r].a} /\ Goto(r, "app") /\ UNCHANGED faults
     \/ Fault /\ publishers' \in {publishers, publishers \ {req[r].a}} /\ Goto(r, "fail")
  /\ UNCHANGED <<ntfy, store, registry, slots, procVars, config, clock, ops, histVars>>

dualDeleteApp(r) ==
  /\ At(r, "app")
  /\ \/ config.store /\ registry' = registry \ {req[r].a} /\ UNCHANGED faults
     \/ config.store /\ Fault /\ registry' \in {registry, registry \ {req[r].a}}
     \/ ~config.store /\ UNCHANGED <<registry, faults>>
  /\ req' = [req EXCEPT ![r] = IdleRequest]
  /\ UNCHANGED <<ntfy, publishers, store, slots, procVars, config, clock, ops, histVars>>

(***************************************************************************)
(* The end of a request.                                                   *)
(***************************************************************************)
Unlocked(r) == [p \in Persons |-> IF lock[p] = r THEN None ELSE lock[p]]

\* Success: what the answer tells is what the person now knows.
Answer(r) ==
  LET q == req[r]
      tells == \/ q.op \in {"setPassword", "resetPassword"}
               \/ q.op = "provision" /\ q.held # Null
      stamped == store[q.p].stamp # Null
  IN /\ At(r, "answer")
     /\ lock' = Unlocked(r)
     /\ req' = [req EXCEPT ![r] = IF q.op = "deprovisionApp" THEN [q EXCEPT !.pc = "next"]
                                                            ELSE IdleRequest]
     /\ known' = IF tells THEN [known EXCEPT ![q.p] = q.n] ELSE known
     /\ kept' = IF tells THEN [kept EXCEPT ![q.p] = stamped] ELSE kept
     /\ doubt' = IF tells THEN [doubt EXCEPT ![q.p] = FALSE] ELSE doubt
     /\ served' = IF q.op = "provision" /\ ~q.raced THEN served \cup {<<q.p, q.a, q.n>>} ELSE served
     /\ granted' = [granted EXCEPT ![q.p] =
                      @ \cup {x \in slots[q.p] : q.op = "resetPassword" /\ x.id = q.n}]
     /\ UNCHANGED <<extVars, attempts, config, clock, ops, faults>>

\* Mutant: a failed request keeps its claim.
FailKeepsClaim(r) ==
  LET q == req[r] IN
  /\ At(r, "fail")
  /\ lock' = Unlocked(r)
  /\ req' = [req EXCEPT ![r] = IF q.slot THEN [q EXCEPT !.pc = "giveBack"] ELSE IdleRequest]
  /\ UNCHANGED <<extVars, attempts, config, clock, ops, faults, histVars>>

\* Failure: a claim that is held is given back, then the lock, then the slot.
Fail(r) ==
  LET q == req[r]
      row == ReleasePasswordClaim(store[q.p], q.held, q.prev)
  IN /\ At(r, "fail")
     /\ \/ q.held # Null /\ Answered(q.p, row)
        \/ q.held # Null /\ Ambiguous(q.p, row) /\ Doubt(q.p, TRUE)
        \/ q.held = Null /\ UNCHANGED <<store, faults, doubt>>
     /\ lock' = Unlocked(r)
     /\ req' = [req EXCEPT ![r] = IF q.slot THEN [q EXCEPT !.pc = "giveBack"] ELSE IdleRequest]
     /\ UNCHANGED <<ntfy, publishers, registry, slots, attempts, config, clock, ops,
                    known, kept, served, granted>>

\* The process ends and is started again: requests, locks and the throttle's
\* counters are gone, the claims that were held stay.
Crash ==
  /\ Fault
  /\ \E r \in Requests : ~Idle(r)
  /\ req' = [r \in Requests |-> IdleRequest]
  /\ lock' = [p \in Persons |-> None]
  /\ attempts' = [p \in Persons |-> [a \in Apps |-> {}]]
  /\ doubt' = [p \in Persons |-> doubt[p] \/ lock[p] # None]
  /\ UNCHANGED <<extVars, config, clock, ops, known, kept, served, granted>>

Tick ==
  /\ clock < MaxClock
  /\ \E p \in Persons : slots[p] # {} \/ \E a \in Apps : attempts[p][a] # {}
  /\ clock' = clock + 1
  /\ UNCHANGED <<extVars, procVars, req, config, ops, faults, histVars>>

Step(r) ==
  \/ LockPerson(r) \/ checkAppGrant(r) \/ Allow(r) \/ ClaimSlot(r) \/ ReleaseResetSlot(r)
  \/ ClaimIfUnset(r) \/ ReleaseLostClaim(r) \/ AddUser(r) \/ healStaleStamp(r)
  \/ ClaimUpdateOnly(r) \/ ChangePassword(r) \/ recordStampAfterChange(r)
  \/ GrantAccess(r) \/ ResetAccess(r) \/ ListTokens(r) \/ RemoveToken(r) \/ AddToken(r)
  \/ dualWritePerson(r) \/ GetRemaining(r) \/ DeleteUser(r) \/ DeletePerson(r)
  \/ ListUsers(r) \/ DeprovisionNext(r) \/ DeletePublisher(r) \/ dualDeleteApp(r)
  \/ Answer(r) \/ Fail(r)

\* The bound on operations is reached and every request was answered.
Finished == ops = MaxOps + 1 /\ (\A r \in Requests : Idle(r)) /\ UNCHANGED vars

Next == Crash \/ Tick \/ Finished \/ \E r \in Requests : Handle(r) \/ Step(r)

Spec == Init /\ [][Next]_vars

-----------------------------------------------------------------------------
(***************************************************************************)
(* Properties.                                                             *)
(***************************************************************************)

\* password_set_at NULL means that the person has no known password, so a
\* stamp means that the password in ntfy is one the person was given: between
\* requests nobody is left stamped with a password that was never delivered,
\* whichever call failed, except where a release, a heal, an update_only claim
\* or the answer of a password change was itself lost, where the throwaway user
\* of a first provision met a stale stamp, and where the process crashed under
\* the person's lock (doubt).
StampMeansKnown ==
  \A p \in Persons :
    (lock[p] = None /\ ntfy[p].exists /\ store[p].stamp # Null /\ ~doubt[p])
      => ntfy[p].pw = known[p]

\* A password that was given to the person and stamped is replaced only by
\* SetPassword or ResetPassword: no Provision rotates it, whatever failed,
\* raced or crashed since, as long as the ntfy user lives.
ChosenPasswordIsKept ==
  [][\A p \in Persons :
       (kept[p] /\ ntfy'[p].exists /\ ntfy'[p].pw # ntfy[p].pw)
         => \E r \in Requests : lock[p] = r /\ req[r].op \in {"setPassword", "resetPassword"}]_vars

\* Who was provisioned into an app, and has not been taken out of it since,
\* has an ntfy user with both grants and exactly the token that was returned:
\* the last-app teardown of another app, which checks and deletes outside the
\* locked part of Provision's calls, never takes them along.
ProvisionedIsServed ==
  \A s \in served :
    LET u == ntfy[s[1]] IN
    /\ u.exists
    /\ {TopicPattern(s[2]), BroadcastTopicPattern(s[2])} \subseteq u.grants
    /\ TokensOf(u, s[2]) = {<<s[2], s[3]>>}

\* In no window does a person get more passwords reset than the limit, over
\* concurrent requests, failed releases and restarts.
ResetsWithinLimit ==
  \A p \in Persons : \A t \in 0..clock :
    Cardinality({x \in granted[p] : x.at <= t /\ x.at + Window > t}) <= ResetLimit
=============================================================================
