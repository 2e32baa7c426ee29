---------------------------- MODULE AppIdentity ----------------------------
(***************************************************************************)
(* The app identity of delivery-api: a workflow's OIDC token is verified   *)
(* against the issuer's cached signing keys and exchanged, in one READ     *)
(* COMMITTED transaction, for a pending request (no binding) or a key.     *)
(* The operator approves, rejects, revokes and unbinds; a cleanup ticker   *)
(* sweeps the replay ledger and old requests.                              *)
(*                                                                         *)
(* An exchange is a program counter over the statements that can wait or   *)
(* be overtaken.  Locks are those of Postgres: the primary key of an       *)
(* uncommitted jti, the binding row, the key rows a supersede wrote, and   *)
(* the advisory lock of the request queue.                                 *)
(***************************************************************************)
EXTENDS Integers, FiniteSets

CONSTANTS Apps, Exchanges, Tokens, Kids,
          None,
          Claims,             \* Tokens -> [id : [repo, owner], exp : time, kid]
          Overlaps,           \* app ids of which one extends the other by "_"
          ClockLeeway, SupersededGrace, RejectedRequestWindow, PendingTTL,
          RefetchInterval, MaxPendingRequests,
          MaxIds,             \* bound: keys and requests ever inserted
          MaxClock            \* bound: time

ASSUME ClaimsAssumption == \A t \in Tokens : Claims[t].exp \in Int /\ Claims[t].kid \in Kids
ASSUME NoneAssumption == None \notin Apps \cup Exchanges \cup Tokens \cup Kids
ASSUME OverlapAssumption == Overlaps \subseteq {{a, b} : a, b \in Apps}
ASSUME TimeAssumption ==
  /\ ClockLeeway \in Nat /\ SupersededGrace \in Nat /\ RejectedRequestWindow \in Nat
  /\ PendingTTL \in Nat \ {0} /\ RefetchInterval \in Nat \ {0} /\ MaxPendingRequests \in Nat

VARIABLES
  published,  \* external: kids of the issuer's key set
  cached, lastFetch, lastFetchErr, gate,   \* Verifier
  replay,     \* oidc_replay: tokens whose jti is recorded
  bindings,   \* app_bindings: the approved identity, or None
  keys,       \* app_keys
  requests,   \* app_registration_requests
  bindLock,   \* the exchange that locked the binding row
  queueLock,  \* holder of pendingCapLockKey
  ex,         \* exchanges being served
  approving,  \* the approval between its first read and its transaction
  registered, \* external: apps of the people directory
  clock, ids,
  spent,      \* history: per token, committed exchanges recorded by its replay expiry
  lastStart   \* history: when the process last started a fetch

verifierVars == <<cached, lastFetch, lastFetchErr, gate>>
tableVars == <<replay, bindings, keys, requests>>
vars == <<published, verifierVars, tableVars, bindLock, queueLock, ex, approving, registered,
          clock, ids, spent, lastStart>>

Never == -1   \* the zero time
IdleExchange ==
  [pc |-> "idle", app |-> None, tok |-> None, started |-> Never, now |-> Never,
   mayFile |-> TRUE, sup |-> {}]

ReplayExpiry(t) == Claims[t].exp + ClockLeeway

\* The columns that name a workflow identity leave the owner out; a binding
\* matches claims only with the same owner.
SameWorkflow(i, j) == i.repo = j.repo
Matches(binding, i) == binding = i

\* KeyRecord.Valid
KeyValid(k, now) ==
  /\ ~k.revoked
  /\ k.superseded = Never \/ now < k.superseded + SupersededGrace

Pending == {q \in requests : q.status = "pending"}

Init ==
  /\ \E k \in Kids : published = {k} /\ cached \in {{}, {k}}
  /\ lastFetch = Never /\ lastFetchErr = FALSE /\ gate = None
  /\ replay = {} /\ keys = {} /\ requests = {}
  /\ bindings \in {f \in [Apps -> {None} \cup {Claims[t].id : t \in Tokens}] :
                     Cardinality({a \in Apps : f[a] # None}) <= 1}
  /\ bindLock = [a \in Apps |-> None] /\ queueLock = None
  /\ ex = [x \in Exchanges |-> IdleExchange]
  /\ approving = None
  /\ registered = {a \in Apps : bindings[a] # None}
  /\ clock = 0 /\ ids = 0
  /\ spent = [t \in Tokens |-> 0]
  /\ lastStart = Never

At(x, pc) == ex[x].pc = pc
Goto(x, pc) == ex' = [ex EXCEPT ![x].pc = pc]

(***************************************************************************)
(* Verifier.  The signature is checked first, with a key that is looked up *)
(* by kid and fetched once if unknown; then the times.                     *)
(***************************************************************************)
cachedKey(t) == Claims[t].kid \in cached

\* exp with the leeway, once the signature has been checked
Validated(q) ==
  IF clock < ReplayExpiry(q.tok) THEN [q EXCEPT !.pc = "record"] ELSE IdleExchange

HandleExchange(x) ==
  \E a \in Apps, t \in Tokens :
    LET q == [IdleExchange EXCEPT !.pc = "gate", !.app = a, !.tok = t] IN
    /\ At(x, "idle")
    /\ ex' = [ex EXCEPT ![x] = IF cachedKey(t) THEN Validated(q) ELSE q]
    /\ UNCHANGED <<published, verifierVars, tableVars, bindLock, queueLock, approving, registered,
                   clock, ids, spent, lastStart>>

\* The second lookup, after a refresh.
publicKey(x) ==
  /\ At(x, "lookupAgain")
  /\ ex' = [ex EXCEPT ![x] = IF cachedKey(@.tok) THEN Validated(@) ELSE IdleExchange]
  /\ UNCHANGED <<published, verifierVars, tableVars, bindLock, queueLock, approving, registered,
                 clock, ids, spent, lastStart>>

RateLimited == lastFetch # Never /\ clock - lastFetch < RefetchInterval

\* Mutant: callers do not queue, so a second one does not see the first's fetch.
RefreshUngated(x) ==
  /\ At(x, "gate")
  /\ IF RateLimited
     THEN /\ ex' = [ex EXCEPT ![x] = IF lastFetchErr THEN IdleExchange
                                                     ELSE [@ EXCEPT !.pc = "lookupAgain"]]
          /\ UNCHANGED <<gate, lastStart>>
     ELSE /\ ex' = [ex EXCEPT ![x] = [@ EXCEPT !.pc = "fetch", !.started = clock]]
          /\ lastStart' = clock
          /\ UNCHANGED gate
  /\ UNCHANGED <<published, cached, lastFetch, lastFetchErr, tableVars, bindLock, queueLock,
                 approving, registered, clock, ids, spent>>

\* Entering the gate: the last attempt counts, a failed one too, and answers
\* for everybody who was queued behind it.
refresh(x) ==
  /\ At(x, "gate") /\ gate = None
  /\ IF RateLimited
     THEN /\ ex' = [ex EXCEPT ![x] = IF lastFetchErr THEN IdleExchange
                                                     ELSE [@ EXCEPT !.pc = "lookupAgain"]]
          /\ UNCHANGED <<gate, lastStart>>
     ELSE /\ ex' = [ex EXCEPT ![x] = [@ EXCEPT !.pc = "fetch", !.started = clock]]
          /\ gate' = x
          /\ lastStart' = clock
  /\ UNCHANGED <<published, cached, lastFetch, lastFetchErr, tableVars, bindLock, queueLock,
                 approving, registered, clock, ids, spent>>

\* The fetch is detached from its caller: it ends by itself, for everybody.
fetchKeys(x) ==
  /\ At(x, "fetch")
  /\ \/ /\ cached' = published /\ lastFetchErr' = FALSE
        /\ ex' = [ex EXCEPT ![x] = [@ EXCEPT !.pc = "lookupAgain", !.started = Never]]
     \/ /\ lastFetchErr' = TRUE /\ UNCHANGED cached
        /\ ex' = [ex EXCEPT ![x] = IdleExchange]
  /\ lastFetch' = ex[x].started
  /\ gate' = None
  /\ UNCHANGED <<published, tableVars, bindLock, queueLock, approving, registered, clock, ids,
                 spent, lastStart>>

(***************************************************************************)
(* The exchange transaction.                                               *)
(***************************************************************************)
InTx == {"lock", "supersede", "insertKey", "file", "insertRequest"}
Unlocks(x) ==
  /\ bindLock' = [a \in Apps |-> IF bindLock[a] = x THEN None ELSE bindLock[a]]
  /\ queueLock' = IF queueLock = x THEN None ELSE queueLock
Rollback(x) ==
  /\ ex' = [ex EXCEPT ![x] = IdleExchange]
  /\ Unlocks(x)

Commit(x) ==
  LET t == ex[x].tok IN
  /\ Rollback(x)
  /\ replay' = replay \cup {t}
  /\ spent' = [spent EXCEPT ![t] = @ + (IF ex[x].now <= ReplayExpiry(t) THEN 1 ELSE 0)]

\* The insert waits for an uncommitted insert of the same jti.  The time the
\* decision uses is read after it.
RecordJTI(x) ==
  LET t == ex[x].tok IN
  /\ At(x, "record")
  /\ \A o \in Exchanges \ {x} : ~(ex[o].tok = t /\ ex[o].pc \in InTx)
  /\ ex' = [ex EXCEPT ![x] = IF t \in replay THEN IdleExchange
                                             ELSE [@ EXCEPT !.pc = "lock", !.now = clock]]
  /\ UNCHANGED <<published, verifierVars, tableVars, bindLock, queueLock, approving, registered,
                 clock, ids, spent, lastStart>>

\* Mutant: the binding is read without FOR UPDATE.
ReadBinding(x) ==
  LET a == ex[x].app
      b == bindings[a]
  IN /\ At(x, "lock")
     /\ \/ b # None /\ Matches(b, Claims[ex[x].tok].id)
           /\ Goto(x, "supersede") /\ UNCHANGED <<bindLock, queueLock>>
        \/ b # None /\ ~Matches(b, Claims[ex[x].tok].id) /\ Rollback(x)
        \/ b = None /\ ex[x].mayFile /\ Goto(x, "file") /\ UNCHANGED <<bindLock, queueLock>>
        \/ b = None /\ ~ex[x].mayFile /\ Rollback(x)
     /\ UNCHANGED <<published, verifierVars, tableVars, approving, registered, clock, ids, spent,
                    lastStart>>

LockBinding(x) ==
  LET a == ex[x].app
      b == bindings[a]
  IN /\ At(x, "lock")
     /\ \/ /\ b # None /\ bindLock[a] = None /\ Matches(b, Claims[ex[x].tok].id)
           /\ bindLock' = [bindLock EXCEPT ![a] = x]
           /\ Goto(x, "supersede")
           /\ UNCHANGED queueLock
        \/ b # None /\ bindLock[a] = None /\ ~Matches(b, Claims[ex[x].tok].id) /\ Rollback(x)
        \/ b = None /\ ex[x].mayFile /\ Goto(x, "file") /\ UNCHANGED <<bindLock, queueLock>>
        \/ b = None /\ ~ex[x].mayFile /\ Rollback(x)
     /\ UNCHANGED <<published, verifierVars, tableVars, approving, registered, clock, ids, spent,
                    lastStart>>

Active(k) == k.superseded = Never /\ ~k.revoked
Superseding(k) == \E x \in Exchanges : k.id \in ex[x].sup

\* IssueKey's first statement; the rows it writes are locked until the commit.
Supersede(x) ==
  LET mine == {k \in keys : k.app = ex[x].app /\ Active(k)} IN
  /\ At(x, "supersede")
  /\ \A k \in mine : ~Superseding(k)
  /\ ex' = [ex EXCEPT ![x] = [@ EXCEPT !.pc = "insertKey", !.sup = {k.id : k \in mine}]]
  /\ UNCHANGED <<published, verifierVars, tableVars, bindLock, queueLock, approving, registered,
                 clock, ids, spent, lastStart>>

\* Its second statement, which the foreign key lets pass only for a bound app,
\* and the commit.
IssueKey(x) ==
  LET q == ex[x]
      new == [id |-> ids + 1, app |-> q.app, owner |-> Claims[q.tok].id, superseded |-> Never,
              revoked |-> FALSE]
      old(k) == IF k.id \in q.sup THEN [k EXCEPT !.superseded = q.now] ELSE k
  IN /\ At(x, "insertKey") /\ ids < MaxIds
     /\ bindings[q.app] # None
     /\ keys' = {old(k) : k \in keys} \cup {new}
     /\ ids' = ids + 1
     /\ Commit(x)
     /\ UNCHANGED <<published, verifierVars, bindings, requests, approving, registered, clock,
                    lastStart>>

Refreshable(x) ==
  {q \in Pending : q.app = ex[x].app /\ SameWorkflow(q.identity, Claims[ex[x].tok].id)}

\* Mutant: the binding is not looked for again under the lock.
FileUnchecked(x) ==
  LET t == ex[x].tok
      mine == Refreshable(x)
  IN /\ At(x, "file") /\ queueLock = None
     /\ \/ /\ mine # {}
           /\ requests' = (requests \ mine) \cup
                {[q EXCEPT !.updated = ex[x].now, !.identity = Claims[t].id] : q \in mine}
           /\ Commit(x)
        \/ /\ mine = {} /\ Cardinality(Pending) >= MaxPendingRequests /\ Rollback(x)
           /\ UNCHANGED <<requests, replay, spent>>
        \/ /\ mine = {} /\ Cardinality(Pending) < MaxPendingRequests
           /\ Goto(x, "insertRequest") /\ queueLock' = x
           /\ UNCHANGED <<requests, replay, spent, bindLock>>
     /\ UNCHANGED <<published, verifierVars, bindings, keys, approving, registered, clock, ids,
                    lastStart>>

\* Under the queue lock: a binding that has appeared is decided on once more,
\* a pending request of the same claims is refreshed, a full queue refuses.
FilePendingRequest(x) ==
  LET t == ex[x].tok
      mine == Refreshable(x)
      bound == bindings[ex[x].app] # None
  IN /\ At(x, "file") /\ queueLock = None
     /\ \/ /\ bound
           /\ ex' = [ex EXCEPT ![x] = [@ EXCEPT !.pc = "lock", !.mayFile = FALSE]]
           /\ queueLock' = x
           /\ UNCHANGED <<requests, replay, spent, bindLock>>
        \/ /\ ~bound /\ mine # {}
           /\ requests' = (requests \ mine) \cup
                {[q EXCEPT !.updated = ex[x].now, !.identity = Claims[t].id] : q \in mine}
           /\ Commit(x)
        \/ /\ ~bound /\ mine = {} /\ Cardinality(Pending) >= MaxPendingRequests /\ Rollback(x)
           /\ UNCHANGED <<requests, replay, spent>>
        \/ /\ ~bound /\ mine = {} /\ Cardinality(Pending) < MaxPendingRequests
           /\ Goto(x, "insertRequest") /\ queueLock' = x
           /\ UNCHANGED <<requests, replay, spent, bindLock>>
     /\ UNCHANGED <<published, verifierVars, bindings, keys, approving, registered, clock, ids,
                    lastStart>>

InsertRequest(x) ==
  LET q == ex[x] IN
  /\ At(x, "insertRequest") /\ ids < MaxIds
  /\ requests' = requests \cup {[id |-> ids + 1, app |-> q.app, identity |-> Claims[q.tok].id,
                                 status |-> "pending", updated |-> q.now, decided |-> Never]}
  /\ ids' = ids + 1
  /\ Commit(x)
  /\ UNCHANGED <<published, verifierVars, bindings, keys, approving, registered, clock, lastStart>>

\* The client hangs up, or a statement or the commit fails.
Abort(x) ==
  /\ ex[x].pc \in InTx \cup {"gate", "record"}
  /\ Rollback(x)
  /\ UNCHANGED <<published, verifierVars, tableVars, approving, registered, clock, ids, spent,
                 lastStart>>

(***************************************************************************)
(* The operator.                                                           *)
(***************************************************************************)
ApproveStart ==
  /\ approving = None
  /\ \E q \in Pending : approving' = [id |-> q.id, app |-> q.app, pc |-> "register"]
  /\ UNCHANGED <<published, verifierVars, tableVars, bindLock, queueLock, ex, registered, clock,
                 ids, spent, lastStart>>

\* A failed registration, which may have taken effect, writes nothing here.
CreateApp ==
  /\ approving # None /\ approving.pc = "register"
  /\ \/ /\ registered' = registered \cup {approving.app}
        /\ approving' = [approving EXCEPT !.pc = "bind"]
     \/ /\ registered' \in {registered, registered \cup {approving.app}}
        /\ approving' = None
  /\ UNCHANGED <<published, verifierVars, tableVars, bindLock, queueLock, ex, clock, ids, spent,
                 lastStart>>

Approvable(q) ==
  /\ q.app = approving.app
  /\ \A a \in Apps : bindings[a] # None =>
       a # q.app /\ {a, q.app} \notin Overlaps /\ ~SameWorkflow(bindings[a], q.identity)

\* The transaction, under the queue lock and the request's row lock.
ApproveRequest ==
  /\ approving # None /\ approving.pc = "bind"
  /\ queueLock = None
  /\ approving' = None
  /\ LET chosen == {q \in Pending : q.id = approving.id /\ Approvable(q)} IN
       \/ chosen = {} /\ UNCHANGED <<bindings, requests>>
       \/ \E q \in chosen :
            /\ bindings' = [bindings EXCEPT ![q.app] = q.identity]
            /\ requests' = {o \in requests : o.status = "rejected" \/
                              (o.app # q.app /\ ~SameWorkflow(o.identity, q.identity))}
  /\ UNCHANGED <<published, verifierVars, replay, keys, bindLock, queueLock, ex, registered, clock,
                 ids, spent, lastStart>>

RejectRequest ==
  /\ \E q \in Pending :
       requests' = (requests \ {q}) \cup
                     {[q EXCEPT !.status = "rejected", !.decided = clock, !.updated = clock]}
  /\ UNCHANGED <<published, verifierVars, replay, bindings, keys, bindLock, queueLock, ex, approving,
                 registered, clock, ids, spent, lastStart>>

RevokeKey ==
  /\ \E k \in keys :
       /\ KeyValid(k, clock) /\ ~Superseding(k)
       /\ keys' = (keys \ {k}) \cup {[k EXCEPT !.revoked = TRUE]}
  /\ UNCHANGED <<published, verifierVars, replay, bindings, requests, bindLock, queueLock, ex,
                 approving, registered, clock, ids, spent, lastStart>>

\* The delete waits for an exchange that holds the binding row, and takes the
\* app's keys along.
Unbind ==
  /\ \E a \in Apps :
       /\ bindings[a] # None /\ bindLock[a] = None
       /\ bindings' = [bindings EXCEPT ![a] = None]
       /\ keys' = {k \in keys : k.app # a}
  /\ UNCHANGED <<published, verifierVars, replay, requests, bindLock, queueLock, ex, approving,
                 registered, clock, ids, spent, lastStart>>

(***************************************************************************)
(* The cleanup ticker, the issuer, the process and time.                   *)
(***************************************************************************)
\* Mutant: a jti is forgotten at the token's expiry, without the leeway.
ForgetAtExpiry == {t \in replay : Claims[t].exp >= clock}

KeptReplay == {t \in replay : ReplayExpiry(t) >= clock}
KeptRequests ==
  {q \in requests :
     /\ q.status = "rejected" => q.decided >= clock - RejectedRequestWindow
     /\ q.status = "pending" => q.updated >= clock - PendingTTL}

\* Each table is swept by a statement of its own, which may fail.
ReplayCleanup ==
  /\ \/ replay' = KeptReplay /\ UNCHANGED requests
     \/ requests' = KeptRequests /\ UNCHANGED replay
  /\ UNCHANGED <<published, verifierVars, bindings, keys, bindLock, queueLock, ex, approving,
                 registered, clock, ids, spent, lastStart>>

RotateSigningKeys ==
  /\ \E k \in Kids \ published : published' = {k}
  /\ UNCHANGED <<verifierVars, tableVars, bindLock, queueLock, ex, approving, registered, clock,
                 ids, spent, lastStart>>

Restart ==
  /\ \E x \in Exchanges : ~At(x, "idle")
  /\ cached' = {} /\ lastFetch' = Never /\ lastFetchErr' = FALSE /\ gate' = None
  /\ bindLock' = [a \in Apps |-> None] /\ queueLock' = None
  /\ ex' = [x \in Exchanges |-> IdleExchange]
  /\ approving' = None
  /\ lastStart' = Never
  /\ UNCHANGED <<published, tableVars, registered, clock, ids, spent>>

Tick ==
  /\ clock < MaxClock
  /\ clock' = clock + 1
  /\ UNCHANGED <<published, verifierVars, tableVars, bindLock, queueLock, ex, approving, registered,
                 ids, spent, lastStart>>

Step(x) ==
  \/ HandleExchange(x) \/ publicKey(x) \/ refresh(x) \/ fetchKeys(x)
  \/ RecordJTI(x) \/ LockBinding(x) \/ Supersede(x) \/ IssueKey(x)
  \/ FilePendingRequest(x) \/ InsertRequest(x) \/ Abort(x)

Next ==
  \/ \E x \in Exchanges : Step(x)
  \/ ApproveStart \/ CreateApp \/ ApproveRequest \/ RejectRequest \/ RevokeKey \/ Unbind
  \/ ReplayCleanup \/ RotateSigningKeys \/ Restart \/ Tick

Spec == Init /\ [][Next]_vars

-----------------------------------------------------------------------------
(***************************************************************************)
(* Properties.                                                             *)
(***************************************************************************)

\* Each token is exchanged once: two concurrent exchanges of one jti, a replay
\* after a lost answer or a restart, and the ledger's sweep never let a second
\* one through, as long as the jti is recorded by the token's replay expiry.
\* (An exchange that was verified in time and is stalled past the expiry and
\* past a sweep records its jti anew.)
TokenSpentOnce == \A t \in Tokens : spent[t] <= 1

\* Keys follow the binding: every key belongs to the identity its app is bound
\* to now, so no exchange that was decided under an earlier binding issues a
\* key under the next one, and at most one key of an app is active, so two
\* exchanges at once never leave a key that nothing supersedes.
KeysFollowBinding ==
  \A k \in keys :
    /\ bindings[k.app] # None /\ Matches(bindings[k.app], k.owner)
    /\ \A o \in keys : (Active(k) /\ Active(o) /\ o.app = k.app) => o = k

\* The operator's queue holds no pending request of a bound app, though an
\* exchange that looked before the approval may file one after it, and never
\* more than MaxPendingRequests.
QueueIsSound ==
  /\ \A q \in Pending : bindings[q.app] = None
  /\ Cardinality(Pending) <= MaxPendingRequests

\* However many requests carry unknown kids, two fetches of the issuer's keys
\* by one process start at least RefetchInterval apart.
FetchesAreSpaced ==
  [][\A x \in Exchanges :
       (~At(x, "fetch") /\ ex'[x].pc = "fetch" /\ lastStart # Never)
         => clock - lastStart >= RefetchInterval]_vars
=============================================================================
