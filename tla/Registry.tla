------------------------------ MODULE Registry ------------------------------
(***************************************************************************)
(* Destinations and routes, and who may use them.  The operator and an app *)
(* write the same two tables; an app's request is authenticated first,     *)
(* then reads and checks outside any lock (the URL check is a DNS lookup), *)
(* and writes in a row-locked transaction; the app's teardown unbinds it   *)
(* and deletes what it owns in one READ COMMITTED transaction of several   *)
(* statements.                                                             *)
(*                                                                         *)
(* A destination with a URL (webhook, discord) is of type "webhook", one   *)
(* without of type "ntfy"; a discord row is a webhook whose secrets nobody *)
(* touches.  Of the sealed secrets and the config the model keeps the keys *)
(* of a webhook: url, signing_secret, signing_secret_previous and          *)
(* previous_secret_expires_at.  The enabled flag and its change by the     *)
(* delivery path are modelled in DeliveryWorker.                           *)
(***************************************************************************)
EXTENDS Naturals, FiniteSets

CONSTANTS Names,      \* destination names that carry the app's prefix
          Routes,     \* route ids
          Requests,   \* requests of the app that may be in flight
          Urls, Secrets, Expiries,   \* values of a destination's fields
          App, OtherApp, Operator, Wildcard,   \* app ids, the operator, "*"
          None,
          MaxId       \* bound: destinations ever inserted

Owners == {App, Operator}
Types == {"webhook", "ntfy"}
Patterns == {App, OtherApp, Wildcard}

\* A destination's config and secrets, or a patch of them: None is a key that is
\* not there, or that the patch does not name.
Fields ==
  [url : Urls \cup {None}, secret : Secrets \cup {None}, previous : Secrets \cup {None},
   expires : Expiries \cup {None}]
NoFields == [url |-> None, secret |-> None, previous |-> None, expires |-> None]

\* The rows of the two tables; late marks what was written while the app had no
\* binding.
DestinationRow == [id : Nat, owner : Owners, type : Types, fields : Fields, late : BOOLEAN]
RouteRow == [owner : Owners, pattern : Patterns, dests : SUBSET Nat, late : BOOLEAN]

ASSUME AppAssumption ==
  /\ App # OtherApp /\ Wildcard \notin {App, OtherApp}
  /\ Operator \notin {App, OtherApp, Wildcard}
ASSUME NoneAssumption == 
  None \notin Urls \cup Secrets \cup Expiries \cup DestinationRow \cup RouteRow

VARIABLES
  dest,      \* Names -> None or [id, owner, type, fields, late]
  route,     \* Routes -> None or [owner, pattern, dests, late]
  held,      \* held messages of the app, as a subset of {"kept", "late"}
  ids,       \* last destination id
  bound,     \* the app has a binding, so its keys are valid
  req,       \* the app's requests
  teardown,  \* the cascade: [pc, routes, links, held]
  written,   \* history: what the last committed write that names it gave each
             \* field of the row that is there
  vetted,    \* history: <<id, url>> checked for the app or set by the operator,
             \* of the rows that are there
  down       \* history: a teardown completed and the app was not bound again

vars == <<dest, route, held, ids, bound, req, teardown, written, vetted, down>>

IdleRequest == [pc |-> "idle", current |-> None, type |-> None, url |-> None]
IdleTeardown == [pc |-> "idle", routes |-> {}, links |-> {}, held |-> {}]

Init ==
  /\ dest = [n \in Names |-> None] /\ route = [r \in Routes |-> None]
  /\ held = {}
  /\ ids = 0
  /\ bound = TRUE
  /\ req = [x \in Requests |-> IdleRequest]
  /\ teardown = IdleTeardown
  /\ written = [n \in Names |-> NoFields] /\ vetted = {} /\ down = FALSE

Rows == {dest[n] : n \in {m \in Names : dest[m] # None}}
RouteRows == {route[r] : r \in {s \in Routes : route[s] # None}}

MatchPattern(pattern, app) == pattern \in {Wildcard, app}

\* The destinations a message of the app fires.
MatchRoutes(app) == UNION {row.dests : row \in {r \in RouteRows : MatchPattern(r.pattern, app)}}

DestinationUsableBy(owner, app) == owner \in {Operator, app}

ownedByApp(row) == row # None /\ row.owner = App
routeOwnedByApp(row) == row # None /\ row.owner = App

InUse(id) == \E row \in RouteRows : id \in row.dests

\* Routes whose row, or a link of theirs, the teardown's open transaction has
\* deleted: their writers wait.
Locked(r) == r \in teardown.routes \/ \E l \in teardown.links : l[1] = r

(***************************************************************************)
(* registry.PGStore and the mutations run in its row lock.                 *)
(***************************************************************************)
\* A webhook has a URL and a secret, and the previous secret and its expiry
\* together or not at all; another type has none of these keys.
ValidateDestinationFields(type, fields) ==
  IF type = "webhook"
  THEN fields.url # None /\ fields.secret # None /\ (fields.previous = None <=> fields.expires = None)
  ELSE fields = NoFields

NewRow(owner, type, fields) ==
  [id |-> ids + 1, owner |-> owner, type |-> type, fields |-> fields, late |-> ~bound]

\* The name is unique.
InsertDestination(n, owner, type, fields) ==
  /\ ids < MaxId
  /\ ValidateDestinationFields(type, fields)
  /\ dest[n] = None
  /\ dest' = [dest EXCEPT ![n] = NewRow(owner, type, fields)]
  /\ ids' = ids + 1
  /\ written' = [written EXCEPT ![n] = fields]
  /\ vetted' = IF type = "webhook" THEN vetted \cup {<<ids + 1, fields.url>>} ELSE vetted

\* maps.Copy: the keys the patch names are overwritten, the others kept.
Overlay(old, new) == IF new = None THEN old ELSE new
Copied(fields, patch) ==
  [url |-> Overlay(fields.url, patch.url), secret |-> Overlay(fields.secret, patch.secret),
   previous |-> Overlay(fields.previous, patch.previous),
   expires |-> Overlay(fields.expires, patch.expires)]

\* What a patch may name besides its URL: any of the keys, with any value; one
\* that it names with the value it has is as one that it does not name.
Patches(fields, urls) ==
  [url : urls, secret : (Secrets \ {fields.secret}) \cup {None},
   previous : (Secrets \ {fields.previous}) \cup {None},
   expires : (Expiries \ {fields.expires}) \cup {None}]

applyDestinationPatch(row, patch) == [row EXCEPT !.fields = Copied(row.fields, patch)]

\* A rotation names all but the URL: a new secret, the one it supersedes and the
\* end of the overlap.
Rotation(current, secret, expires) ==
  [url |-> None, secret |-> secret, previous |-> current, expires |-> expires]

rotateSecret(row, secret, expires) ==
  [row EXCEPT !.fields = [url |-> row.fields.url, secret |-> secret,
                          previous |-> row.fields.secret, expires |-> expires]]

\* The mutated row is validated and written.  The history takes the keys that
\* the write names from the write, and no other.
UpdateDestination(n, row, patch) ==
  /\ ValidateDestinationFields(row.type, row.fields)
  /\ dest' = [dest EXCEPT ![n] = row]
  /\ written' = [written EXCEPT ![n] = Copied(written[n], patch)]

\* Of the row given; the secret is random, so not the one it supersedes.
RotateDestination(n, row) ==
  \E secret \in Secrets \ {row.fields.secret}, expires \in Expiries :
    UpdateDestination(n, rotateSecret(row, secret, expires),
                      Rotation(written[n].secret, secret, expires))

\* Only if no link refers to it.
DeleteDestination(n) ==
  /\ dest[n] # None /\ ~InUse(dest[n].id)
  /\ dest' = [dest EXCEPT ![n] = None]
  /\ written' = [written EXCEPT ![n] = NoFields]
  /\ vetted' = {v \in vetted : v[1] # dest[n].id}

\* Ids of the named destinations; all must be usable by the pattern, taken
\* literally.
Resolvable(names, pattern) ==
  \A n \in names : dest[n] # None /\ DestinationUsableBy(dest[n].owner, pattern)
resolveDestinationIDs(names) == {dest[n].id : n \in names}

\* The table's CHECK: an app's route matches that app alone.
PatternAllowed(owner, pattern) == owner = App => pattern = App

InsertRoute(r, owner, pattern, names) ==
  /\ PatternAllowed(owner, pattern)
  /\ route[r] = None /\ names # {} /\ Resolvable(names, pattern)
  /\ route' = [route EXCEPT ![r] = [owner |-> owner, pattern |-> pattern, late |-> ~bound,
                                    dests |-> resolveDestinationIDs(names)]]

LinkedNames(row) == {n \in Names : dest[n] # None /\ dest[n].id \in row.dests}

\* Mutant: destinations are resolved against the pattern the route had.
UpdateRouteOldPattern(r, pattern, names) ==
  /\ Resolvable(names, route[r].pattern)
  /\ PatternAllowed(route[r].owner, pattern)
  /\ route' = [route EXCEPT ![r] = [@ EXCEPT !.pattern = pattern, !.dests = resolveDestinationIDs(names)]]

\* The patched route is resolved anew, whether or not its destinations change.
UpdateRoute(r, pattern, names) ==
  /\ Resolvable(names, pattern)
  /\ PatternAllowed(route[r].owner, pattern)
  /\ route' = [route EXCEPT ![r] = [@ EXCEPT !.pattern = pattern, !.dests = resolveDestinationIDs(names)]]

DeleteRoute(r) == route' = [route EXCEPT ![r] = None]

(***************************************************************************)
(* The operator's requests: one transaction each.                          *)
(***************************************************************************)
OperatorCreateDestination(n) ==
  /\ \E type \in Types, fields \in Fields : InsertDestination(n, Operator, type, fields)
  /\ UNCHANGED <<route, held, bound, req, teardown, down>>

\* Of any owner's destination; the operator's URL is not checked.
OperatorUpdateDestination(n) ==
  /\ dest[n] # None
  /\ \E patch \in Patches(dest[n].fields, Urls \cup {None}) :
       /\ UpdateDestination(n, applyDestinationPatch(dest[n], patch), patch)
       /\ vetted' = IF patch.url = None THEN vetted ELSE vetted \cup {<<dest[n].id, patch.url>>}
  /\ UNCHANGED <<route, held, ids, bound, req, teardown, down>>

OperatorRotateWebhookSecret(n) ==
  /\ dest[n] # None /\ dest[n].type = "webhook" /\ RotateDestination(n, dest[n])
  /\ UNCHANGED <<route, held, ids, bound, req, teardown, vetted, down>>

OperatorDeleteDestination(n) ==
  /\ DeleteDestination(n)
  /\ UNCHANGED <<route, held, ids, bound, req, teardown, down>>

OperatorCreateRoute(r) ==
  /\ \E pattern \in Patterns, names \in SUBSET Names : InsertRoute(r, Operator, pattern, names)
  /\ UNCHANGED <<dest, held, ids, bound, req, teardown, written, vetted, down>>

\* Of any owner's route; a patch may keep the destinations, none included.
OperatorUpdateRoute(r) ==
  /\ route[r] # None /\ ~Locked(r)
  /\ \E pattern \in Patterns : \E names \in ((SUBSET Names) \ {{}}) \cup {LinkedNames(route[r])} :
       UpdateRoute(r, pattern, names)
  /\ UNCHANGED <<dest, held, ids, bound, req, teardown, written, vetted, down>>

OperatorDeleteRoute(r) ==
  /\ route[r] # None /\ ~Locked(r) /\ DeleteRoute(r)
  /\ UNCHANGED <<dest, held, ids, bound, req, teardown, written, vetted, down>>

(***************************************************************************)
(* The app's requests.                                                     *)
(***************************************************************************)
Answer(x) == req' = [req EXCEPT ![x] = IdleRequest]

\* The key is valid: what follows does not look at the binding again.
requireAppKey(x) ==
  /\ req[x].pc = "idle" /\ bound
  /\ req' = [req EXCEPT ![x].pc = "authenticated"]
  /\ UNCHANGED <<dest, route, held, ids, bound, teardown, written, vetted, down>>

\* The URL check before the insert, which may refuse.
CreateAppDestination(x) ==
  /\ req[x].pc = "authenticated"
  /\ \E type \in Types : \E url \in IF type = "webhook" THEN Urls ELSE {None} :
       req' = [req EXCEPT ![x] = [@ EXCEPT !.pc = "insert", !.type = type, !.url = url]]
  /\ UNCHANGED <<dest, route, held, ids, bound, teardown, written, vetted, down>>

InsertAppDestination(x, n) ==
  /\ req[x].pc = "insert"
  /\ \E fields \in Fields :
       fields.url = req[x].url /\ InsertDestination(n, App, req[x].type, fields)
  /\ Answer(x)
  /\ UNCHANGED <<route, held, bound, teardown, down>>

checkAppDestinationURL(id, url) == vetted' = vetted \cup {<<id, url>>}

\* The row the decision is made on, and the check of a URL that differs from
\* its own; a row without a URL needs none.
checkPatchedURL(current, url) ==
  IF current.type = "webhook" /\ url \notin {None, current.fields.url}
  THEN checkAppDestinationURL(current.id, url)
  ELSE UNCHANGED vetted

\* What the decision remembers of the row it read, which it does not lock.
Decided(row) == [id |-> row.id, type |-> row.type, secret |-> row.fields.secret]

\* What the patch names besides the URL is first looked at in the lock.
UpdateAppDestination(x, n) ==
  /\ req[x].pc = "authenticated" /\ ownedByApp(dest[n])
  /\ \E url \in Urls \cup {None} :
       /\ checkPatchedURL(dest[n], url)
       /\ req' = [req EXCEPT ![x] = [@ EXCEPT !.pc = "patch", !.current = Decided(dest[n]),
                                              !.url = url]]
  /\ UNCHANGED <<dest, route, held, ids, bound, teardown, written, down>>

\* A rotation checks the stored URL again.
RotateAppWebhookSecret(x, n) ==
  /\ req[x].pc = "authenticated" /\ ownedByApp(dest[n]) /\ dest[n].type = "webhook"
  /\ checkAppDestinationURL(dest[n].id, dest[n].fields.url)
  /\ req' = [req EXCEPT ![x] = [@ EXCEPT !.pc = "rotate", !.current = Decided(dest[n])]]
  /\ UNCHANGED <<dest, route, held, ids, bound, teardown, written, down>>

\* Mutant: the row is recognised by its owner alone.
SameOwner(locked, current) == ownedByApp(locked)

sameOwnedRow(locked, current) ==
  /\ ownedByApp(locked)
  /\ locked.id = current.id /\ locked.type = current.type

\* Mutant: the patch is merged into the secret opened before the lock.
PatchStaleRow(x, n) ==
  /\ req[x].pc = "patch" /\ sameOwnedRow(dest[n], req[x].current)
  /\ \E patch \in Patches(dest[n].fields, {req[x].url}) :
       UpdateDestination(n, applyDestinationPatch(
         [dest[n] EXCEPT !.fields = [@ EXCEPT !.secret = req[x].current.secret]], patch), patch)
  /\ Answer(x)
  /\ UNCHANGED <<route, held, ids, bound, teardown, vetted, down>>

\* The locked row must be the one decided on; the patch is merged into it.
PatchAppDestination(x, n) ==
  /\ req[x].pc = "patch" /\ sameOwnedRow(dest[n], req[x].current)
  /\ \E patch \in Patches(dest[n].fields, {req[x].url}) :
       UpdateDestination(n, applyDestinationPatch(dest[n], patch), patch)
  /\ Answer(x)
  /\ UNCHANGED <<route, held, ids, bound, teardown, vetted, down>>

RotateApp(x, n) ==
  /\ req[x].pc = "rotate" /\ sameOwnedRow(dest[n], req[x].current)
  /\ RotateDestination(n, dest[n])
  /\ Answer(x)
  /\ UNCHANGED <<route, held, ids, bound, teardown, vetted, down>>

\* One statement that carries the owner.
DeleteAppDestination(x, n) ==
  /\ req[x].pc = "authenticated" /\ ownedByApp(dest[n])
  /\ DeleteDestination(n)
  /\ Answer(x)
  /\ UNCHANGED <<route, held, ids, bound, teardown, down>>

\* An app's route has the app's own id as its pattern.
CreateAppRoute(x, r) ==
  /\ req[x].pc = "authenticated"
  /\ \E names \in SUBSET Names : InsertRoute(r, App, App, names)
  /\ Answer(x)
  /\ UNCHANGED <<dest, held, ids, bound, teardown, written, vetted, down>>

\* The owner is checked on the locked row.
UpdateAppRoute(x, r) ==
  /\ req[x].pc = "authenticated" /\ routeOwnedByApp(route[r]) /\ ~Locked(r)
  /\ \E names \in ((SUBSET Names) \ {{}}) \cup {LinkedNames(route[r])} : UpdateRoute(r, App, names)
  /\ Answer(x)
  /\ UNCHANGED <<dest, held, ids, bound, teardown, written, vetted, down>>

DeleteAppRoute(x, r) ==
  /\ req[x].pc = "authenticated" /\ routeOwnedByApp(route[r]) /\ ~Locked(r)
  /\ DeleteRoute(r)
  /\ Answer(x)
  /\ UNCHANGED <<dest, held, ids, bound, teardown, written, vetted, down>>

\* A message that no route matches, accepted to be held.
HoldMessage(x) ==
  /\ req[x].pc = "authenticated" /\ MatchRoutes(App) = {}
  /\ held' = held \cup {IF bound THEN "kept" ELSE "late"}
  /\ Answer(x)
  /\ UNCHANGED <<dest, route, ids, bound, teardown, written, vetted, down>>

\* Refused: a URL, a taken name, a row that is gone, a destination in use.
Refuse(x) ==
  /\ req[x].pc # "idle"
  /\ Answer(x)
  /\ UNCHANGED <<dest, route, held, ids, bound, teardown, written, vetted, down>>

(***************************************************************************)
(* appteardown: the cascade after provisioning-api has answered.           *)
(***************************************************************************)
\* Mutant: the objects go first and the keys last.
ObjectsFirst == [start |-> "routes", unbound |-> "idle", deleted |-> "unbind"]

\* The next phase after each; the publisher's removal is modelled in Publisher.
Phases == [start |-> "unbind", unbound |-> "routes", deleted |-> "idle"]

Deprovision ==
  /\ teardown.pc = "idle"
  /\ teardown' = [IdleTeardown EXCEPT !.pc = Phases.start]
  /\ UNCHANGED <<dest, route, held, ids, bound, req, written, vetted, down>>

Unbind ==
  /\ teardown.pc = "unbind"
  /\ bound' = FALSE
  /\ teardown' = [IdleTeardown EXCEPT !.pc = Phases.unbound]
  /\ down' = (Phases.unbound = "idle")
  /\ UNCHANGED <<dest, route, held, ids, req, written, vetted>>

\* DeleteOwnedObjects: the held messages and the routes,
DeleteOwnedRoutes ==
  /\ teardown.pc = "routes"
  /\ teardown' = [teardown EXCEPT !.pc = "links", !.held = held,
                    !.routes = {r \in Routes : routeOwnedByApp(route[r])}]
  /\ UNCHANGED <<dest, route, held, ids, bound, req, written, vetted, down>>

\* the links of other routes to the app's destinations,
deleteLinksCountOrphans ==
  /\ teardown.pc = "links"
  /\ teardown' = [teardown EXCEPT !.pc = "destinations",
                    !.links = {l \in Routes \X {row.id : row \in {d \in Rows : ownedByApp(d)}} :
                                 route[l[1]] # None /\ l[2] \in route[l[1]].dests}]
  /\ UNCHANGED <<dest, route, held, ids, bound, req, written, vetted, down>>

RouteAfter(r) ==
  IF r \in teardown.routes THEN None
  ELSE IF route[r] = None THEN None
  ELSE [route[r] EXCEPT !.dests = {d \in @ : <<r, d>> \notin teardown.links}]

\* and the destinations; a link made meanwhile fails the transaction.
DeleteOwnedDestinations ==
  /\ teardown.pc = "destinations"
  /\ \A r \in Routes : RouteAfter(r) # None =>
       \A row \in Rows : ownedByApp(row) => row.id \notin RouteAfter(r).dests
  /\ dest' = [n \in Names |-> IF ownedByApp(dest[n]) THEN None ELSE dest[n]]
  /\ route' = [r \in Routes |-> RouteAfter(r)]
  /\ held' = held \ teardown.held
  /\ teardown' = [IdleTeardown EXCEPT !.pc = Phases.deleted]
  /\ written' = [n \in Names |-> IF ownedByApp(dest[n]) THEN NoFields ELSE written[n]]
  /\ vetted' = {v \in vetted : \E row \in Rows : row.id = v[1] /\ ~ownedByApp(row)}
  /\ down' = ~bound
  /\ UNCHANGED <<ids, bound, req>>

\* A failed phase: the transaction is rolled back and the operator told.
AbortTeardown ==
  /\ teardown.pc # "idle"
  /\ teardown' = IdleTeardown
  /\ UNCHANGED <<dest, route, held, ids, bound, req, written, vetted, down>>

\* An operator's approval binds the app anew, with what it still owns.
Bind ==
  /\ ~bound
  /\ bound' = TRUE /\ down' = FALSE
  /\ dest' = [n \in Names |-> IF dest[n] = None THEN None ELSE [dest[n] EXCEPT !.late = FALSE]]
  /\ route' = [r \in Routes |-> IF route[r] = None THEN None ELSE [route[r] EXCEPT !.late = FALSE]]
  /\ held' = IF held = {} THEN {} ELSE {"kept"}
  /\ UNCHANGED <<ids, req, teardown, written, vetted>>

AppStep(x) ==
  \/ requireAppKey(x) \/ CreateAppDestination(x) \/ HoldMessage(x) \/ Refuse(x)
  \/ \E n \in Names :
       \/ InsertAppDestination(x, n) \/ UpdateAppDestination(x, n) \/ PatchAppDestination(x, n)
       \/ RotateAppWebhookSecret(x, n) \/ RotateApp(x, n) \/ DeleteAppDestination(x, n)
  \/ \E r \in Routes : CreateAppRoute(x, r) \/ UpdateAppRoute(x, r) \/ DeleteAppRoute(x, r)

OperatorStep ==
  \/ \E n \in Names :
       \/ OperatorCreateDestination(n) \/ OperatorUpdateDestination(n)
       \/ OperatorRotateWebhookSecret(n) \/ OperatorDeleteDestination(n)
  \/ \E r \in Routes : OperatorCreateRoute(r) \/ OperatorUpdateRoute(r) \/ OperatorDeleteRoute(r)
  \/ Bind

TeardownStep ==
  \/ Deprovision \/ Unbind \/ DeleteOwnedRoutes \/ deleteLinksCountOrphans
  \/ DeleteOwnedDestinations \/ AbortTeardown

Next == (\E x \in Requests : AppStep(x)) \/ OperatorStep \/ TeardownStep

Spec == Init /\ [][Next]_vars

-----------------------------------------------------------------------------
(***************************************************************************)
(* Properties.                                                             *)
(***************************************************************************)

\* The URL of an app's destination was checked for that very row, or put there
\* by the operator: a row deleted and created anew, or patched by the
\* operator, between the check and the lock never takes over the decision.
AppUrlIsVetted ==
  \A row \in Rows : row.owner = App /\ row.type = "webhook" => <<row.id, row.fields.url>> \in vetted

\* A route that matches a message leads only to destinations that are there
\* and that the message's app may use, so the drop in Resolve never happens.
ResolveDropsNothing ==
  \A app \in {App, OtherApp} : \A id \in MatchRoutes(app) :
    \E row \in Rows : row.id = id /\ DestinationUsableBy(row.owner, app)

\* What an app still owns after its teardown was written by a request that had
\* passed the key check before the unbinding.
TornDownOwnsNothing ==
  down => /\ "kept" \notin held
          /\ \A row \in Rows \cup RouteRows : row.owner = App => row.late

\* No write of a destination is lost to a concurrent one: whatever patches and
\* rotations of the app and of the operator interleave, every field of the row
\* is what the last committed write that names it gave it, though the app's were
\* decided on a row read before the lock; and the previous secret a rotation
\* leaves is the one the last write had made current.
UpdatesAreMerged == \A n \in Names : dest[n] # None => dest[n].fields = written[n]
=============================================================================
