--------------------------- MODULE RegistryProofs ---------------------------
(***************************************************************************)
(* The registry's safety for any number of names, routes, URLs, secrets    *)
(* and requests in flight.  RowInv is what the rows owe to the counter     *)
(* that numbers them, LinkInv what a route owes to the rows it links,      *)
(* DecidedInv what a decision taken before the row lock still says when    *)
(* the row is locked, and TeardownInv what the cascade's open transaction  *)
(* has seen.                                                               *)
(***************************************************************************)
EXTENDS Registry, TLAPS

Decision == [id : Nat, type : Types, secret : Secrets \cup {None}]
Request ==
  [pc : {"idle", "authenticated", "insert", "patch", "rotate"}, current : Decision \cup {None},
   type : Types \cup {None}, url : Urls \cup {None}]
Cascade ==
  [pc : {"idle", "unbind", "routes", "links", "destinations"}, routes : SUBSET Routes,
   links : SUBSET (Routes \X Nat), held : SUBSET {"kept", "late"}]

RowTypeOK ==
  /\ dest \in [Names -> DestinationRow \cup {None}]
  /\ ids \in Nat /\ written \in [Names -> Fields]
  /\ vetted \in SUBSET (Nat \X (Urls \cup {None}))
RouteTypeOK == route \in [Routes -> RouteRow \cup {None}]
RequestTypeOK ==
  /\ req \in [Requests -> Request]
  /\ \A x \in Requests :
       /\ req[x].pc = "insert" => req[x].type \in Types
       /\ req[x].pc \in {"patch", "rotate"} => req[x].current \in Decision
CascadeTypeOK ==
  /\ teardown \in Cascade /\ held \in SUBSET {"kept", "late"}
  /\ bound \in BOOLEAN /\ down \in BOOLEAN

TypeOK == RowTypeOK /\ RouteTypeOK /\ RequestTypeOK /\ CascadeTypeOK

\* Ids are numbered in the order they are made, and no two rows share one.
RowInv ==
  /\ \A n \in Names : dest[n] # None => dest[n].id <= ids
  /\ \A m, n \in Names : dest[m] # None /\ dest[n] # None /\ dest[m].id = dest[n].id => m = n

\* Every link leads to a row that the route's pattern, taken literally, may use.
LinkInv ==
  \A r \in Routes : route[r] # None =>
    \A id \in route[r].dests :
      \E n \in Names : /\ dest[n] # None /\ dest[n].id = id
                       /\ DestinationUsableBy(dest[n].owner, route[r].pattern)

\* The URL of a patch was checked for the row decided on, if that is still there.
DecidedInv ==
  \A x \in Requests : req[x].pc = "patch" =>
    /\ req[x].current.id <= ids
    /\ req[x].url # None /\ req[x].current.type = "webhook" =>
         \A n \in Names : ownedByApp(dest[n]) /\ dest[n].id = req[x].current.id =>
           <<dest[n].id, req[x].url>> \in vetted

\* What the cascade's transaction has not seen was written late, unless the app
\* has been bound again meanwhile.
TeardownInv ==
  /\ down => ~bound
  /\ teardown.pc \in {"links", "destinations"} /\ ~bound =>
       /\ "kept" \in held => "kept" \in teardown.held
       /\ \A r \in Routes : routeOwnedByApp(route[r]) => r \in teardown.routes \/ route[r].late

\* AppUrlIsVetted and TornDownOwnsNothing, by name and by route.
VettedInv ==
  \A n \in Names : ownedByApp(dest[n]) /\ dest[n].type = "webhook" =>
    <<dest[n].id, dest[n].fields.url>> \in vetted
OwnedInv ==
  down => /\ "kept" \notin held
          /\ \A n \in Names : ownedByApp(dest[n]) => dest[n].late
          /\ \A r \in Routes : routeOwnedByApp(route[r]) => route[r].late

Inv ==
  /\ TypeOK
  /\ RowInv /\ LinkInv /\ DecidedInv /\ TeardownInv
  /\ VettedInv /\ OwnedInv /\ UpdatesAreMerged

LEMMA NoneIsNoRow == None \notin DestinationRow /\ None \notin RouteRow /\ None \notin Urls
BY NoneAssumption

\* What a step owes to the decisions of the requests that it does not serve: a
\* row they may know keeps its owner, its type and what was checked for it.
Carried ==
  /\ ids <= ids'
  /\ \A n \in Names : dest'[n] # None /\ dest'[n].id <= ids =>
       /\ dest[n] # None /\ dest[n].id = dest'[n].id /\ dest[n].owner = dest'[n].owner
       /\ \A u \in Urls : <<dest[n].id, u>> \in vetted => <<dest[n].id, u>> \in vetted'

\* The invariants but for the requests'.
TableInv == RowTypeOK /\ RouteTypeOK /\ CascadeTypeOK /\ RowInv /\ LinkInv /\ TeardownInv
            /\ VettedInv /\ OwnedInv /\ UpdatesAreMerged
Good == TableInv' /\ Carried
-----------------------------------------------------------------------------
(***************************************************************************)
(* The destination table.                                                  *)
(***************************************************************************)
LEMMA NewRowType ==
  ASSUME RowTypeOK, CascadeTypeOK, NEW owner \in Owners, NEW type \in Types, NEW fields \in Fields
  PROVE  /\ NewRow(owner, type, fields) \in DestinationRow
         /\ NewRow(owner, type, fields).id = ids + 1
         /\ NewRow(owner, type, fields).owner = owner
         /\ NewRow(owner, type, fields).type = type
         /\ NewRow(owner, type, fields).fields = fields
         /\ NewRow(owner, type, fields).late = ~bound
BY DEF RowTypeOK, CascadeTypeOK, NewRow, DestinationRow

LEMMA InsertStep ==
  ASSUME TableInv, NEW n \in Names, NEW owner \in Owners, NEW type \in Types,
         NEW fields \in Fields, InsertDestination(n, owner, type, fields),
         UNCHANGED <<route, held, bound, teardown, down>>
  PROVE  Good
<1>0. RowTypeOK /\ CascadeTypeOK /\ RouteTypeOK /\ ids \in Nat /\ fields.url \in Urls \cup {None}
  BY DEF TableInv, RowTypeOK, Fields
<1>1. PICK row \in DestinationRow :
        /\ row = NewRow(owner, type, fields)
        /\ row.id = ids + 1 /\ row.owner = owner /\ row.type = type /\ row.late = ~bound
        /\ row.fields = fields
  BY <1>0, NewRowType
<1>2. /\ dest[n] = None /\ dest' = [dest EXCEPT ![n] = row] /\ ids' = ids + 1
      /\ written' = [written EXCEPT ![n] = fields]
      /\ vetted' = IF type = "webhook" THEN vetted \cup {<<ids + 1, fields.url>>} ELSE vetted
  BY <1>1 DEF InsertDestination
<1>3. dest'[n] = row /\ row # None /\ \A m \in Names : m # n => dest'[m] = dest[m]
  BY <1>0, <1>2, NoneIsNoRow DEF RowTypeOK
<1>4. RowTypeOK'
  BY <1>0, <1>1, <1>2 DEF RowTypeOK
<1>5. \A m \in Names : dest[m] # None => dest[m] \in DestinationRow /\ dest[m].id \in Nat
  BY <1>0 DEF RowTypeOK, DestinationRow
<1>6. RowInv'
  BY <1>0, <1>1, <1>2, <1>3, <1>5 DEF TableInv, RowInv
<1>7. LinkInv'
  BY <1>2, <1>3 DEF TableInv, LinkInv, DestinationUsableBy
<1>8. VettedInv'
  BY <1>1, <1>2, <1>3 DEF TableInv, VettedInv, ownedByApp
<1>9. OwnedInv' /\ TeardownInv'
  <2>1. down => row.late
    BY <1>1 DEF TableInv, TeardownInv
  <2> QED
    BY <1>3, <2>1 DEF TableInv, OwnedInv, TeardownInv, ownedByApp, routeOwnedByApp
<1>10. Carried
  BY <1>0, <1>1, <1>2, <1>3 DEF Carried
<1>11. UpdatesAreMerged'
  BY <1>0, <1>1, <1>2, <1>3 DEF TableInv, RowTypeOK, UpdatesAreMerged
<1> QED
  BY <1>0, <1>4, <1>6, <1>7, <1>8, <1>9, <1>10, <1>11
     DEF Good, TableInv, RouteTypeOK, CascadeTypeOK

\* A row is written back: under its id, for its owner, its fields the stored ones
\* overlaid with what the write names.
LEMMA UpdateStep ==
  ASSUME TableInv, NEW n \in Names, NEW row \in DestinationRow, NEW patch \in Fields,
         dest[n] # None, UpdateDestination(n, row, patch),
         row.id = dest[n].id, row.owner = dest[n].owner, row.late = dest[n].late,
         row.fields = Copied(dest[n].fields, patch),
         row.owner = App /\ row.type = "webhook" => <<row.id, row.fields.url>> \in vetted',
         vetted \subseteq vetted', vetted' \in SUBSET (Nat \X (Urls \cup {None})),
         UNCHANGED <<route, held, ids, bound, teardown, down>>
  PROVE  Good
<1>0. /\ RowTypeOK /\ CascadeTypeOK /\ RouteTypeOK /\ ids \in Nat
      /\ dest[n].fields = written[n]
  BY DEF TableInv, RowTypeOK, UpdatesAreMerged
<1>1. /\ dest' = [dest EXCEPT ![n] = row]
      /\ written' = [written EXCEPT ![n] = row.fields]
  BY <1>0 DEF UpdateDestination
<1>2. row.fields \in Fields /\ row.id \in Nat /\ row # None
  BY NoneIsNoRow DEF DestinationRow
<1>3. dest'[n] = row /\ \A m \in Names : m # n => dest'[m] = dest[m]
  BY <1>0, <1>1 DEF RowTypeOK
<1>4. RowTypeOK'
  BY <1>0, <1>1, <1>2 DEF RowTypeOK
<1>5. \A m \in Names : dest[m] # None => dest[m] \in DestinationRow /\ dest[m].id \in Nat
  BY <1>0 DEF RowTypeOK, DestinationRow
<1>6. RowInv'
  BY <1>0, <1>1, <1>2, <1>3, <1>5 DEF TableInv, RowInv
<1>7. LinkInv'
  BY <1>2, <1>3 DEF TableInv, LinkInv, DestinationUsableBy
<1>8. VettedInv'
  BY <1>2, <1>3 DEF TableInv, VettedInv, ownedByApp
<1>9. OwnedInv' /\ TeardownInv'
  BY <1>2, <1>3 DEF TableInv, OwnedInv, TeardownInv, ownedByApp, routeOwnedByApp
<1>10. Carried
  BY <1>0, <1>2, <1>3 DEF Carried
<1>11. UpdatesAreMerged'
  BY <1>0, <1>1, <1>3 DEF TableInv, RowTypeOK, UpdatesAreMerged
<1> QED
  BY <1>0, <1>4, <1>6, <1>7, <1>8, <1>9, <1>10, <1>11
     DEF Good, TableInv, RouteTypeOK, CascadeTypeOK

\* The deletion checks the links first, and takes along what was checked for the
\* row, which no other row shares.
LEMMA DeleteStep ==
  ASSUME TableInv, NEW n \in Names, DeleteDestination(n),
         UNCHANGED <<route, held, ids, bound, teardown, down>>
  PROVE  Good
<1>0. RowTypeOK /\ CascadeTypeOK /\ RouteTypeOK /\ ids \in Nat
  BY DEF TableInv, RowTypeOK
<1>1. /\ dest[n] # None /\ ~InUse(dest[n].id)
      /\ dest' = [dest EXCEPT ![n] = None]
      /\ written' = [written EXCEPT ![n] = NoFields]
      /\ vetted' = {v \in vetted : v[1] # dest[n].id}
  BY DEF DeleteDestination
<1>2. dest'[n] = None /\ \A m \in Names : m # n => dest'[m] = dest[m] /\ written'[m] = written[m]
  BY <1>0, <1>1 DEF RowTypeOK
<1>3. RowTypeOK'
  BY <1>0, <1>1 DEF RowTypeOK, NoFields, Fields
<1>5. RowInv'
  BY <1>2 DEF TableInv, RowInv, DeleteDestination
<1>6. \A r \in Routes : route[r] # None => dest[n].id \notin route[r].dests
  BY <1>1 DEF InUse, RouteRows
<1>7. LinkInv'
  BY <1>2, <1>6 DEF TableInv, LinkInv, DestinationUsableBy
<1>8. \A m \in Names : dest'[m] # None =>
        /\ m # n /\ dest'[m] = dest[m] /\ dest[m].id # dest[n].id
        /\ \A u : <<dest[m].id, u>> \in vetted => <<dest[m].id, u>> \in vetted'
  BY <1>1, <1>2 DEF TableInv, RowInv
<1>9. VettedInv'
  BY <1>8 DEF TableInv, VettedInv, ownedByApp
<1>10. OwnedInv' /\ TeardownInv'
  BY <1>2 DEF TableInv, OwnedInv, TeardownInv, ownedByApp, routeOwnedByApp
<1>11. Carried
  BY <1>0, <1>8 DEF Carried
<1>12. UpdatesAreMerged'
  BY <1>2 DEF TableInv, UpdatesAreMerged
<1> QED
  BY <1>0, <1>3, <1>5, <1>7, <1>9, <1>10, <1>11, <1>12
     DEF Good, TableInv, RouteTypeOK, CascadeTypeOK

\* Fields overlaid with a patch are fields; a URL the patch does not name stays.
LEMMA CopiedFields ==
  ASSUME NEW fields \in Fields, NEW patch \in Fields
  PROVE  /\ Copied(fields, patch) \in Fields
         /\ Copied(fields, patch).url = IF patch.url = None THEN fields.url ELSE patch.url
BY DEF Copied, Overlay, Fields

\* A patch of a row is a patch.
LEMMA PatchType ==
  ASSUME NEW fields, NEW urls \in SUBSET (Urls \cup {None}), NEW patch \in Patches(fields, urls)
  PROVE  patch \in Fields /\ patch.url \in urls
BY DEF Patches, Fields

\* The row a patch writes.
LEMMA PatchedRow ==
  ASSUME RowTypeOK, NEW n \in Names, dest[n] # None, NEW patch \in Fields
  PROVE  \E row \in DestinationRow :
           /\ row = applyDestinationPatch(dest[n], patch)
           /\ row.id = dest[n].id /\ row.owner = dest[n].owner /\ row.late = dest[n].late
           /\ row.type = dest[n].type /\ row.fields = Copied(dest[n].fields, patch)
           /\ patch.url = None => row.fields.url = dest[n].fields.url
           /\ patch.url # None => row.fields.url = patch.url
<1>1. PICK old \in DestinationRow : old = dest[n]
  BY DEF RowTypeOK
<1>2. PICK f \in Fields : /\ f = Copied(old.fields, patch)
                          /\ f.url = IF patch.url = None THEN old.fields.url ELSE patch.url
  BY CopiedFields DEF DestinationRow
<1>3. PICK row : row = [old EXCEPT !.fields = f]
  OBVIOUS
<1>4. /\ row \in DestinationRow /\ row.fields = f
      /\ row.id = old.id /\ row.owner = old.owner /\ row.late = old.late /\ row.type = old.type
  BY <1>3 DEF DestinationRow
<1>5. row = applyDestinationPatch(dest[n], patch)
  BY <1>1, <1>2, <1>3 DEF applyDestinationPatch
<1> QED
  BY <1>1, <1>2, <1>4, <1>5

\* A rotation writes what the patch that names its three keys would.
LEMMA RotatedRow ==
  ASSUME RowTypeOK, NEW n \in Names, dest[n] # None, dest[n].fields.secret # None,
         NEW secret \in Secrets, NEW expires \in Expiries
  PROVE  LET patch == Rotation(dest[n].fields.secret, secret, expires) IN
           /\ patch \in Fields /\ patch.url = None
           /\ rotateSecret(dest[n], secret, expires) = applyDestinationPatch(dest[n], patch)
<1>1. PICK old \in DestinationRow : old = dest[n] /\ old.fields \in Fields
  BY DEF RowTypeOK, DestinationRow
<1>2. PICK patch : patch = Rotation(old.fields.secret, secret, expires)
  OBVIOUS
<1>3. /\ patch \in Fields /\ patch.url = None /\ patch.secret = secret
      /\ patch.previous = old.fields.secret /\ patch.expires = expires
  BY <1>1, <1>2 DEF Rotation, Fields
<1>4. secret # None /\ expires # None
  BY NoneAssumption
<1>5. Copied(old.fields, patch) = [url |-> old.fields.url, secret |-> secret,
                                   previous |-> old.fields.secret, expires |-> expires]
  BY <1>1, <1>3, <1>4 DEF Copied, Overlay
<1> QED
  BY <1>1, <1>2, <1>3, <1>5 DEF rotateSecret, applyDestinationPatch

-----------------------------------------------------------------------------
(***************************************************************************)
(* The route table.                                                        *)
(***************************************************************************)

\* Steps that leave the destinations alone.
LEMMA RowsUntouched ==
  ASSUME TableInv, UNCHANGED <<dest, ids, written, vetted>>
  PROVE  RowTypeOK' /\ RowInv' /\ VettedInv' /\ UpdatesAreMerged' /\ Carried
<1>1. RowTypeOK' /\ RowInv' /\ VettedInv' /\ UpdatesAreMerged'
  BY DEF TableInv, RowTypeOK, RowInv, VettedInv, UpdatesAreMerged, ownedByApp
<1> QED
  BY <1>1 DEF TableInv, RowTypeOK, Carried

\* The ids a route is given lead to rows its pattern may use.
LEMMA Resolved ==
  ASSUME RowTypeOK, NEW names \in SUBSET Names, NEW pattern \in Patterns, Resolvable(names, pattern)
  PROVE  /\ resolveDestinationIDs(names) \in SUBSET Nat
         /\ \A id \in resolveDestinationIDs(names) :
              \E n \in Names : /\ dest[n] # None /\ dest[n].id = id
                               /\ DestinationUsableBy(dest[n].owner, pattern)
<1>1. \A n \in names : /\ dest[n] # None /\ dest[n].id \in Nat
                       /\ DestinationUsableBy(dest[n].owner, pattern)
  BY DEF Resolvable, RowTypeOK, DestinationRow
<1> QED
  BY <1>1 DEF resolveDestinationIDs

\* A route is written, by its owner's leave and outside the cascade's locks: its
\* links are resolved against its pattern, and it is late if it is new.
LEMMA RouteStep ==
  ASSUME TableInv, NEW r \in Routes, NEW row \in RouteRow \cup {None},
         route' = [route EXCEPT ![r] = row],
         row # None => \A id \in row.dests :
           \E n \in Names : /\ dest[n] # None /\ dest[n].id = id
                            /\ DestinationUsableBy(dest[n].owner, row.pattern),
         row # None => \/ ~bound => row.late
                       \/ /\ route[r] # None /\ row.owner = route[r].owner
                          /\ row.late = route[r].late,
         UNCHANGED <<dest, held, ids, bound, teardown, written, vetted, down>>
  PROVE  Good
<1>1. route'[r] = row /\ \A s \in Routes : s # r => route'[s] = route[s]
  BY DEF TableInv, RouteTypeOK
<1>2. RouteTypeOK' /\ CascadeTypeOK'
  BY DEF TableInv, RouteTypeOK, CascadeTypeOK
<1>3. LinkInv'
  BY <1>1 DEF TableInv, LinkInv, DestinationUsableBy
<1>4. \A s \in Routes : routeOwnedByApp(route'[s]) =>
        \/ ~bound => route'[s].late
        \/ routeOwnedByApp(route[s]) /\ route'[s].late = route[s].late
  BY <1>1 DEF routeOwnedByApp
<1>5. TeardownInv'
  BY <1>4 DEF TableInv, TeardownInv
<1>6. OwnedInv'
  BY <1>4 DEF TableInv, OwnedInv, TeardownInv, ownedByApp
<1> QED
  BY <1>2, <1>3, <1>5, <1>6, RowsUntouched DEF Good, TableInv

LEMMA InsertRouteStep ==
  ASSUME TableInv, NEW r \in Routes, NEW owner \in Owners, NEW pattern \in Patterns,
         NEW names \in SUBSET Names, InsertRoute(r, owner, pattern, names),
         UNCHANGED <<dest, held, ids, bound, teardown, written, vetted, down>>
  PROVE  Good
<1>0. RowTypeOK /\ bound \in BOOLEAN
  BY DEF TableInv, CascadeTypeOK
<1>1. PICK D \in SUBSET Nat : D = resolveDestinationIDs(names)
  BY <1>0, Resolved DEF InsertRoute
<1>2. \A id \in D : \E n \in Names : /\ dest[n] # None /\ dest[n].id = id
                                     /\ DestinationUsableBy(dest[n].owner, pattern)
  BY <1>0, <1>1, Resolved DEF InsertRoute
<1>3. PICK row : row = [owner |-> owner, pattern |-> pattern, late |-> ~bound, dests |-> D]
  OBVIOUS
<1>4. row \in RouteRow /\ row.pattern = pattern /\ row.dests = D /\ row.late = ~bound
  BY <1>0, <1>3 DEF RouteRow
<1>5. route' = [route EXCEPT ![r] = row]
  BY <1>1, <1>3 DEF InsertRoute
<1>6. ~bound => row.late
  BY <1>4
<1> QED
  BY <1>2, <1>4, <1>5, <1>6, RouteStep

LEMMA UpdateRouteStep ==
  ASSUME TableInv, NEW r \in Routes, route[r] # None, NEW pattern \in Patterns,
         NEW names \in SUBSET Names, UpdateRoute(r, pattern, names),
         UNCHANGED <<dest, held, ids, bound, teardown, written, vetted, down>>
  PROVE  Good
<1>0. RowTypeOK
  BY DEF TableInv
<1>1. PICK D \in SUBSET Nat : D = resolveDestinationIDs(names)
  BY <1>0, Resolved DEF UpdateRoute
<1>2. \A id \in D : \E n \in Names : /\ dest[n] # None /\ dest[n].id = id
                                     /\ DestinationUsableBy(dest[n].owner, pattern)
  BY <1>0, <1>1, Resolved DEF UpdateRoute
<1>3. PICK old \in RouteRow : old = route[r]
  BY DEF TableInv, RouteTypeOK
<1>4. PICK r1 : r1 = [old EXCEPT !.pattern = pattern]
  OBVIOUS
<1>5. PICK row : row = [r1 EXCEPT !.dests = D]
  OBVIOUS
<1>6. r1 \in RouteRow /\ r1.pattern = pattern /\ r1.owner = old.owner /\ r1.late = old.late
  BY <1>4 DEF RouteRow
<1>7. row \in RouteRow /\ row.pattern = r1.pattern /\ row.owner = r1.owner /\ row.late = r1.late
      /\ row.dests = D
  BY <1>5, <1>6 DEF RouteRow
<1>8. route' = [route EXCEPT ![r] = row]
  BY <1>1, <1>3, <1>4, <1>5 DEF UpdateRoute
<1>9. \A id \in row.dests : \E n \in Names : /\ dest[n] # None /\ dest[n].id = id
                                           /\ DestinationUsableBy(dest[n].owner, row.pattern)
  BY <1>2, <1>6, <1>7
<1>10. row.owner = route[r].owner /\ row.late = route[r].late
  BY <1>3, <1>6, <1>7
<1> QED
  BY <1>7, <1>8, <1>9, <1>10, RouteStep

LEMMA DeleteRouteStep ==
  ASSUME TableInv, NEW r \in Routes, DeleteRoute(r),
         UNCHANGED <<dest, held, ids, bound, teardown, written, vetted, down>>
  PROVE  Good
BY RouteStep DEF DeleteRoute

\* The links a route has are among the names.
LEMMA LinkedNamesType ==
  ASSUME NEW r \in Routes
  PROVE  LinkedNames(route[r]) \in SUBSET Names
BY DEF LinkedNames

-----------------------------------------------------------------------------
(***************************************************************************)
(* The cascade and the binding.                                            *)
(***************************************************************************)
LEMMA TablesUntouched ==
  ASSUME TableInv, UNCHANGED <<dest, route, ids, written, vetted>>,
         CascadeTypeOK', TeardownInv', OwnedInv'
  PROVE  Good
<1>1. RouteTypeOK' /\ LinkInv'
  BY DEF TableInv, RouteTypeOK, LinkInv, DestinationUsableBy
<1> QED
  BY <1>1, RowsUntouched DEF Good, TableInv

\* A cascade that begins, goes on to another phase or ends by itself.
LEMMA PhaseType ==
  ASSUME NEW pc \in {"idle", "unbind", "routes", "links", "destinations"}
  PROVE  \E t \in Cascade : t = [IdleTeardown EXCEPT !.pc = pc] /\ t.pc = pc
<1>1. PICK i \in Cascade : i = IdleTeardown
  BY DEF IdleTeardown, Cascade
<1>2. PICK t : t = [i EXCEPT !.pc = pc]
  OBVIOUS
<1>3. t \in Cascade /\ t.pc = pc
  BY <1>2 DEF Cascade
<1> QED
  BY <1>1, <1>2, <1>3

LEMMA DeprovisionStep ==
  ASSUME TableInv, Deprovision
  PROVE  Good
<1>1. teardown' \in Cascade /\ teardown'.pc = "unbind"
  BY PhaseType DEF Deprovision, Phases
<1>2. CascadeTypeOK'
  BY <1>1 DEF TableInv, CascadeTypeOK, Deprovision
<1>3. TeardownInv'
  BY <1>1 DEF TableInv, TeardownInv, Deprovision
<1>4. OwnedInv'
  BY DEF TableInv, OwnedInv, ownedByApp, routeOwnedByApp, Deprovision
<1> QED
  BY <1>2, <1>3, <1>4, TablesUntouched DEF Deprovision

LEMMA UnbindStep ==
  ASSUME TableInv, Unbind
  PROVE  Good
<1>1. teardown' \in Cascade /\ teardown'.pc = "routes"
  BY PhaseType DEF Unbind, Phases
<1>2. bound' = FALSE /\ ~down' /\ down' \in BOOLEAN
  BY DEF Unbind, Phases
<1>3. CascadeTypeOK'
  BY <1>1, <1>2 DEF TableInv, CascadeTypeOK, Unbind
<1>4. TeardownInv'
  BY <1>1, <1>2 DEF TeardownInv
<1>5. OwnedInv'
  BY <1>2 DEF OwnedInv
<1> QED
  BY <1>3, <1>4, <1>5, TablesUntouched DEF Unbind

LEMMA AbortStep ==
  ASSUME TableInv, AbortTeardown
  PROVE  Good
<1>1. teardown' \in Cascade /\ teardown'.pc = "idle"
  BY DEF AbortTeardown, IdleTeardown, Cascade
<1>2. CascadeTypeOK'
  BY <1>1 DEF TableInv, CascadeTypeOK, AbortTeardown
<1>3. TeardownInv'
  BY <1>1 DEF TableInv, TeardownInv, AbortTeardown
<1>4. OwnedInv'
  BY DEF TableInv, OwnedInv, ownedByApp, routeOwnedByApp, AbortTeardown
<1> QED
  BY <1>2, <1>3, <1>4, TablesUntouched DEF AbortTeardown

\* The transaction sees all of the app's routes and held messages: what comes
\* after is late.
LEMMA OwnedRoutesStep ==
  ASSUME TableInv, DeleteOwnedRoutes
  PROVE  Good
<1>0. teardown \in Cascade /\ held \in SUBSET {"kept", "late"}
  BY DEF TableInv, CascadeTypeOK
<1>1. PICK R \in SUBSET Routes : R = {r \in Routes : routeOwnedByApp(route[r])}
  OBVIOUS
<1>2. PICK t1 : t1 = [teardown EXCEPT !.pc = "links"]
  OBVIOUS
<1>3. PICK t2 : t2 = [t1 EXCEPT !.held = held]
  OBVIOUS
<1>4. PICK t3 : t3 = [t2 EXCEPT !.routes = R]
  OBVIOUS
<1>5. t1 \in Cascade /\ t1.pc = "links"
  BY <1>0, <1>2 DEF Cascade
<1>6. t2 \in Cascade /\ t2.pc = t1.pc /\ t2.held = held
  BY <1>0, <1>3, <1>5 DEF Cascade
<1>7. t3 \in Cascade /\ t3.pc = t2.pc /\ t3.held = t2.held /\ t3.routes = R
  BY <1>1, <1>4, <1>6 DEF Cascade
<1>8. teardown' = t3
  BY <1>1, <1>2, <1>3, <1>4 DEF DeleteOwnedRoutes
<1>9. CascadeTypeOK'
  BY <1>7, <1>8 DEF TableInv, CascadeTypeOK, DeleteOwnedRoutes
<1>10. TeardownInv'
  BY <1>1, <1>6, <1>7, <1>8 DEF TableInv, TeardownInv, DeleteOwnedRoutes, routeOwnedByApp
<1>11. OwnedInv'
  BY DEF TableInv, OwnedInv, ownedByApp, routeOwnedByApp, DeleteOwnedRoutes
<1> QED
  BY <1>9, <1>10, <1>11, TablesUntouched DEF DeleteOwnedRoutes

LEMMA OwnedLinksStep ==
  ASSUME TableInv, deleteLinksCountOrphans
  PROVE  Good
<1>0. teardown \in Cascade /\ teardown.pc = "links"
  BY DEF TableInv, CascadeTypeOK, deleteLinksCountOrphans
<1>1. PICK L : L = {l \in Routes \X {row.id : row \in {d \in Rows : ownedByApp(d)}} :
                                 route[l[1]] # None /\ l[2] \in route[l[1]].dests}
  OBVIOUS
<1>2. {row.id : row \in {d \in Rows : ownedByApp(d)}} \in SUBSET Nat
  BY DEF TableInv, RowTypeOK, DestinationRow, Rows
<1>3. L \in SUBSET (Routes \X Nat)
  BY <1>1, <1>2
<1>4. PICK t1 : t1 = [teardown EXCEPT !.pc = "destinations"]
  OBVIOUS
<1>5. PICK t2 : t2 = [t1 EXCEPT !.links = L]
  OBVIOUS
<1>6. /\ t1 \in Cascade /\ t1.pc = "destinations"
      /\ t1.held = teardown.held /\ t1.routes = teardown.routes
  BY <1>0, <1>4 DEF Cascade
<1>7. /\ t2 \in Cascade /\ t2.pc = t1.pc
      /\ t2.held = t1.held /\ t2.routes = t1.routes
  BY <1>3, <1>5, <1>6 DEF Cascade
<1>8. teardown' = t2
  BY <1>1, <1>4, <1>5 DEF deleteLinksCountOrphans
<1>9. CascadeTypeOK'
  BY <1>7, <1>8 DEF TableInv, CascadeTypeOK, deleteLinksCountOrphans
<1>10. TeardownInv'
  BY <1>0, <1>6, <1>7, <1>8 DEF TableInv, TeardownInv, deleteLinksCountOrphans, routeOwnedByApp
<1>11. OwnedInv'
  BY DEF TableInv, OwnedInv, ownedByApp, routeOwnedByApp, deleteLinksCountOrphans
<1> QED
  BY <1>9, <1>10, <1>11, TablesUntouched DEF deleteLinksCountOrphans

\* The last statement: the app's rows go, and with them every link to one.
LEMMA OwnedDestinationsStep ==
  ASSUME TableInv, DeleteOwnedDestinations
  PROVE  Good
<1>0. /\ RowTypeOK /\ RouteTypeOK /\ CascadeTypeOK /\ RowInv /\ LinkInv /\ TeardownInv
      /\ VettedInv
  BY DEF TableInv
<1>1. \A n \in Names : dest'[n] = IF ownedByApp(dest[n]) THEN None ELSE dest[n]
  BY DEF DeleteOwnedDestinations
<1>2. \A r \in Routes : route'[r] = RouteAfter(r)
  BY DEF DeleteOwnedDestinations
<1>3. \A n \in Names : dest'[n] # None =>
        dest'[n] = dest[n] /\ dest[n] # None /\ ~ownedByApp(dest[n])
  BY <1>1
<1>4. \A r \in Routes : route'[r] # None =>
        /\ route[r] # None /\ r \notin teardown.routes /\ route'[r] \in RouteRow
        /\ route'[r].owner = route[r].owner /\ route'[r].pattern = route[r].pattern
        /\ route'[r].late = route[r].late /\ route'[r].dests \subseteq route[r].dests
  <2> SUFFICES ASSUME NEW r \in Routes, route'[r] # None
               PROVE  /\ route[r] # None /\ r \notin teardown.routes /\ route'[r] \in RouteRow
                      /\ route'[r].owner = route[r].owner /\ route'[r].pattern = route[r].pattern
                      /\ route'[r].late = route[r].late /\ route'[r].dests \subseteq route[r].dests
    OBVIOUS
  <2>1. PICK old \in RouteRow : old = route[r] /\ route[r] # None /\ r \notin teardown.routes
    BY <1>0, <1>2 DEF RouteAfter, RouteTypeOK
  <2>2. PICK D : D = {d \in old.dests : <<r, d>> \notin teardown.links}
    OBVIOUS
  <2>3. D \in SUBSET Nat /\ D \subseteq old.dests
    BY <2>2 DEF RouteRow
  <2>4. PICK row : row = [old EXCEPT !.dests = D]
    OBVIOUS
  <2>5. /\ row \in RouteRow /\ row.owner = old.owner /\ row.pattern = old.pattern
        /\ row.late = old.late /\ row.dests = D
    BY <2>3, <2>4 DEF RouteRow
  <2>6. route'[r] = row
    BY <1>2, <2>1, <2>2, <2>4 DEF RouteAfter
  <2> QED
    BY <2>1, <2>3, <2>5, <2>6
<1>5. RouteTypeOK'
  <2>1. route' = [r \in Routes |-> RouteAfter(r)]
    BY DEF DeleteOwnedDestinations
  <2>2. \A r \in Routes : RouteAfter(r) \in RouteRow \cup {None}
    BY <1>2, <1>4
  <2> QED
    BY <2>1, <2>2 DEF RouteTypeOK
<1>6. RowTypeOK'
  BY <1>0 DEF RowTypeOK, DeleteOwnedDestinations, NoFields, Fields
<1>7. RowInv'
  BY <1>0, <1>3 DEF RowInv, DeleteOwnedDestinations
<1>8. LinkInv'
  <2> SUFFICES ASSUME NEW r \in Routes, route'[r] # None, NEW id \in route'[r].dests
               PROVE  \E n \in Names : /\ dest'[n] # None /\ dest'[n].id = id
                                       /\ DestinationUsableBy(dest'[n].owner, route'[r].pattern)
    BY DEF LinkInv, DestinationUsableBy
  <2>1. PICK n \in Names : /\ dest[n] # None /\ dest[n].id = id
                           /\ DestinationUsableBy(dest[n].owner, route[r].pattern)
    BY <1>0, <1>4 DEF LinkInv
  <2>2. dest[n] \in Rows
    BY <2>1 DEF Rows
  <2>3. ~ownedByApp(dest[n])
    BY <1>2, <2>1, <2>2 DEF DeleteOwnedDestinations
  <2>4. dest'[n] = dest[n]
    BY <1>1, <2>3
  <2> QED
    BY <1>4, <2>1, <2>4
<1>9. \A n \in Names : ~ownedByApp(dest'[n])
  BY <1>1 DEF ownedByApp
<1>10. VettedInv'
  BY <1>9 DEF VettedInv, ownedByApp
<1>11. teardown' \in Cascade /\ teardown'.pc = "idle"
  BY PhaseType DEF DeleteOwnedDestinations, Phases
<1>12. bound' = bound /\ down' \in BOOLEAN /\ (down' => ~bound)
  BY <1>0 DEF DeleteOwnedDestinations, CascadeTypeOK
<1>13. held' = held \ teardown.held /\ teardown.pc = "destinations"
  BY DEF DeleteOwnedDestinations
<1>14. CascadeTypeOK' /\ TeardownInv'
  BY <1>0, <1>11, <1>12, <1>13 DEF CascadeTypeOK, TeardownInv
<1>15. OwnedInv'
  <2>1. ~bound => "kept" \notin held'
    BY <1>0, <1>13 DEF TeardownInv
  <2>2. ~bound => \A r \in Routes : routeOwnedByApp(route'[r]) => route'[r].late
    BY <1>0, <1>4, <1>13 DEF TeardownInv, routeOwnedByApp
  <2> QED
    BY <1>9, <1>12, <2>1, <2>2 DEF OwnedInv, ownedByApp, routeOwnedByApp
<1>16. Carried
  <2>1. \A n \in Names : dest'[n] # None =>
          \A u \in Urls : <<dest[n].id, u>> \in vetted => <<dest[n].id, u>> \in vetted'
    BY <1>3 DEF Rows, DeleteOwnedDestinations
  <2>2. ids' = ids /\ ids \in Nat
    BY <1>0 DEF DeleteOwnedDestinations, RowTypeOK
  <2> QED
    BY <1>3, <2>1, <2>2 DEF Carried
<1>17. UpdatesAreMerged'
  BY <1>3 DEF TableInv, UpdatesAreMerged, DeleteOwnedDestinations
<1> QED
  BY <1>5, <1>6, <1>7, <1>8, <1>10, <1>14, <1>15, <1>16, <1>17 DEF Good, TableInv

\* A new binding takes over what the app still owns.
LEMMA BindStep ==
  ASSUME TableInv, Bind
  PROVE  Good
<1>0. /\ RowTypeOK /\ RouteTypeOK /\ CascadeTypeOK /\ RowInv /\ LinkInv /\ TeardownInv
      /\ VettedInv /\ ids \in Nat
  BY DEF TableInv, RowTypeOK
<1>1. \A n \in Names : dest[n] = None => dest'[n] = None
  BY DEF Bind
<1>2. \A n \in Names : dest[n] # None =>
        /\ dest'[n] \in DestinationRow /\ dest'[n].id = dest[n].id /\ dest'[n].owner = dest[n].owner
        /\ dest'[n].type = dest[n].type /\ dest'[n].fields = dest[n].fields
        /\ dest'[n] # None
  <2> SUFFICES ASSUME NEW n \in Names, dest[n] # None
      PROVE  /\ dest'[n] \in DestinationRow /\ dest'[n].id = dest[n].id
             /\ dest'[n].owner = dest[n].owner
             /\ dest'[n].type = dest[n].type /\ dest'[n].fields = dest[n].fields
             /\ dest'[n] # None
    OBVIOUS
  <2>1. PICK old \in DestinationRow : old = dest[n]
    BY <1>0 DEF RowTypeOK
  <2>2. PICK row : row = [old EXCEPT !.late = FALSE]
    OBVIOUS
  <2>3. /\ row \in DestinationRow /\ row.id = old.id /\ row.owner = old.owner
        /\ row.type = old.type /\ row.fields = old.fields
    BY <2>2 DEF DestinationRow
  <2>4. dest'[n] = row
    BY <2>1, <2>2 DEF Bind
  <2> QED
    BY <2>1, <2>3, <2>4, NoneIsNoRow
<1>3. \A r \in Routes : route[r] = None => route'[r] = None
  BY DEF Bind
<1>4. \A r \in Routes : route[r] # None =>
        /\ route'[r] \in RouteRow /\ route'[r].pattern = route[r].pattern
        /\ route'[r].dests = route[r].dests
  <2> SUFFICES ASSUME NEW r \in Routes, route[r] # None
      PROVE  /\ route'[r] \in RouteRow /\ route'[r].pattern = route[r].pattern
             /\ route'[r].dests = route[r].dests
    OBVIOUS
  <2>1. PICK old \in RouteRow : old = route[r]
    BY <1>0 DEF RouteTypeOK
  <2>2. PICK row : row = [old EXCEPT !.late = FALSE]
    OBVIOUS
  <2>3. row \in RouteRow /\ row.pattern = old.pattern /\ row.dests = old.dests
    BY <2>2 DEF RouteRow
  <2>4. route'[r] = row
    BY <2>1, <2>2 DEF Bind
  <2> QED
    BY <2>1, <2>3, <2>4
<1>5. RowTypeOK'
  <2>1. dest' \in [Names -> DestinationRow \cup {None}]
    <3>1. \A n \in Names : dest'[n] \in DestinationRow \cup {None}
      BY <1>1, <1>2
    <3>2. dest' = [n \in Names |-> dest'[n]]
      BY DEF Bind
    <3> QED
      BY <3>1, <3>2
  <2> QED
    BY <1>0, <2>1 DEF RowTypeOK, Bind
<1>6. RouteTypeOK'
  <2>1. \A r \in Routes : route'[r] \in RouteRow \cup {None}
    BY <1>3, <1>4
  <2>2. route' = [r \in Routes |-> route'[r]]
    BY DEF Bind
  <2> QED
    BY <2>1, <2>2 DEF RouteTypeOK
<1>7. RowInv'
  BY <1>0, <1>1, <1>2 DEF RowInv, Bind
<1>8. LinkInv'
  BY <1>0, <1>1, <1>2, <1>3, <1>4 DEF LinkInv, DestinationUsableBy
<1>9. VettedInv'
  <2>1. vetted' = vetted
    BY DEF Bind
  <2> QED
    BY <1>0, <1>1, <1>2, <2>1 DEF VettedInv, ownedByApp
<1>10. CascadeTypeOK' /\ TeardownInv' /\ OwnedInv'
  BY <1>0 DEF CascadeTypeOK, TeardownInv, OwnedInv, Bind
<1>11. Carried
  BY <1>0, <1>1, <1>2 DEF Carried, Bind
<1>12. UpdatesAreMerged'
  BY <1>1, <1>2 DEF TableInv, UpdatesAreMerged, Bind
<1> QED
  BY <1>5, <1>6, <1>7, <1>8, <1>9, <1>10, <1>11, <1>12 DEF Good, TableInv

-----------------------------------------------------------------------------
(***************************************************************************)
(* The requests of the app.                                                *)
(***************************************************************************)

\* What a request's record promises, in the tables after the step.
RequestGood(q) ==
  /\ q.pc = "insert" => q.type \in Types
  /\ q.pc \in {"patch", "rotate"} => q.current \in Decision
  /\ q.pc = "patch" =>
       /\ q.current.id <= ids'
       /\ q.url # None /\ q.current.type = "webhook" =>
            \A n \in Names : ownedByApp(dest'[n]) /\ dest'[n].id = q.current.id =>
              <<dest'[n].id, q.url>> \in vetted'

\* The requests a step does not serve keep their promise.
LEMMA OthersKeep ==
  ASSUME RequestTypeOK, DecidedInv, RowTypeOK, RowTypeOK', Carried, NEW x \in Requests
  PROVE  RequestGood(req[x])
<1>1. req[x] \in Request /\ ids \in Nat /\ ids' \in Nat /\ ids <= ids'
  BY DEF RequestTypeOK, RowTypeOK, Carried
<1>2. /\ req[x].pc = "insert" => req[x].type \in Types
      /\ req[x].pc \in {"patch", "rotate"} => req[x].current \in Decision
  BY DEF RequestTypeOK
<1>3. ASSUME req[x].pc = "patch"
      PROVE  /\ req[x].current.id <= ids'
             /\ req[x].url # None /\ req[x].current.type = "webhook" =>
                  \A n \in Names : ownedByApp(dest'[n]) /\ dest'[n].id = req[x].current.id =>
                    <<dest'[n].id, req[x].url>> \in vetted'
  <2>1. req[x].current.id \in Nat /\ req[x].current.id <= ids /\ req[x].url \in Urls \cup {None}
    BY <1>1, <1>2, <1>3 DEF Request, Decision, DecidedInv
  <2>2. SUFFICES ASSUME req[x].url # None, req[x].current.type = "webhook", NEW n \in Names,
                        ownedByApp(dest'[n]), dest'[n].id = req[x].current.id
                 PROVE  <<dest'[n].id, req[x].url>> \in vetted'
    BY <1>1, <2>1
  <2>3. /\ dest[n] # None /\ dest[n].id = dest'[n].id /\ dest[n].owner = dest'[n].owner
        /\ \A u \in Urls : <<dest[n].id, u>> \in vetted => <<dest[n].id, u>> \in vetted'
    BY <2>1, <2>2 DEF Carried, ownedByApp
  <2>4. <<dest[n].id, req[x].url>> \in vetted
    BY <1>3, <2>2, <2>3 DEF DecidedInv, ownedByApp
  <2> QED
    BY <2>1, <2>2, <2>3, <2>4
<1> QED
  BY <1>2, <1>3 DEF RequestGood

\* A step serves one request.
LEMMA RequestStep ==
  ASSUME Inv, Good, NEW x \in Requests, NEW q \in Request, req' = [req EXCEPT ![x] = q],
         RequestGood(q)
  PROVE  Inv'
<1>1. \A y \in Requests : RequestGood(req[y])
  BY OthersKeep DEF Inv, TypeOK, Good, TableInv
<1>2. req' \in [Requests -> Request] /\ \A y \in Requests : RequestGood(req'[y])
  BY <1>1 DEF Inv, TypeOK, RequestTypeOK
<1>3. RequestTypeOK' /\ DecidedInv'
  BY <1>2 DEF RequestTypeOK, DecidedInv, RequestGood, ownedByApp
<1> QED
  BY <1>3 DEF Good, TableInv, Inv, TypeOK

LEMMA NoRequestStep ==
  ASSUME Inv, Good, UNCHANGED req
  PROVE  Inv'
<1>1. \A y \in Requests : RequestGood(req[y])
  BY OthersKeep DEF Inv, TypeOK, Good, TableInv
<1>2. RequestTypeOK' /\ DecidedInv'
  BY <1>1 DEF Inv, TypeOK, RequestTypeOK, DecidedInv, RequestGood, ownedByApp
<1> QED
  BY <1>2 DEF Good, TableInv, Inv, TypeOK

LEMMA AnswerStep ==
  ASSUME Inv, Good, NEW x \in Requests, Answer(x)
  PROVE  Inv'
<1>1. IdleRequest \in Request /\ IdleRequest.pc = "idle"
  BY DEF IdleRequest, Request
<1>2. RequestGood(IdleRequest)
  BY <1>1 DEF RequestGood
<1> QED
  BY <1>1, <1>2, RequestStep DEF Answer

\* A check before the lock leaves the tables alone.
LEMMA CheckStep ==
  ASSUME TableInv, UNCHANGED <<dest, route, held, ids, bound, teardown, written, down>>,
         vetted \subseteq vetted', vetted' \in SUBSET (Nat \X (Urls \cup {None}))
  PROVE  Good
<1>1. RowTypeOK' /\ RowInv' /\ VettedInv'
  BY DEF TableInv, RowTypeOK, RowInv, VettedInv, ownedByApp
<1>2. RouteTypeOK' /\ LinkInv' /\ CascadeTypeOK' /\ TeardownInv' /\ OwnedInv'
  BY DEF TableInv, RouteTypeOK, LinkInv, DestinationUsableBy, CascadeTypeOK, TeardownInv,
         OwnedInv, ownedByApp, routeOwnedByApp
<1>4. UpdatesAreMerged'
  BY DEF TableInv, UpdatesAreMerged
<1>5. Carried
  BY DEF TableInv, RowTypeOK, Carried
<1> QED
  BY <1>1, <1>2, <1>4, <1>5 DEF Good, TableInv

LEMMA KeyStep ==
  ASSUME Inv, NEW x \in Requests, requireAppKey(x)
  PROVE  Inv' /\ Good
<1>0. TableInv /\ req[x] \in Request
  BY DEF Inv, TypeOK, TableInv, RequestTypeOK
<1>1. Good
  BY <1>0, CheckStep DEF requireAppKey, TableInv, RowTypeOK
<1>2. PICK q : q = [req[x] EXCEPT !.pc = "authenticated"]
  OBVIOUS
<1>3. q \in Request /\ q.pc = "authenticated"
  BY <1>0, <1>2 DEF Request
<1>4. req' = [req EXCEPT ![x] = q]
  BY <1>2 DEF requireAppKey
<1>5. RequestGood(q)
  BY <1>3 DEF RequestGood
<1> QED
  BY <1>1, <1>3, <1>4, <1>5, RequestStep

LEMMA CreateStep ==
  ASSUME Inv, NEW x \in Requests, CreateAppDestination(x)
  PROVE  Inv' /\ Good
<1>0. TableInv /\ req[x] \in Request
  BY DEF Inv, TypeOK, TableInv, RequestTypeOK
<1>1. Good
  BY <1>0, CheckStep DEF CreateAppDestination, TableInv, RowTypeOK
<1>2. PICK type \in Types, url \in Urls \cup {None} :
        req' = [req EXCEPT ![x] = [@ EXCEPT !.pc = "insert", !.type = type, !.url = url]]
  <2>1. PICK type \in Types : \E url \in IF type = "webhook" THEN Urls ELSE {None} :
          req' = [req EXCEPT ![x] = [@ EXCEPT !.pc = "insert", !.type = type, !.url = url]]
    BY DEF CreateAppDestination
  <2> QED
    BY <2>1
<1>3. PICK q1 : q1 = [req[x] EXCEPT !.pc = "insert"]
  OBVIOUS
<1>4. PICK q2 : q2 = [q1 EXCEPT !.type = type]
  OBVIOUS
<1>5. PICK q : q = [q2 EXCEPT !.url = url]
  OBVIOUS
<1>6. q1 \in Request /\ q1.pc = "insert"
  BY <1>0, <1>3 DEF Request
<1>7. q2 \in Request /\ q2.pc = q1.pc /\ q2.type = type
  BY <1>4, <1>6 DEF Request
<1>8. q \in Request /\ q.pc = q2.pc /\ q.type = q2.type
  BY <1>5, <1>7 DEF Request
<1>9. req' = [req EXCEPT ![x] = q]
  BY <1>2, <1>3, <1>4, <1>5
<1>10. q.pc = "insert" /\ q.type \in Types
  BY <1>6, <1>7, <1>8
<1>11. RequestGood(q)
  BY <1>10 DEF RequestGood
<1> QED
  BY <1>1, <1>8, <1>9, <1>11, RequestStep

\* The decision on a patch: its URL is checked for the row decided on, or is the
\* row's own, which was checked before.
LEMMA UpdateAppStep ==
  ASSUME Inv, NEW x \in Requests, NEW n \in Names, UpdateAppDestination(x, n)
  PROVE  Inv' /\ Good
<1>0. /\ TableInv /\ req[x] \in Request /\ RowTypeOK /\ RowInv /\ VettedInv
      /\ UNCHANGED <<dest, route, held, ids, bound, teardown, written, down>>
  BY DEF Inv, TypeOK, TableInv, RequestTypeOK, UpdateAppDestination
<1>1. PICK url \in Urls \cup {None} :
        /\ checkPatchedURL(dest[n], url)
        /\ req' = [req EXCEPT ![x] = [@ EXCEPT !.pc = "patch", !.current = Decided(dest[n]),
                                               !.url = url]]
  BY DEF UpdateAppDestination
<1>2. /\ ownedByApp(dest[n]) /\ dest[n] # None /\ dest[n] \in DestinationRow
      /\ dest[n].id \in Nat /\ dest[n].type \in Types /\ dest[n].id <= ids
      /\ dest[n].fields.secret \in Secrets \cup {None}
  BY <1>0 DEF UpdateAppDestination, ownedByApp, RowTypeOK, RowInv, DestinationRow, Fields
<1>3. PICK c \in Decision : c = Decided(dest[n]) /\ c.id = dest[n].id /\ c.type = dest[n].type
  <2>1. /\ Decided(dest[n]) \in Decision
        /\ Decided(dest[n]).id = dest[n].id /\ Decided(dest[n]).type = dest[n].type
    BY <1>2 DEF Decided, Decision
  <2> QED
    BY <2>1
<1>4. /\ vetted \subseteq vetted' /\ vetted' \in SUBSET (Nat \X (Urls \cup {None}))
      /\ dest[n].type = "webhook" /\ url \notin {None, dest[n].fields.url} =>
           <<dest[n].id, url>> \in vetted'
  BY <1>0, <1>1, <1>2 DEF checkPatchedURL, checkAppDestinationURL, RowTypeOK
<1>5. Good
  BY <1>0, <1>4, CheckStep
<1>6. dest[n].type = "webhook" /\ url # None => <<dest[n].id, url>> \in vetted'
  BY <1>0, <1>2, <1>4 DEF VettedInv
<1>7. PICK q1 : q1 = [req[x] EXCEPT !.pc = "patch"]
  OBVIOUS
<1>8. PICK q2 : q2 = [q1 EXCEPT !.current = c]
  OBVIOUS
<1>9. PICK q : q = [q2 EXCEPT !.url = url]
  OBVIOUS
<1>10. q1 \in Request /\ q1.pc = "patch"
  BY <1>0, <1>7 DEF Request
<1>11. q2 \in Request /\ q2.pc = q1.pc /\ q2.current = c
  BY <1>8, <1>10 DEF Request
<1>12. q \in Request /\ q.pc = q2.pc /\ q.current = q2.current /\ q.url = url
  BY <1>9, <1>11 DEF Request
<1>13. req' = [req EXCEPT ![x] = q]
  BY <1>1, <1>3, <1>7, <1>8, <1>9
<1>14. q.pc = "patch" /\ q.current = c /\ q.url = url
  BY <1>10, <1>11, <1>12
<1>15. \A m \in Names : ownedByApp(dest'[m]) /\ dest'[m].id = c.id => m = n
  BY <1>0, <1>2, <1>3 DEF RowInv, ownedByApp
<1>16. RequestGood(q)
  BY <1>0, <1>2, <1>3, <1>6, <1>14, <1>15 DEF RequestGood
<1> QED
  BY <1>5, <1>12, <1>13, <1>16, RequestStep

LEMMA RotateDecisionStep ==
  ASSUME Inv, NEW x \in Requests, NEW n \in Names, RotateAppWebhookSecret(x, n)
  PROVE  Inv' /\ Good
<1>0. /\ TableInv /\ req[x] \in Request /\ RowTypeOK
      /\ UNCHANGED <<dest, route, held, ids, bound, teardown, written, down>>
  BY DEF Inv, TypeOK, TableInv, RequestTypeOK, RotateAppWebhookSecret
<1>1. /\ dest[n] \in DestinationRow /\ dest[n].id \in Nat /\ dest[n].type \in Types
      /\ dest[n].fields.url \in Urls \cup {None}
      /\ dest[n].fields.secret \in Secrets \cup {None}
  BY <1>0 DEF RotateAppWebhookSecret, ownedByApp, RowTypeOK, DestinationRow, Fields
<1>2. PICK c \in Decision : c = Decided(dest[n])
  BY <1>1 DEF Decided, Decision
<1>3. vetted \subseteq vetted' /\ vetted' \in SUBSET (Nat \X (Urls \cup {None}))
  BY <1>0, <1>1 DEF RotateAppWebhookSecret, checkAppDestinationURL, RowTypeOK
<1>4. Good
  BY <1>0, <1>3, CheckStep
<1>5. PICK q1 : q1 = [req[x] EXCEPT !.pc = "rotate"]
  OBVIOUS
<1>6. PICK q : q = [q1 EXCEPT !.current = c]
  OBVIOUS
<1>7. q1 \in Request /\ q1.pc = "rotate"
  BY <1>0, <1>5 DEF Request
<1>8. q \in Request /\ q.pc = q1.pc /\ q.current = c
  BY <1>6, <1>7 DEF Request
<1>9. req' = [req EXCEPT ![x] = q]
  BY <1>2, <1>5, <1>6 DEF RotateAppWebhookSecret
<1>10. q.pc = "rotate" /\ q.current \in Decision
  BY <1>7, <1>8
<1>11. RequestGood(q)
  BY <1>10 DEF RequestGood
<1> QED
  BY <1>4, <1>8, <1>9, <1>11, RequestStep

\* The patch in the lock: the row is the one decided on, so its new URL was
\* checked for it, or its URL stays.
LEMMA PatchStep ==
  ASSUME Inv, NEW x \in Requests, NEW n \in Names, PatchAppDestination(x, n)
  PROVE  Inv' /\ Good
<1>0. /\ TableInv /\ req[x] \in Request /\ RowTypeOK /\ RowInv /\ VettedInv /\ DecidedInv
      /\ vetted' = vetted
  BY DEF Inv, TypeOK, TableInv, RequestTypeOK, PatchAppDestination
<1>1. /\ req[x].pc = "patch" /\ ownedByApp(dest[n]) /\ dest[n] # None
      /\ dest[n].id = req[x].current.id /\ dest[n].type = req[x].current.type
      /\ req[x].url \in Urls \cup {None}
  BY <1>0 DEF PatchAppDestination, sameOwnedRow, ownedByApp, Request
<1>2. PICK patch \in Patches(dest[n].fields, {req[x].url}) :
        UpdateDestination(n, applyDestinationPatch(dest[n], patch), patch)
  BY DEF PatchAppDestination
<1>3. patch \in Fields /\ patch.url = req[x].url
  BY <1>1, PatchType
<1>4. PICK row \in DestinationRow :
        /\ row = applyDestinationPatch(dest[n], patch)
        /\ row.id = dest[n].id /\ row.owner = dest[n].owner /\ row.late = dest[n].late
        /\ row.type = dest[n].type /\ row.fields = Copied(dest[n].fields, patch)
        /\ patch.url = None => row.fields.url = dest[n].fields.url
        /\ patch.url # None => row.fields.url = patch.url
  BY <1>0, <1>1, <1>3, PatchedRow
<1>5. row.type = "webhook" => <<row.id, row.fields.url>> \in vetted
  BY <1>0, <1>1, <1>3, <1>4 DEF VettedInv, DecidedInv
<1>6. vetted' \in SUBSET (Nat \X (Urls \cup {None}))
  BY <1>0 DEF RowTypeOK
<1>7. Good
  BY <1>0, <1>1, <1>2, <1>3, <1>4, <1>5, <1>6, UpdateStep DEF PatchAppDestination
<1> QED
  BY <1>7, AnswerStep DEF PatchAppDestination

\* A rotation, by the app or by the operator: the row it writes is valid, so the
\* secret it supersedes was there.
LEMMA RotationStep ==
  ASSUME TableInv, NEW n \in Names, dest[n] # None, RotateDestination(n, dest[n]),
         UNCHANGED <<route, held, ids, bound, teardown, vetted, down>>
  PROVE  Good
<1>0. RowTypeOK /\ VettedInv /\ dest[n].fields = written[n]
  BY DEF TableInv, UpdatesAreMerged
<1>1. PICK secret \in Secrets, expires \in Expiries :
        UpdateDestination(n, rotateSecret(dest[n], secret, expires),
                          Rotation(dest[n].fields.secret, secret, expires))
  BY <1>0 DEF RotateDestination
<1>2. PICK patch : patch = Rotation(dest[n].fields.secret, secret, expires)
  OBVIOUS
<1>3. dest[n].fields.secret # None
  <2>1. PICK old \in DestinationRow : old = dest[n]
    BY <1>0 DEF RowTypeOK
  <2>2. PICK f : f = [url |-> old.fields.url, secret |-> secret, previous |-> old.fields.secret,
                      expires |-> expires]
    OBVIOUS
  <2>3. PICK row : row = [old EXCEPT !.fields = f]
    OBVIOUS
  <2>4. row.fields = f /\ row = rotateSecret(dest[n], secret, expires)
    BY <2>1, <2>2, <2>3 DEF rotateSecret, DestinationRow
  <2>5. ValidateDestinationFields(row.type, f)
    BY <1>1, <2>4 DEF UpdateDestination
  <2>6. f # NoFields /\ f.previous = old.fields.secret /\ f.expires # None
    BY <2>2, NoneAssumption DEF NoFields
  <2> QED
    BY <2>1, <2>5, <2>6 DEF ValidateDestinationFields
<1>4. /\ patch \in Fields /\ patch.url = None
      /\ rotateSecret(dest[n], secret, expires) = applyDestinationPatch(dest[n], patch)
  BY <1>0, <1>2, <1>3, RotatedRow
<1>5. PICK row \in DestinationRow :
        /\ row = applyDestinationPatch(dest[n], patch)
        /\ row.id = dest[n].id /\ row.owner = dest[n].owner /\ row.late = dest[n].late
        /\ row.type = dest[n].type /\ row.fields = Copied(dest[n].fields, patch)
        /\ row.fields.url = dest[n].fields.url
  BY <1>0, <1>4, PatchedRow
<1>6. UpdateDestination(n, row, patch)
  BY <1>1, <1>2, <1>4, <1>5
<1>7. row.owner = App /\ row.type = "webhook" => <<row.id, row.fields.url>> \in vetted'
  BY <1>0, <1>5 DEF VettedInv, ownedByApp
<1>8. vetted' \in SUBSET (Nat \X (Urls \cup {None})) /\ vetted \subseteq vetted'
  BY <1>0 DEF RowTypeOK
<1> QED
  BY <1>4, <1>5, <1>6, <1>7, <1>8, UpdateStep

\* The operator's patch puts its URL on record.
LEMMA OperatorPatchStep ==
  ASSUME TableInv, NEW n \in Names, OperatorUpdateDestination(n)
  PROVE  Good
<1>0. RowTypeOK /\ RowInv /\ VettedInv
  BY DEF TableInv
<1>1. PICK patch \in Patches(dest[n].fields, Urls \cup {None}) :
        /\ UpdateDestination(n, applyDestinationPatch(dest[n], patch), patch)
        /\ vetted' = IF patch.url = None THEN vetted ELSE vetted \cup {<<dest[n].id, patch.url>>}
  BY DEF OperatorUpdateDestination
<1>2. dest[n] # None /\ dest[n].id \in Nat
  BY <1>0 DEF OperatorUpdateDestination, RowTypeOK, DestinationRow
<1>3. patch \in Fields /\ patch.url \in Urls \cup {None}
  BY PatchType
<1>4. PICK row \in DestinationRow :
        /\ row = applyDestinationPatch(dest[n], patch)
        /\ row.id = dest[n].id /\ row.owner = dest[n].owner /\ row.late = dest[n].late
        /\ row.type = dest[n].type /\ row.fields = Copied(dest[n].fields, patch)
        /\ patch.url = None => row.fields.url = dest[n].fields.url
        /\ patch.url # None => row.fields.url = patch.url
  BY <1>0, <1>2, <1>3, PatchedRow
<1>5. vetted \subseteq vetted' /\ vetted' \in SUBSET (Nat \X (Urls \cup {None}))
  BY <1>0, <1>1, <1>2, <1>3 DEF RowTypeOK
<1>6. row.owner = App /\ row.type = "webhook" => <<row.id, row.fields.url>> \in vetted'
  <2>1. CASE patch.url = None
    BY <1>0, <1>2, <1>4, <1>5, <2>1 DEF VettedInv, ownedByApp
  <2>2. CASE patch.url # None
    BY <1>1, <1>4, <2>2
  <2> QED
    BY <2>1, <2>2
<1> QED
  BY <1>1, <1>2, <1>3, <1>4, <1>5, <1>6, UpdateStep DEF OperatorUpdateDestination

LEMMA HoldStep ==
  ASSUME TableInv, NEW x \in Requests, HoldMessage(x)
  PROVE  Good
<1>1. PICK h : h = IF bound THEN "kept" ELSE "late"
  OBVIOUS
<1>2. held' = held \cup {h} /\ h \in {"kept", "late"} /\ (~bound => h = "late")
  BY <1>1 DEF HoldMessage
<1>3. CascadeTypeOK'
  BY <1>2 DEF TableInv, CascadeTypeOK, HoldMessage
<1>4. ~bound /\ "kept" \in held' => "kept" \in held
  BY <1>2
<1>5. TeardownInv'
  BY <1>4 DEF TableInv, TeardownInv, routeOwnedByApp, HoldMessage
<1>6. OwnedInv'
  BY <1>4 DEF TableInv, TeardownInv, OwnedInv, ownedByApp, routeOwnedByApp, HoldMessage
<1> QED
  BY <1>3, <1>5, <1>6, TablesUntouched DEF HoldMessage

\* A step of one of the app's requests.
LEMMA AppStepInv ==
  ASSUME Inv, NEW x \in Requests, AppStep(x)
  PROVE  Inv' /\ Good
<1>0. TableInv /\ req[x] \in Request /\ (req[x].pc = "insert" => req[x].type \in Types)
  BY DEF Inv, TypeOK, TableInv, RequestTypeOK
<1>1. CASE requireAppKey(x)
  BY <1>1, KeyStep
<1>2. CASE CreateAppDestination(x)
  BY <1>2, CreateStep
<1>3. CASE HoldMessage(x)
  BY <1>0, <1>3, HoldStep, AnswerStep DEF HoldMessage
<1>4. CASE Refuse(x)
  <2>1. Good
    BY <1>0, <1>4, CheckStep DEF Refuse, TableInv, RowTypeOK
  <2> QED
    BY <1>4, <2>1, AnswerStep DEF Refuse
<1>5. ASSUME NEW n \in Names, InsertAppDestination(x, n)
      PROVE  Inv' /\ Good
  <2>1. req[x].type \in Types /\ App \in Owners
    BY <1>0, <1>5 DEF InsertAppDestination, Owners
  <2>2. Good
    BY <1>0, <1>5, <2>1, InsertStep DEF InsertAppDestination
  <2> QED
    BY <1>5, <2>2, AnswerStep DEF InsertAppDestination
<1>6. ASSUME NEW n \in Names, UpdateAppDestination(x, n)
      PROVE  Inv' /\ Good
  BY <1>6, UpdateAppStep
<1>7. ASSUME NEW n \in Names, PatchAppDestination(x, n)
      PROVE  Inv' /\ Good
  BY <1>7, PatchStep
<1>8. ASSUME NEW n \in Names, RotateAppWebhookSecret(x, n)
      PROVE  Inv' /\ Good
  BY <1>8, RotateDecisionStep
<1>9. ASSUME NEW n \in Names, RotateApp(x, n)
      PROVE  Inv' /\ Good
  <2>1. Good
    BY <1>0, <1>9, RotationStep DEF RotateApp, sameOwnedRow, ownedByApp
  <2> QED
    BY <1>9, <2>1, AnswerStep DEF RotateApp
<1>10. ASSUME NEW n \in Names, DeleteAppDestination(x, n)
       PROVE  Inv' /\ Good
  <2>1. Good
    BY <1>0, <1>10, DeleteStep DEF DeleteAppDestination
  <2> QED
    BY <1>10, <2>1, AnswerStep DEF DeleteAppDestination
<1>11. ASSUME NEW r \in Routes, CreateAppRoute(x, r)
       PROVE  Inv' /\ Good
  <2>1. App \in Owners /\ App \in Patterns
    BY DEF Owners, Patterns
  <2>2. Good
    BY <1>0, <1>11, <2>1, InsertRouteStep DEF CreateAppRoute
  <2> QED
    BY <1>11, <2>2, AnswerStep DEF CreateAppRoute
<1>12. ASSUME NEW r \in Routes, UpdateAppRoute(x, r)
       PROVE  Inv' /\ Good
  <2>1. App \in Patterns /\ route[r] # None
    BY <1>12 DEF Patterns, UpdateAppRoute, routeOwnedByApp
  <2>2. PICK names \in SUBSET Names : UpdateRoute(r, App, names)
    BY <1>12, LinkedNamesType DEF UpdateAppRoute
  <2>3. Good
    BY <1>0, <1>12, <2>1, <2>2, UpdateRouteStep DEF UpdateAppRoute
  <2> QED
    BY <1>12, <2>3, AnswerStep DEF UpdateAppRoute
<1>13. ASSUME NEW r \in Routes, DeleteAppRoute(x, r)
       PROVE  Inv' /\ Good
  <2>1. Good
    BY <1>0, <1>13, DeleteRouteStep DEF DeleteAppRoute
  <2> QED
    BY <1>13, <2>1, AnswerStep DEF DeleteAppRoute
<1> QED
  BY <1>1, <1>2, <1>3, <1>4, <1>5, <1>6, <1>7, <1>8, <1>9, <1>10, <1>11, <1>12, <1>13 DEF AppStep

\* A step of the operator.
LEMMA OperatorStepGood ==
  ASSUME TableInv, OperatorStep
  PROVE  Good /\ UNCHANGED req
<1>0. Operator \in Owners
  BY DEF Owners
<1>1. ASSUME NEW n \in Names, OperatorCreateDestination(n)
      PROVE  Good /\ UNCHANGED req
  <2>1. PICK type \in Types, fields \in Fields : InsertDestination(n, Operator, type, fields)
    BY <1>1 DEF OperatorCreateDestination
  <2> QED
    BY <1>0, <1>1, <2>1, InsertStep DEF OperatorCreateDestination
<1>2. ASSUME NEW n \in Names, OperatorUpdateDestination(n)
      PROVE  Good /\ UNCHANGED req
  BY <1>2, OperatorPatchStep DEF OperatorUpdateDestination
<1>3. ASSUME NEW n \in Names, OperatorRotateWebhookSecret(n)
      PROVE  Good /\ UNCHANGED req
  BY <1>3, RotationStep DEF OperatorRotateWebhookSecret
<1>4. ASSUME NEW n \in Names, OperatorDeleteDestination(n)
      PROVE  Good /\ UNCHANGED req
  BY <1>4, DeleteStep DEF OperatorDeleteDestination
<1>5. ASSUME NEW r \in Routes, OperatorCreateRoute(r)
      PROVE  Good /\ UNCHANGED req
  <2>1. PICK pattern \in Patterns, names \in SUBSET Names : InsertRoute(r, Operator, pattern, names)
    BY <1>5 DEF OperatorCreateRoute
  <2> QED
    BY <1>0, <1>5, <2>1, InsertRouteStep DEF OperatorCreateRoute
<1>6. ASSUME NEW r \in Routes, OperatorUpdateRoute(r)
      PROVE  Good /\ UNCHANGED req
  <2>1. PICK pattern \in Patterns, names \in SUBSET Names : UpdateRoute(r, pattern, names)
    BY <1>6, LinkedNamesType DEF OperatorUpdateRoute
  <2> QED
    BY <1>6, <2>1, UpdateRouteStep DEF OperatorUpdateRoute
<1>7. ASSUME NEW r \in Routes, OperatorDeleteRoute(r)
      PROVE  Good /\ UNCHANGED req
  BY <1>7, DeleteRouteStep DEF OperatorDeleteRoute
<1>8. CASE Bind
  BY <1>8, BindStep DEF Bind
<1> QED
  BY <1>1, <1>2, <1>3, <1>4, <1>5, <1>6, <1>7, <1>8 DEF OperatorStep

\* A step of the cascade.
LEMMA TeardownStepGood ==
  ASSUME TableInv, TeardownStep
  PROVE  Good /\ UNCHANGED req
<1>1. CASE Deprovision
  BY <1>1, DeprovisionStep DEF Deprovision
<1>2. CASE Unbind
  BY <1>2, UnbindStep DEF Unbind
<1>3. CASE DeleteOwnedRoutes
  BY <1>3, OwnedRoutesStep DEF DeleteOwnedRoutes
<1>4. CASE deleteLinksCountOrphans
  BY <1>4, OwnedLinksStep DEF deleteLinksCountOrphans
<1>5. CASE DeleteOwnedDestinations
  BY <1>5, OwnedDestinationsStep DEF DeleteOwnedDestinations
<1>6. CASE AbortTeardown
  BY <1>6, AbortStep DEF AbortTeardown
<1> QED
  BY <1>1, <1>2, <1>3, <1>4, <1>5, <1>6 DEF TeardownStep

-----------------------------------------------------------------------------
LEMMA InitInv == Init => Inv
<1> SUFFICES ASSUME Init PROVE Inv
  OBVIOUS
<1>1. IdleRequest \in Request /\ IdleRequest.pc = "idle"
  BY DEF IdleRequest, Request
<1>2. req \in [Requests -> Request] /\ \A x \in Requests : req[x].pc = "idle"
  BY <1>1 DEF Init
<1>3. RequestTypeOK /\ DecidedInv
  BY <1>2 DEF RequestTypeOK, DecidedInv
<1>4. teardown \in Cascade /\ teardown.pc = "idle"
  BY DEF Init, IdleTeardown, Cascade
<1>5. CascadeTypeOK /\ TeardownInv /\ OwnedInv
  BY <1>4 DEF Init, CascadeTypeOK, TeardownInv, OwnedInv
<1>6. (\A n \in Names : dest[n] = None) /\ (\A r \in Routes : route[r] = None)
  BY DEF Init
<1>7. RowTypeOK /\ RouteTypeOK
  BY DEF Init, RowTypeOK, RouteTypeOK, NoFields, Fields
<1>8. RowInv /\ LinkInv /\ VettedInv /\ UpdatesAreMerged
  BY <1>6 DEF RowInv, LinkInv, VettedInv, UpdatesAreMerged, ownedByApp
<1> QED
  BY <1>3, <1>5, <1>7, <1>8 DEF Inv, TypeOK

LEMMA NextInv == Inv /\ [Next]_vars => Inv'
<1> SUFFICES ASSUME Inv, [Next]_vars PROVE Inv'
  OBVIOUS
<1>0. TableInv
  BY DEF Inv, TypeOK, TableInv
<1>1. ASSUME NEW x \in Requests, AppStep(x) PROVE Inv'
  BY <1>1, AppStepInv DEF Good
<1>2. CASE OperatorStep
  BY <1>0, <1>2, OperatorStepGood, NoRequestStep DEF Good
<1>3. CASE TeardownStep
  BY <1>0, <1>3, TeardownStepGood, NoRequestStep DEF Good
<1>4. CASE UNCHANGED vars
  <2>1. Good
    BY <1>0, <1>4, CheckStep DEF vars, TableInv, RowTypeOK
  <2> QED
    BY <1>4, <2>1, NoRequestStep DEF vars, Good
<1> QED
  BY <1>1, <1>2, <1>3, <1>4 DEF Next

LEMMA InvAlways == Spec => []Inv
BY InitInv, NextInv, PTL DEF Spec

\* The tables, the requests and the cascade keep their types.
THEOREM TypeCorrect == Spec => []TypeOK
<1>1. Inv => TypeOK
  BY DEF Inv
<1> QED
  BY <1>1, InvAlways, PTL

\* Whatever happens to a destination between checkAppDestinationURL and the row
\* lock (deleted and created anew, patched by the operator or by another
\* request), the URL an app's row carries was checked for that row or set by the
\* operator: for any number of requests in flight.
THEOREM UrlVetted == Spec => []AppUrlIsVetted
<1>1. Inv => AppUrlIsVetted
  BY DEF Inv, VettedInv, AppUrlIsVetted, Rows, ownedByApp
<1> QED
  BY <1>1, InvAlways, PTL

\* A message's routes lead only to destinations that are there and usable by its
\* app: resolveDestinationIDs is run again on every update, a destination in use
\* is not deleted, and the cascade takes the links along.
THEOREM DropsNothing == Spec => []ResolveDropsNothing
<1>1. Inv => ResolveDropsNothing
  <2> SUFFICES ASSUME Inv, NEW app \in {App, OtherApp}, NEW id \in MatchRoutes(app)
               PROVE  \E row \in Rows : row.id = id /\ DestinationUsableBy(row.owner, app)
    BY DEF ResolveDropsNothing
  <2>1. PICK r \in Routes : /\ route[r] # None /\ id \in route[r].dests
                            /\ route[r].pattern \in {Wildcard, app}
    BY DEF MatchRoutes, RouteRows, MatchPattern
  <2>2. PICK n \in Names : /\ dest[n] # None /\ dest[n].id = id
                           /\ DestinationUsableBy(dest[n].owner, route[r].pattern)
    BY <2>1 DEF Inv, LinkInv
  <2>3. dest[n].owner \in {App, Operator}
    BY <2>2 DEF Inv, TypeOK, RowTypeOK, DestinationRow, Owners
  <2>4. DestinationUsableBy(dest[n].owner, app)
    BY <2>1, <2>2, <2>3, AppAssumption DEF DestinationUsableBy
  <2>5. dest[n] \in Rows
    BY <2>2 DEF Rows
  <2> QED
    BY <2>2, <2>4, <2>5
<1> QED
  BY <1>1, InvAlways, PTL

\* What an app owns after DeleteOwnedObjects has committed was written by a
\* request that passed requireAppKey before the unbinding, however its requests
\* interleave with the statements of the transaction.
THEOREM TornDown == Spec => []TornDownOwnsNothing
<1>1. Inv => TornDownOwnsNothing
  BY DEF Inv, OwnedInv, TornDownOwnsNothing, Rows, RouteRows, ownedByApp, routeOwnedByApp
<1> QED
  BY <1>1, InvAlways, PTL

\* No patch or rotation of a destination is lost to a concurrent one, whatever
\* keys each names: applyDestinationPatch and rotateSecret start from the locked
\* row, so every field is what the last committed write that names it gave it,
\* for any number of requests decided on rows read before the lock.
THEOREM MergedAlways == Spec => []UpdatesAreMerged
<1>1. Inv => UpdatesAreMerged
  BY DEF Inv
<1> QED
  BY <1>1, InvAlways, PTL
=============================================================================
