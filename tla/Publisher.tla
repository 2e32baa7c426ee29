----------------------------- MODULE Publisher -----------------------------
(***************************************************************************)
(* The ntfy publisher token of an app.  A mint holds a per-app advisory    *)
(* try-lock in one transaction across the call to provisioning-api, which  *)
(* with rotate revokes the app's tokens before it issues the new one, and  *)
(* then seals and stores the token.  It runs against other mints, the      *)
(* operator's removal, the app's teardown, the rotation of the master key  *)
(* (KeyRotation, whose sealed rows are the stored tokens), lost            *)
(* connections and crashes.                                                *)
(*                                                                         *)
(* A mint's steps upstream are those of provisioning-api's handler, one    *)
(* ntfy command each.  What that handler still does after its caller gave  *)
(* up is left out, and so is a refused request, which leaves nothing       *)
(* behind.                                                                 *)
(***************************************************************************)
EXTENDS KeyRotation

CONSTANTS Mints,            \* mint requests that may be in flight
          App,
          MaxInFlightMints,
          MaxTokens         \* bound: tokens ever issued

ASSUME RowAssumption == Rows = {App}
ASSUME MintAssumption == None \notin Mints
ASSUME LimitAssumption == MaxInFlightMints \in Nat \ {0}

VARIABLES
  bound,     \* the app has a binding
  req,       \* delivery-api's mint requests
  lock,      \* holder of the app's mint lock
  user,      \* ntfy: the publisher user exists
  tokens,    \* ntfy: its tokens
  issued,    \* tokens ever issued
  teardown,  \* the deprovision cascade
  excused,   \* history: tokens revoked by a mint that then failed, or by a teardown
  down       \* history: a teardown completed and the app was not bound again

publisherVars == <<bound, req, lock, user, tokens, issued, teardown, excused, down>>
vars == <<rotationVars, publisherVars>>

IdleMint == [pc |-> "idle", rotate |-> FALSE, token |-> 0, left |-> {}, gone |-> {}]
Upstream == {"addUser", "list", "remove", "addToken"}

Init ==
  /\ RotationInit
  /\ bound = TRUE
  /\ req = [x \in Mints |-> IdleMint] /\ lock = None
  /\ user = FALSE /\ tokens = {} /\ issued = 0
  /\ teardown = "idle"
  /\ excused = {} /\ down = FALSE

\* The store's transaction is open and holds the lock.
InTx(x) == lock = x
InFlight == Cardinality({x \in Mints : req[x].pc # "idle"})

(***************************************************************************)
(* publisher.Service: the mint.                                            *)
(***************************************************************************)
\* The checks before the transaction: binding and in-flight slot.
Mint(x) ==
  /\ req[x].pc = "idle"
  /\ bound /\ InFlight < MaxInFlightMints
  /\ \E rotate \in BOOLEAN :
       req' = [req EXCEPT ![x] = [IdleMint EXCEPT !.pc = "begin", !.rotate = rotate]]
  /\ UNCHANGED <<rotationVars, bound, lock, user, tokens, issued, teardown, excused, down>>

\* Begin and the try-lock.
WithAppMintLock(x) ==
  /\ req[x].pc = "begin"
  /\ \/ /\ lock = None
        /\ lock' = x
        /\ req' = [req EXCEPT ![x].pc = "recheck"]
     \/ /\ lock # None
        /\ req' = [req EXCEPT ![x] = IdleMint]
        /\ UNCHANGED lock
  /\ UNCHANGED <<rotationVars, bound, user, tokens, issued, teardown, excused, down>>

\* Mutant: the binding is not checked again under the lock.
NotRechecked == TRUE

\* requireBound, on a connection of its own.
requireBound == bound

\* The transaction ends.
EndTx(x) ==
  /\ lock' = IF InTx(x) THEN None ELSE lock
  /\ req' = [req EXCEPT ![x] = IdleMint]

\* A mint that fails inside the lock: what the minter revoked stays revoked.
Fail(x) ==
  /\ EndTx(x)
  /\ excused' = excused \cup req[x].gone

\* The second check and the app path's rate limit, which may refuse; then the
\* minter is called.
MintLocked(x) ==
  /\ req[x].pc = "recheck" /\ InTx(x)
  /\ \/ /\ requireBound
        /\ req' = [req EXCEPT ![x].pc = "addUser"]
        /\ UNCHANGED <<lock, excused>>
     \/ Fail(x)
  /\ UNCHANGED <<rotationVars, bound, user, tokens, issued, teardown, down>>

\* A command upstream fails, or the answer is lost or unusable.
MinterFails(x) ==
  /\ req[x].pc \in Upstream
  /\ Fail(x)
  /\ UNCHANGED <<rotationVars, bound, user, tokens, issued, teardown, down>>

\* Seal and upsert, in a savepoint; it fails if the connection is gone.
Upsert(x) ==
  /\ req[x].pc = "store"
  /\ \/ /\ InTx(x)
        /\ req' = [req EXCEPT ![x].pc = "commit"]
        /\ UNCHANGED <<lock, excused>>
     \/ Fail(x)
  /\ UNCHANGED <<rotationVars, bound, user, tokens, issued, teardown, down>>

Commit(x) ==
  /\ req[x].pc = "commit" /\ InTx(x)
  /\ sealed' = [sealed EXCEPT ![App] = Seal(req[x].token)]
  /\ EndTx(x)
  /\ UNCHANGED <<ring, command, passed, bound, user, tokens, issued, teardown, excused, down>>

\* The connection breaks: Postgres ends the transaction and frees the lock.
LoseConnection(x) ==
  /\ InTx(x)
  /\ lock' = None
  /\ \/ /\ req[x].pc \in Upstream \cup {"store"}    \* found out by the upsert
        /\ UNCHANGED <<req, excused>>
     \/ /\ req[x].pc \in {"recheck", "commit"}      \* the statement under way fails
        /\ req' = [req EXCEPT ![x] = IdleMint]
        /\ excused' = excused \cup req[x].gone
  /\ UNCHANGED <<rotationVars, bound, user, tokens, issued, teardown, down>>

\* The operator's DELETE: without the lock, and ntfy keeps the token.
Remove ==
  /\ sealed[App] # None
  /\ sealed' = [sealed EXCEPT ![App] = None]
  /\ UNCHANGED <<ring, command, passed, publisherVars>>

(***************************************************************************)
(* provisioning-api: ProvisionApp.                                         *)
(***************************************************************************)
\* The user may exist; the grant that follows changes nothing kept here.
AddUser(x) ==
  /\ req[x].pc = "addUser"
  /\ user' = TRUE
  /\ req' = [req EXCEPT ![x].pc = IF req[x].rotate THEN "list" ELSE "addToken"]
  /\ UNCHANGED <<rotationVars, bound, lock, tokens, issued, teardown, excused, down>>

ListTokens(x) ==
  /\ req[x].pc = "list" /\ user
  /\ req' = [req EXCEPT ![x] = [@ EXCEPT !.pc = IF tokens = {} THEN "addToken" ELSE "remove",
                                         !.left = tokens]]
  /\ UNCHANGED <<rotationVars, bound, lock, user, tokens, issued, teardown, excused, down>>

RemoveToken(x) ==
  /\ req[x].pc = "remove"
  /\ \E t \in req[x].left \cap tokens :
       LET left == req[x].left \ {t} IN
       /\ tokens' = tokens \ {t}
       /\ req' = [req EXCEPT ![x] = [req[x] EXCEPT !.left = left,
                                !.pc = IF left = {} THEN "addToken" ELSE "remove",
                                !.gone = req[x].gone \cup {t}]]
  /\ UNCHANGED <<rotationVars, bound, lock, user, issued, teardown, excused, down>>

AddToken(x) ==
  /\ req[x].pc = "addToken" /\ user /\ issued < MaxTokens
  /\ issued' = issued + 1
  /\ tokens' = tokens \cup {issued + 1}
  /\ req' = [req EXCEPT ![x] = [@ EXCEPT !.pc = "store", !.token = issued + 1]]
  /\ UNCHANGED <<rotationVars, bound, lock, user, teardown, excused, down>>

(***************************************************************************)
(* appteardown.Service, as far as the publisher is concerned.              *)
(***************************************************************************)
DeprovisionUpstream ==
  /\ teardown = "idle"
  /\ user' = FALSE /\ tokens' = {} /\ excused' = excused \cup tokens
  /\ teardown' \in {"unbind", "idle"}      \* the answer may be lost
  /\ UNCHANGED <<rotationVars, bound, req, lock, issued, down>>

Unbind ==
  /\ teardown = "unbind"
  /\ \/ bound' = FALSE /\ teardown' = "remove"
     \/ bound' \in {bound, FALSE} /\ teardown' = "idle"
  /\ UNCHANGED <<rotationVars, req, lock, user, tokens, issued, excused, down>>

\* Under the mint lock, or the cascade ends busy.  The objects' deletion that
\* follows is modelled in Registry.
RemoveExclusive ==
  /\ teardown = "remove"
  /\ \/ /\ lock = None
        /\ sealed' = [sealed EXCEPT ![App] = None]
        /\ down' = ~bound
        /\ UNCHANGED <<ring, command, passed>>
     \/ lock # None /\ UNCHANGED <<rotationVars, down>>
  /\ teardown' = "idle"
  /\ UNCHANGED <<bound, req, lock, user, tokens, issued, excused>>

\* An operator's approval binds the app anew.
Bind ==
  /\ ~bound
  /\ bound' = TRUE /\ down' = FALSE
  /\ UNCHANGED <<rotationVars, req, lock, user, tokens, issued, teardown, excused>>

(***************************************************************************)
(* The server is recreated, by a crash or to change its keys: transactions *)
(* are rolled back.                                                        *)
(***************************************************************************)
Recreate ==
  /\ req' = [x \in Mints |-> IdleMint] /\ lock' = None
  /\ teardown' = "idle"
  /\ excused' = excused \cup UNION {req[x].gone : x \in Mints}
  /\ UNCHANGED <<bound, user, tokens, issued, down>>

Crash ==
  /\ teardown # "idle" \/ \E x \in Mints : req[x].pc # "idle"
  /\ Recreate
  /\ UNCHANGED rotationVars

ChangeKeys == (DeployNewKey \/ DropPreviousKey) /\ Recreate

RotateKeys == RotationNext /\ UNCHANGED publisherVars

Step(x) ==
  \/ Mint(x) \/ WithAppMintLock(x) \/ MintLocked(x) \/ MinterFails(x) \/ Upsert(x) \/ Commit(x)
  \/ LoseConnection(x)
  \/ AddUser(x) \/ ListTokens(x) \/ RemoveToken(x) \/ AddToken(x)

Next ==
  \/ \E x \in Mints : Step(x)
  \/ Remove
  \/ DeprovisionUpstream \/ Unbind \/ RemoveExclusive \/ Bind
  \/ Crash \/ ChangeKeys \/ RotateKeys

Spec == Init /\ [][Next]_vars

-----------------------------------------------------------------------------
(***************************************************************************)
(* Properties.                                                             *)
(***************************************************************************)

\* ntfy accepts the stored token: overlapping mints, a removal in between, a
\* broken connection and a key rotation that loaded an earlier row never leave
\* a revoked token stored.  Excepted are the tokens revoked by a rotating mint
\* that is under way, or that failed after calling the minter (which the code
\* reports), and those a teardown deleted with the ntfy user.
StoredTokenIsLive ==
  sealed[App] # None =>
    sealed[App].text \in tokens \cup excused \cup UNION {req[x].gone : x \in Mints}

\* After a completed teardown no publisher is stored until the app is bound
\* again, whatever mint had passed its first binding check before it.
TornDownStaysDown == down => sealed[App] = None
=============================================================================
