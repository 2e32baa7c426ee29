--------------------------- MODULE PublisherProofs ---------------------------
(***************************************************************************)
(* The publisher's safety properties for any number of mint requests and   *)
(* of tokens.  The proof keeps the two halves of the specification apart:  *)
(* what the sealed rows, the server's keys and the rotation commands       *)
(* promise whoever writes the rows (RotationInv), and what the lock, the   *)
(* mints and the teardown promise whatever the rotation does (MintInv).    *)
(***************************************************************************)
EXTENDS Publisher, TLAPS

Key == {"old", "new"}
Blob == [text : Nat, key : Key]
Snapshot == UNION {[D -> Blob \ {None}] : D \in SUBSET Rows}

RotationTypeOK ==
  /\ sealed \in [Rows -> Blob \cup {None}]
  /\ ring \in [primary : Key, previous : Key \cup {None}]
  /\ command \in [pc : {"idle", "rotate"}, snapshot : Snapshot]
  /\ passed \in BOOLEAN

\* The server's keys over a rotation; verify-keys can pass only in the middle
\* of one or after it.
RingInv ==
  /\ ring.primary = "old" => ring.previous = None /\ ~passed
  /\ ring.previous \in {"old", None}

RotationInv == RotationTypeOK /\ RingInv /\ SealedStaysReadable

\* The phases in which a mint may hold the lock.
Held == {"recheck", "store", "commit"} \cup Upstream
Phase == {"idle", "begin"} \cup Held
MintRequest ==
  [pc : Phase, rotate : BOOLEAN, token : Nat, left : SUBSET Nat, gone : SUBSET Nat]

MintTypeOK ==
  /\ bound \in BOOLEAN /\ user \in BOOLEAN /\ down \in BOOLEAN
  /\ req \in [Mints -> MintRequest]
  /\ lock \in Mints \cup {None}
  /\ issued \in Nat /\ tokens \in SUBSET Nat /\ excused \in SUBSET Nat
  /\ teardown \in {"idle", "unbind", "remove"}

TypeOK == RotationTypeOK /\ MintTypeOK

Gone == UNION {req[x].gone : x \in Mints}
\* ntfy has the token, or it was revoked in one of the excepted ways.
Accounted == tokens \cup excused \cup Gone

LockInv == \A x \in Mints : lock = x => req[x].pc \in Held

\* A mint revokes tokens only after it has listed them, and issues a token
\* that none of those it has revoked can be.
IssueInv ==
  /\ tokens \subseteq 1..issued
  /\ \A x \in Mints :
       /\ req[x].pc \in {"idle", "begin", "recheck", "addUser", "list"} => req[x].gone = {}
       /\ req[x].gone \subseteq 1..issued
       /\ req[x].pc \in {"store", "commit"} => req[x].token \notin req[x].gone

\* The token that the holder of the lock is about to store is accounted for.
\* Of a mint that has lost the lock nothing of the kind holds: the next holder
\* may have revoked its token and committed.
HolderInv ==
  \A x \in Mints : lock = x /\ req[x].pc \in {"store", "commit"} => req[x].token \in Accounted

\* After a completed teardown whoever gets the lock is still before the second
\* binding check.
DownInv == down => ~bound /\ \A x \in Mints : lock = x => req[x].pc = "recheck"

MintInv == MintTypeOK /\ LockInv /\ IssueInv /\ HolderInv /\ DownInv
           /\ StoredTokenIsLive /\ TornDownStaysDown

Inv == RotationInv /\ MintInv
-----------------------------------------------------------------------------
(***************************************************************************)
(* The rows, the keys and the commands.                                    *)
(***************************************************************************)

LEMMA RotationInitInv == RotationInit => RotationInv
<1> SUFFICES ASSUME RotationInit PROVE RotationInv
  OBVIOUS
<1>1. Idle \in [pc : {"idle", "rotate"}, snapshot : Snapshot]
  <2>1. [r \in {} |-> None] \in [{} -> Blob \ {None}]
    OBVIOUS
  <2>2. [r \in {} |-> None] \in Snapshot
    BY <2>1 DEF Snapshot
  <2> QED
    BY <2>2 DEF Idle
<1> QED
  BY <1>1 DEF RotationInit, RotationInv, RotationTypeOK, RingInv, SealedStaysReadable, Key

\* The upsert of a mint keeps what the rotation relies on.
LEMMA StoreKeepsRotation ==
  ASSUME RotationInv, NEW t \in Nat,
         sealed' = [sealed EXCEPT ![App] = Seal(t)], UNCHANGED <<ring, command, passed>>
  PROVE  RotationInv'
<1>1. Seal(t) \in Blob /\ Seal(t).key = ring.primary
  BY DEF RotationInv, RotationTypeOK, Blob, Seal
<1>2. RotationTypeOK'
  BY <1>1, RowAssumption DEF RotationInv, RotationTypeOK
<1>3. SealedStaysReadable'
  BY <1>1 DEF RotationInv, RotationTypeOK, SealedStaysReadable, Opens
<1> QED
  BY <1>2, <1>3 DEF RotationInv, RingInv

\* So does the removal of the row, or its staying as it is.
LEMMA DeleteKeepsRotation ==
  ASSUME RotationInv, sealed' \in {sealed, [sealed EXCEPT ![App] = None]},
         UNCHANGED <<ring, command, passed>>
  PROVE  RotationInv'
<1>2. RotationTypeOK'
  BY RowAssumption DEF RotationInv, RotationTypeOK
<1>3. SealedStaysReadable'
  BY DEF RotationInv, RotationTypeOK, SealedStaysReadable, Opens
<1> QED
  BY <1>2, <1>3 DEF RotationInv, RingInv

\* A row visited by rotate-keys: resealed under the server's primary key with
\* the plaintext it has, or left as it is.
LEMMA RotateRow ==
  ASSUME RotationInv, NEW r \in Rows, Rotate(r)
  PROVE  /\ RotationInv'
         /\ \A s \in Rows : \/ sealed'[s] = sealed[s]
                            \/ /\ sealed[s] # None
                               /\ sealed'[s] \in Blob
                               /\ sealed'[s].text = sealed[s].text
                               /\ sealed'[s].key = ring.primary
<1>0. PICK D \in SUBSET Rows : command.snapshot \in [D -> Blob \ {None}]
  BY DEF RotationInv, RotationTypeOK, Snapshot
<1>1. r \in D /\ UNCHANGED <<ring, passed>>
  BY <1>0 DEF Rotate
<1>2. PICK blob \in Blob \ {None} : blob = command.snapshot[r]
  BY <1>0, <1>1
<1>3. Seal(blob.text) \in Blob /\ Seal(blob.text).key = ring.primary
      /\ Seal(blob.text).text = blob.text
  BY DEF RotationInv, RotationTypeOK, Blob, Seal
<1>4. \/ sealed' = sealed
      \/ /\ sealed[r] = blob /\ Opens(ring, blob) /\ blob.key # ring.primary
         /\ sealed' = [sealed EXCEPT ![r] = Seal(blob.text)]
  BY <1>2 DEF Rotate, updateSealed
<1>5. Without(command.snapshot, r) \in [D \ {r} -> Blob \ {None}]
  BY <1>0 DEF Without
<1>6. Without(command.snapshot, r) \in Snapshot
  BY <1>5 DEF Snapshot
<1>7. command' \in [pc : {"idle", "rotate"}, snapshot : Snapshot]
  BY <1>6 DEF Rotate, RotationInv, RotationTypeOK
<1>8. RotationTypeOK'
  BY <1>1, <1>3, <1>4, <1>7 DEF RotationInv, RotationTypeOK
<1>9. SealedStaysReadable'
  BY <1>1, <1>3, <1>4 DEF RotationInv, RotationTypeOK, SealedStaysReadable, Opens
<1>10. RotationInv'
  BY <1>1, <1>8, <1>9 DEF RotationInv, RingInv
<1> QED
  BY <1>10, <1>3, <1>4 DEF RotationInv, RotationTypeOK

\* What a step of the commands leaves of a row: its plaintext.
RowsKept ==
  \A s \in Rows : sealed'[s] # None => /\ sealed[s] # None
                                       /\ sealed'[s].text = sealed[s].text

LEMMA RotationStep ==
  ASSUME RotationInv, RotationNext
  PROVE  RotationInv' /\ RowsKept
<1>1. CASE runRotateKeys
  <2>1. loadRows \in Snapshot
    <3>1. loadRows \in [{s \in Rows : sealed[s] # None} -> Blob \ {None}]
      BY DEF loadRows, RotationInv, RotationTypeOK
    <3> QED
      BY <3>1 DEF Snapshot
  <2>2. command' \in [pc : {"idle", "rotate"}, snapshot : Snapshot]
    BY <1>1, <2>1 DEF runRotateKeys, Idle
  <2> QED
    BY <1>1, <2>2 DEF runRotateKeys, RotationInv, RotationTypeOK, RingInv, SealedStaysReadable,
                      Opens, RowsKept
<1>2. CASE EndRotate
  <2>1. [r \in {} |-> None] \in [{} -> Blob \ {None}]
    OBVIOUS
  <2>2. [r \in {} |-> None] \in Snapshot
    BY <2>1 DEF Snapshot
  <2>3. command' \in [pc : {"idle", "rotate"}, snapshot : Snapshot]
    BY <1>2, <2>2 DEF EndRotate, Idle
  <2> QED
    BY <1>2, <2>3 DEF EndRotate, RotationInv, RotationTypeOK, RingInv, SealedStaysReadable,
                      Opens, RowsKept
<1>3. CASE runVerifyKeys
  <2>1. UNCHANGED <<sealed, ring, command>> /\ passed' = TRUE /\ ring.previous # None
    BY <1>3 DEF runVerifyKeys
  <2>2. ASSUME NEW r \in Rows, sealed[r] # None
        PROVE  sealed[r].key = ring.primary
    <3>1. r \in DOMAIN loadRows /\ loadRows[r] = sealed[r]
      BY <2>2 DEF loadRows
    <3>2. sealed[r].key \in {ring.primary, None}
      BY <1>3, <3>1 DEF runVerifyKeys, Opens, PrimaryOnly, RotationInv, RotationTypeOK
    <3>3. sealed[r].key \in Key
      BY <2>2 DEF RotationInv, RotationTypeOK, Blob
    <3> QED
      BY <3>2, <3>3, KeyAssumption DEF Key
  <2>3. SealedStaysReadable'
    BY <2>1, <2>2 DEF RotationInv, SealedStaysReadable, Opens
  <2> QED
    BY <2>1, <2>3 DEF RotationInv, RotationTypeOK, RingInv, RowsKept
<1>4. ASSUME NEW r \in Rows, Rotate(r)
      PROVE  RotationInv' /\ RowsKept
  BY <1>4, RotateRow DEF RowsKept
<1> QED
  BY <1>1, <1>2, <1>3, <1>4 DEF RotationNext

\* The operator's change of keys: no row is unreadable with the new ring.
LEMMA KeysStep ==
  ASSUME RotationInv, DeployNewKey \/ DropPreviousKey
  PROVE  RotationInv' /\ sealed' = sealed
<1>1. \A r \in Rows : sealed[r] # None => sealed[r].key \in Key
  BY DEF RotationInv, RotationTypeOK, Blob
<1>2. CASE DeployNewKey
  <2>1. /\ UNCHANGED <<sealed, command, passed>> /\ ring.primary = "old" /\ ring.previous = None
        /\ ~passed /\ ring' = [primary |-> "new", previous |-> "old"]
    BY <1>2 DEF DeployNewKey, RotationInv, RingInv
  <2>2. SealedStaysReadable'
    BY <2>1, <1>1, KeyAssumption DEF Key, RotationInv, SealedStaysReadable, Opens
  <2> QED
    BY <2>1, <2>2 DEF RotationInv, RotationTypeOK, RingInv, Key
<1>3. CASE DropPreviousKey
  <2>1. /\ UNCHANGED <<sealed, command, passed>> /\ passed
        /\ ring' = [ring EXCEPT !.previous = None]
    BY <1>3 DEF DropPreviousKey
  <2>2. SealedStaysReadable'
    BY <2>1 DEF RotationInv, RotationTypeOK, SealedStaysReadable, Opens
  <2> QED
    BY <2>1, <2>2 DEF RotationInv, RotationTypeOK, RingInv, Key
<1> QED
  BY <1>2, <1>3

-----------------------------------------------------------------------------
(***************************************************************************)
(* The mints, the removal and the teardown.                                *)
(***************************************************************************)
LEMMA IdleMintType == IdleMint \in MintRequest /\ IdleMint.pc = "idle" /\ IdleMint.gone = {}
BY DEF IdleMint, MintRequest, Phase

LEMMA MintInitInv == Init => MintInv
<1> SUFFICES ASSUME Init PROVE MintInv
  OBVIOUS
<1>1. MintTypeOK
  BY IdleMintType DEF Init, MintTypeOK
<1>2. LockInv /\ HolderInv
  BY MintAssumption DEF Init, LockInv, HolderInv
<1>3. IssueInv
  BY IdleMintType DEF Init, IssueInv
<1>4. StoredTokenIsLive /\ TornDownStaysDown /\ DownInv
  BY RowAssumption DEF Init, RotationInit, StoredTokenIsLive, TornDownStaysDown, DownInv
<1> QED
  BY <1>1, <1>2, <1>3, <1>4 DEF MintInv

\* A token that is accounted for stays so when no token leaves ntfy and what a
\* request had revoked is kept by it or excused.
LEMMA StaysAccounted ==
  ASSUME tokens \subseteq tokens', excused \subseteq excused',
         \A y \in Mints : req[y].gone \subseteq req'[y].gone \cup excused'
  PROVE  Accounted \subseteq Accounted'
BY DEF Accounted, Gone

\* A mint goes on to another phase inside its transaction.
LEMMA PhaseStep ==
  ASSUME MintInv, NEW x \in Mints, NEW p \in Held,
         req' = [req EXCEPT ![x].pc = p],
         lock' \in {lock, x}, lock' = lock \/ lock = None,
         UNCHANGED <<sealed, bound, tokens, issued, teardown, excused, down>>,
         user' \in BOOLEAN,
         p \in {"recheck", "addUser", "list"} => req[x].pc \in {"begin", "recheck", "addUser"},
         p = "addUser" => bound, p \in {"recheck", "addUser"} \/ req[x].pc # "recheck",
         lock' = x /\ p # "recheck" => lock = x,
         p = "commit" => req[x].pc = "store", p # "store"
  PROVE  MintInv'
<1>1. /\ req' \in [Mints -> MintRequest]
      /\ req'[x].pc = p /\ req'[x].gone = req[x].gone /\ req'[x].token = req[x].token
      /\ \A y \in Mints : y # x => req'[y] = req[y]
      /\ \A y \in Mints : req'[y].gone = req[y].gone
  BY DEF MintInv, MintTypeOK, MintRequest, Phase
<1>2. MintTypeOK'
  BY <1>1 DEF MintInv, MintTypeOK
<1>3. LockInv'
  BY <1>1 DEF MintInv, LockInv
<1>4. IssueInv'
  BY <1>1 DEF MintInv, IssueInv, Held, Upstream
<1>5. Accounted \subseteq Accounted'
  BY <1>1, StaysAccounted
<1>6. HolderInv'
  BY <1>1, <1>5, MintAssumption DEF MintInv, HolderInv
<1>7. DownInv'
  BY <1>1, MintAssumption DEF MintInv, DownInv
<1>8. StoredTokenIsLive' /\ TornDownStaysDown'
  BY <1>5 DEF MintInv, StoredTokenIsLive, TornDownStaysDown, Accounted, Gone
<1> QED
  BY <1>2, <1>3, <1>4, <1>6, <1>7, <1>8 DEF MintInv

\* A mint ends without storing anything, by itself, with its connection or by
\* being refused: what it has revoked becomes excused.
LEMMA EndStep ==
  ASSUME MintInv, NEW x \in Mints,
         req' = [req EXCEPT ![x] = IdleMint],
         lock' = IF lock = x THEN None ELSE lock,
         excused' = excused \cup req[x].gone,
         UNCHANGED <<sealed, bound, user, tokens, issued, teardown, down>>
  PROVE  MintInv'
<1>1. /\ req' \in [Mints -> MintRequest]
      /\ req'[x].pc = "idle" /\ req'[x].gone = {}
      /\ \A y \in Mints : y # x => req'[y] = req[y]
      /\ \A y \in Mints : req[y].gone \subseteq req'[y].gone \cup excused'
  BY IdleMintType DEF MintInv, MintTypeOK
<1>2. MintTypeOK'
  BY <1>1 DEF MintInv, MintTypeOK, MintRequest
<1>3. LockInv'
  BY <1>1, MintAssumption DEF MintInv, LockInv
<1>4. IssueInv'
  BY <1>1 DEF MintInv, IssueInv
<1>5. Accounted \subseteq Accounted'
  BY <1>1, StaysAccounted
<1>6. HolderInv'
  BY <1>1, <1>5, MintAssumption DEF MintInv, HolderInv
<1>7. DownInv'
  BY <1>1, MintAssumption DEF MintInv, DownInv
<1>8. StoredTokenIsLive' /\ TornDownStaysDown'
  BY <1>5 DEF MintInv, StoredTokenIsLive, TornDownStaysDown, Accounted, Gone
<1> QED
  BY <1>2, <1>3, <1>4, <1>6, <1>7, <1>8 DEF MintInv

\* The commit: what x had revoked is forgotten, and what it stores is not among it.
LEMMA CommitStep ==
  ASSUME MintInv, NEW x \in Mints, Commit(x), Seal(req[x].token).text = req[x].token,
         sealed'[App] = Seal(req[x].token)
  PROVE  MintInv'
<1>0. /\ lock = x /\ req[x].pc = "commit" /\ lock' = None
      /\ req' = [req EXCEPT ![x] = IdleMint]
      /\ UNCHANGED <<bound, user, tokens, issued, teardown, excused, down>>
  BY DEF Commit, InTx, EndTx
<1>1. /\ req' \in [Mints -> MintRequest]
      /\ req'[x].pc = "idle" /\ req'[x].gone = {}
      /\ \A y \in Mints : y # x => req'[y] = req[y]
  BY <1>0, IdleMintType DEF MintInv, MintTypeOK
<1>2. MintTypeOK'
  BY <1>0, <1>1 DEF MintInv, MintTypeOK
<1>3. LockInv' /\ HolderInv'
  BY <1>0, MintAssumption DEF LockInv, HolderInv
<1>4. IssueInv'
  BY <1>0, <1>1 DEF MintInv, IssueInv
<1>5. ~down
  BY <1>0 DEF MintInv, DownInv
<1>6. req[x].token \in Accounted /\ req[x].token \notin req[x].gone
  BY <1>0 DEF MintInv, HolderInv, IssueInv
<1>7. req[x].token \in Accounted'
  <2>1. CASE req[x].token \in tokens \cup excused
    BY <2>1, <1>0 DEF Accounted
  <2>2. CASE req[x].token \notin tokens \cup excused
    <3>1. PICK y \in Mints : req[x].token \in req[y].gone
      BY <2>2, <1>6 DEF Accounted, Gone
    <3>2. y # x
      BY <3>1, <1>6
    <3> QED
      BY <3>1, <3>2, <1>1 DEF Accounted, Gone
  <2> QED
    BY <2>1, <2>2
<1>8. StoredTokenIsLive'
  BY <1>7 DEF StoredTokenIsLive, Accounted, Gone
<1> QED
  BY <1>0, <1>2, <1>3, <1>4, <1>5, <1>8 DEF MintInv, DownInv, TornDownStaysDown

\* The connection is lost while the minter is at work: x goes on, without the lock.
LEMMA DetachStep ==
  ASSUME MintInv, lock' = None,
         UNCHANGED <<sealed, bound, req, user, tokens, issued, teardown, excused, down>>
  PROVE  MintInv'
<1>1. MintTypeOK' /\ IssueInv'
  BY DEF MintInv, MintTypeOK, IssueInv
<1>2. LockInv' /\ HolderInv' /\ DownInv'
  BY MintAssumption DEF MintInv, LockInv, HolderInv, DownInv
<1>3. StoredTokenIsLive' /\ TornDownStaysDown'
  BY DEF MintInv, StoredTokenIsLive, TornDownStaysDown
<1> QED
  BY <1>1, <1>2, <1>3 DEF MintInv

\* A new request.
LEMMA BeginStep ==
  ASSUME MintInv, NEW x \in Mints, Mint(x)
  PROVE  MintInv'
<1>0. PICK rotate \in BOOLEAN :
        req' = [req EXCEPT ![x] = [IdleMint EXCEPT !.pc = "begin", !.rotate = rotate]]
  BY DEF Mint
<1>1. /\ UNCHANGED <<sealed, bound, lock, user, tokens, issued, teardown, excused, down>>
      /\ req[x].pc = "idle" /\ req[x].gone = {}
  BY DEF Mint, rotationVars, MintInv, IssueInv
<1>2. /\ req' \in [Mints -> MintRequest]
      /\ req'[x].pc = "begin" /\ req'[x].gone = {}
      /\ \A y \in Mints : y # x => req'[y] = req[y]
  BY <1>0 DEF MintInv, MintTypeOK, IdleMint, MintRequest, Phase
<1>3. lock # x
  BY <1>1 DEF MintInv, LockInv, Held, Upstream
<1>4. MintTypeOK' /\ LockInv'
  BY <1>1, <1>2, <1>3 DEF MintInv, MintTypeOK, LockInv
<1>5. IssueInv'
  BY <1>1, <1>2 DEF MintInv, IssueInv
<1>6. Accounted \subseteq Accounted'
  BY <1>1, <1>2, StaysAccounted
<1>7. HolderInv' /\ DownInv'
  BY <1>1, <1>2, <1>3, <1>6 DEF MintInv, HolderInv, DownInv
<1>8. StoredTokenIsLive' /\ TornDownStaysDown'
  BY <1>1, <1>6 DEF MintInv, StoredTokenIsLive, TornDownStaysDown, Accounted, Gone
<1> QED
  BY <1>4, <1>5, <1>7, <1>8 DEF MintInv

\* provisioning-api lists, revokes and issues tokens.
LEMMA ListStep ==
  ASSUME MintInv, NEW x \in Mints, ListTokens(x)
  PROVE  MintInv'
<1>1. /\ UNCHANGED <<sealed, bound, lock, user, tokens, issued, teardown, excused, down>>
      /\ req[x].pc = "list"
      /\ req' = [req EXCEPT ![x] = [@ EXCEPT !.pc = IF tokens = {} THEN "addToken" ELSE "remove",
                                             !.left = tokens]]
  BY DEF ListTokens, rotationVars
<1>2. /\ req' \in [Mints -> MintRequest]
      /\ req'[x].pc \in {"addToken", "remove"}
      /\ req'[x].gone = req[x].gone
      /\ \A y \in Mints : y # x => req'[y] = req[y]
  BY <1>1 DEF MintInv, MintTypeOK, MintRequest, Phase, Held, Upstream
<1>4. MintTypeOK' /\ LockInv'
  BY <1>1, <1>2 DEF MintInv, MintTypeOK, LockInv, Held, Upstream
<1>5. IssueInv'
  BY <1>1, <1>2 DEF MintInv, IssueInv
<1>6. Accounted \subseteq Accounted'
  BY <1>1, <1>2, StaysAccounted
<1>7. HolderInv' /\ DownInv'
  BY <1>1, <1>2, <1>6 DEF MintInv, HolderInv, DownInv
<1>8. StoredTokenIsLive' /\ TornDownStaysDown'
  BY <1>1, <1>6 DEF MintInv, StoredTokenIsLive, TornDownStaysDown, Accounted, Gone
<1> QED
  BY <1>4, <1>5, <1>7, <1>8 DEF MintInv

LEMMA RevokeStep ==
  ASSUME MintInv, NEW x \in Mints, RemoveToken(x)
  PROVE  MintInv'
<1>0. PICK t \in req[x].left \cap tokens :
        /\ tokens' = tokens \ {t}
        /\ req' = [req EXCEPT ![x] = [req[x] EXCEPT !.left = req[x].left \ {t},
                            !.pc = IF req[x].left \ {t} = {} THEN "addToken" ELSE "remove",
                            !.gone = req[x].gone \cup {t}]]
  BY DEF RemoveToken
<1>1. /\ UNCHANGED <<sealed, bound, lock, user, issued, teardown, excused, down>>
      /\ req[x].pc = "remove"
  BY DEF RemoveToken, rotationVars
<1>2. /\ req' \in [Mints -> MintRequest]
      /\ req'[x].pc \in {"addToken", "remove"}
      /\ req'[x].gone = req[x].gone \cup {t}
      /\ \A y \in Mints : y # x => req'[y] = req[y]
  <2>1. req[x] \in MintRequest /\ t \in Nat
    BY <1>0 DEF MintInv, MintTypeOK
  <2>2. PICK q : q = [req[x] EXCEPT !.left = req[x].left \ {t},
                                    !.pc = IF req[x].left \ {t} = {} THEN "addToken" ELSE "remove",
                                    !.gone = req[x].gone \cup {t}]
    OBVIOUS
  <2>3. q \in MintRequest /\ q.pc \in {"addToken", "remove"} /\ q.gone = req[x].gone \cup {t}
    BY <2>1, <2>2, <1>1 DEF MintRequest, Phase, Held, Upstream
  <2>4. req' = [req EXCEPT ![x] = q]
    BY <2>2, <1>0
  <2> QED
    BY <2>3, <2>4 DEF MintInv, MintTypeOK
<1>4. MintTypeOK' /\ LockInv'
  BY <1>0, <1>1, <1>2 DEF MintInv, MintTypeOK, LockInv, Held, Upstream
<1>5. IssueInv'
  BY <1>0, <1>1, <1>2 DEF MintInv, IssueInv
<1>6. ASSUME NEW u \in Accounted
      PROVE  u \in Accounted'
  <2>1. \A y \in Mints : req[y].gone \subseteq req'[y].gone
    BY <1>2
  <2>2. t \in req'[x].gone
    BY <1>2
  <2> QED
    BY <2>1, <2>2, <1>0, <1>1 DEF Accounted, Gone
<1>7. HolderInv' /\ DownInv'
  BY <1>1, <1>2, <1>6 DEF MintInv, HolderInv, DownInv
<1>8. StoredTokenIsLive' /\ TornDownStaysDown'
  BY <1>1, <1>6 DEF MintInv, StoredTokenIsLive, TornDownStaysDown, Accounted, Gone
<1> QED
  BY <1>4, <1>5, <1>7, <1>8 DEF MintInv

LEMMA IssueStep ==
  ASSUME MintInv, NEW x \in Mints, AddToken(x)
  PROVE  MintInv'
<1>1. /\ UNCHANGED <<sealed, bound, lock, user, teardown, excused, down>>
      /\ req[x].pc = "addToken"
      /\ issued' = issued + 1 /\ tokens' = tokens \cup {issued + 1}
      /\ req' = [req EXCEPT ![x] = [@ EXCEPT !.pc = "store", !.token = issued + 1]]
  BY DEF AddToken, rotationVars
<1>2. /\ req' \in [Mints -> MintRequest]
      /\ req'[x].pc = "store" /\ req'[x].token = issued + 1
      /\ req'[x].gone = req[x].gone
      /\ \A y \in Mints : y # x => req'[y] = req[y]
  <2>1. req[x] \in MintRequest /\ issued + 1 \in Nat
    BY DEF MintInv, MintTypeOK
  <2>2. PICK q : q = [req[x] EXCEPT !.pc = "store", !.token = issued + 1]
    OBVIOUS
  <2>3. q \in MintRequest /\ q.pc = "store" /\ q.token = issued + 1 /\ q.gone = req[x].gone
    BY <2>1, <2>2 DEF MintRequest, Phase, Held
  <2>4. req' = [req EXCEPT ![x] = q]
    BY <2>2, <1>1
  <2> QED
    BY <2>3, <2>4 DEF MintInv, MintTypeOK
<1>3. issued \in Nat /\ 1..issued \subseteq 1..issued' /\ issued + 1 \notin 1..issued
      /\ issued + 1 \in 1..issued'
  BY <1>1 DEF MintInv, MintTypeOK
<1>4. MintTypeOK' /\ LockInv'
  BY <1>1, <1>2, <1>3 DEF MintInv, MintTypeOK, LockInv, Held, Upstream
<1>5. IssueInv'
  <2>1. issued + 1 \notin req[x].gone /\ req[x].gone \subseteq 1..issued'
    BY <1>3 DEF MintInv, IssueInv
  <2>2. \A y \in Mints : req'[y].gone \subseteq 1..issued'
    BY <2>1, <1>2, <1>3 DEF MintInv, IssueInv
  <2>3. tokens' \subseteq 1..issued'
    BY <1>1, <1>3 DEF MintInv, IssueInv
  <2> QED
    BY <2>1, <2>2, <2>3, <1>2 DEF MintInv, IssueInv
<1>6. Accounted \subseteq Accounted' /\ issued + 1 \in Accounted'
  BY <1>1, <1>2, StaysAccounted DEF Accounted
<1>7. HolderInv' /\ DownInv'
  BY <1>1, <1>2, <1>6 DEF MintInv, HolderInv, DownInv
<1>8. StoredTokenIsLive' /\ TornDownStaysDown'
  BY <1>1, <1>6 DEF MintInv, StoredTokenIsLive, TornDownStaysDown, Accounted, Gone
<1> QED
  BY <1>4, <1>5, <1>7, <1>8 DEF MintInv

\* The upstream removal deletes the ntfy user and excuses its tokens.
LEMMA DeprovisionStep ==
  ASSUME MintInv, DeprovisionUpstream
  PROVE  MintInv'
<1>1. /\ UNCHANGED <<sealed, bound, req, lock, issued, down>>
      /\ tokens' = {} /\ excused' = excused \cup tokens /\ user' = FALSE
      /\ teardown' \in {"unbind", "idle"}
  BY DEF DeprovisionUpstream, rotationVars
<1>2. MintTypeOK' /\ LockInv' /\ IssueInv' /\ DownInv'
  BY <1>1 DEF MintInv, MintTypeOK, LockInv, IssueInv, DownInv
<1>3. Accounted \subseteq Accounted'
  BY <1>1 DEF Accounted, Gone
<1>4. HolderInv'
  BY <1>1, <1>3 DEF MintInv, HolderInv
<1>5. StoredTokenIsLive' /\ TornDownStaysDown'
  BY <1>1, <1>3 DEF MintInv, StoredTokenIsLive, TornDownStaysDown, Accounted, Gone
<1> QED
  BY <1>2, <1>4, <1>5 DEF MintInv

\* The row is removed, or the binding comes or goes, and no mint takes part.
LEMMA RowStep ==
  ASSUME MintInv, UNCHANGED <<req, lock, user, tokens, issued, excused>>,
         bound' \in BOOLEAN, down' \in BOOLEAN, teardown' \in {"idle", "unbind", "remove"},
         sealed'[App] # None => sealed[App] # None /\ sealed'[App].text = sealed[App].text,
         down' => /\ down \/ (lock = None /\ sealed'[App] = None)
                  /\ ~bound'
  PROVE  MintInv'
<1>1. MintTypeOK' /\ LockInv' /\ IssueInv'
  BY DEF MintInv, MintTypeOK, LockInv, IssueInv
<1>2. HolderInv' /\ DownInv'
  BY MintAssumption DEF MintInv, HolderInv, DownInv, Accounted, Gone
<1>3. StoredTokenIsLive' /\ TornDownStaysDown'
  BY DEF MintInv, StoredTokenIsLive, TornDownStaysDown
<1> QED
  BY <1>1, <1>2, <1>3 DEF MintInv

\* A crash or a change of keys ends every mint and the cascade.
LEMMA RecreateStep ==
  ASSUME MintInv, Recreate, sealed' = sealed
  PROVE  MintInv'
<1>1. /\ req' = [x \in Mints |-> IdleMint] /\ lock' = None /\ teardown' = "idle"
      /\ excused' = excused \cup Gone
      /\ UNCHANGED <<bound, user, tokens, issued, down>>
  BY DEF Recreate, Gone
<1>2. /\ req' \in [Mints -> MintRequest]
      /\ \A x \in Mints : req'[x].pc = "idle" /\ req'[x].gone = {}
      /\ Gone \in SUBSET Nat
  <2>1. Gone \in SUBSET Nat
    BY DEF MintInv, MintTypeOK, Gone, MintRequest
  <2> QED
    BY <2>1, <1>1, IdleMintType
<1>3. MintTypeOK' /\ IssueInv'
  BY <1>1, <1>2 DEF MintInv, MintTypeOK, IssueInv
<1>4. LockInv' /\ HolderInv' /\ DownInv'
  BY <1>1, MintAssumption DEF MintInv, LockInv, HolderInv, DownInv
<1>5. Accounted \subseteq Accounted'
  BY <1>1 DEF Accounted
<1>6. StoredTokenIsLive' /\ TornDownStaysDown'
  BY <1>1, <1>5 DEF MintInv, StoredTokenIsLive, TornDownStaysDown, Accounted, Gone
<1> QED
  BY <1>3, <1>4, <1>6 DEF MintInv

-----------------------------------------------------------------------------
LEMMA StepInv ==
  ASSUME Inv, NEW x \in Mints, Step(x)
  PROVE  Inv'
<1>0. MintInv /\ RotationInv /\ req[x] \in MintRequest
  BY DEF Inv, MintInv, MintTypeOK
<1>1. UNCHANGED rotationVars => RotationInv'
  BY DeleteKeepsRotation DEF Inv, rotationVars
<1>2. ASSUME Fail(x), UNCHANGED <<rotationVars, bound, user, tokens, issued, teardown, down>>
      PROVE  MintInv'
  BY <1>2, <1>0, EndStep DEF Fail, EndTx, InTx, rotationVars
<1>3. CASE Mint(x)
  BY <1>3, <1>0, <1>1, BeginStep DEF Inv, Mint
<1>4. CASE WithAppMintLock(x)
  <2>1. /\ UNCHANGED <<rotationVars, bound, user, tokens, issued, teardown, excused, down>>
        /\ req[x].pc = "begin"
    BY <1>4 DEF WithAppMintLock
  <2>2. req[x].gone = {} /\ lock # x
    BY <2>1, <1>0 DEF MintInv, IssueInv, LockInv, Held, Upstream
  <2>3. CASE lock = None /\ lock' = x /\ req' = [req EXCEPT ![x].pc = "recheck"]
    <3>1. user' \in BOOLEAN
      BY <2>1, <1>0 DEF MintInv, MintTypeOK
    <3>2. "recheck" \in Held /\ UNCHANGED sealed
      BY <2>1 DEF Held, rotationVars
    <3>3. MintInv'
      BY <2>1, <2>3, <3>1, <3>2, <1>0, PhaseStep
    <3> QED
      BY <2>1, <3>3, <1>1 DEF Inv
  <2>4. CASE lock # None /\ req' = [req EXCEPT ![x] = IdleMint] /\ lock' = lock
    <3>1. excused' = excused \cup req[x].gone
      BY <2>1, <2>2
    <3> QED
      BY <2>1, <2>2, <2>4, <3>1, <1>0, <1>1, EndStep DEF Inv, rotationVars
  <2> QED
    BY <1>4, <2>3, <2>4 DEF WithAppMintLock
<1>5. CASE MintLocked(x)
  <2>1. /\ UNCHANGED <<rotationVars, bound, user, tokens, issued, teardown, down>>
        /\ req[x].pc = "recheck" /\ lock = x
    BY <1>5 DEF MintLocked, InTx
  <2>2. CASE bound /\ req' = [req EXCEPT ![x].pc = "addUser"] /\ UNCHANGED <<lock, excused>>
    <3>1. user' \in BOOLEAN
      BY <2>1, <1>0 DEF MintInv, MintTypeOK
    <3>2. "addUser" \in Held /\ UNCHANGED sealed
      BY <2>1 DEF Held, Upstream, rotationVars
    <3>3. MintInv'
      BY <2>1, <2>2, <3>1, <3>2, <1>0, PhaseStep
    <3> QED
      BY <2>1, <3>3, <1>1 DEF Inv
  <2> QED
    BY <1>5, <2>1, <2>2, <1>1, <1>2 DEF Inv, MintLocked, requireBound
<1>6. CASE MinterFails(x)
  BY <1>6, <1>1, <1>2 DEF Inv, MinterFails
<1>7. CASE Upsert(x)
  <2>1. /\ UNCHANGED <<rotationVars, bound, user, tokens, issued, teardown, down>>
        /\ req[x].pc = "store"
    BY <1>7 DEF Upsert
  <2>2. CASE lock = x /\ req' = [req EXCEPT ![x].pc = "commit"] /\ UNCHANGED <<lock, excused>>
    <3>1. user' \in BOOLEAN
      BY <2>1, <1>0 DEF MintInv, MintTypeOK
    <3>2. "commit" \in Held /\ UNCHANGED sealed
      BY <2>1 DEF Held, Upstream, rotationVars
    <3>3. MintInv'
      BY <2>1, <2>2, <3>1, <3>2, <1>0, PhaseStep
    <3> QED
      BY <2>1, <3>3, <1>1 DEF Inv
  <2> QED
    BY <1>7, <2>1, <2>2, <1>1, <1>2 DEF Inv, Upsert, InTx
<1>8. CASE Commit(x)
  <2>1. sealed' = [sealed EXCEPT ![App] = Seal(req[x].token)] /\ UNCHANGED <<ring, command, passed>>
    BY <1>8 DEF Commit
  <2>2. req[x].token \in Nat /\ Seal(req[x].token).text = req[x].token
    BY <1>0 DEF MintRequest, Seal
  <2>3. sealed'[App] = Seal(req[x].token)
    BY <2>1, <1>0, RowAssumption DEF RotationInv, RotationTypeOK
  <2> QED
    BY <1>8, <1>0, <2>1, <2>2, <2>3, CommitStep, StoreKeepsRotation DEF Inv
<1>9. CASE LoseConnection(x)
  <2>1. /\ UNCHANGED <<rotationVars, bound, user, tokens, issued, teardown, down>>
        /\ lock = x /\ lock' = None
    BY <1>9 DEF LoseConnection, InTx
  <2>2. CASE UNCHANGED <<req, excused>>
    BY <2>1, <2>2, <1>0, <1>1, DetachStep DEF Inv, rotationVars
  <2>3. CASE req' = [req EXCEPT ![x] = IdleMint] /\ excused' = excused \cup req[x].gone
    BY <2>1, <2>3, <1>0, <1>1, EndStep DEF Inv, rotationVars
  <2> QED
    BY <1>9, <2>2, <2>3 DEF LoseConnection
<1>10. CASE AddUser(x)
  <2>1. /\ UNCHANGED <<rotationVars, bound, lock, tokens, issued, teardown, excused, down>>
        /\ req[x].pc = "addUser" /\ user' \in BOOLEAN
    BY <1>10 DEF AddUser
  <2>2. PICK p \in {"list", "addToken"} : req' = [req EXCEPT ![x].pc = p]
    BY <1>10 DEF AddUser
  <2> QED
    BY <2>1, <2>2, <1>0, <1>1, PhaseStep DEF Inv, rotationVars, Held, Upstream
<1>11. CASE ListTokens(x)
  BY <1>11, <1>0, <1>1, ListStep DEF Inv, ListTokens
<1>12. CASE RemoveToken(x)
  BY <1>12, <1>0, <1>1, RevokeStep DEF Inv, RemoveToken
<1>13. CASE AddToken(x)
  BY <1>13, <1>0, <1>1, IssueStep DEF Inv, AddToken
<1> QED
  BY <1>3, <1>4, <1>5, <1>6, <1>7, <1>8, <1>9, <1>10, <1>11, <1>12, <1>13 DEF Step

LEMMA NextInv ==
  ASSUME Inv, [Next]_vars
  PROVE  Inv'
<1>0. MintInv /\ RotationInv /\ MintTypeOK /\ RotationTypeOK
  BY DEF Inv, MintInv, RotationInv
<1>1. UNCHANGED rotationVars => RotationInv'
  BY <1>0, DeleteKeepsRotation DEF rotationVars
<1>2. CASE Remove
  <2>1. sealed' = [sealed EXCEPT ![App] = None] /\ UNCHANGED <<ring, command, passed, publisherVars>>
    BY <1>2 DEF Remove
  <2>2. sealed'[App] = None
    BY <2>1, <1>0, RowAssumption DEF RotationTypeOK
  <2>3. RotationInv'
    BY <2>1, <1>0, DeleteKeepsRotation
  <2>4. MintInv'
    BY <2>1, <2>2, <1>0, RowStep DEF publisherVars, MintInv, MintTypeOK, DownInv
  <2> QED
    BY <2>3, <2>4 DEF Inv
<1>3. CASE DeprovisionUpstream
  BY <1>3, <1>0, <1>1, DeprovisionStep DEF Inv, DeprovisionUpstream
<1>4. CASE Unbind
  <2>1. /\ UNCHANGED <<rotationVars, req, lock, user, tokens, issued, excused, down>>
        /\ bound' \in {bound, FALSE} /\ teardown' \in {"idle", "remove"}
    BY <1>4 DEF Unbind
  <2>2. bound' \in BOOLEAN /\ down' \in BOOLEAN /\ (down' => down /\ ~bound')
    <3>1. CASE bound' = bound
      BY <2>1, <3>1, <1>0 DEF MintInv, MintTypeOK, DownInv
    <3>2. CASE bound' = FALSE
      BY <2>1, <3>2, <1>0 DEF MintInv, MintTypeOK, DownInv
    <3> QED
      BY <2>1, <3>1, <3>2
  <2>3. MintInv'
    BY <2>1, <2>2, <1>0, RowStep DEF rotationVars
  <2> QED
    BY <2>1, <2>3, <1>1 DEF Inv
<1>5. CASE RemoveExclusive
  <2>1. UNCHANGED <<bound, req, lock, user, tokens, issued, excused>> /\ teardown' = "idle"
    BY <1>5 DEF RemoveExclusive
  <2>2. CASE /\ lock = None /\ sealed' = [sealed EXCEPT ![App] = None]
             /\ down' = ~bound /\ UNCHANGED <<ring, command, passed>>
    <3>1. sealed'[App] = None
      BY <2>2, <1>0, RowAssumption DEF RotationTypeOK
    <3>2. down' \in BOOLEAN /\ bound' \in BOOLEAN /\ (down' => ~bound')
      BY <2>1, <2>2, <1>0 DEF MintTypeOK
    <3>3. MintInv'
      BY <2>1, <2>2, <3>1, <3>2, <1>0, RowStep
    <3> QED
      BY <2>2, <3>3, <1>0, DeleteKeepsRotation DEF Inv
  <2>3. CASE UNCHANGED <<rotationVars, down>>
    <3>1. MintInv'
      BY <2>1, <2>3, <1>0, RowStep DEF rotationVars, MintInv, MintTypeOK, DownInv
    <3> QED
      BY <2>3, <3>1, <1>1 DEF Inv
  <2> QED
    BY <1>5, <2>2, <2>3 DEF RemoveExclusive
<1>6. CASE Bind
  <2>1. /\ UNCHANGED <<rotationVars, req, lock, user, tokens, issued, teardown, excused>>
        /\ bound' = TRUE /\ down' = FALSE
    BY <1>6 DEF Bind
  <2>2. MintInv'
    BY <2>1, <1>0, RowStep DEF rotationVars, MintTypeOK
  <2> QED
    BY <2>1, <2>2, <1>1 DEF Inv
<1>7. CASE Crash
  BY <1>7, <1>0, <1>1, RecreateStep DEF Crash, Inv, rotationVars
<1>8. CASE ChangeKeys
  BY <1>8, <1>0, KeysStep, RecreateStep DEF ChangeKeys, Inv
<1>9. CASE RotateKeys
  <2>1. RotationInv' /\ RowsKept /\ UNCHANGED publisherVars
    BY <1>9, <1>0, RotationStep DEF RotateKeys
  <2>2. sealed'[App] # None => sealed[App] # None /\ sealed'[App].text = sealed[App].text
    BY <2>1, RowAssumption DEF RowsKept
  <2>3. MintInv'
    BY <2>1, <2>2, <1>0, RowStep DEF publisherVars, MintInv, MintTypeOK, DownInv
  <2> QED
    BY <2>1, <2>3 DEF Inv
<1>10. CASE UNCHANGED vars
  <2>1. MintInv'
    BY <1>10, <1>0, RowStep DEF vars, rotationVars, publisherVars, MintInv, MintTypeOK, DownInv
  <2> QED
    BY <1>10, <2>1, <1>1 DEF Inv, vars
<1> QED
  BY <1>2, <1>3, <1>4, <1>5, <1>6, <1>7, <1>8, <1>9, <1>10, StepInv DEF Next

LEMMA InvAlways == Spec => []Inv
<1>1. Init => Inv
  BY RotationInitInv, MintInitInv DEF Init, Inv
<1> QED
  BY <1>1, NextInv, PTL DEF Spec

(***************************************************************************)
(* The theorems.                                                           *)
(***************************************************************************)

\* The publisher's state keeps its types: requests, tokens, the lock, the
\* sealed rows, the keys and what the commands have loaded.
THEOREM TypeCorrect == Spec => []TypeOK
<1>1. Inv => TypeOK
  BY DEF Inv, RotationInv, MintInv, TypeOK
<1> QED
  BY <1>1, InvAlways, PTL

\* For any number of mints in flight, of tokens and of crashes, the stored token
\* is one ntfy accepts, but for the revocations the code reports.
THEOREM StoredTokenLive == Spec => []StoredTokenIsLive
<1>1. Inv => StoredTokenIsLive
  BY DEF Inv, MintInv
<1> QED
  BY <1>1, InvAlways, PTL

\* No mint that passed its first binding check before a teardown stores a token
\* after it.
THEOREM TornDownDown == Spec => []TornDownStaysDown
<1>1. Inv => TornDownStaysDown
  BY DEF Inv, MintInv
<1> QED
  BY <1>1, InvAlways, PTL

\* Through any rotation of the master key, aborted, repeated or interleaved with
\* mints, the server can open every row, and after verify-keys has passed with
\* its primary key.
THEOREM SealedReadable == Spec => []SealedStaysReadable
<1>1. Inv => SealedStaysReadable
  BY DEF Inv, RotationInv
<1> QED
  BY <1>1, InvAlways, PTL
=============================================================================
