-------------------------- MODULE AppIdentityProofs --------------------------
(***************************************************************************)
(* The safety of the app identity for any number of apps, tokens, requests *)
(* in flight and restarts.  Three independent arguments over one type      *)
(* invariant: the replay ledger with the transactions that have inserted   *)
(* into it (ReplayInv), the binding row's lock (BindInv), and the queue's  *)
(* advisory lock (QueueInv); the verifier's gate has one of its own.       *)
(***************************************************************************)
EXTENDS AppIdentity, FiniteSetTheorems, TLAPS

Identity == {Claims[t].id : t \in Tokens}
Phase == {"idle", "gate", "fetch", "lookupAgain", "record"} \cup InTx
Exchange ==
  [pc : Phase, app : Apps \cup {None}, tok : Tokens \cup {None}, started : Int, now : Int,
   mayFile : BOOLEAN, sup : SUBSET Nat]
KeyRow == [id : Nat, app : Apps, owner : Identity, superseded : Int, revoked : BOOLEAN]
RequestRow ==
  [id : Nat, app : Apps, identity : Identity, status : {"pending", "rejected"}, updated : Int,
   decided : Int]
Approval == [id : Nat, app : Apps, pc : {"register", "bind"}]

VerifierTypeOK ==
  /\ published \in SUBSET Kids /\ cached \in SUBSET Kids
  /\ lastFetch \in Int /\ lastFetchErr \in BOOLEAN /\ gate \in Exchanges \cup {None}
  /\ lastStart \in Int
TableTypeOK ==
  /\ replay \in SUBSET Tokens
  /\ bindings \in [Apps -> Identity \cup {None}]
  /\ keys \in SUBSET KeyRow
  /\ requests \in SUBSET RequestRow
LockTypeOK ==
  /\ bindLock \in [Apps -> Exchanges \cup {None}] /\ queueLock \in Exchanges \cup {None}
OtherTypeOK ==
  /\ approving \in Approval \cup {None}
  /\ registered \in SUBSET Apps
  /\ clock \in Nat /\ ids \in Nat
  /\ spent \in [Tokens -> Nat]
ExchangeTypeOK ==
  /\ ex \in [Exchanges -> Exchange]
  /\ \A x \in Exchanges :
       /\ ex[x].pc # "idle" => ex[x].app \in Apps /\ ex[x].tok \in Tokens
       /\ ex[x].pc \in InTx => ex[x].now \in 0..clock

TypeOK == VerifierTypeOK /\ TableTypeOK /\ LockTypeOK /\ OtherTypeOK /\ ExchangeTypeOK

\* One fetch at a time, in the gate; between fetches the verifier knows when the
\* last one started.
GateInv ==
  /\ \A x \in Exchanges : At(x, "fetch") => gate = x /\ ex[x].started = lastStart
  /\ gate = None => lastFetch = lastStart

\* A token that was spent is in the ledger until it has expired; the transactions
\* that have inserted a jti have different ones, and one that did so in time has
\* a token that was not spent.
ReplayInv ==
  /\ TokenSpentOnce
  /\ \A t \in Tokens : spent[t] = 1 => t \in replay \/ clock > ReplayExpiry(t)
  /\ \A x, y \in Exchanges :
       x # y /\ ex[x].pc \in InTx /\ ex[y].pc \in InTx => ex[x].tok # ex[y].tok
  /\ \A x \in Exchanges :
       ex[x].pc \in InTx /\ ex[x].now <= ReplayExpiry(ex[x].tok) => spent[ex[x].tok] = 0

\* An exchange that issues a key holds the row of the binding it was decided by,
\* and after its first statement no active key escapes it.
BindInv ==
  /\ \A x \in Exchanges : ex[x].pc \in {"supersede", "insertKey"} =>
       /\ bindLock[ex[x].app] = x
       /\ bindings[ex[x].app] = Claims[ex[x].tok].id /\ bindings[ex[x].app] # None
  /\ \A x \in Exchanges : ex[x].pc = "insertKey" =>
       \A k \in keys : k.app = ex[x].app /\ Active(k) => k.id \in ex[x].sup
  /\ KeysFollowBinding

\* An exchange that files a request holds the queue from its checks to the insert.
QueueInv ==
  /\ \A x \in Exchanges : ex[x].pc = "insertRequest" =>
       /\ queueLock = x
       /\ bindings[ex[x].app] = None
       /\ Cardinality(Pending) < MaxPendingRequests
  /\ IsFiniteSet(Pending)
  /\ QueueIsSound

TableInv == TypeOK /\ ReplayInv /\ BindInv /\ QueueInv
Inv == TableInv /\ GateInv
-----------------------------------------------------------------------------
(***************************************************************************)
(* What each step does to the exchange it serves.                          *)
(***************************************************************************)
LEMMA IdleType == IdleExchange \in Exchange /\ IdleExchange.pc = "idle" /\ Never = -1
BY DEF IdleExchange, Exchange, Phase, Never

\* One field of an exchange is set.
LEMMA SetPc ==
  ASSUME NEW q \in Exchange, NEW v \in Phase
  PROVE  \E r \in Exchange :
            /\ r = [q EXCEPT !.pc = v] /\ r.pc = v
            /\ r.app = q.app /\ r.tok = q.tok /\ r.started = q.started
            /\ r.now = q.now /\ r.mayFile = q.mayFile /\ r.sup = q.sup
<1> DEFINE r == [q EXCEPT !.pc = v]
<1>1. r \in Exchange /\ r.pc = v /\ r.app = q.app /\ r.tok = q.tok /\ r.started = q.started
      /\ r.now = q.now /\ r.mayFile = q.mayFile /\ r.sup = q.sup
  BY DEF Exchange
<1> HIDE DEF r
<1>2. r = [q EXCEPT !.pc = v]
  BY DEF r
<1> QED
  BY <1>1, <1>2

LEMMA SetApp ==
  ASSUME NEW q \in Exchange, NEW v \in Apps \cup {None}
  PROVE  \E r \in Exchange :
            /\ r = [q EXCEPT !.app = v] /\ r.app = v
            /\ r.pc = q.pc /\ r.tok = q.tok /\ r.started = q.started
            /\ r.now = q.now /\ r.mayFile = q.mayFile /\ r.sup = q.sup
<1> DEFINE r == [q EXCEPT !.app = v]
<1>1. r \in Exchange /\ r.app = v /\ r.pc = q.pc /\ r.tok = q.tok /\ r.started = q.started
      /\ r.now = q.now /\ r.mayFile = q.mayFile /\ r.sup = q.sup
  BY DEF Exchange
<1> HIDE DEF r
<1>2. r = [q EXCEPT !.app = v]
  BY DEF r
<1> QED
  BY <1>1, <1>2

LEMMA SetTok ==
  ASSUME NEW q \in Exchange, NEW v \in Tokens \cup {None}
  PROVE  \E r \in Exchange :
            /\ r = [q EXCEPT !.tok = v] /\ r.tok = v
            /\ r.pc = q.pc /\ r.app = q.app /\ r.started = q.started
            /\ r.now = q.now /\ r.mayFile = q.mayFile /\ r.sup = q.sup
<1> DEFINE r == [q EXCEPT !.tok = v]
<1>1. r \in Exchange /\ r.tok = v /\ r.pc = q.pc /\ r.app = q.app /\ r.started = q.started
      /\ r.now = q.now /\ r.mayFile = q.mayFile /\ r.sup = q.sup
  BY DEF Exchange
<1> HIDE DEF r
<1>2. r = [q EXCEPT !.tok = v]
  BY DEF r
<1> QED
  BY <1>1, <1>2

LEMMA SetStarted ==
  ASSUME NEW q \in Exchange, NEW v \in Int
  PROVE  \E r \in Exchange :
            /\ r = [q EXCEPT !.started = v] /\ r.started = v
            /\ r.pc = q.pc /\ r.app = q.app /\ r.tok = q.tok
            /\ r.now = q.now /\ r.mayFile = q.mayFile /\ r.sup = q.sup
<1> DEFINE r == [q EXCEPT !.started = v]
<1>1. r \in Exchange /\ r.started = v /\ r.pc = q.pc /\ r.app = q.app /\ r.tok = q.tok
      /\ r.now = q.now /\ r.mayFile = q.mayFile /\ r.sup = q.sup
  BY DEF Exchange
<1> HIDE DEF r
<1>2. r = [q EXCEPT !.started = v]
  BY DEF r
<1> QED
  BY <1>1, <1>2

LEMMA SetNow ==
  ASSUME NEW q \in Exchange, NEW v \in Int
  PROVE  \E r \in Exchange :
            /\ r = [q EXCEPT !.now = v] /\ r.now = v
            /\ r.pc = q.pc /\ r.app = q.app /\ r.tok = q.tok
            /\ r.started = q.started /\ r.mayFile = q.mayFile /\ r.sup = q.sup
<1> DEFINE r == [q EXCEPT !.now = v]
<1>1. r \in Exchange /\ r.now = v /\ r.pc = q.pc /\ r.app = q.app /\ r.tok = q.tok
      /\ r.started = q.started /\ r.mayFile = q.mayFile /\ r.sup = q.sup
  BY DEF Exchange
<1> HIDE DEF r
<1>2. r = [q EXCEPT !.now = v]
  BY DEF r
<1> QED
  BY <1>1, <1>2

LEMMA SetMayFile ==
  ASSUME NEW q \in Exchange, NEW v \in BOOLEAN
  PROVE  \E r \in Exchange :
            /\ r = [q EXCEPT !.mayFile = v] /\ r.mayFile = v
            /\ r.pc = q.pc /\ r.app = q.app /\ r.tok = q.tok
            /\ r.started = q.started /\ r.now = q.now /\ r.sup = q.sup
<1> DEFINE r == [q EXCEPT !.mayFile = v]
<1>1. r \in Exchange /\ r.mayFile = v /\ r.pc = q.pc /\ r.app = q.app /\ r.tok = q.tok
      /\ r.started = q.started /\ r.now = q.now /\ r.sup = q.sup
  BY DEF Exchange
<1> HIDE DEF r
<1>2. r = [q EXCEPT !.mayFile = v]
  BY DEF r
<1> QED
  BY <1>1, <1>2

LEMMA SetSup ==
  ASSUME NEW q \in Exchange, NEW v \in SUBSET Nat
  PROVE  \E r \in Exchange :
            /\ r = [q EXCEPT !.sup = v] /\ r.sup = v
            /\ r.pc = q.pc /\ r.app = q.app /\ r.tok = q.tok
            /\ r.started = q.started /\ r.now = q.now /\ r.mayFile = q.mayFile
<1> DEFINE r == [q EXCEPT !.sup = v]
<1>1. r \in Exchange /\ r.sup = v /\ r.pc = q.pc /\ r.app = q.app /\ r.tok = q.tok
      /\ r.started = q.started /\ r.now = q.now /\ r.mayFile = q.mayFile
  BY DEF Exchange
<1> HIDE DEF r
<1>2. r = [q EXCEPT !.sup = v]
  BY DEF r
<1> QED
  BY <1>1, <1>2

\* Only the exchange x goes on.
Moves(x) ==
  /\ ex' \in [Exchanges -> Exchange]
  /\ \A y \in Exchanges : y # x => ex'[y] = ex[y]

LEMMA MovesTo ==
  ASSUME ExchangeTypeOK, NEW x \in Exchanges, NEW q \in Exchange, ex' = [ex EXCEPT ![x] = q]
  PROVE  Moves(x) /\ ex'[x] = q
BY DEF ExchangeTypeOK, Moves

LEMMA GotoMoves ==
  ASSUME ExchangeTypeOK, NEW x \in Exchanges, NEW p \in Phase, Goto(x, p)
  PROVE  /\ Moves(x) /\ ex'[x].pc = p
         /\ ex'[x].app = ex[x].app /\ ex'[x].tok = ex[x].tok /\ ex'[x].now = ex[x].now
         /\ ex'[x].sup = ex[x].sup
BY DEF ExchangeTypeOK, Moves, Goto, Exchange

LEMMA RollbackMoves ==
  ASSUME ExchangeTypeOK, NEW x \in Exchanges, ex' = [ex EXCEPT ![x] = IdleExchange]
  PROVE  Moves(x) /\ ex'[x].pc = "idle"
BY MovesTo, IdleType

\* Verification ends with the exchange refused or ready to record its jti.
LEMMA ValidatedType ==
  ASSUME NEW q \in Exchange
  PROVE  /\ Validated(q) \in Exchange /\ Validated(q).pc \in {"record", "idle"}
         /\ Validated(q).pc = "record" => Validated(q).app = q.app /\ Validated(q).tok = q.tok
<1>1. [q EXCEPT !.pc = "record"] \in Exchange /\ [q EXCEPT !.pc = "record"].pc = "record"
      /\ [q EXCEPT !.pc = "record"].app = q.app /\ [q EXCEPT !.pc = "record"].tok = q.tok
  BY DEF Exchange, Phase
<1> QED
  BY <1>1, IdleType DEF Validated

LEMMA HandleMoves ==
  ASSUME ExchangeTypeOK, NEW x \in Exchanges, HandleExchange(x)
  PROVE  /\ Moves(x) /\ ex[x].pc = "idle"
         /\ ex'[x].pc \in {"idle", "gate", "record"}
         /\ ex'[x].pc # "idle" => ex'[x].app \in Apps /\ ex'[x].tok \in Tokens
<1>1. PICK a \in Apps, t \in Tokens :
        ex' = [ex EXCEPT ![x] = IF cachedKey(t)
                                THEN Validated([IdleExchange EXCEPT !.pc = "gate", !.app = a, !.tok = t])
                                ELSE [IdleExchange EXCEPT !.pc = "gate", !.app = a, !.tok = t]]
  BY DEF HandleExchange
<1>2. PICK q : q = [IdleExchange EXCEPT !.pc = "gate", !.app = a, !.tok = t]
  OBVIOUS
<1>3. q \in Exchange /\ q.pc = "gate" /\ q.app = a /\ q.tok = t
  <2>1. PICK q1 \in Exchange : q1 = [IdleExchange EXCEPT !.pc = "gate"] /\ q1.pc = "gate"
    BY IdleType, SetPc DEF Phase
  <2>2. PICK q2 \in Exchange : q2 = [q1 EXCEPT !.app = a] /\ q2.pc = q1.pc /\ q2.app = a
    BY SetApp
  <2>3. PICK q3 \in Exchange : /\ q3 = [q2 EXCEPT !.tok = t]
                               /\ q3.pc = q2.pc /\ q3.app = q2.app /\ q3.tok = t
    BY SetTok
  <2>4. q = q3
    BY <1>2, <2>1, <2>2, <2>3
  <2> QED
    BY <2>1, <2>2, <2>3, <2>4
<1>4. ex' = [ex EXCEPT ![x] = IF cachedKey(t) THEN Validated(q) ELSE q]
  BY <1>1, <1>2
<1>5. CASE cachedKey(t)
  <2>1. Moves(x) /\ ex'[x] = Validated(q)
    BY <1>3, <1>4, <1>5, ValidatedType, MovesTo
  <2> QED
    BY <2>1, <1>3, ValidatedType DEF HandleExchange, At
<1>6. CASE ~cachedKey(t)
  <2>1. Moves(x) /\ ex'[x] = q
    BY <1>3, <1>4, <1>6, MovesTo
  <2> QED
    BY <2>1, <1>3 DEF HandleExchange, At
<1> QED
  BY <1>5, <1>6

LEMMA PublicKeyMoves ==
  ASSUME ExchangeTypeOK, NEW x \in Exchanges, publicKey(x)
  PROVE  /\ Moves(x) /\ ex[x].pc = "lookupAgain"
         /\ ex'[x].pc \in {"idle", "record"}
         /\ ex'[x].pc # "idle" => ex'[x].app \in Apps /\ ex'[x].tok \in Tokens
<1>1. PICK q \in Exchange : q = ex[x] /\ q.pc = "lookupAgain" /\ q.app \in Apps /\ q.tok \in Tokens
  BY DEF ExchangeTypeOK, publicKey, At
<1>2. ex' = [ex EXCEPT ![x] = IF cachedKey(q.tok) THEN Validated(q) ELSE IdleExchange]
  BY <1>1 DEF publicKey
<1>3. CASE cachedKey(q.tok)
  <2>1. Moves(x) /\ ex'[x] = Validated(q)
    BY <1>2, <1>3, ValidatedType, MovesTo
  <2> QED
    BY <2>1, <1>1, ValidatedType
<1>4. CASE ~cachedKey(q.tok)
  BY <1>1, <1>2, <1>4, RollbackMoves
<1> QED
  BY <1>3, <1>4

LEMMA RefreshMoves ==
  ASSUME TypeOK, NEW x \in Exchanges, refresh(x)
  PROVE  /\ Moves(x) /\ ex[x].pc = "gate"
         /\ ex'[x].app \in Apps \/ ex'[x].pc = "idle"
         /\ ex'[x].tok \in Tokens \/ ex'[x].pc = "idle"
         /\ \/ RateLimited /\ ex'[x].pc \in {"idle", "lookupAgain"} /\ UNCHANGED <<gate, lastStart>>
            \/ /\ ~RateLimited /\ ex'[x].pc = "fetch" /\ ex'[x].started = clock
               /\ gate' = x /\ lastStart' = clock
<1>1. PICK q \in Exchange : q = ex[x] /\ q.pc = "gate" /\ q.app \in Apps /\ q.tok \in Tokens
  BY DEF TypeOK, ExchangeTypeOK, refresh, At
<1>2. clock \in Nat /\ ExchangeTypeOK
  BY DEF TypeOK, OtherTypeOK
<1>3. PICK looked : looked = [q EXCEPT !.pc = "lookupAgain"]
  OBVIOUS
<1>4. PICK fetching : fetching = [q EXCEPT !.pc = "fetch", !.started = clock]
  OBVIOUS
<1>5. looked \in Exchange /\ looked.pc = "lookupAgain" /\ looked.app = q.app /\ looked.tok = q.tok
  BY <1>3 DEF Exchange, Phase
<1>6. /\ fetching \in Exchange /\ fetching.pc = "fetch" /\ fetching.app = q.app
      /\ fetching.tok = q.tok /\ fetching.started = clock
  <2>1. PICK q1 \in Exchange : /\ q1 = [q EXCEPT !.pc = "fetch"] /\ q1.pc = "fetch"
                               /\ q1.app = q.app /\ q1.tok = q.tok
    BY SetPc DEF Phase
  <2>2. PICK q2 \in Exchange : /\ q2 = [q1 EXCEPT !.started = clock] /\ q2.started = clock
                               /\ q2.pc = q1.pc /\ q2.app = q1.app /\ q2.tok = q1.tok
    BY <1>2, SetStarted
  <2>3. fetching = q2
    BY <1>4, <2>1, <2>2
  <2> QED
    BY <2>1, <2>2, <2>3
<1>7. CASE RateLimited
  <2>1. ex' = [ex EXCEPT ![x] = IF lastFetchErr THEN IdleExchange ELSE looked]
        /\ UNCHANGED <<gate, lastStart>>
    BY <1>1, <1>3, <1>7 DEF refresh
  <2>2. CASE lastFetchErr
    BY <1>1, <1>2, <1>7, <2>1, <2>2, RollbackMoves
  <2>3. CASE ~lastFetchErr
    BY <1>1, <1>2, <1>5, <1>7, <2>1, <2>3, MovesTo
  <2> QED
    BY <2>2, <2>3
<1>8. CASE ~RateLimited
  <2>1. ex' = [ex EXCEPT ![x] = fetching] /\ gate' = x /\ lastStart' = clock
    BY <1>1, <1>4, <1>8 DEF refresh
  <2>2. Moves(x) /\ ex'[x] = fetching
    BY <2>1, <1>2, <1>6, MovesTo
  <2> QED
    BY <2>1, <2>2, <1>1, <1>6, <1>8
<1> QED
  BY <1>7, <1>8

LEMMA FetchMoves ==
  ASSUME TypeOK, NEW x \in Exchanges, fetchKeys(x)
  PROVE  /\ Moves(x) /\ ex[x].pc = "fetch" /\ ex'[x].pc \in {"idle", "lookupAgain"}
         /\ ex'[x].pc # "idle" => ex'[x].app \in Apps /\ ex'[x].tok \in Tokens
         /\ cached' \in SUBSET Kids /\ lastFetchErr' \in BOOLEAN
         /\ gate' = None /\ lastFetch' = ex[x].started
         /\ UNCHANGED <<published, lastStart>>
<1>1. PICK q \in Exchange : q = ex[x] /\ q.pc = "fetch" /\ q.app \in Apps /\ q.tok \in Tokens
  BY DEF TypeOK, ExchangeTypeOK, fetchKeys, At
<1>2. ExchangeTypeOK /\ cached \in SUBSET Kids /\ published \in SUBSET Kids
  BY DEF TypeOK, VerifierTypeOK
<1>3. PICK looked : looked = [q EXCEPT !.pc = "lookupAgain", !.started = Never]
  OBVIOUS
<1>4. looked \in Exchange /\ looked.pc = "lookupAgain" /\ looked.app = q.app /\ looked.tok = q.tok
  <2>1. PICK q1 \in Exchange : /\ q1 = [q EXCEPT !.pc = "lookupAgain"] /\ q1.pc = "lookupAgain"
                               /\ q1.app = q.app /\ q1.tok = q.tok
    BY SetPc DEF Phase
  <2>2. PICK q2 \in Exchange : /\ q2 = [q1 EXCEPT !.started = Never]
                               /\ q2.pc = q1.pc /\ q2.app = q1.app /\ q2.tok = q1.tok
    <3>1. Never \in Int
      BY DEF Never
    <3> QED
      BY <3>1, SetStarted
  <2>3. looked = q2
    BY <1>3, <2>1, <2>2
  <2> QED
    BY <2>1, <2>2, <2>3
<1>5. gate' = None /\ lastFetch' = ex[x].started /\ UNCHANGED <<published, lastStart>>
  BY DEF fetchKeys
<1>6. CASE cached' = published /\ lastFetchErr' = FALSE /\ ex' = [ex EXCEPT ![x] = looked]
  BY <1>1, <1>2, <1>4, <1>5, <1>6, MovesTo
<1>7. CASE /\ lastFetchErr' = TRUE /\ UNCHANGED cached
           /\ ex' = [ex EXCEPT ![x] = IdleExchange]
  BY <1>1, <1>2, <1>5, <1>7, RollbackMoves
<1>8. \/ cached' = published /\ lastFetchErr' = FALSE /\ ex' = [ex EXCEPT ![x] = looked]
      \/ lastFetchErr' = TRUE /\ UNCHANGED cached /\ ex' = [ex EXCEPT ![x] = IdleExchange]
  BY <1>1, <1>3 DEF fetchKeys
<1> QED
  BY <1>6, <1>7, <1>8

LEMMA RecordMoves ==
  ASSUME TypeOK, NEW x \in Exchanges, RecordJTI(x)
  PROVE  /\ Moves(x) /\ ex[x].pc = "record"
         /\ \A o \in Exchanges : o # x => ~(ex[o].tok = ex[x].tok /\ ex[o].pc \in InTx)
         /\ \/ ex'[x].pc = "idle"
            \/ /\ ex'[x].pc = "lock" /\ ex[x].tok \notin replay /\ ex'[x].now = clock
               /\ ex'[x].app = ex[x].app /\ ex'[x].tok = ex[x].tok
<1>1. PICK q \in Exchange : q = ex[x] /\ q.pc = "record"
  BY DEF TypeOK, ExchangeTypeOK, RecordJTI, At
<1>2. clock \in Int /\ ExchangeTypeOK
  BY DEF TypeOK, OtherTypeOK
<1>3. \A o \in Exchanges : o # x => ~(ex[o].tok = ex[x].tok /\ ex[o].pc \in InTx)
  BY DEF RecordJTI
<1>4. CASE q.tok \in replay
  <2>1. ex' = [ex EXCEPT ![x] = IdleExchange]
    BY <1>1, <1>4 DEF RecordJTI
  <2> QED
    BY <2>1, <1>1, <1>2, <1>3, RollbackMoves
<1>5. CASE q.tok \notin replay
  <2>1. PICK q1 \in Exchange : q1 = [q EXCEPT !.pc = "lock"] /\ q1.pc = "lock"
                               /\ q1.app = q.app /\ q1.tok = q.tok
    BY SetPc DEF Phase, InTx
  <2>2. PICK q2 \in Exchange : q2 = [q1 EXCEPT !.now = clock] /\ q2.now = clock
                               /\ q2.pc = q1.pc /\ q2.app = q1.app /\ q2.tok = q1.tok
    BY <1>2, SetNow
  <2>3. ex' = [ex EXCEPT ![x] = q2]
    BY <1>1, <1>5, <2>1, <2>2 DEF RecordJTI
  <2>4. Moves(x) /\ ex'[x] = q2
    BY <2>3, <1>2, MovesTo
  <2> QED
    BY <2>1, <2>2, <2>4, <1>1, <1>3, <1>5
<1> QED
  BY <1>4, <1>5

LEMMA SupersedeMoves ==
  ASSUME TypeOK, NEW x \in Exchanges, Supersede(x)
  PROVE  /\ Moves(x) /\ ex[x].pc = "supersede"
         /\ ex'[x].pc = "insertKey" /\ ex'[x].now = ex[x].now
         /\ ex'[x].app = ex[x].app /\ ex'[x].tok = ex[x].tok
         /\ \A k \in keys : k.app = ex[x].app /\ Active(k) => k.id \in ex'[x].sup
<1>1. PICK q \in Exchange : q = ex[x] /\ q.pc = "supersede"
  BY DEF TypeOK, ExchangeTypeOK, Supersede, At
<1>2. PICK S : S = {k.id : k \in {j \in keys : j.app = q.app /\ Active(j)}}
  OBVIOUS
<1>3. S \in SUBSET Nat
  BY <1>2 DEF TypeOK, TableTypeOK, KeyRow
<1>4. PICK q1 \in Exchange : /\ q1 = [q EXCEPT !.pc = "insertKey"] /\ q1.pc = "insertKey"
                             /\ q1.app = q.app /\ q1.tok = q.tok /\ q1.now = q.now
  BY SetPc DEF Phase, InTx
<1>5. PICK q2 \in Exchange : /\ q2 = [q1 EXCEPT !.sup = S] /\ q2.sup = S /\ q2.pc = q1.pc
                             /\ q2.app = q1.app /\ q2.tok = q1.tok /\ q2.now = q1.now
  BY <1>3, SetSup
<1>6. ex' = [ex EXCEPT ![x] = q2]
  BY <1>1, <1>2, <1>4, <1>5 DEF Supersede
<1>7. Moves(x) /\ ex'[x] = q2
  BY <1>6, MovesTo DEF TypeOK
<1>8. \A k \in keys : k.app = q.app /\ Active(k) => k.id \in S
  BY <1>2
<1> QED
  BY <1>1, <1>4, <1>5, <1>7, <1>8

LEMMA RelockMoves ==
  ASSUME TypeOK, NEW x \in Exchanges,
         ex' = [ex EXCEPT ![x] = [@ EXCEPT !.pc = "lock", !.mayFile = FALSE]]
  PROVE  /\ Moves(x) /\ ex'[x].pc = "lock" /\ ex'[x].now = ex[x].now
         /\ ex'[x].app = ex[x].app /\ ex'[x].tok = ex[x].tok
<1>1. PICK q \in Exchange : q = ex[x]
  BY DEF TypeOK, ExchangeTypeOK
<1>4. PICK q1 \in Exchange : /\ q1 = [q EXCEPT !.pc = "lock"] /\ q1.pc = "lock"
                             /\ q1.app = q.app /\ q1.tok = q.tok /\ q1.now = q.now
  BY SetPc DEF Phase, InTx
<1>5. PICK q2 \in Exchange : /\ q2 = [q1 EXCEPT !.mayFile = FALSE] /\ q2.pc = q1.pc
                             /\ q2.app = q1.app /\ q2.tok = q1.tok /\ q2.now = q1.now
  BY SetMayFile
<1>6. ex' = [ex EXCEPT ![x] = q2]
  BY <1>1, <1>4, <1>5
<1>7. Moves(x) /\ ex'[x] = q2
  BY <1>6, MovesTo DEF TypeOK
<1> QED
  BY <1>1, <1>4, <1>5, <1>7

-----------------------------------------------------------------------------
(***************************************************************************)
(* The tables and the locks: classes of steps.                             *)
(***************************************************************************)

\* A step before the transaction or after it, which touches no table.
LEMMA OutsideStep ==
  ASSUME TableInv, NEW x \in Exchanges, Moves(x),
         ex[x].pc \notin InTx, ex'[x].pc \notin InTx,
         ex'[x].pc # "idle" => ex'[x].app \in Apps /\ ex'[x].tok \in Tokens,
         UNCHANGED <<tableVars, bindLock, queueLock, approving, registered, clock, ids, spent>>,
         VerifierTypeOK'
  PROVE  TableInv'
<1>1. UNCHANGED <<replay, bindings, keys, requests>> /\ Pending' = Pending
  BY DEF tableVars, Pending
<1>2. \A y \in Exchanges : ex'[y].pc \in InTx => y # x /\ ex'[y] = ex[y]
  BY DEF Moves
<1>3. TypeOK'
  BY <1>1, <1>2 DEF TableInv, TypeOK, TableTypeOK, LockTypeOK, OtherTypeOK, ExchangeTypeOK, Moves
<1>4. ReplayInv'
  BY <1>1, <1>2 DEF TableInv, ReplayInv, TokenSpentOnce
<1>5. BindInv'
  BY <1>1, <1>2 DEF TableInv, BindInv, KeysFollowBinding, Active, Matches, InTx
<1>6. QueueInv'
  BY <1>1, <1>2 DEF TableInv, QueueInv, QueueIsSound, InTx
<1> QED
  BY <1>3, <1>4, <1>5, <1>6 DEF TableInv

\* The end of a transaction: x is idle and holds nothing, the others go on.
LEMMA Released ==
  ASSUME TypeOK, NEW x \in Exchanges, Rollback(x)
  PROVE  /\ Moves(x) /\ ex'[x].pc = "idle"
         /\ LockTypeOK'
         /\ \A a \in Apps, y \in Exchanges : y # x /\ bindLock[a] = y => bindLock'[a] = y
         /\ \A y \in Exchanges : y # x /\ queueLock = y => queueLock' = y
         /\ \A y \in Exchanges : ex'[y].pc \in InTx => y # x /\ ex'[y] = ex[y]
<1>1. Moves(x) /\ ex'[x].pc = "idle"
  BY RollbackMoves DEF Rollback, TypeOK
<1>2. LockTypeOK'
  BY DEF Rollback, Unlocks, TypeOK, LockTypeOK
<1>3. \A a \in Apps, y \in Exchanges : y # x /\ bindLock[a] = y => bindLock'[a] = y
  BY DEF Rollback, Unlocks
<1>4. \A y \in Exchanges : y # x /\ queueLock = y => queueLock' = y
  BY DEF Rollback, Unlocks
<1>5. \A y \in Exchanges : ex'[y].pc \in InTx => y # x /\ ex'[y] = ex[y]
  BY <1>1 DEF Moves, InTx
<1> QED
  BY <1>1, <1>2, <1>3, <1>4, <1>5

LEMMA RollbackStep ==
  ASSUME TableInv, NEW x \in Exchanges, Rollback(x),
         UNCHANGED <<verifierVars, published, lastStart, tableVars, approving, registered, clock,
                     ids, spent>>
  PROVE  TableInv'
<1>0. TypeOK
  BY DEF TableInv
<1>1. UNCHANGED <<replay, bindings, keys, requests>> /\ Pending' = Pending
  BY DEF tableVars, Pending
<1>3. TypeOK'
  BY <1>0, <1>1, Released
     DEF TypeOK, TableTypeOK, OtherTypeOK, ExchangeTypeOK, Moves, VerifierTypeOK, verifierVars
<1>4. ReplayInv'
  BY <1>0, <1>1, Released DEF TableInv, ReplayInv, TokenSpentOnce
<1>5. BindInv'
  <2>1. \A y \in Exchanges : ex'[y].pc \in {"supersede", "insertKey"} =>
          y # x /\ ex'[y] = ex[y] /\ bindLock'[ex[y].app] = y
    BY <1>0, Released DEF TableInv, BindInv, InTx, TypeOK, ExchangeTypeOK
  <2> QED
    BY <1>1, <2>1 DEF TableInv, BindInv, KeysFollowBinding, Active, Matches
<1>6. QueueInv'
  BY <1>0, <1>1, Released DEF TableInv, QueueInv, QueueIsSound, InTx
<1> QED
  BY <1>3, <1>4, <1>5, <1>6 DEF TableInv

\* A commit: the jti is in the ledger, and counts if it was recorded in time.
LEMMA CommitReplay ==
  ASSUME TableInv, NEW x \in Exchanges, Commit(x), ex[x].pc \in InTx, clock' = clock
  PROVE  /\ ReplayInv' /\ ExchangeTypeOK' /\ replay' \in SUBSET Tokens
         /\ spent' \in [Tokens -> Nat]
<1>0. TypeOK /\ Rollback(x)
  BY DEF TableInv, Commit
<1>1. PICK t \in Tokens : t = ex[x].tok
  BY DEF TableInv, TypeOK, ExchangeTypeOK, InTx
<1>2. ReplayExpiry(t) \in Int
  BY ClaimsAssumption, TimeAssumption DEF ReplayExpiry
<1>3. PICK now \in Int : now = ex[x].now
  BY <1>0 DEF TypeOK, ExchangeTypeOK, Exchange
<1>4. /\ replay' = replay \cup {t}
      /\ spent' = [spent EXCEPT ![t] = spent[t] + (IF now <= ReplayExpiry(t) THEN 1 ELSE 0)]
  BY <1>1, <1>3 DEF Commit
<1>5. /\ \A y \in Exchanges : ex'[y].pc \in InTx => y # x /\ ex'[y] = ex[y] /\ ex[y].tok # t
      /\ Moves(x) /\ ex'[x].pc = "idle"
  BY <1>0, <1>1, Released DEF TableInv, ReplayInv, Moves
<1>6. ExchangeTypeOK'
  BY <1>0, <1>5 DEF TypeOK, ExchangeTypeOK, Moves
<1>7. spent[t] \in Nat /\ spent[t] <= 1 /\ (now <= ReplayExpiry(t) => spent[t] = 0)
  BY <1>0, <1>1, <1>3 DEF TableInv, ReplayInv, TokenSpentOnce, TypeOK, OtherTypeOK
<1>8. /\ spent' \in [Tokens -> Nat] /\ spent'[t] <= 1
      /\ \A u \in Tokens : u # t => spent'[u] = spent[u]
  BY <1>2, <1>4, <1>7, <1>0 DEF TypeOK, OtherTypeOK
<1>9. replay' \in SUBSET Tokens
  BY <1>0, <1>4 DEF TypeOK, TableTypeOK
<1>10. ReplayInv'
  <2>1. TokenSpentOnce'
    BY <1>8 DEF TableInv, ReplayInv, TokenSpentOnce
  <2>2. \A u \in Tokens : spent'[u] = 1 => u \in replay' \/ clock' > ReplayExpiry(u)
    BY <1>4, <1>8 DEF TableInv, ReplayInv
  <2>3. \A y, z \in Exchanges :
          y # z /\ ex'[y].pc \in InTx /\ ex'[z].pc \in InTx => ex'[y].tok # ex'[z].tok
    BY <1>5 DEF TableInv, ReplayInv
  <2>4. \A y \in Exchanges : ex'[y].pc \in InTx /\ ex'[y].now <= ReplayExpiry(ex'[y].tok)
          => spent'[ex'[y].tok] = 0
    <3>1. \A y \in Exchanges : ex'[y].pc \in InTx => ex[y].tok \in Tokens
      BY <1>5, <1>0 DEF TypeOK, ExchangeTypeOK, InTx
    <3> QED
      BY <1>5, <1>8, <3>1 DEF TableInv, ReplayInv
  <2> QED
    BY <2>1, <2>2, <2>3, <2>4 DEF ReplayInv, ReplayExpiry
<1> QED
  BY <1>6, <1>8, <1>9, <1>10

\* A statement inside the transaction that writes no table yet.
LEMMA StatementStep ==
  ASSUME TableInv, NEW x \in Exchanges, Moves(x),
         ex[x].pc \in InTx, ex'[x].pc \in InTx,
         ex'[x].app = ex[x].app, ex'[x].tok = ex[x].tok, ex'[x].now = ex[x].now,
         UNCHANGED <<verifierVars, published, lastStart, tableVars, approving, registered, clock,
                     ids, spent>>,
         LockTypeOK'
  PROVE  TypeOK' /\ ReplayInv'
<1>0. TypeOK /\ ReplayInv
  BY DEF TableInv
<1>1. \A y \in Exchanges : /\ ex'[y].tok = ex[y].tok /\ ex'[y].now = ex[y].now
                           /\ ex'[y].app = ex[y].app
                           /\ ex'[y].pc \in InTx <=> ex[y].pc \in InTx
                           /\ ex'[y].pc # "idle" => ex[y].pc # "idle"
  BY DEF Moves, InTx
<1>2. ExchangeTypeOK'
  BY <1>0, <1>1 DEF TypeOK, ExchangeTypeOK, Moves
<1>3. TypeOK'
  BY <1>0, <1>2 DEF TypeOK, TableTypeOK, OtherTypeOK, VerifierTypeOK, verifierVars, tableVars
<1>4. ReplayInv'
  BY <1>0, <1>1 DEF ReplayInv, TokenSpentOnce, tableVars
<1> QED
  BY <1>3, <1>4

LEMMA RecordStep ==
  ASSUME TableInv, NEW x \in Exchanges, RecordJTI(x)
  PROVE  TableInv'
<1>0. TypeOK /\ ReplayInv
  BY DEF TableInv
<1>1. UNCHANGED <<published, verifierVars, tableVars, bindLock, queueLock, approving, registered,
                 clock, ids, spent, lastStart>>
  BY DEF RecordJTI
<1>2. VerifierTypeOK'
  BY <1>0, <1>1 DEF TypeOK, VerifierTypeOK, verifierVars
<1>3. CASE ex'[x].pc = "idle"
  BY <1>0, <1>1, <1>2, <1>3, RecordMoves, OutsideStep DEF InTx
<1>4. CASE ex'[x].pc = "lock"
  <2>0. PICK t \in Tokens : t = ex[x].tok
    BY <1>0, RecordMoves DEF TypeOK, ExchangeTypeOK
  <2>1. /\ Moves(x) /\ ex[x].pc = "record"
        /\ \A o \in Exchanges : o # x => ~(ex[o].tok = t /\ ex[o].pc \in InTx)
        /\ t \notin replay /\ ex'[x].now = clock
        /\ ex'[x].app = ex[x].app /\ ex'[x].tok = t
    BY <1>0, <1>4, <2>0, RecordMoves
  <2>2. UNCHANGED <<replay, bindings, keys, requests>> /\ Pending' = Pending
    BY <1>1 DEF tableVars, Pending
  <2>3. ExchangeTypeOK'
    BY <1>0, <1>1, <2>0, <2>1 DEF TypeOK, ExchangeTypeOK, OtherTypeOK, Moves
  <2>4. TypeOK'
    BY <1>0, <1>1, <1>2, <2>2, <2>3 DEF TypeOK, TableTypeOK, OtherTypeOK, LockTypeOK
  <2>5. ReplayInv'
    <3>1. clock <= ReplayExpiry(t) => spent[t] = 0
      <4>1. ReplayExpiry(t) \in Int /\ clock \in Int /\ spent[t] \in Nat /\ spent[t] <= 1
        BY <1>0, ClaimsAssumption, TimeAssumption
           DEF ReplayExpiry, TypeOK, OtherTypeOK, ReplayInv, TokenSpentOnce
      <4> QED
        BY <1>0, <2>1, <4>1 DEF ReplayInv
    <3>2. \A y \in Exchanges : y # x => ex'[y] = ex[y]
      BY <2>1 DEF Moves
    <3>3. \A y, z \in Exchanges :
            y # z /\ ex'[y].pc \in InTx /\ ex'[z].pc \in InTx => ex'[y].tok # ex'[z].tok
      BY <1>0, <2>1, <3>2 DEF ReplayInv
    <3>4. \A y \in Exchanges : ex'[y].pc \in InTx /\ ex'[y].now <= ReplayExpiry(ex'[y].tok)
            => spent[ex'[y].tok] = 0
      BY <1>0, <2>1, <3>1, <3>2 DEF ReplayInv
    <3> QED
      BY <1>0, <1>1, <2>2, <3>3, <3>4 DEF ReplayInv, TokenSpentOnce
  <2>6. \A y \in Exchanges : ex'[y].pc \in InTx \ {"lock"} => y # x /\ ex'[y] = ex[y]
    BY <2>1, <1>4 DEF Moves
  <2>7. BindInv'
    BY <1>1, <2>2, <2>6 DEF TableInv, BindInv, KeysFollowBinding, Active, Matches, InTx
  <2>8. QueueInv'
    BY <1>1, <2>2, <2>6 DEF TableInv, QueueInv, QueueIsSound, InTx
  <2> QED
    BY <2>4, <2>5, <2>7, <2>8 DEF TableInv
<1> QED
  BY <1>0, <1>3, <1>4, RecordMoves

\* The binding is locked and matches: nobody unbinds the app from here on.
LEMMA LockStep ==
  ASSUME TableInv, NEW x \in Exchanges, LockBinding(x)
  PROVE  TableInv'
<1>0. TypeOK /\ ex[x].pc = "lock" /\ ex[x].app \in Apps
  BY DEF TableInv, LockBinding, At, TypeOK, ExchangeTypeOK
<1>1. UNCHANGED <<published, verifierVars, tableVars, approving, registered, clock, ids, spent,
                  lastStart>>
  BY DEF LockBinding
<1>2. CASE Rollback(x)
  BY <1>1, <1>2, RollbackStep
<1>3. UNCHANGED <<replay, bindings, keys, requests>> /\ Pending' = Pending
  BY <1>1 DEF tableVars, Pending
<1>4. ASSUME NEW p \in {"supersede", "file"}, Goto(x, p), LockTypeOK'
      PROVE  TypeOK' /\ ReplayInv' /\ Moves(x) /\ ex'[x].pc = p /\ ex'[x].app = ex[x].app
             /\ ex'[x].tok = ex[x].tok
  <2>1. p \in Phase /\ p \in InTx /\ ex[x].pc \in InTx
    BY <1>0 DEF Phase, InTx
  <2>2. /\ Moves(x) /\ ex'[x].pc = p
        /\ ex'[x].app = ex[x].app /\ ex'[x].tok = ex[x].tok /\ ex'[x].now = ex[x].now
    BY <1>0, <1>4, <2>1, GotoMoves DEF TypeOK
  <2> QED
    BY <1>1, <1>4, <2>1, <2>2, StatementStep
<1>5. CASE /\ bindings[ex[x].app] # None /\ bindLock[ex[x].app] = None
           /\ Matches(bindings[ex[x].app], Claims[ex[x].tok].id)
           /\ bindLock' = [bindLock EXCEPT ![ex[x].app] = x]
           /\ Goto(x, "supersede") /\ UNCHANGED queueLock
  <2>1. LockTypeOK'
    BY <1>0, <1>5 DEF TypeOK, LockTypeOK
  <2>2. TypeOK' /\ ReplayInv' /\ Moves(x) /\ ex'[x].pc = "supersede" /\ ex'[x].app = ex[x].app
        /\ ex'[x].tok = ex[x].tok
    BY <1>4, <1>5, <2>1
  <2>3. \A y \in Exchanges : y # x => ex'[y] = ex[y]
    BY <2>2 DEF Moves
  <2>4. bindLock'[ex[x].app] = x
        /\ \A a \in Apps, y \in Exchanges : bindLock[a] = y => bindLock'[a] = y
    BY <1>0, <1>5, NoneAssumption DEF TypeOK, LockTypeOK
  <2>5. \A y \in Exchanges : ex'[y].pc \in {"supersede", "insertKey"} =>
          /\ bindLock'[ex'[y].app] = y
          /\ bindings[ex'[y].app] = Claims[ex'[y].tok].id /\ bindings[ex'[y].app] # None
    <3>1. ASSUME NEW y \in Exchanges, y # x, ex[y].pc \in {"supersede", "insertKey"}
          PROVE  ex[y].app \in Apps
      BY <3>1, <1>0 DEF TypeOK, ExchangeTypeOK
    <3> QED
      BY <3>1, <2>2, <2>3, <2>4, <1>5 DEF TableInv, BindInv, Matches
  <2>6. BindInv'
    BY <1>3, <2>2, <2>3, <2>5 DEF TableInv, BindInv, KeysFollowBinding, Active, Matches
  <2>7. QueueInv'
    BY <1>3, <1>5, <2>2, <2>3 DEF TableInv, QueueInv, QueueIsSound
  <2> QED
    BY <2>2, <2>6, <2>7 DEF TableInv
<1>6. CASE Goto(x, "file") /\ UNCHANGED <<bindLock, queueLock>>
  <2>1. LockTypeOK'
    BY <1>0, <1>6 DEF TypeOK, LockTypeOK
  <2>2. TypeOK' /\ ReplayInv' /\ Moves(x) /\ ex'[x].pc = "file"
    BY <1>4, <1>6, <2>1
  <2>3. \A y \in Exchanges : y # x => ex'[y] = ex[y]
    BY <2>2 DEF Moves
  <2>6. BindInv'
    BY <1>3, <1>6, <2>2, <2>3 DEF TableInv, BindInv, KeysFollowBinding, Active, Matches
  <2>7. QueueInv'
    BY <1>3, <1>6, <2>2, <2>3 DEF TableInv, QueueInv, QueueIsSound
  <2> QED
    BY <2>2, <2>6, <2>7 DEF TableInv
<1> QED
  BY <1>2, <1>5, <1>6 DEF LockBinding

LEMMA SupersedeStep ==
  ASSUME TableInv, NEW x \in Exchanges, Supersede(x)
  PROVE  TableInv'
<1>0. TypeOK
  BY DEF TableInv
<1>1. UNCHANGED <<published, verifierVars, tableVars, bindLock, queueLock, approving, registered,
                 clock, ids, spent, lastStart>>
  BY DEF Supersede
<1>2. UNCHANGED <<replay, bindings, keys, requests>> /\ Pending' = Pending
  BY <1>1 DEF tableVars, Pending
<1>3. LockTypeOK'
  BY <1>0, <1>1 DEF TypeOK, LockTypeOK
<1>4. TypeOK' /\ ReplayInv'
  BY <1>0, <1>1, <1>3, SupersedeMoves, StatementStep DEF InTx
<1>5. \A y \in Exchanges : y # x => ex'[y] = ex[y]
  BY <1>0, SupersedeMoves DEF Moves
<1>6. BindInv'
  BY <1>0, <1>1, <1>2, <1>5, SupersedeMoves
     DEF TableInv, BindInv, KeysFollowBinding, Active, Matches
<1>7. QueueInv'
  BY <1>0, <1>1, <1>2, <1>5, SupersedeMoves DEF TableInv, QueueInv, QueueIsSound
<1> QED
  BY <1>4, <1>6, <1>7 DEF TableInv

\* The key is issued: what was active of the app is superseded with it, and the
\* keys of other apps that are active afterwards were so before.
LEMMA IssueStep ==
  ASSUME TableInv, NEW x \in Exchanges, IssueKey(x)
  PROVE  TableInv'
<1>0. /\ TypeOK /\ ex[x].pc = "insertKey" /\ ex[x].pc \in InTx
      /\ Commit(x) /\ Rollback(x)
      /\ UNCHANGED <<published, verifierVars, bindings, requests, approving, registered, clock,
                     lastStart>>
  BY DEF TableInv, IssueKey, At, InTx, Commit
<1>1. PICK a \in Apps, t \in Tokens, now \in 0..clock, S \in SUBSET Nat :
        a = ex[x].app /\ t = ex[x].tok /\ now = ex[x].now /\ S = ex[x].sup
  BY <1>0 DEF TypeOK, ExchangeTypeOK, Exchange
<1>2. PICK new : new = [id |-> ids + 1, app |-> a, owner |-> Claims[t].id, superseded |-> Never,
                        revoked |-> FALSE]
  OBVIOUS
<1>3. new \in KeyRow /\ new.app = a /\ new.owner = Claims[t].id
  BY <1>0, <1>2 DEF TypeOK, OtherTypeOK, KeyRow, Identity, Never
<1>4. /\ keys' = {IF k.id \in S THEN [k EXCEPT !.superseded = now] ELSE k : k \in keys} \cup {new}
      /\ ids' = ids + 1 /\ bindings[a] # None
  BY <1>1, <1>2 DEF IssueKey
<1>5. now \in Int /\ now # Never
  BY <1>0 DEF TypeOK, OtherTypeOK, Never
<1>6. ASSUME NEW k \in keys
      PROVE  /\ [k EXCEPT !.superseded = now] \in KeyRow
             /\ [k EXCEPT !.superseded = now].app = k.app
             /\ [k EXCEPT !.superseded = now].owner = k.owner
             /\ [k EXCEPT !.superseded = now].superseded = now
  BY <1>0, <1>5 DEF TypeOK, TableTypeOK, KeyRow
\* A key of the next state is the new one, an old one, or an old one superseded.
<1>7. ASSUME NEW o \in keys', o # new
      PROVE  /\ o \in KeyRow
             /\ \E k \in keys : o.app = k.app /\ o.owner = k.owner
             /\ Active(o) => o \in keys /\ o.id \notin S
  <2>1. PICK k \in keys : o = IF k.id \in S THEN [k EXCEPT !.superseded = now] ELSE k
    BY <1>4, <1>7
  <2>2. CASE k.id \in S
    <3>1. o \in KeyRow /\ o.app = k.app /\ o.owner = k.owner /\ o.superseded = now
      BY <2>1, <2>2, <1>6
    <3>2. ~Active(o)
      BY <3>1, <1>5 DEF Active
    <3> QED
      BY <3>1, <3>2
  <2>3. CASE k.id \notin S
    BY <2>1, <2>3, <1>0 DEF TypeOK, TableTypeOK
  <2> QED
    BY <2>2, <2>3
<1>8. /\ LockTypeOK'
      /\ \A b \in Apps, y \in Exchanges : y # x /\ bindLock[b] = y => bindLock'[b] = y
      /\ \A y \in Exchanges : y # x /\ queueLock = y => queueLock' = y
      /\ \A y \in Exchanges : ex'[y].pc \in InTx => y # x /\ ex'[y] = ex[y]
  BY <1>0, Released
<1>9. /\ ReplayInv' /\ ExchangeTypeOK' /\ replay' \in SUBSET Tokens
      /\ spent' \in [Tokens -> Nat]
  BY <1>0, CommitReplay
<1>10. TypeOK'
  <2>1. keys' \in SUBSET KeyRow
    BY <1>3, <1>7
  <2> QED
    BY <2>1, <1>0, <1>4, <1>8, <1>9
       DEF TypeOK, TableTypeOK, OtherTypeOK, VerifierTypeOK, verifierVars
<1>11. /\ bindLock[a] = x /\ bindings[a] = Claims[t].id
       /\ \A k \in keys : k.app = a /\ Active(k) => k.id \in S
  BY <1>0, <1>1 DEF TableInv, BindInv
<1>12. KeysFollowBinding'
  <2>1. ASSUME NEW o \in keys'
        PROVE  bindings[o.app] # None /\ Matches(bindings[o.app], o.owner)
    <3>1. CASE o = new
      BY <3>1, <1>3, <1>4, <1>11 DEF Matches
    <3>2. CASE o # new
      BY <3>2, <1>7 DEF TableInv, BindInv, KeysFollowBinding, Matches
    <3> QED
      BY <3>1, <3>2
  <2>2. ASSUME NEW o \in keys', NEW k \in keys', Active(o), Active(k), o.app = k.app
        PROVE  o = k
    <3>1. ASSUME NEW j \in keys', j # new, Active(j)
          PROVE  j.app # a /\ j \in keys
      BY <3>1, <1>7, <1>11
    <3>2. CASE o = new \/ k = new
      BY <3>1, <3>2, <2>2, <1>3
    <3>3. CASE o # new /\ k # new
      BY <3>1, <3>3, <2>2 DEF TableInv, BindInv, KeysFollowBinding
    <3> QED
      BY <3>2, <3>3
  <2> QED
    BY <2>1, <2>2, <1>0 DEF KeysFollowBinding, Matches, Active
<1>13. BindInv'
  <2>1. ASSUME NEW y \in Exchanges, ex'[y].pc \in {"supersede", "insertKey"}
        PROVE  /\ y # x /\ ex'[y] = ex[y] /\ ex[y].app \in Apps /\ ex[y].app # a
               /\ bindLock'[ex[y].app] = y
               /\ bindings[ex[y].app] = Claims[ex[y].tok].id /\ bindings[ex[y].app] # None
    <3>1. y # x /\ ex'[y] = ex[y]
      BY <2>1, <1>8 DEF InTx
    <3>2. ex[y].app \in Apps
      BY <2>1, <3>1, <1>0 DEF TypeOK, ExchangeTypeOK
    <3>3. /\ bindLock[ex[y].app] = y
          /\ bindings[ex[y].app] = Claims[ex[y].tok].id /\ bindings[ex[y].app] # None
      BY <2>1, <3>1 DEF TableInv, BindInv
    <3> QED
      BY <3>1, <3>2, <3>3, <1>8, <1>11
  <2>2. ASSUME NEW y \in Exchanges, ex'[y].pc = "insertKey", NEW k \in keys',
               k.app = ex'[y].app, Active(k)
        PROVE  k.id \in ex'[y].sup
    <3>1. k # new
      BY <2>1, <2>2, <1>3
    <3> QED
      BY <2>1, <2>2, <3>1, <1>7 DEF TableInv, BindInv
  <2> QED
    BY <2>1, <2>2, <1>0, <1>12 DEF BindInv, Active
<1>14. QueueInv'
  <2>1. Pending' = Pending
    BY <1>0 DEF Pending
  <2> QED
    BY <2>1, <1>0, <1>8 DEF TableInv, QueueInv, QueueIsSound, InTx
<1> QED
  BY <1>9, <1>10, <1>13, <1>14 DEF TableInv

\* A commit that issues no key leaves the bindings to their holders.
LEMMA CommitBind ==
  ASSUME TableInv, NEW x \in Exchanges, Commit(x), UNCHANGED <<bindings, keys>>
  PROVE  BindInv'
<1>1. TypeOK /\ Rollback(x)
  BY DEF TableInv, Commit
<1>2. \A y \in Exchanges : ex'[y].pc \in {"supersede", "insertKey"} =>
        y # x /\ ex'[y] = ex[y] /\ bindLock'[ex[y].app] = y
  BY <1>1, Released DEF TableInv, BindInv, InTx, TypeOK, ExchangeTypeOK
<1> QED
  BY <1>2 DEF TableInv, BindInv, KeysFollowBinding, Active, Matches

\* A smaller set of pending requests is as sound.
LEMMA PendingSubset ==
  ASSUME QueueInv, Pending' \subseteq Pending
  PROVE  IsFiniteSet(Pending') /\ Cardinality(Pending') \in Nat
         /\ Cardinality(Pending') <= Cardinality(Pending) /\ Cardinality(Pending) \in Nat
BY FS_Subset, FS_CardinalityType DEF QueueInv

\* A set that a function maps a finite set onto is not larger.
LEMMA OntoBound ==
  ASSUME NEW P, IsFiniteSet(P), NEW Q, NEW f \in [P -> Q], \A r \in Q : \E q \in P : f[q] = r
  PROVE  IsFiniteSet(Q) /\ Cardinality(Q) <= Cardinality(P)
<1>1. f \in Surjection(P, Q)
  BY DEF Surjection
<1> QED
  BY <1>1, FS_Surjection

LEMMA RefreshedRow ==
  ASSUME NEW q \in RequestRow, NEW u \in Int, NEW i \in Identity
  PROVE  \E r \in RequestRow : /\ r = [q EXCEPT !.updated = u, !.identity = i]
                               /\ r.app = q.app /\ r.status = q.status
<1>1. PICK r1 : r1 = [q EXCEPT !.updated = u]
  OBVIOUS
<1>2. r1 \in RequestRow /\ r1.app = q.app /\ r1.status = q.status
  BY <1>1 DEF RequestRow
<1>3. PICK r2 : r2 = [r1 EXCEPT !.identity = i]
  OBVIOUS
<1>4. r2 \in RequestRow /\ r2.app = r1.app /\ r2.status = r1.status
  BY <1>2, <1>3 DEF RequestRow
<1>5. r2 = [q EXCEPT !.updated = u, !.identity = i]
  BY <1>1, <1>3
<1> QED
  BY <1>2, <1>4, <1>5

\* Under the queue lock.
LEMMA FileStep ==
  ASSUME TableInv, NEW x \in Exchanges, FilePendingRequest(x)
  PROVE  TableInv'
<1>0. /\ TypeOK /\ ex[x].pc = "file" /\ ex[x].pc \in InTx /\ queueLock = None
      /\ UNCHANGED <<published, verifierVars, bindings, keys, approving, registered, clock, ids,
                     lastStart>>
  BY DEF TableInv, FilePendingRequest, At, InTx
<1>1. PICK a \in Apps, t \in Tokens, now \in 0..clock :
        a = ex[x].app /\ t = ex[x].tok /\ now = ex[x].now
  BY <1>0 DEF TypeOK, ExchangeTypeOK, Exchange
\* Nobody else is between the queue's checks and its insert.
<1>2. \A y \in Exchanges : ex[y].pc # "insertRequest"
  BY <1>0, NoneAssumption DEF TableInv, QueueInv
<1>3. ASSUME Moves(x), ex'[x].pc \in {"lock", "insertRequest"},
             ex'[x].app = ex[x].app, ex'[x].tok = ex[x].tok, ex'[x].now = ex[x].now,
             queueLock' = x, UNCHANGED <<requests, replay, spent, bindLock>>,
             ex'[x].pc = "insertRequest" =>
               bindings[a] = None /\ Cardinality(Pending) < MaxPendingRequests
      PROVE  TableInv'
  <2>1. UNCHANGED <<tableVars, Pending>> /\ LockTypeOK' /\ ex'[x].pc \in InTx
    BY <1>0, <1>3 DEF tableVars, Pending, TypeOK, LockTypeOK, InTx
  <2>2. TypeOK' /\ ReplayInv'
    BY <1>0, <1>3, <2>1, StatementStep
  <2>3. \A y \in Exchanges : y # x => ex'[y] = ex[y]
    BY <1>3 DEF Moves
  <2>4. BindInv'
    BY <1>0, <1>3, <2>3 DEF TableInv, BindInv, KeysFollowBinding, Active, Matches
  <2>5. QueueInv'
    BY <1>0, <1>1, <1>2, <1>3, <2>1, <2>3 DEF TableInv, QueueInv, QueueIsSound
  <2> QED
    BY <2>2, <2>4, <2>5 DEF TableInv
<1>4. CASE /\ ex' = [ex EXCEPT ![x] = [@ EXCEPT !.pc = "lock", !.mayFile = FALSE]]
           /\ queueLock' = x /\ UNCHANGED <<requests, replay, spent, bindLock>>
  BY <1>0, <1>3, <1>4, RelockMoves
<1>5. CASE /\ bindings[a] = None /\ Cardinality(Pending) < MaxPendingRequests
           /\ Goto(x, "insertRequest") /\ queueLock' = x
           /\ UNCHANGED <<requests, replay, spent, bindLock>>
  <2>1. "insertRequest" \in Phase
    BY DEF Phase, InTx
  <2> QED
    BY <1>0, <1>3, <1>5, <2>1, GotoMoves DEF TypeOK
<1>6. CASE Rollback(x) /\ UNCHANGED <<requests, replay, spent>>
  <2>1. UNCHANGED tableVars
    BY <1>0, <1>6 DEF tableVars
  <2> QED
    BY <1>0, <1>6, <2>1, RollbackStep
<1>7. CASE /\ requests' = (requests \ Refreshable(x)) \cup
                {[q EXCEPT !.updated = now, !.identity = Claims[t].id] : q \in Refreshable(x)}
           /\ Commit(x)
  <2>0. PICK mine : mine = Refreshable(x)
    OBVIOUS
  <2>1. mine \subseteq Pending /\ Pending \subseteq requests /\ requests \subseteq RequestRow
        /\ Claims[t].id \in Identity /\ now \in Int
    BY <1>0, <2>0 DEF Refreshable, Pending, TypeOK, TableTypeOK, OtherTypeOK, Identity
  <2>2. \A q \in mine : /\ [q EXCEPT !.updated = now, !.identity = Claims[t].id] \in RequestRow
                        /\ [q EXCEPT !.updated = now, !.identity = Claims[t].id].app = q.app
                        /\ [q EXCEPT !.updated = now, !.identity = Claims[t].id].status = "pending"
    <3>1. ASSUME NEW q \in mine
          PROVE  /\ [q EXCEPT !.updated = now, !.identity = Claims[t].id] \in RequestRow
                 /\ [q EXCEPT !.updated = now, !.identity = Claims[t].id].app = q.app
                 /\ [q EXCEPT !.updated = now, !.identity = Claims[t].id].status = "pending"
      <4>1. q \in RequestRow /\ q.status = "pending"
        BY <2>1 DEF Pending
      <4>2. PICK r \in RequestRow :
              /\ r = [q EXCEPT !.updated = now, !.identity = Claims[t].id]
              /\ r.app = q.app /\ r.status = q.status
        BY <4>1, <2>1, RefreshedRow
      <4> QED
        BY <4>1, <4>2
    <3> QED
      BY <3>1
  <2> DEFINE g(q) == [q EXCEPT !.updated = now, !.identity = Claims[t].id]
  <2>3. requests' = (requests \ mine) \cup {g(q) : q \in mine}
    BY <1>7, <2>0
  <2>4. \A q \in mine : g(q) \in RequestRow /\ g(q).app = q.app /\ g(q).status = "pending"
    BY <2>2
  <2>5. Pending' = {IF q \in mine THEN g(q) ELSE q : q \in Pending}
    <3> HIDE DEF g
    <3>1. Pending' = {q \in requests' : q.status = "pending"}
      BY DEF Pending
    <3>2. {q \in requests' : q.status = "pending"} = (Pending \ mine) \cup {g(q) : q \in mine}
      BY <2>1, <2>3, <2>4 DEF Pending
    <3> QED
      BY <3>1, <3>2, <2>1
  <2>6. IsFiniteSet(Pending') /\ Cardinality(Pending') <= Cardinality(Pending)
    <3>1. PICK P, Q : P = Pending /\ Q = Pending'
      OBVIOUS
    <3>2. PICK f : f = [q \in P |-> IF q \in mine THEN g(q) ELSE q]
      OBVIOUS
    <3> HIDE DEF g
    <3>3. f \in [P -> Q] /\ \A r \in Q : \E q \in P : f[q] = r
      BY <2>5, <3>1, <3>2
    <3>4. IsFiniteSet(Q) /\ Cardinality(Q) <= Cardinality(P)
      <4>1. IsFiniteSet(P)
        BY <3>1 DEF TableInv, QueueInv
      <4> QED
        BY <3>3, <4>1, OntoBound
    <3> QED
      BY <3>1, <3>4
  <2>7. \A r \in Pending' : \E q \in Pending : r.app = q.app
    <3> HIDE DEF g
    <3> QED
      BY <2>4, <2>5
  <2>8. QueueInv'
    <3>1. Cardinality(Pending) \in Nat /\ Cardinality(Pending') \in Nat
      BY <2>6, FS_CardinalityType DEF TableInv, QueueInv
    <3>2. Cardinality(Pending') <= MaxPendingRequests
      BY <2>6, <3>1, TimeAssumption DEF TableInv, QueueInv, QueueIsSound
    <3>3. \A y \in Exchanges : ex'[y].pc # "insertRequest"
      <4>1. Rollback(x)
        BY <1>7 DEF Commit
      <4>2. \A y \in Exchanges : ex'[y].pc \in InTx => ex'[y] = ex[y]
        BY <1>0, <4>1, Released
      <4>3. "insertRequest" \in InTx
        BY DEF InTx
      <4> QED
        BY <1>2, <4>2, <4>3
    <3> QED
      BY <3>2, <3>3, <2>6, <2>7, <1>0 DEF TableInv, QueueInv, QueueIsSound
  <2>9. requests' \in SUBSET RequestRow
    <3> HIDE DEF g
    <3> QED
      BY <2>1, <2>3, <2>4
  <2>10. TypeOK' /\ ReplayInv' /\ BindInv'
    <3>1. LockTypeOK'
      BY <1>0, <1>7, Released DEF Commit
    <3>2. BindInv'
      BY <1>0, <1>7, CommitBind
    <3>3. /\ ReplayInv' /\ ExchangeTypeOK' /\ replay' \in SUBSET Tokens
          /\ spent' \in [Tokens -> Nat]
      BY <1>0, <1>7, CommitReplay
    <3> QED
      BY <3>1, <3>2, <3>3, <2>9, <1>0
         DEF TypeOK, TableTypeOK, OtherTypeOK, VerifierTypeOK, verifierVars
  <2> QED
    BY <2>8, <2>10 DEF TableInv
<1> QED
  BY <1>1, <1>4, <1>5, <1>6, <1>7 DEF FilePendingRequest

LEMMA InsertStep ==
  ASSUME TableInv, NEW x \in Exchanges, InsertRequest(x)
  PROVE  TableInv'
<1>0. /\ TypeOK /\ ex[x].pc = "insertRequest" /\ ex[x].pc \in InTx /\ Commit(x) /\ Rollback(x)
      /\ UNCHANGED <<published, verifierVars, bindings, keys, approving, registered, clock,
                     lastStart>>
      /\ ids' = ids + 1
  BY DEF TableInv, InsertRequest, At, InTx, Commit
<1>1. PICK a \in Apps, t \in Tokens, now \in 0..clock :
        a = ex[x].app /\ t = ex[x].tok /\ now = ex[x].now
  BY <1>0 DEF TypeOK, ExchangeTypeOK, Exchange
<1>2. PICK new : new = [id |-> ids + 1, app |-> a, identity |-> Claims[t].id,
                        status |-> "pending", updated |-> now, decided |-> Never]
  OBVIOUS
<1>3. new \in RequestRow /\ new.app = a /\ new.status = "pending"
  BY <1>0, <1>2 DEF TypeOK, OtherTypeOK, RequestRow, Identity, Never
<1>4. requests' = requests \cup {new}
  BY <1>1, <1>2 DEF InsertRequest
<1>5. Pending' = Pending \cup {new}
  BY <1>3, <1>4 DEF Pending
<1>6. /\ queueLock = x /\ bindings[a] = None /\ Cardinality(Pending) < MaxPendingRequests
      /\ IsFiniteSet(Pending)
  BY <1>0, <1>1 DEF TableInv, QueueInv
<1>7. IsFiniteSet(Pending') /\ Cardinality(Pending') <= MaxPendingRequests
  <2>1. /\ IsFiniteSet(Pending \cup {new}) /\ Cardinality(Pending) \in Nat
        /\ Cardinality(Pending \cup {new}) \in {Cardinality(Pending), Cardinality(Pending) + 1}
    BY <1>6, FS_AddElement, FS_CardinalityType
  <2> QED
    BY <2>1, <1>5, <1>6, TimeAssumption
<1>8. \A y \in Exchanges : ex'[y].pc # "insertRequest"
  BY <1>0, <1>6, Released DEF TableInv, QueueInv, InTx
<1>9. QueueInv'
  BY <1>0, <1>3, <1>5, <1>6, <1>7, <1>8 DEF TableInv, QueueInv, QueueIsSound
<1>10. TypeOK' /\ ReplayInv' /\ BindInv'
  <2>1. LockTypeOK' /\ requests' \in SUBSET RequestRow
    BY <1>0, <1>3, <1>4, Released DEF TypeOK, TableTypeOK
  <2>2. BindInv'
    BY <1>0, CommitBind
  <2>3. /\ ReplayInv' /\ ExchangeTypeOK' /\ replay' \in SUBSET Tokens
        /\ spent' \in [Tokens -> Nat]
    BY <1>0, CommitReplay
  <2> QED
    BY <2>1, <2>2, <2>3, <1>0
       DEF TypeOK, TableTypeOK, OtherTypeOK, VerifierTypeOK, verifierVars
<1> QED
  BY <1>9, <1>10 DEF TableInv

\* The exchange side of the invariants when no exchange moves.
LEMMA OperatorStep ==
  ASSUME TableInv,
         UNCHANGED <<published, verifierVars, bindLock, queueLock, ex, clock, ids, spent, lastStart>>,
         registered' \in SUBSET Apps, approving' \in Approval \cup {None},
         TableTypeOK', ReplayInv', BindInv', QueueInv'
  PROVE  TableInv'
BY DEF TableInv, TypeOK, VerifierTypeOK, LockTypeOK, OtherTypeOK, ExchangeTypeOK, verifierVars

LEMMA ReplayKept ==
  ASSUME ReplayInv, UNCHANGED <<ex, spent, clock, replay>>
  PROVE  ReplayInv'
BY DEF ReplayInv, TokenSpentOnce

LEMMA BindKept ==
  ASSUME BindInv, UNCHANGED <<ex, bindings, keys, bindLock>>
  PROVE  BindInv'
BY DEF BindInv, KeysFollowBinding, Active, Matches

LEMMA QueueKept ==
  ASSUME QueueInv, UNCHANGED <<ex, bindings, queueLock>>, Pending' \subseteq Pending
  PROVE  QueueInv'
<1>1. /\ IsFiniteSet(Pending') /\ Cardinality(Pending') \in Nat
      /\ Cardinality(Pending') <= Cardinality(Pending) /\ Cardinality(Pending) \in Nat
  BY PendingSubset
<1>2. /\ Cardinality(Pending') <= MaxPendingRequests
      /\ Cardinality(Pending) < MaxPendingRequests => Cardinality(Pending') < MaxPendingRequests
  BY <1>1, TimeAssumption DEF QueueInv, QueueIsSound
<1> QED
  BY <1>1, <1>2 DEF QueueInv, QueueIsSound

\* The approval binds an app that was not bound and clears its requests.
LEMMA ApproveStep ==
  ASSUME TableInv, ApproveRequest
  PROVE  TableInv'
<1>0. /\ TypeOK /\ queueLock = None /\ approving' = None
      /\ UNCHANGED <<published, verifierVars, replay, keys, bindLock, queueLock, ex, registered,
                     clock, ids, spent, lastStart>>
  BY DEF TableInv, ApproveRequest
<1>1. ReplayInv' /\ registered' \in SUBSET Apps /\ approving' \in Approval \cup {None}
  BY <1>0, ReplayKept DEF TableInv, TypeOK, OtherTypeOK
<1>2. CASE UNCHANGED <<bindings, requests>>
  <2>1. TableTypeOK' /\ Pending' = Pending
    BY <1>0, <1>2 DEF TypeOK, TableTypeOK, Pending
  <2>2. BindInv' /\ QueueInv'
    BY <1>0, <1>2, <2>1, BindKept, QueueKept DEF TableInv
  <2> QED
    BY <1>0, <1>1, <2>1, <2>2, OperatorStep
<1>3. ASSUME NEW q \in Pending, Approvable(q),
             bindings' = [bindings EXCEPT ![q.app] = q.identity],
             requests' = {o \in requests : o.status = "rejected" \/
                            (o.app # q.app /\ ~SameWorkflow(o.identity, q.identity))}
      PROVE  TableInv'
  <2>1. q \in RequestRow /\ q.app \in Apps /\ q.identity \in Identity
    BY <1>0 DEF Pending, TypeOK, TableTypeOK, RequestRow
  <2>2. bindings[q.app] = None
    BY <2>1, <1>3 DEF Approvable
  <2>3. \A b \in Apps : b # q.app => bindings'[b] = bindings[b]
    BY <1>3, <1>0 DEF TypeOK, TableTypeOK
  <2>4. TableTypeOK'
    BY <1>0, <1>3, <2>1 DEF TypeOK, TableTypeOK
  <2>5. BindInv'
    <3>1. \A k \in keys : k.app \in Apps /\ k.app # q.app
      BY <1>0, <2>2 DEF TypeOK, TableTypeOK, KeyRow, TableInv, BindInv, KeysFollowBinding
    <3>2. \A y \in Exchanges : ex[y].pc \in {"supersede", "insertKey"} =>
            ex[y].app \in Apps /\ ex[y].app # q.app
      BY <1>0, <2>2 DEF TypeOK, ExchangeTypeOK, TableInv, BindInv
    <3> QED
      BY <1>0, <2>3, <3>1, <3>2 DEF TableInv, BindInv, KeysFollowBinding, Active, Matches
  <2>6. QueueInv'
    <3>1. /\ Pending' \subseteq Pending
          /\ \A o \in Pending' : o.app # q.app /\ o.app \in Apps
      BY <1>0, <1>3 DEF Pending, TypeOK, TableTypeOK, RequestRow
    <3>2. /\ IsFiniteSet(Pending') /\ Cardinality(Pending') \in Nat
          /\ Cardinality(Pending') <= Cardinality(Pending) /\ Cardinality(Pending) \in Nat
      BY <3>1, PendingSubset DEF TableInv
    <3>3. Cardinality(Pending') <= MaxPendingRequests
      BY <3>2, TimeAssumption DEF TableInv, QueueInv, QueueIsSound
    <3>4. \A y \in Exchanges : ex[y].pc # "insertRequest"
      BY <1>0, NoneAssumption DEF TableInv, QueueInv
    <3>5. \A o \in Pending' : bindings'[o.app] = None
      BY <3>1, <2>3 DEF TableInv, QueueInv, QueueIsSound
    <3> QED
      BY <1>0, <3>2, <3>3, <3>4, <3>5 DEF QueueInv, QueueIsSound
  <2> QED
    BY <1>0, <1>1, <2>4, <2>5, <2>6, OperatorStep
<1> QED
  BY <1>2, <1>3 DEF ApproveRequest

LEMMA RejectStep ==
  ASSUME TableInv, RejectRequest
  PROVE  TableInv'
<1>0. /\ TypeOK
      /\ UNCHANGED <<published, verifierVars, replay, bindings, keys, bindLock, queueLock, ex,
                     approving, registered, clock, ids, spent, lastStart>>
  BY DEF TableInv, RejectRequest
<1>1. PICK q \in Pending :
        requests' = (requests \ {q}) \cup
                      {[q EXCEPT !.status = "rejected", !.decided = clock, !.updated = clock]}
  BY DEF RejectRequest
<1>2. PICK r1 : r1 = [q EXCEPT !.status = "rejected"]
  OBVIOUS
<1>3. PICK r2 : r2 = [r1 EXCEPT !.decided = clock]
  OBVIOUS
<1>4. PICK r3 : r3 = [r2 EXCEPT !.updated = clock]
  OBVIOUS
<1>5. q \in RequestRow /\ clock \in Int
  BY <1>0 DEF Pending, TypeOK, TableTypeOK, OtherTypeOK
<1>6. r1 \in RequestRow /\ r1.status = "rejected"
  BY <1>2, <1>5 DEF RequestRow
<1>7. r2 \in RequestRow /\ r2.status = "rejected"
  BY <1>3, <1>5, <1>6 DEF RequestRow
<1>8. r3 \in RequestRow /\ r3.status = "rejected"
  BY <1>4, <1>5, <1>7 DEF RequestRow
<1>9. requests' = (requests \ {q}) \cup {r3}
  BY <1>1, <1>2, <1>3, <1>4
<1>10. TableTypeOK' /\ Pending' \subseteq Pending
  BY <1>0, <1>8, <1>9 DEF TypeOK, TableTypeOK, Pending
<1>11. ReplayInv' /\ BindInv' /\ QueueInv'
  BY <1>0, <1>10, ReplayKept, BindKept, QueueKept DEF TableInv
<1> QED
  BY <1>0, <1>10, <1>11, OperatorStep DEF TypeOK, OtherTypeOK

LEMMA RevokeStep ==
  ASSUME TableInv, RevokeKey
  PROVE  TableInv'
<1>0. /\ TypeOK
      /\ UNCHANGED <<published, verifierVars, replay, bindings, requests, bindLock, queueLock, ex,
                     approving, registered, clock, ids, spent, lastStart>>
  BY DEF TableInv, RevokeKey
<1>1. PICK k \in keys : keys' = (keys \ {k}) \cup {[k EXCEPT !.revoked = TRUE]}
  BY DEF RevokeKey
<1>2. PICK r : r = [k EXCEPT !.revoked = TRUE]
  OBVIOUS
<1>3. r \in KeyRow /\ r.revoked = TRUE /\ r.app = k.app /\ r.owner = k.owner
  BY <1>0, <1>2 DEF TypeOK, TableTypeOK, KeyRow
<1>4. ~Active(r)
  BY <1>3 DEF Active
<1>5. \A o \in keys' : o \in keys \/ o = r
  BY <1>1, <1>2
<1>6. TableTypeOK' /\ Pending' = Pending
  BY <1>0, <1>3, <1>5 DEF TypeOK, TableTypeOK, Pending
<1>7. BindInv'
  <2>1. KeysFollowBinding'
    BY <1>0, <1>3, <1>4, <1>5 DEF TableInv, BindInv, KeysFollowBinding, Matches, Active
  <2>2. \A y \in Exchanges : ex[y].pc = "insertKey" =>
          \A o \in keys' : o.app = ex[y].app /\ Active(o) => o.id \in ex[y].sup
    BY <1>4, <1>5 DEF TableInv, BindInv
  <2> QED
    BY <1>0, <2>1, <2>2 DEF TableInv, BindInv, Active
<1>8. ReplayInv' /\ QueueInv'
  BY <1>0, <1>6, ReplayKept, QueueKept DEF TableInv
<1> QED
  BY <1>0, <1>6, <1>7, <1>8, OperatorStep DEF TypeOK, OtherTypeOK

\* Unbinding waits for the exchange that holds the row, so nobody issues a key
\* of the app that has gone.
LEMMA UnbindStep ==
  ASSUME TableInv, Unbind
  PROVE  TableInv'
<1>0. /\ TypeOK
      /\ UNCHANGED <<published, verifierVars, replay, requests, bindLock, queueLock, ex, approving,
                     registered, clock, ids, spent, lastStart>>
  BY DEF TableInv, Unbind
<1>1. PICK a \in Apps : /\ bindings[a] # None /\ bindLock[a] = None
                        /\ bindings' = [bindings EXCEPT ![a] = None]
                        /\ keys' = {k \in keys : k.app # a}
  BY DEF Unbind
<1>2. bindings'[a] = None /\ \A b \in Apps : b # a => bindings'[b] = bindings[b]
  BY <1>0, <1>1 DEF TypeOK, TableTypeOK
<1>3. TableTypeOK' /\ Pending' = Pending
  BY <1>0, <1>1 DEF TypeOK, TableTypeOK, Pending
<1>4. BindInv'
  <2>1. \A k \in keys' : k \in keys /\ k.app \in Apps /\ k.app # a
    BY <1>0, <1>1 DEF TypeOK, TableTypeOK, KeyRow
  <2>2. \A y \in Exchanges : ex[y].pc \in {"supersede", "insertKey"} =>
          ex[y].app \in Apps /\ ex[y].app # a
    BY <1>0, <1>1, NoneAssumption DEF TypeOK, ExchangeTypeOK, TableInv, BindInv
  <2> QED
    BY <1>0, <1>2, <2>1, <2>2 DEF TableInv, BindInv, KeysFollowBinding, Active, Matches
<1>5. QueueInv'
  <2>1. \A y \in Exchanges : ex[y].pc = "insertRequest" => ex[y].app \in Apps
    BY <1>0 DEF TypeOK, ExchangeTypeOK
  <2>2. \A q \in Pending : q.app \in Apps
    BY <1>0 DEF TypeOK, TableTypeOK, RequestRow, Pending
  <2> QED
    BY <1>0, <1>2, <1>3, <2>1, <2>2 DEF TableInv, QueueInv, QueueIsSound
<1> QED
  BY <1>0, <1>3, <1>4, <1>5, ReplayKept, OperatorStep DEF TableInv, TypeOK, OtherTypeOK

\* The sweep forgets a jti only after the token has expired.
LEMMA CleanupStep ==
  ASSUME TableInv, ReplayCleanup
  PROVE  TableInv'
<1>0. /\ TypeOK
      /\ UNCHANGED <<published, verifierVars, bindings, keys, bindLock, queueLock, ex, approving,
                     registered, clock, ids, spent, lastStart>>
  BY DEF TableInv, ReplayCleanup
<1>1. /\ replay' \subseteq replay /\ requests' \subseteq requests
      /\ \A t \in replay \ replay' : ~(ReplayExpiry(t) >= clock)
  BY DEF ReplayCleanup, KeptReplay, KeptRequests
<1>2. TableTypeOK' /\ Pending' \subseteq Pending
  BY <1>0, <1>1 DEF TypeOK, TableTypeOK, Pending
<1>3. ReplayInv'
  <2>1. \A t \in Tokens : ReplayExpiry(t) \in Int /\ clock \in Int
    BY <1>0, ClaimsAssumption, TimeAssumption DEF ReplayExpiry, TypeOK, OtherTypeOK
  <2>2. \A t \in Tokens : spent[t] = 1 => t \in replay' \/ clock > ReplayExpiry(t)
    BY <1>1, <2>1 DEF TableInv, ReplayInv
  <2> QED
    BY <1>0, <2>2 DEF TableInv, ReplayInv, TokenSpentOnce
<1>4. BindInv' /\ QueueInv'
  BY <1>0, <1>2, BindKept, QueueKept DEF TableInv
<1> QED
  BY <1>0, <1>2, <1>3, <1>4, OperatorStep DEF TypeOK, OtherTypeOK

-----------------------------------------------------------------------------
(***************************************************************************)
(* The verifier's gate.                                                    *)
(***************************************************************************)
\* The step of FetchesAreSpaced.
Spaced ==
  \A y \in Exchanges :
    (~At(y, "fetch") /\ ex'[y].pc = "fetch" /\ lastStart # Never)
      => clock - lastStart >= RefetchInterval

LEMMA GateKept ==
  ASSUME GateInv, NEW x \in Exchanges, Moves(x), ex'[x].pc # "fetch",
         UNCHANGED <<gate, lastFetch, lastStart>>
  PROVE  GateInv' /\ Spaced
BY DEF GateInv, Spaced, At, Moves

LEMMA GateStep ==
  ASSUME TypeOK, GateInv, NEW x \in Exchanges, Step(x)
  PROVE  GateInv' /\ Spaced
<1>0. ExchangeTypeOK
  BY DEF TypeOK
<1>1. UNCHANGED verifierVars => UNCHANGED <<gate, lastFetch>>
  BY DEF verifierVars
<1>2. CASE HandleExchange(x)
  BY <1>0, <1>1, <1>2, HandleMoves, GateKept DEF HandleExchange
<1>3. CASE publicKey(x)
  BY <1>0, <1>1, <1>3, PublicKeyMoves, GateKept DEF publicKey
<1>4. CASE refresh(x)
  <2>1. gate = None /\ UNCHANGED lastFetch /\ \A y \in Exchanges : ~At(y, "fetch")
    BY <1>4, NoneAssumption DEF refresh, GateInv
  <2>2. lastFetch = lastStart /\ clock \in Int /\ lastStart \in Int /\ RefetchInterval \in Int
    BY <2>1, TimeAssumption DEF GateInv, TypeOK, OtherTypeOK, VerifierTypeOK
  <2>3. CASE ex'[x].pc # "fetch"
    BY <1>4, <2>1, <2>3, RefreshMoves, GateKept
  <2>4. CASE ex'[x].pc = "fetch"
    <3>1. /\ Moves(x) /\ ~RateLimited /\ ex'[x].started = clock /\ gate' = x /\ lastStart' = clock
      BY <1>4, <2>4, RefreshMoves
    <3>2. GateInv'
      BY <2>1, <3>1, NoneAssumption DEF GateInv, At, Moves
    <3>3. lastStart # Never => clock - lastStart >= RefetchInterval
      BY <2>2, <3>1 DEF RateLimited
    <3> QED
      BY <3>2, <3>3 DEF Spaced
  <2> QED
    BY <2>3, <2>4
<1>5. CASE fetchKeys(x)
  <2>1. /\ Moves(x) /\ ex[x].pc = "fetch" /\ ex'[x].pc # "fetch"
        /\ gate' = None /\ lastFetch' = ex[x].started /\ UNCHANGED lastStart
    BY <1>5, FetchMoves
  <2> QED
    BY <2>1 DEF GateInv, Spaced, At, Moves
<1>6. CASE RecordJTI(x)
  BY <1>1, <1>6, RecordMoves, GateKept DEF RecordJTI
<1>7. CASE Supersede(x)
  BY <1>1, <1>7, SupersedeMoves, GateKept DEF Supersede
<1>8. ASSUME Rollback(x), UNCHANGED <<verifierVars, lastStart>>
      PROVE  GateInv' /\ Spaced
  BY <1>1, <1>8, Released, GateKept
<1>9. ASSUME NEW p \in Phase, p # "fetch", Goto(x, p), UNCHANGED <<verifierVars, lastStart>>
      PROVE  GateInv' /\ Spaced
  BY <1>0, <1>1, <1>9, GotoMoves, GateKept
<1>10. CASE LockBinding(x)
  <2>1. "supersede" \in Phase /\ "file" \in Phase /\ UNCHANGED <<verifierVars, lastStart>>
    BY <1>10 DEF Phase, InTx, LockBinding
  <2>2. Rollback(x) \/ Goto(x, "supersede") \/ Goto(x, "file")
    BY <1>10 DEF LockBinding
  <2> QED
    BY <1>8, <1>9, <2>1, <2>2
<1>11. CASE IssueKey(x)
  BY <1>8, <1>11 DEF IssueKey, Commit
<1>12. CASE FilePendingRequest(x)
  <2>1. "insertRequest" \in Phase /\ UNCHANGED <<verifierVars, lastStart>>
    BY <1>12 DEF Phase, InTx, FilePendingRequest
  <2>2. CASE ex' = [ex EXCEPT ![x] = [@ EXCEPT !.pc = "lock", !.mayFile = FALSE]]
    BY <1>1, <2>1, <2>2, RelockMoves, GateKept
  <2>3. \/ Rollback(x) \/ Goto(x, "insertRequest")
        \/ ex' = [ex EXCEPT ![x] = [@ EXCEPT !.pc = "lock", !.mayFile = FALSE]]
    BY <1>12 DEF FilePendingRequest, Commit
  <2> QED
    BY <1>8, <1>9, <2>1, <2>2, <2>3
<1>13. CASE InsertRequest(x)
  BY <1>8, <1>13 DEF InsertRequest, Commit
<1>14. CASE Abort(x)
  BY <1>8, <1>14 DEF Abort
<1> QED
  BY <1>2, <1>3, <1>4, <1>5, <1>6, <1>7, <1>10, <1>11, <1>12, <1>13, <1>14 DEF Step

-----------------------------------------------------------------------------
LEMMA InitInv == Init => Inv
<1> SUFFICES ASSUME Init PROVE Inv
  OBVIOUS
<1>1. Pending = {} /\ IsFiniteSet({}) /\ Cardinality({}) = 0
  BY FS_EmptySet DEF Init, Pending
<1>2. TypeOK
  <2>1. VerifierTypeOK
    <3>1. PICK k \in Kids : published = {k} /\ (cached = {} \/ cached = {k})
      BY DEF Init
    <3>2. lastFetch = -1 /\ lastFetchErr = FALSE /\ gate = None /\ lastStart = -1
      BY DEF Init, Never
    <3>3. lastFetch \in Int /\ lastStart \in Int
      BY <3>2
    <3>4. published \in SUBSET Kids /\ cached \in SUBSET Kids
      BY <3>1
    <3> QED
      BY <3>2, <3>3, <3>4, Zenon DEF VerifierTypeOK
  <2>2. TableTypeOK
    BY DEF Init, TableTypeOK, Identity
  <2>3. LockTypeOK /\ OtherTypeOK
    BY DEF Init, LockTypeOK, OtherTypeOK
  <2>4. ExchangeTypeOK
    BY IdleType DEF Init, ExchangeTypeOK, InTx
  <2> QED
    BY <2>1, <2>2, <2>3, <2>4 DEF TypeOK
<1>3. \A x \in Exchanges : ex[x].pc = "idle"
  BY IdleType DEF Init
<1>4. ReplayInv
  BY <1>3 DEF Init, ReplayInv, TokenSpentOnce, InTx
<1>5. BindInv
  BY <1>3 DEF Init, BindInv, KeysFollowBinding
<1>6. QueueInv
  BY <1>1, <1>3, TimeAssumption DEF QueueInv, QueueIsSound
<1>7. GateInv
  BY <1>3 DEF Init, GateInv, At
<1> QED
  BY <1>2, <1>4, <1>5, <1>6, <1>7 DEF Inv, TableInv

LEMMA ExchangeInv ==
  ASSUME TableInv, NEW x \in Exchanges, Step(x)
  PROVE  TableInv'
<1>0. TypeOK /\ ExchangeTypeOK /\ VerifierTypeOK /\ OtherTypeOK
  BY DEF TableInv, TypeOK
<1>1. UNCHANGED <<published, verifierVars, lastStart>> => VerifierTypeOK'
  BY <1>0 DEF VerifierTypeOK, verifierVars
<1>2. CASE HandleExchange(x)
  BY <1>0, <1>1, <1>2, HandleMoves, OutsideStep DEF HandleExchange, InTx
<1>3. CASE publicKey(x)
  BY <1>0, <1>1, <1>3, PublicKeyMoves, OutsideStep DEF publicKey, InTx
<1>4. CASE refresh(x)
  <2>1. VerifierTypeOK'
    <3>1. UNCHANGED <<published, cached, lastFetch, lastFetchErr>>
      BY <1>4 DEF refresh
    <3>2. gate' \in {gate, x} /\ lastStart' \in {lastStart, clock}
      BY <1>0, <1>4, RefreshMoves
    <3> QED
      BY <3>1, <3>2, <1>0 DEF VerifierTypeOK, OtherTypeOK
  <2>2. /\ Moves(x) /\ ex[x].pc = "gate" /\ ex'[x].pc \in {"idle", "lookupAgain", "fetch"}
        /\ ex'[x].pc # "idle" => ex'[x].app \in Apps /\ ex'[x].tok \in Tokens
    BY <1>0, <1>4, RefreshMoves
  <2> QED
    BY <1>4, <2>1, <2>2, OutsideStep DEF refresh, InTx
<1>5. CASE fetchKeys(x)
  <2>1. ex[x].started \in Int
    BY <1>0 DEF ExchangeTypeOK, Exchange
  <2>2. VerifierTypeOK'
    BY <1>0, <1>5, <2>1, FetchMoves DEF VerifierTypeOK
  <2> QED
    BY <1>0, <1>5, <2>2, FetchMoves, OutsideStep DEF fetchKeys, InTx
<1>6. CASE Abort(x)
  BY <1>6, RollbackStep DEF Abort
<1> QED
  BY <1>2, <1>3, <1>4, <1>5, <1>6, RecordStep, LockStep, SupersedeStep, IssueStep, FileStep,
     InsertStep DEF Step

\* A restart ends every exchange and the approval under way; the tables stay.
LEMMA RestartStep ==
  ASSUME Inv, Restart
  PROVE  Inv' /\ Spaced
<1>0. /\ TypeOK /\ UNCHANGED <<replay, bindings, keys, requests, published, registered, clock, ids,
                               spent>>
      /\ cached' = {} /\ lastFetch' = Never /\ lastFetchErr' = FALSE /\ gate' = None
      /\ bindLock' = [a \in Apps |-> None] /\ queueLock' = None
      /\ ex' = [x \in Exchanges |-> IdleExchange]
      /\ approving' = None /\ lastStart' = Never
  BY DEF Inv, TableInv, Restart, tableVars
<1>1. /\ ex' \in [Exchanges -> Exchange] /\ \A x \in Exchanges : ex'[x].pc = "idle"
      /\ Pending' = Pending /\ Never \in Int
  BY <1>0, IdleType DEF Pending
<1>2. TypeOK'
  BY <1>0, <1>1 DEF TypeOK, VerifierTypeOK, TableTypeOK, LockTypeOK, OtherTypeOK, ExchangeTypeOK, InTx
<1>3. ReplayInv'
  BY <1>0, <1>1 DEF Inv, TableInv, ReplayInv, TokenSpentOnce, InTx
<1>4. BindInv'
  BY <1>0, <1>1 DEF Inv, TableInv, BindInv, KeysFollowBinding, Active, Matches
<1>5. QueueInv'
  BY <1>0, <1>1 DEF Inv, TableInv, QueueInv, QueueIsSound
<1>6. GateInv' /\ Spaced
  BY <1>0, <1>1 DEF GateInv, Spaced, At
<1> QED
  BY <1>2, <1>3, <1>4, <1>5, <1>6 DEF Inv, TableInv

LEMMA TickStep ==
  ASSUME TableInv, Tick
  PROVE  TableInv'
<1>0. /\ TypeOK /\ clock' = clock + 1
      /\ UNCHANGED <<published, verifierVars, tableVars, bindLock, queueLock, ex, approving,
                     registered, ids, spent, lastStart>>
  BY DEF TableInv, Tick
<1>1. UNCHANGED <<replay, bindings, keys, requests>> /\ Pending' = Pending
  BY <1>0 DEF tableVars, Pending
<1>2. clock \in Nat /\ clock' \in Nat /\ 0..clock \subseteq 0..clock'
  BY <1>0 DEF TypeOK, OtherTypeOK
<1>3. TypeOK'
  <2>1. ExchangeTypeOK'
    BY <1>0, <1>2 DEF TypeOK, ExchangeTypeOK
  <2> QED
    BY <2>1, <1>0, <1>1, <1>2 DEF TypeOK, VerifierTypeOK, TableTypeOK, LockTypeOK, OtherTypeOK, verifierVars
<1>4. ReplayInv'
  <2>1. \A t \in Tokens : ReplayExpiry(t) \in Int
    BY ClaimsAssumption, TimeAssumption DEF ReplayExpiry
  <2>2. \A t \in Tokens : spent[t] = 1 => t \in replay \/ clock' > ReplayExpiry(t)
    BY <1>0, <1>2, <2>1 DEF TableInv, ReplayInv
  <2> QED
    BY <1>0, <1>1, <2>2 DEF TableInv, ReplayInv, TokenSpentOnce
<1>5. BindInv' /\ QueueInv'
  BY <1>0, <1>1, BindKept, QueueKept DEF TableInv
<1> QED
  BY <1>3, <1>4, <1>5 DEF TableInv

LEMMA NextInv ==
  ASSUME Inv, [Next]_vars
  PROVE  Inv' /\ Spaced
<1>0. TableInv /\ GateInv /\ TypeOK /\ OtherTypeOK
  BY DEF Inv, TableInv, TypeOK
<1>1. ASSUME NEW x \in Exchanges, Step(x)
      PROVE  Inv' /\ Spaced
  BY <1>0, <1>1, ExchangeInv, GateStep DEF Inv
\* Of the other steps only a restart touches an exchange or the verifier.
<1>2. UNCHANGED <<verifierVars, ex, lastStart>> => GateInv' /\ Spaced
  BY <1>0 DEF GateInv, Spaced, At, verifierVars
<1>3. ASSUME UNCHANGED <<tableVars, published, verifierVars, bindLock, queueLock, ex, clock, ids,
                         spent, lastStart>>,
             registered' \in SUBSET Apps, approving' \in Approval \cup {None}
      PROVE  Inv' /\ Spaced
  <2>1. UNCHANGED <<replay, bindings, keys, requests>> /\ Pending' = Pending
    BY <1>3 DEF tableVars, Pending
  <2>2. TableTypeOK' /\ ReplayInv' /\ BindInv' /\ QueueInv'
    BY <1>0, <1>3, <2>1, ReplayKept, BindKept, QueueKept DEF TableInv, TypeOK, TableTypeOK
  <2> QED
    BY <1>0, <1>2, <1>3, <2>2, OperatorStep DEF Inv
<1>4. CASE ApproveStart
  <2>1. approving' \in Approval
    BY <1>0, <1>4 DEF ApproveStart, Approval, Pending, TypeOK, TableTypeOK, RequestRow
  <2> QED
    BY <1>0, <1>3, <1>4, <2>1 DEF ApproveStart, OtherTypeOK
<1>5. CASE CreateApp
  <2>1. approving \in Approval
    BY <1>0, <1>5 DEF CreateApp, OtherTypeOK
  <2>2. approving' \in Approval \cup {None} /\ registered' \in SUBSET Apps
    BY <1>0, <1>5, <2>1 DEF CreateApp, Approval, OtherTypeOK
  <2> QED
    BY <1>3, <1>5, <2>2 DEF CreateApp
<1>6. CASE ApproveRequest
  BY <1>0, <1>2, <1>6, ApproveStep DEF ApproveRequest, Inv
<1>7. CASE RejectRequest
  BY <1>0, <1>2, <1>7, RejectStep DEF RejectRequest, Inv
<1>8. CASE RevokeKey
  BY <1>0, <1>2, <1>8, RevokeStep DEF RevokeKey, Inv
<1>9. CASE Unbind
  BY <1>0, <1>2, <1>9, UnbindStep DEF Unbind, Inv
<1>10. CASE ReplayCleanup
  BY <1>0, <1>2, <1>10, CleanupStep DEF ReplayCleanup, Inv
<1>11. CASE RotateSigningKeys
  <2>1. UNCHANGED <<verifierVars, tableVars, bindLock, queueLock, ex, approving, registered, clock,
                    ids, spent, lastStart>> /\ published' \in SUBSET Kids
    BY <1>11 DEF RotateSigningKeys
  <2>2. UNCHANGED <<replay, bindings, keys, requests>> /\ Pending' = Pending
    BY <2>1 DEF tableVars, Pending
  <2>3. ReplayInv' /\ BindInv' /\ QueueInv'
    BY <1>0, <2>1, <2>2, ReplayKept, BindKept, QueueKept DEF TableInv
  <2>4. TypeOK'
    BY <1>0, <2>1, <2>2
       DEF TypeOK, TableTypeOK, VerifierTypeOK, LockTypeOK, OtherTypeOK, ExchangeTypeOK, verifierVars
  <2> QED
    BY <1>2, <2>1, <2>3, <2>4 DEF Inv, TableInv
<1>12. CASE Restart
  BY <1>12, RestartStep
<1>13. CASE Tick
  BY <1>0, <1>2, <1>13, TickStep DEF Tick, Inv
<1>14. CASE UNCHANGED vars
  BY <1>0, <1>3, <1>14 DEF vars, OtherTypeOK
<1> QED
  BY <1>1, <1>4, <1>5, <1>6, <1>7, <1>8, <1>9, <1>10, <1>11, <1>12, <1>13, <1>14 DEF Next

LEMMA InvAlways == Spec => []Inv
<1>1. Inv /\ [Next]_vars => Inv'
  BY NextInv
<1> QED
  BY <1>1, InitInv, PTL DEF Spec

(***************************************************************************)
(* The theorems.                                                           *)
(***************************************************************************)

\* The exchange service's state keeps its types, with an app, a token and a time
\* of decision wherever an exchange needs them.
THEOREM TypeCorrect == Spec => []TypeOK
<1>1. Inv => TypeOK
  BY DEF Inv, TableInv
<1> QED
  BY <1>1, InvAlways, PTL

\* A jti recorded by the token's replay expiry is exchanged once, for any number
\* of concurrent exchanges, replays, restarts and sweeps.
THEOREM SpentOnce == Spec => []TokenSpentOnce
<1>1. Inv => TokenSpentOnce
  BY DEF Inv, TableInv, ReplayInv
<1> QED
  BY <1>1, InvAlways, PTL

\* Every key belongs to the identity its app is bound to, and no app has two
\* active keys.
THEOREM KeysFollow == Spec => []KeysFollowBinding
<1>1. Inv => KeysFollowBinding
  BY DEF Inv, TableInv, BindInv
<1> QED
  BY <1>1, InvAlways, PTL

\* No request of a bound app is pending, and the queue keeps its limit, for any
\* MaxPendingRequests.
THEOREM QueueSound == Spec => []QueueIsSound
<1>1. Inv => QueueIsSound
  BY DEF Inv, TableInv, QueueInv
<1> QED
  BY <1>1, InvAlways, PTL

\* Two fetches of the issuer's keys by one process start RefetchInterval apart,
\* however many exchanges wait at the gate.
THEOREM FetchesSpaced == Spec => FetchesAreSpaced
<1>1. Inv /\ [Next]_vars =>
        [\A x \in Exchanges :
           (~At(x, "fetch") /\ ex'[x].pc = "fetch" /\ lastStart # Never)
             => clock - lastStart >= RefetchInterval]_vars
  BY NextInv DEF Spaced
<1> QED
  BY <1>1, InvAlways, PTL DEF Spec, FetchesAreSpaced
=============================================================================
