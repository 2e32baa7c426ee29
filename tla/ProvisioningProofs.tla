------------------------- MODULE ProvisioningProofs -------------------------
(***************************************************************************)
(* The safety of the person flows for any number of persons, apps and      *)
(* requests, any limits and any number of failed calls and crashes.  The   *)
(* base is what a request may hold where, and under which lock (BaseInv),  *)
(* and that operation numbers are not used twice (FreshInv).  On it stand  *)
(* three arguments: the stamp and the password (PasswordInv), grants and   *)
(* tokens (AccessInv, which takes from PasswordInv only that a user who is *)
(* healed exists) and the reset slots (ResetInv).                          *)
(***************************************************************************)
EXTENDS Provisioning, FiniteSetTheorems, TLAPS

Grant == Apps \X {"scoped", "broadcast"}
Token == Apps \X Nat
User == [exists : BOOLEAN, pw : Nat, grants : SUBSET Grant, tokens : SUBSET Token]
Row == [row : BOOLEAN, stamp : Nat]
Slot == [id : Nat, at : Nat]

\* The phases under the person's lock, and those of a password change, of a
\* provisioning and of the removals.
Locked == {"claim", "releaseLost", "addUser", "heal", "change", "record", "grant", "broadcast",
           "addToken", "upsert", "last", "deleteUser", "deletePerson"}
Granting == {"grant", "broadcast", "list", "remove", "addToken", "upsert", "answer"}
Phase == Locked \cup {"idle", "lock", "check", "throttle", "slot", "giveBack", "reset",
                      "resetBroadcast", "list", "remove", "listUsers", "next", "publisher", "app",
                      "answer", "fail"}
Changes == {"setPassword", "resetPassword"}

Request ==
  [pc : Phase, op : Ops \cup {"none"}, p : Persons \cup {None}, a : Apps \cup {None}, n : Nat,
   held : Nat, prev : Nat, row : BOOLEAN, usable : BOOLEAN, toks : SUBSET Token, slot : BOOLEAN,
   todo : SUBSET Persons, raced : BOOLEAN]

ExtTypeOK ==
  /\ ntfy \in [Persons -> User] /\ store \in [Persons -> Row]
  /\ publishers \in SUBSET Apps /\ registry \in SUBSET Apps
  /\ slots \in [Persons -> SUBSET Slot]
ProcTypeOK ==
  /\ attempts \in [Persons -> [Apps -> SUBSET Slot]]
  /\ lock \in [Persons -> Requests \cup {None}]
HistTypeOK ==
  /\ known \in [Persons -> Nat] /\ doubt \in [Persons -> BOOLEAN] /\ kept \in [Persons -> BOOLEAN]
  /\ served \in SUBSET (Persons \X Apps \X Nat)
  /\ granted \in [Persons -> SUBSET Slot]
RequestTypeOK == req \in [Requests -> Request]
OtherTypeOK == clock \in Nat /\ ops \in Nat /\ faults \in Nat

TypeOK == ExtTypeOK /\ ProcTypeOK /\ HistTypeOK /\ RequestTypeOK /\ OtherTypeOK

\* Which operation is in which phase, and what its request names there.
OpInv(q) ==
  /\ q.pc # "idle" => q.n # 0
  /\ q.pc \in {"releaseLost", "addUser", "heal", "grant", "broadcast", "addToken", "upsert"}
       => q.op = "provision"
  /\ q.pc \in {"claim", "change"} => q.op \in Changes \cup {"provision"}
  /\ q.pc = "record" => q.op \in Changes
  /\ q.pc = "check" => q.op \in Changes \cup {"deprovision", "deprovisionApp"}
  /\ q.pc \in {"throttle", "slot", "giveBack"} => q.op = "resetPassword"
  /\ q.pc \in {"reset", "resetBroadcast", "last"} => q.op \in {"deprovision", "deprovisionApp"}
  /\ q.pc \in {"deleteUser", "deletePerson"} => q.op \in Removals
  /\ q.pc \in {"list", "remove"} => q.op \in {"provision", "deprovision", "deprovisionApp"}
  /\ q.pc \in {"listUsers", "next", "publisher", "app"} => q.op = "deprovisionApp"
  /\ q.pc \in {"lock", "answer", "fail"} => q.op \in Ops
  /\ q.pc \in Phase \ {"idle", "listUsers", "next", "publisher", "app", "fail"} => q.p \in Persons
  /\ q.pc # "idle" /\ q.op # "deleteUser" => q.a \in Apps
  /\ q.slot => q.op = "resetPassword" /\ q.p \in Persons
  /\ q.held # Null => q.held = q.n /\ q.op \in Changes \cup {"provision"} /\ q.p \in Persons
  /\ q.held # Null => q.pc \in Granting \cup {"addUser", "change", "fail", "giveBack"}
  /\ q.prev # Null => q.op \in Changes /\ q.held # Null
  /\ q.op \in Changes /\ q.pc = "change" /\ ~q.row => q.held = Null
  /\ q.usable => q.op = "provision" /\ q.pc \notin {"lock", "claim", "releaseLost"}

\* Where a request must hold its person's lock, and where it may.
Holds(q) ==
  \/ q.pc \in Locked
  \/ q.op = "provision" /\ q.pc \in {"list", "remove", "answer"}
  \/ q.op \in Changes /\ q.pc = "answer"
  \/ q.held # Null /\ q.pc = "fail"
LockInv ==
  /\ \A r \in Requests : Holds(req[r]) => lock[req[r].p] = r
  /\ \A p \in Persons : lock[p] # None =>
       /\ req[lock[p]].p = p
       /\ Holds(req[lock[p]]) \/ req[lock[p]].pc \in {"answer", "fail"}

BaseInv == TypeOK /\ LockInv /\ \A r \in Requests : OpInv(req[r])
-----------------------------------------------------------------------------
\* Operation numbers: no two requests have the same, and no stamp has the
\* number of a request that has yet to claim it.
Before(q) ==
  q.op \in Changes \cup {"provision"} /\ q.pc \in {"throttle", "check", "slot", "lock", "claim"}
FreshInv ==
  /\ \A p \in Persons : store[p].stamp <= ops
  /\ \A r \in Requests : req[r].n <= ops /\ req[r].prev <= ops
  /\ \A r, o \in Requests : r # o /\ ~Idle(r) /\ ~Idle(o) => req[r].n # req[o].n
  /\ \A r \in Requests : Before(req[r]) =>
       /\ \A p \in Persons : store[p].stamp # req[r].n
       /\ \A o \in Requests : req[o].prev # req[r].n
-----------------------------------------------------------------------------
\* What StampMeansKnown says between requests.
Known(p) == ntfy[p].exists /\ store[p].stamp # Null /\ ~doubt[p] => ntfy[p].pw = known[p]

Given(p, q) == ntfy[p].exists /\ ntfy[p].pw = q.n

\* The password of p under the lock of request q: who holds a claim has the
\* stamp, and p has the new password from the call that applies it on; a claim
\* that is given back restores what Known needs; and without a claim nothing
\* has happened to the password.
HolderInv(p, q) ==
  /\ q.held # Null => store[p].stamp = q.n
  /\ q.held # Null /\ q.op = "provision" =>
       ~kept[p] /\ (q.pc \in Granting => Given(p, q))
  /\ q.held # Null /\ q.op \in Changes =>
       /\ q.pc \in {"change", "fail"} /\ q.prev # Null /\ ntfy[p].exists /\ ~doubt[p]
            => ntfy[p].pw = known[p]
       /\ kept[p] => q.prev # Null
  /\ q.held = Null /\ q.pc = "releaseLost" =>
       IF store[p].stamp = q.n THEN ~kept[p] ELSE Known(p)
  /\ q.held = Null /\ q.pc \in {"change", "record"} => store[p].stamp = Null
  /\ q.held = Null /\ q.pc \notin {"releaseLost", "heal", "record"}
       /\ ~(q.op \in Changes /\ q.pc = "answer") => Known(p)
  /\ q.pc = "addUser" /\ q.held = Null /\ q.usable => store[p].stamp # Null
  /\ q.pc = "heal" => ntfy[p].exists /\ ~kept[p]
  /\ q.op \in Changes /\ q.pc \in {"record", "answer"} => Given(p, q)
  /\ q.pc = "deletePerson" => ~ntfy[p].exists

RowInv(p) ==
  /\ ~store[p].row => store[p].stamp = Null
  /\ kept[p] => ntfy[p].exists /\ store[p].stamp # Null
PersonInv(p) ==
  /\ RowInv(p)
  /\ lock[p] = None => Known(p)
  /\ lock[p] # None => HolderInv(p, req[lock[p]])
PasswordInv == \A p \in Persons : PersonInv(p)
-----------------------------------------------------------------------------
\* How far a provisioning that nothing raced has come.
ProvisionInv(q) ==
  LET u == ntfy[q.p] IN
  q.op = "provision" =>
    /\ q.pc \in Granting => u.exists
    /\ ~q.raced =>
         /\ q.pc \in Granting \ {"grant"} => TopicPattern(q.a) \in u.grants
         /\ q.pc \in Granting \ {"grant", "broadcast"} => BroadcastTopicPattern(q.a) \in u.grants
         /\ q.pc = "remove" => TokensOf(u, q.a) \subseteq q.toks
         /\ q.pc = "addToken" => TokensOf(u, q.a) = {}
         /\ q.pc \in {"upsert", "answer"} => TokensOf(u, q.a) = {<<q.a, q.n>>}

\* Nobody who may take p's access to a away is at work.
Untaken(p, a) == \A r \in Requests : ~Takes(req[r], p, a)

\* A provisioning that has the lock.
Working(q) == q.op = "provision" /\ q.pc \notin {"idle", "lock", "fail"}

\* Who is served is left alone by removals and by provisionings into the app.
Served(z) ==
  LET u == ntfy[z[1]] IN
  /\ u.exists
  /\ {TopicPattern(z[2]), BroadcastTopicPattern(z[2])} \subseteq u.grants
  /\ TokensOf(u, z[2]) = {<<z[2], z[3]>>}
ServedInv(z) ==
  /\ Untaken(z[1], z[2])
  /\ \A r \in Requests : Working(req[r]) /\ req[r].p = z[1] => req[r].a # z[2]
  /\ Served(z)

RaceInv(q) == q.op = "provision" /\ ~q.raced => Untaken(q.p, q.a)
RemovalInv(q) ==
  /\ q.pc = "remove" => \A t \in q.toks : t[1] = q.a
  /\ q.pc = "deleteUser" /\ q.op # "deleteUser" => ntfy[q.p].grants = {}

AccessInv ==
  /\ \A z \in served : ServedInv(z)
  /\ \A r \in Requests : RaceInv(req[r]) /\ ProvisionInv(req[r]) /\ RemovalInv(req[r])
-----------------------------------------------------------------------------
\* The slots that were ever claimed and not given back, as far as they are on
\* record, and those of them that count at time t.
Claims(p) == slots[p] \cup granted[p]
Counting(p, t) == {x \in Claims(p) : x.at <= t /\ x.at + Window > t}

SlotInv(p) ==
  /\ \A x \in Claims(p) : x.at <= clock /\ x.id <= ops
  /\ \A x \in granted[p] : x.at + Window > clock => x \in slots[p]
  /\ \A x \in granted[p] : \A r \in Requests : ~Idle(r) => req[r].n # x.id
  /\ IsFiniteSet(Claims(p))
  /\ \A t \in Nat : Cardinality(Counting(p, t)) <= ResetLimit

ResetInv == \A p \in Persons : SlotInv(p)
-----------------------------------------------------------------------------
(***************************************************************************)
(* What a step does to the requests.                                       *)
(***************************************************************************)

\* All fields but the phase and the mark raced.
Alike(q, s) ==
  /\ s.op = q.op /\ s.p = q.p /\ s.a = q.a /\ s.n = q.n /\ s.held = q.held /\ s.prev = q.prev
  /\ s.row = q.row /\ s.usable = q.usable /\ s.toks = q.toks /\ s.slot = q.slot /\ s.todo = q.todo

\* Nothing but the mark raced changes in the other requests; nothing at all.
Spares(r) ==
  /\ req' \in [Requests -> Request]
  /\ \A o \in Requests : o # r => Alike(req[o], req'[o]) /\ req'[o].pc = req[o].pc
Moves(r) ==
  /\ req' \in [Requests -> Request]
  /\ \A o \in Requests : o # r => req'[o] = req[o]
Advances(r, pc) ==
  /\ Moves(r)
  /\ Alike(req[r], req'[r]) /\ req'[r].pc = pc /\ req'[r].raced = req[r].raced

LEMMA MovesSpares == ASSUME NEW r, Moves(r) PROVE Spares(r)
BY DEF Moves, Spares, Alike

LEMMA IdleType ==
  /\ IdleRequest \in Request /\ IdleRequest.pc = "idle" /\ IdleRequest.op = "none"
  /\ IdleRequest.held = Null /\ IdleRequest.prev = Null /\ ~IdleRequest.slot /\ ~IdleRequest.raced
  /\ IdleRequest.n = 0 /\ ~IdleRequest.usable /\ ~IdleRequest.row /\ IdleRequest.p = None
BY DEF IdleRequest, Request, Phase, Null

LEMMA MovesTo ==
  ASSUME RequestTypeOK, NEW r \in Requests, NEW q \in Request, req' = [req EXCEPT ![r] = q]
  PROVE  Moves(r) /\ req'[r] = q
BY DEF RequestTypeOK, Moves

LEMMA SetPc ==
  ASSUME NEW q \in Request, NEW v \in Phase, NEW s, s = [q EXCEPT !.pc = v]
  PROVE  s \in Request /\ Alike(q, s) /\ s.pc = v /\ s.raced = q.raced
BY DEF Request, Alike

LEMMA GotoAdvances ==
  ASSUME RequestTypeOK, NEW r \in Requests, NEW pc \in Phase, Goto(r, pc)
  PROVE  Advances(r, pc)
<1>1. PICK q \in Request : q = req[r]
  BY DEF RequestTypeOK
<1>2. PICK s : s = [q EXCEPT !.pc = pc]
  OBVIOUS
<1>3. req' = [req EXCEPT ![r] = s]
  BY <1>1, <1>2 DEF Goto
<1>4. s \in Request /\ Alike(q, s) /\ s.pc = pc /\ s.raced = q.raced
  BY <1>2, SetPc
<1>5. Moves(r) /\ req'[r] = s
  BY <1>3, <1>4, MovesTo
<1> QED
  BY <1>1, <1>4, <1>5 DEF Advances

\* A request that ends.
LEMMA EndMoves ==
  ASSUME RequestTypeOK, NEW r \in Requests, req' = [req EXCEPT ![r] = IdleRequest]
  PROVE  Moves(r) /\ req'[r] = IdleRequest
BY MovesTo, IdleType

\* The locks of the others.
LEMMA LockStep ==
  ASSUME BaseInv, NEW r \in Requests, Spares(r), lock' \in [Persons -> Requests \cup {None}],
         \A p \in Persons, o \in Requests : o # r => (lock'[p] = o <=> lock[p] = o),
         Holds(req'[r]) => lock'[req'[r].p] = r /\ req'[r].p \in Persons,
         \A p \in Persons : lock'[p] = r =>
           req'[r].p = p /\ (Holds(req'[r]) \/ req'[r].pc \in {"answer", "fail"})
  PROVE  LockInv'
<1>1. \A o \in Requests : o # r =>
        (Holds(req'[o]) <=> Holds(req[o])) /\ req'[o].p = req[o].p /\ req'[o].pc = req[o].pc
  BY DEF Spares, Alike, Holds
<1>2. \A o \in Requests : Holds(req[o]) => req[o].p \in Persons
  BY DEF BaseInv, OpInv, Holds, Locked, Phase, Null
<1>3. ASSUME NEW o \in Requests, Holds(req'[o]) PROVE lock'[req'[o].p] = o
  BY <1>1, <1>2, <1>3 DEF BaseInv, LockInv
<1>4. ASSUME NEW p \in Persons, lock'[p] # None
      PROVE  req'[lock'[p]].p = p /\ (Holds(req'[lock'[p]]) \/ req'[lock'[p]].pc \in {"answer", "fail"})
  <2>1. lock'[p] \in Requests
    BY <1>4
  <2>2. CASE lock'[p] = r
    BY <2>2
  <2>3. CASE lock'[p] # r
    <3>1. lock[p] = lock'[p] /\ lock[p] # None
      BY <1>4, <2>1, <2>3
    <3>2. req[lock[p]].p = p /\ (Holds(req[lock[p]]) \/ req[lock[p]].pc \in {"answer", "fail"})
      BY <3>1 DEF BaseInv, LockInv
    <3> QED
      BY <1>1, <2>1, <2>3, <3>1, <3>2
  <2> QED
    BY <2>2, <2>3
<1> QED
  BY <1>3, <1>4 DEF LockInv, Holds

LEMMA OthersOp ==
  ASSUME BaseInv, NEW r, Spares(r), NEW o \in Requests, o # r
  PROVE  OpInv(req'[o])
<1>1. OpInv(req[o]) /\ Alike(req[o], req'[o]) /\ req'[o].pc = req[o].pc
  BY DEF BaseInv, Spares
<1> QED
  BY <1>1 DEF OpInv, Alike

\* A step of r that keeps the locks.
LEMMA BaseStep ==
  ASSUME BaseInv, NEW r \in Requests, Spares(r), TypeOK', UNCHANGED lock, OpInv(req'[r]),
         Holds(req'[r]) => Holds(req[r]),
         \A p \in Persons : lock[p] = r => Holds(req'[r]) \/ req'[r].pc \in {"answer", "fail"},
         req'[r].p = req[r].p \/ \A p \in Persons : lock[p] # r
  PROVE  BaseInv'
<1>1. Holds(req'[r]) => lock'[req'[r].p] = r /\ req'[r].p \in Persons
  <2> SUFFICES ASSUME Holds(req'[r]) PROVE lock'[req'[r].p] = r /\ req'[r].p \in Persons
    OBVIOUS
  <2>1. Holds(req[r]) /\ lock[req[r].p] = r
    BY DEF BaseInv, LockInv
  <2>2. req[r].p \in Persons
    BY <2>1 DEF BaseInv, OpInv, Holds, Locked, Phase, Null
  <2> QED
    BY <2>1, <2>2
<1>2. \A p \in Persons : lock[p] = r => req[r].p = p
  BY NoneAssumption DEF BaseInv, LockInv
<1>3. lock' \in [Persons -> Requests \cup {None}]
  BY DEF TypeOK, ProcTypeOK
<1>4. LockInv'
  BY <1>1, <1>2, <1>3, LockStep
<1>5. \A o \in Requests : OpInv(req'[o])
  BY OthersOp
<1>6. (\A o \in Requests : OpInv(req[o]))'
  BY <1>5 DEF OpInv
<1> QED
  BY <1>4, <1>6 DEF BaseInv

LEMMA AdvanceBase ==
  ASSUME BaseInv, NEW r \in Requests, NEW pc, Advances(r, pc), TypeOK', UNCHANGED lock,
         OpInv(req'[r]), Holds(req'[r]) => Holds(req[r]),
         Holds(req[r]) \/ req[r].pc \in {"answer", "fail"} => Holds(req'[r]) \/ pc \in {"answer", "fail"}
  PROVE  BaseInv'
<1>1. Spares(r) /\ req'[r].p = req[r].p /\ req'[r].pc = pc
  BY MovesSpares DEF Advances, Alike
<1>2. \A p \in Persons : lock[p] = r => Holds(req[r]) \/ req[r].pc \in {"answer", "fail"}
  BY NoneAssumption DEF BaseInv, LockInv
<1> QED
  BY <1>1, <1>2, BaseStep

\* The request of a step, with its types.
LEMMA RequestOf ==
  ASSUME BaseInv, NEW r \in Requests
  PROVE  req[r] \in Request /\ OpInv(req[r]) /\ RequestTypeOK /\ TypeOK
BY DEF BaseInv, TypeOK, RequestTypeOK

\* A step that changes nothing but its request, the counter of faults and what
\* the throttle has counted.
LEMMA QuietTypes ==
  ASSUME TypeOK, req' \in [Requests -> Request], faults' \in Nat,
         attempts' \in [Persons -> [Apps -> SUBSET Slot]],
         UNCHANGED <<extVars, lock, clock, ops, histVars>>
  PROVE  TypeOK'
BY DEF TypeOK, ExtTypeOK, ProcTypeOK, HistTypeOK, RequestTypeOK, OtherTypeOK, extVars, histVars

LEMMA FaultsType == ASSUME TypeOK, Fault \/ UNCHANGED faults PROVE faults' \in Nat
BY DEF TypeOK, OtherTypeOK, Fault

LEMMA ThrottleType == ASSUME TypeOK, UNCHANGED procVars
                      PROVE  attempts' \in [Persons -> [Apps -> SUBSET Slot]] /\ UNCHANGED lock
BY DEF TypeOK, ProcTypeOK, procVars

LEMMA IdleHolds == OpInv(IdleRequest) /\ ~Holds(IdleRequest)
BY IdleType DEF OpInv, Holds, Locked

LEMMA CheckBase ==
  ASSUME BaseInv, NEW r \in Requests, checkAppGrant(r)
  PROVE  BaseInv'
<1>1. OpInv(req[r]) /\ RequestTypeOK /\ TypeOK /\ req[r].pc = "check"
  BY RequestOf DEF checkAppGrant, At
<1>2. PICK pc \in {"lock", "slot", "reset", "fail", "answer"} :
        /\ Goto(r, pc)
        /\ pc = "slot" => req[r].op = "resetPassword"
        /\ pc = "reset" => req[r].op \in {"deprovision", "deprovisionApp"}
        /\ pc = "answer" => req[r].op \in Removals
  BY <1>1 DEF checkAppGrant, AfterCheck, OpInv, Changes, Removals
<1>3. Advances(r, pc)
  BY <1>1, <1>2, GotoAdvances DEF Phase
<1>4. TypeOK'
  BY <1>1, <1>3, QuietTypes, FaultsType, ThrottleType DEF checkAppGrant, Advances, Moves
<1>5. OpInv(req'[r])
  BY <1>1, <1>2, <1>3 DEF OpInv, Advances, Alike, Changes, Removals, Ops, Phase, Locked, Granting
<1>6. ~Holds(req'[r])
  BY <1>1, <1>2, <1>3 DEF OpInv, Holds, Advances, Alike, Changes, Removals, Locked, Granting
<1>7. ~Holds(req[r])
  BY <1>1 DEF Holds, Locked
<1>8. UNCHANGED lock
  BY DEF checkAppGrant, procVars
<1> QED
  BY <1>1, <1>3, <1>4, <1>5, <1>6, <1>7, <1>8, AdvanceBase

LEMMA AllowBase ==
  ASSUME BaseInv, NEW r \in Requests, Allow(r)
  PROVE  BaseInv'
<1>1. OpInv(req[r]) /\ RequestTypeOK /\ TypeOK /\ req[r].pc = "throttle" /\ req[r] \in Request
  BY RequestOf DEF Allow, At
<1>2. PICK pc \in {"check", "fail"} : Goto(r, pc)
  BY DEF Allow
<1>3. Advances(r, pc)
  BY <1>1, <1>2, GotoAdvances DEF Phase
<1>4. PICK s \in SUBSET Slot : attempts' = [attempts EXCEPT ![req[r].p][req[r].a] = s]
  <2>1. req[r].p \in Persons /\ req[r].a \in Apps /\ req[r].n \in Nat /\ clock \in Nat
    BY <1>1 DEF OpInv, Request, TypeOK, OtherTypeOK, Phase
  <2>2. InWindow(attempts[req[r].p][req[r].a]) \in SUBSET Slot
    BY <1>1, <2>1 DEF TypeOK, ProcTypeOK, InWindow
  <2>3. [id |-> req[r].n, at |-> clock] \in Slot
    BY <2>1 DEF Slot
  <2> QED
    BY <2>2, <2>3 DEF Allow
<1>5. attempts' \in [Persons -> [Apps -> SUBSET Slot]]
  BY <1>1, <1>4 DEF TypeOK, ProcTypeOK
<1>6. TypeOK'
  BY <1>1, <1>3, <1>5, QuietTypes, FaultsType DEF Allow, Advances, Moves
<1>7. OpInv(req'[r])
  BY <1>1, <1>3 DEF OpInv, Advances, Alike, Changes, Removals, Ops, Phase, Locked, Granting
<1>8. ~Holds(req'[r]) /\ ~Holds(req[r])
  BY <1>1, <1>3 DEF OpInv, Holds, Advances, Alike, Changes, Removals, Locked, Granting
<1>9. UNCHANGED lock
  BY DEF Allow
<1> QED
  BY <1>1, <1>3, <1>6, <1>7, <1>8, <1>9, AdvanceBase

LEMMA SlotType ==
  ASSUME BaseInv, NEW r \in Requests, req[r].p \in Persons
  PROVE  /\ ClaimResetSlot(slots[req[r].p], req[r].n) \in SUBSET Slot
         /\ {x \in slots[req[r].p] : x.id # req[r].n} \in SUBSET Slot
<1>1. slots[req[r].p] \in SUBSET Slot /\ req[r].n \in Nat /\ clock \in Nat
  BY RequestOf DEF TypeOK, ExtTypeOK, OtherTypeOK, Request
<1>2. [id |-> req[r].n, at |-> clock] \in Slot
  BY <1>1 DEF Slot
<1>3. InWindow(slots[req[r].p]) \in SUBSET Slot
  BY <1>1 DEF InWindow
<1> QED
  BY <1>1, <1>2, <1>3 DEF ClaimResetSlot

\* The request after a claim of a slot.
LEMMA ClaimSlotMoves ==
  ASSUME BaseInv, NEW r \in Requests, ClaimSlot(r)
  PROVE  /\ Moves(r) /\ req[r].pc = "slot" /\ req'[r].pc \in {"lock", "fail"}
         /\ req'[r].op = req[r].op /\ req'[r].p = req[r].p /\ req'[r].a = req[r].a
         /\ req'[r].n = req[r].n /\ req'[r].held = req[r].held /\ req'[r].raced = req[r].raced
         /\ req'[r].toks = req[r].toks /\ req'[r].prev = req[r].prev /\ req'[r].usable = req[r].usable
<1>1. PICK q \in Request : q = req[r] /\ q.pc = "slot"
  BY RequestOf DEF ClaimSlot, At
<1>2. CASE \E pc \in {"lock", "fail"} : Goto(r, pc)
  BY <1>1, <1>2, GotoAdvances, RequestOf DEF Advances, Alike, Phase
<1>3. CASE \E pc \in {"lock", "fail"}, g \in BOOLEAN :
             req' = [req EXCEPT ![r] = [@ EXCEPT !.pc = pc, !.slot = g]]
  <2>1. PICK pc \in {"lock", "fail"}, g \in BOOLEAN :
          req' = [req EXCEPT ![r] = [q EXCEPT !.pc = pc, !.slot = g]]
    BY <1>1, <1>3
  <2>2. PICK s : s = [q EXCEPT !.pc = pc, !.slot = g]
    OBVIOUS
  <2>3. /\ s \in Request /\ s.pc = pc /\ s.op = q.op /\ s.p = q.p /\ s.a = q.a /\ s.n = q.n
        /\ s.held = q.held /\ s.raced = q.raced /\ s.toks = q.toks /\ s.prev = q.prev
        /\ s.usable = q.usable
    BY <2>2 DEF Request, Phase
  <2>4. Moves(r) /\ req'[r] = s
    BY <2>1, <2>2, <2>3, MovesTo, RequestOf
  <2> QED
    BY <1>1, <2>3, <2>4
<1> QED
  <2>1. \A g \in BOOLEAN : (IF g THEN "lock" ELSE "fail") \in {"lock", "fail"}
    OBVIOUS
  <2> QED
    BY <1>2, <1>3, <2>1 DEF ClaimSlot

\* A step that changes the slots of one person.
LEMMA SlotTypes ==
  ASSUME TypeOK, req' \in [Requests -> Request], faults' \in Nat, NEW p \in Persons,
         NEW s \in SUBSET Slot, slots' \in {slots, [slots EXCEPT ![p] = s]},
         UNCHANGED <<ntfy, publishers, store, registry, procVars, clock, ops, histVars>>
  PROVE  TypeOK' /\ UNCHANGED lock
BY DEF TypeOK, ExtTypeOK, ProcTypeOK, HistTypeOK, RequestTypeOK, OtherTypeOK, procVars, histVars

LEMMA ClaimSlotBase ==
  ASSUME BaseInv, NEW r \in Requests, ClaimSlot(r)
  PROVE  BaseInv'
<1>1. OpInv(req[r]) /\ TypeOK /\ req[r] \in Request
  BY RequestOf
<1>2. /\ Moves(r) /\ req[r].pc = "slot" /\ req'[r].pc \in {"lock", "fail"}
      /\ req'[r].op = req[r].op /\ req'[r].p = req[r].p /\ req'[r].a = req[r].a
      /\ req'[r].n = req[r].n /\ req'[r].held = req[r].held
      /\ req'[r].prev = req[r].prev /\ req'[r].usable = req[r].usable
  BY ClaimSlotMoves
<1>3. req[r].p \in Persons /\ req[r].op = "resetPassword" /\ req[r].held = Null
  BY <1>1, <1>2 DEF OpInv, Phase, Granting
<1>4. slots' \in {slots, [slots EXCEPT ![req[r].p] = ClaimResetSlot(slots[req[r].p], req[r].n)]}
  BY DEF ClaimSlot
<1>5. TypeOK' /\ UNCHANGED lock
  BY <1>1, <1>2, <1>3, <1>4, SlotType, SlotTypes, FaultsType DEF ClaimSlot, Moves
<1>6. OpInv(req'[r])
  BY <1>1, <1>2, <1>3 DEF OpInv, Changes, Removals, Ops, Phase, Locked, Granting
<1>7. ~Holds(req'[r]) /\ ~Holds(req[r])
  BY <1>2, <1>3 DEF Holds, Locked
<1>8. \A p \in Persons : lock[p] # r
  BY <1>2, <1>7, NoneAssumption DEF BaseInv, LockInv
<1> QED
  BY <1>2, <1>5, <1>6, <1>7, <1>8, BaseStep, MovesSpares

LEMMA GiveBackBase ==
  ASSUME BaseInv, NEW r \in Requests, ReleaseResetSlot(r)
  PROVE  BaseInv'
<1>1. OpInv(req[r]) /\ TypeOK /\ RequestTypeOK /\ req[r].pc = "giveBack"
  BY RequestOf DEF ReleaseResetSlot, At
<1>2. Moves(r) /\ req'[r] = IdleRequest
  BY <1>1, EndMoves DEF ReleaseResetSlot
<1>3. req[r].p \in Persons
  BY <1>1 DEF OpInv, Phase
<1>4. slots' \in {slots, [slots EXCEPT ![req[r].p] = {x \in slots[req[r].p] : x.id # req[r].n}]}
  BY DEF ReleaseResetSlot
<1>5. TypeOK' /\ UNCHANGED lock
  BY <1>1, <1>2, <1>3, <1>4, SlotType, SlotTypes, FaultsType DEF ReleaseResetSlot, Moves
<1>6. ~Holds(req[r])
  BY <1>1 DEF Holds, Locked
<1>7. \A p \in Persons : lock[p] # r
  BY <1>1, <1>6, NoneAssumption DEF BaseInv, LockInv
<1> QED
  BY <1>2, <1>5, <1>7, BaseStep, MovesSpares, IdleHolds
-----------------------------------------------------------------------------
(***************************************************************************)
(* Calls to the ntfy CLI.                                                  *)
(***************************************************************************)
CliTyped == ntfy' \in [Persons -> User] /\ doubt' \in [Persons -> BOOLEAN] /\ faults' \in Nat

LEMMA NotFoundEffect ==
  ASSUME BaseInv, NEW r \in Requests, NEW next \in Phase, NotFound(r, next)
  PROVE  Advances(r, next) /\ CliTyped
<1>1. Advances(r, next)
  BY RequestOf, GotoAdvances DEF NotFound
<1>2. CliTyped
  BY RequestOf DEF NotFound, CliTyped, TypeOK, ExtTypeOK, HistTypeOK, OtherTypeOK
<1> QED
  BY <1>1, <1>2

\* A call answers and has its effect, or it fails with or without it.
LEMMA RunEffect ==
  ASSUME BaseInv, NEW r \in Requests, NEW p \in Persons, req[r].p = p, NEW user \in User,
         NEW next \in Phase, Run(r, user, next)
  PROVE  /\ CliTyped
         /\ \A x \in Persons : doubt[x] => doubt'[x]
         /\ \A x \in Persons : x # p => ntfy'[x] = ntfy[x]
         /\ \/ Advances(r, next) /\ ntfy'[p] = user /\ (Strands(r, FALSE) => doubt'[p])
            \/ Advances(r, "fail") /\ ntfy'[p] = ntfy[p]
            \/ /\ Advances(r, "fail") /\ ntfy'[p] = user
               /\ Strands(r, TRUE) => doubt'[p]
<1>1. TypeOK /\ RequestTypeOK /\ ntfy \in [Persons -> User] /\ doubt \in [Persons -> BOOLEAN]
  BY RequestOf DEF TypeOK, ExtTypeOK, HistTypeOK
<1>2. CASE /\ ntfy' = [ntfy EXCEPT ![p] = user] /\ Goto(r, next) /\ Doubt(p, Strands(r, FALSE))
           /\ UNCHANGED faults
  <2>1. Advances(r, next)
    BY <1>1, <1>2, GotoAdvances
  <2>2. Strands(r, FALSE) \in BOOLEAN
    BY DEF Strands
  <2>3. doubt' \in [Persons -> BOOLEAN] /\ (Strands(r, FALSE) => doubt'[p])
        /\ \A x \in Persons : doubt[x] => doubt'[x]
    BY <1>1, <1>2, <2>2 DEF Doubt
  <2>4. /\ ntfy' \in [Persons -> User] /\ ntfy'[p] = user
        /\ \A x \in Persons : x # p => ntfy'[x] = ntfy[x]
    BY <1>1, <1>2
  <2>5. faults' \in Nat
    BY <1>1, <1>2, FaultsType
  <2> QED
    BY <2>1, <2>3, <2>4, <2>5 DEF CliTyped
<1>3. CASE /\ Fault /\ ntfy' \in {ntfy, [ntfy EXCEPT ![p] = user]} /\ Goto(r, "fail")
           /\ Doubt(p, ntfy' # ntfy /\ Strands(r, TRUE))
  <2>1. Advances(r, "fail")
    BY <1>1, <1>3, GotoAdvances DEF Phase
  <2>2. (ntfy' # ntfy /\ Strands(r, TRUE)) \in BOOLEAN
    OBVIOUS
  <2>3. doubt' \in [Persons -> BOOLEAN] /\ (ntfy' # ntfy /\ Strands(r, TRUE) => doubt'[p])
        /\ \A x \in Persons : doubt[x] => doubt'[x]
    BY <1>1, <1>3, <2>2 DEF Doubt
  <2>4. faults' \in Nat
    BY <1>1, <1>3, FaultsType
  <2>5. CASE ntfy' = ntfy
    BY <1>1, <2>1, <2>3, <2>4, <2>5 DEF CliTyped
  <2>6. CASE ntfy' # ntfy
    <3>1. /\ ntfy' \in [Persons -> User] /\ ntfy'[p] = user
          /\ \A x \in Persons : x # p => ntfy'[x] = ntfy[x]
      BY <1>1, <1>3, <2>6
    <3> QED
      BY <2>1, <2>3, <2>4, <2>6, <3>1 DEF CliTyped
  <2> QED
    BY <2>5, <2>6
<1> QED
  BY <1>2, <1>3 DEF Run

LEMMA CliTypes ==
  ASSUME TypeOK, CliTyped, req' \in [Requests -> Request], kept' \in [Persons -> BOOLEAN], cliUnchanged
  PROVE  TypeOK' /\ UNCHANGED lock
BY DEF TypeOK, ExtTypeOK, ProcTypeOK, HistTypeOK, RequestTypeOK, OtherTypeOK, CliTyped, cliUnchanged,
       procVars

LEMMA KeptType == ASSUME TypeOK, UNCHANGED kept PROVE kept' \in [Persons -> BOOLEAN]
BY DEF TypeOK, HistTypeOK

LEMMA CliBase ==
  ASSUME BaseInv, NEW r \in Requests, NEW pc, Advances(r, pc), CliTyped,
         kept' \in [Persons -> BOOLEAN], cliUnchanged,
         OpInv(req'[r]), Holds(req'[r]) => Holds(req[r]),
         Holds(req[r]) \/ req[r].pc \in {"answer", "fail"} => Holds(req'[r]) \/ pc \in {"answer", "fail"}
  PROVE  BaseInv'
<1>1. TypeOK' /\ UNCHANGED lock
  BY RequestOf, CliTypes DEF Advances, Moves
<1> QED
  BY <1>1, AdvanceBase

\* The user of a provisioning.
NewUser(q) == [NoUser EXCEPT !.exists = TRUE, !.pw = IF q.held # Null THEN q.n ELSE Throwaway]

LEMMA NewUserType ==
  ASSUME NEW q \in Request
  PROVE  /\ NewUser(q) \in User /\ NewUser(q).exists /\ NewUser(q).grants = {} /\ NewUser(q).tokens = {}
         /\ q.held # Null => NewUser(q).pw = q.n
<1>1. PICK n \in Nat : n = IF q.held # Null THEN q.n ELSE Throwaway
  BY DEF Request, Throwaway
<1>2. PICK u : u = [NoUser EXCEPT !.exists = TRUE, !.pw = n]
  OBVIOUS
<1>3. u \in User /\ u.exists /\ u.grants = {} /\ u.tokens = {} /\ u.pw = n
  BY <1>2 DEF NoUser, User
<1>4. u = NewUser(q)
  BY <1>1, <1>2 DEF NewUser
<1> QED
  BY <1>1, <1>3, <1>4

\* AddUser, by its outcomes.
LEMMA AddUserEffect ==
  ASSUME BaseInv, NEW r \in Requests, AddUser(r)
  PROVE  LET q == req[r]
             p == q.p
         IN /\ q.pc = "addUser" /\ p \in Persons /\ CliTyped /\ cliUnchanged /\ UNCHANGED kept
            /\ \A x \in Persons : doubt[x] => doubt'[x]
            /\ \A x \in Persons : x # p => ntfy'[x] = ntfy[x]
            /\ \/ /\ ntfy[p].exists /\ ntfy'[p] = ntfy[p]
                  /\ \/ q.held # Null /\ Advances(r, "change")
                     \/ q.held = Null /\ Advances(r, "grant")
               \/ /\ ~ntfy[p].exists /\ ntfy'[p] = NewUser(q) /\ (Strands(r, FALSE) => doubt'[p])
                  /\ \/ q.held = Null /\ q.usable /\ Advances(r, "heal")
                     \/ ~(q.held = Null /\ q.usable) /\ Advances(r, "grant")
               \/ Advances(r, "fail") /\ ~ntfy[p].exists /\ ntfy'[p] = ntfy[p]
               \/ /\ Advances(r, "fail") /\ ~ntfy[p].exists /\ ntfy'[p] = NewUser(q)
                  /\ Strands(r, TRUE) => doubt'[p]
<1>1. PICK q \in Request : q = req[r] /\ q.pc = "addUser" /\ q.p \in Persons
  BY RequestOf DEF AddUser, At, OpInv, Phase, Locked
<1>2. NewUser(q) \in User
  BY NewUserType
<1>3. cliUnchanged /\ UNCHANGED kept
  BY DEF AddUser
<1>4. CASE ntfy[q.p].exists /\ NotFound(r, IF q.held # Null THEN "change" ELSE "grant")
  <2>1. PICK next \in Phase : next = IF q.held # Null THEN "change" ELSE "grant"
    BY DEF Phase, Locked
  <2>2. Advances(r, next) /\ CliTyped
    BY <1>4, <2>1, NotFoundEffect
  <2>3. ntfy' = ntfy /\ doubt' = doubt
    BY <1>4 DEF NotFound
  <2> QED
    BY <1>1, <1>3, <1>4, <2>1, <2>2, <2>3
<1>5. CASE /\ ~ntfy[q.p].exists
           /\ Run(r, NewUser(q), IF q.held = Null /\ q.usable THEN "heal" ELSE "grant")
  <2>1. PICK next \in Phase : next = IF q.held = Null /\ q.usable THEN "heal" ELSE "grant"
    BY DEF Phase, Locked
  <2>2. Run(r, NewUser(q), next)
    BY <1>5, <2>1
  <2>3. /\ CliTyped
        /\ \A x \in Persons : doubt[x] => doubt'[x]
        /\ \A x \in Persons : x # q.p => ntfy'[x] = ntfy[x]
        /\ \/ Advances(r, next) /\ ntfy'[q.p] = NewUser(q) /\ (Strands(r, FALSE) => doubt'[q.p])
           \/ Advances(r, "fail") /\ ntfy'[q.p] = ntfy[q.p]
           \/ /\ Advances(r, "fail") /\ ntfy'[q.p] = NewUser(q)
              /\ Strands(r, TRUE) => doubt'[q.p]
    BY <1>1, <1>2, <2>2, RunEffect
  <2> QED
    BY <1>1, <1>3, <1>5, <2>1, <2>3
<1> QED
  BY <1>1, <1>4, <1>5 DEF AddUser, NewUser

LEMMA AddUserBase ==
  ASSUME BaseInv, NEW r \in Requests, AddUser(r)
  PROVE  BaseInv'
<1>1. OpInv(req[r]) /\ TypeOK /\ req[r].pc = "addUser" /\ Holds(req[r])
  BY RequestOf, AddUserEffect DEF Holds, Locked
<1>2. PICK pc \in {"change", "grant", "heal", "fail"} :
        Advances(r, pc) /\ (pc = "heal" => req[r].held = Null)
  BY AddUserEffect
<1>3. CliTyped /\ cliUnchanged /\ kept' \in [Persons -> BOOLEAN]
  BY <1>1, AddUserEffect, KeptType
<1>4. OpInv(req'[r])
  BY <1>1, <1>2 DEF OpInv, Advances, Alike, Changes, Removals, Ops, Phase, Locked, Granting
<1>5. Holds(req'[r]) \/ pc \in {"answer", "fail"}
  BY <1>2 DEF Holds, Advances, Locked
<1> QED
  BY <1>1, <1>2, <1>3, <1>4, <1>5, CliBase

\* What every call shares, and the outcomes of one that makes user of the
\* request's person.
Calls(r) ==
  /\ CliTyped /\ cliUnchanged
  /\ \A x \in Persons : doubt[x] => doubt'[x]
  /\ \A x \in Persons : x # req[r].p => ntfy'[x] = ntfy[x]
Outcome(r, user, next) ==
  LET p == req[r].p IN
  \/ Advances(r, next) /\ ntfy'[p] = user /\ (Strands(r, FALSE) => doubt'[p])
  \/ Advances(r, "fail") /\ ntfy'[p] = ntfy[p]
  \/ Advances(r, "fail") /\ ntfy'[p] = user /\ (Strands(r, TRUE) => doubt'[p])
Missing(r) == Advances(r, "fail") /\ ntfy'[req[r].p] = ntfy[req[r].p]

LEMMA RunCalls ==
  ASSUME BaseInv, NEW r \in Requests, req[r].p \in Persons, NEW user \in User, NEW next \in Phase,
         Run(r, user, next), cliUnchanged
  PROVE  Calls(r) /\ Outcome(r, user, next)
BY RunEffect DEF Calls, Outcome

LEMMA MissingCalls ==
  ASSUME BaseInv, NEW r \in Requests, NotFound(r, "fail"), cliUnchanged
  PROVE  Calls(r) /\ Missing(r)
BY NotFoundEffect DEF Calls, Missing, NotFound, Phase

LEMMA UserOf ==
  ASSUME BaseInv, NEW p \in Persons
  PROVE  /\ ntfy[p] \in User /\ ntfy[p].grants \in SUBSET Grant /\ ntfy[p].tokens \in SUBSET Token
         /\ ntfy[p].exists \in BOOLEAN
BY DEF BaseInv, TypeOK, ExtTypeOK, User

\* One field of a user is set.
LEMMA SetGrants ==
  ASSUME NEW u \in User, NEW g \in SUBSET Grant, NEW v, v = [u EXCEPT !.grants = g]
  PROVE  v \in User /\ v.exists = u.exists /\ v.pw = u.pw /\ v.grants = g /\ v.tokens = u.tokens
BY DEF User

LEMMA SetTokens ==
  ASSUME NEW u \in User, NEW t \in SUBSET Token, NEW v, v = [u EXCEPT !.tokens = t]
  PROVE  v \in User /\ v.exists = u.exists /\ v.pw = u.pw /\ v.grants = u.grants /\ v.tokens = t
BY DEF User

LEMMA ChangeEffect ==
  ASSUME BaseInv, NEW r \in Requests, ChangePassword(r)
  PROVE  LET q == req[r]
             u == ntfy[q.p]
         IN /\ q.pc = "change" /\ q.p \in Persons /\ Calls(r) /\ UNCHANGED kept
            /\ \/ ~u.exists /\ Missing(r)
               \/ /\ u.exists
                  /\ \/ /\ q.op = "provision" /\ Outcome(r, [u EXCEPT !.pw = q.n], "grant")
                     \/ /\ q.op # "provision" /\ q.row /\ Outcome(r, [u EXCEPT !.pw = q.n], "answer")
                     \/ /\ q.op # "provision" /\ ~q.row /\ Outcome(r, [u EXCEPT !.pw = q.n], "record")
<1>1. PICK q \in Request : q = req[r] /\ q.pc = "change" /\ q.p \in Persons /\ q.n \in Nat
  BY RequestOf DEF ChangePassword, At, OpInv, Phase, Locked, Request
<1>2. PICK u \in User : u = ntfy[q.p]
  BY <1>1, UserOf
<1>3. cliUnchanged /\ UNCHANGED kept
  BY DEF ChangePassword
<1>4. PICK v \in User : v = [u EXCEPT !.pw = q.n]
  BY <1>1 DEF User
<1>5. CASE ~u.exists /\ NotFound(r, "fail")
  BY <1>1, <1>2, <1>3, <1>5, MissingCalls
<1>6. CASE u.exists /\ Run(r, v, IF q.op = "provision" THEN "grant"
                                 ELSE IF q.row THEN "answer" ELSE "record")
  <2>1. PICK next \in Phase : next = IF q.op = "provision" THEN "grant"
                                     ELSE IF q.row THEN "answer" ELSE "record"
    BY DEF Phase, Locked
  <2>2. Calls(r) /\ Outcome(r, v, next)
    BY <1>1, <1>3, <1>6, <2>1, RunCalls
  <2> QED
    BY <1>1, <1>2, <1>3, <1>4, <1>6, <2>1, <2>2
<1> QED
  BY <1>1, <1>2, <1>4, <1>5, <1>6 DEF ChangePassword

LEMMA GrantEffect ==
  ASSUME BaseInv, NEW r \in Requests, GrantAccess(r)
  PROVE  LET q == req[r]
             u == ntfy[q.p]
         IN /\ q.p \in Persons /\ q.a \in Apps /\ q.op = "provision" /\ Calls(r) /\ UNCHANGED kept
            /\ \/ /\ q.pc = "grant"
                  /\ Outcome(r, [u EXCEPT !.grants = u.grants \cup {TopicPattern(q.a)}], "broadcast")
               \/ /\ q.pc = "broadcast"
                  /\ Outcome(r, [u EXCEPT !.grants = u.grants \cup {BroadcastTopicPattern(q.a)}], "list")
<1>1. PICK q \in Request : /\ q = req[r] /\ q.pc \in {"grant", "broadcast"} /\ q.p \in Persons
                           /\ q.a \in Apps /\ q.op = "provision"
  BY RequestOf DEF GrantAccess, At, OpInv, Phase, Locked
<1>2. PICK u \in User : u = ntfy[q.p] /\ u.grants \in SUBSET Grant
  BY <1>1, UserOf
<1>3. cliUnchanged /\ UNCHANGED kept
  BY DEF GrantAccess
<1>4. PICK v \in User : v = [u EXCEPT !.grants = u.grants \cup {TopicPattern(q.a)}]
  <2>1. TopicPattern(q.a) \in Grant
    BY <1>1 DEF TopicPattern, Grant
  <2>2. PICK g \in SUBSET Grant : g = u.grants \cup {TopicPattern(q.a)}
    BY <1>2, <2>1
  <2> QED
    BY <2>2, SetGrants
<1>5. PICK w \in User : w = [u EXCEPT !.grants = u.grants \cup {BroadcastTopicPattern(q.a)}]
  <2>1. BroadcastTopicPattern(q.a) \in Grant
    BY <1>1 DEF BroadcastTopicPattern, Grant
  <2>2. PICK g \in SUBSET Grant : g = u.grants \cup {BroadcastTopicPattern(q.a)}
    BY <1>2, <2>1
  <2> QED
    BY <2>2, SetGrants
<1>6. CASE q.pc = "grant" /\ Run(r, v, "broadcast")
  <2>1. Calls(r) /\ Outcome(r, v, "broadcast")
    BY <1>1, <1>3, <1>6, RunCalls DEF Phase, Locked
  <2> QED
    BY <1>1, <1>2, <1>3, <1>4, <1>6, <2>1
<1>7. CASE q.pc = "broadcast" /\ Run(r, w, "list")
  <2>1. Calls(r) /\ Outcome(r, w, "list")
    BY <1>1, <1>3, <1>7, RunCalls DEF Phase
  <2> QED
    BY <1>1, <1>2, <1>3, <1>5, <1>7, <2>1
<1> QED
  BY <1>1, <1>2, <1>4, <1>5, <1>6, <1>7 DEF GrantAccess, At

LEMMA ResetEffect ==
  ASSUME BaseInv, NEW r \in Requests, ResetAccess(r)
  PROVE  LET q == req[r]
             u == ntfy[q.p]
         IN /\ q.p \in Persons /\ q.a \in Apps /\ q.op \in {"deprovision", "deprovisionApp"}
            /\ Calls(r) /\ UNCHANGED kept
            /\ \/ /\ q.pc = "reset"
                  /\ Outcome(r, [u EXCEPT !.grants = u.grants \ {TopicPattern(q.a)}], "resetBroadcast")
               \/ q.pc = "reset" /\ Missing(r)
               \/ /\ q.pc = "resetBroadcast"
                  /\ Outcome(r, [u EXCEPT !.grants = u.grants \ {BroadcastTopicPattern(q.a)}], "list")
<1>1. PICK q \in Request : /\ q = req[r] /\ q.pc \in {"reset", "resetBroadcast"} /\ q.p \in Persons
                           /\ q.a \in Apps /\ q.op \in {"deprovision", "deprovisionApp"}
  BY RequestOf DEF ResetAccess, At, OpInv, Phase
<1>2. PICK u \in User : u = ntfy[q.p] /\ u.grants \in SUBSET Grant
  BY <1>1, UserOf
<1>3. cliUnchanged /\ UNCHANGED kept
  BY DEF ResetAccess
<1>4. PICK v \in User : v = [u EXCEPT !.grants = u.grants \ {TopicPattern(q.a)}]
  <2>1. PICK g \in SUBSET Grant : g = u.grants \ {TopicPattern(q.a)}
    BY <1>2
  <2> QED
    BY <2>1, SetGrants
<1>5. PICK w \in User : w = [u EXCEPT !.grants = u.grants \ {BroadcastTopicPattern(q.a)}]
  <2>1. PICK g \in SUBSET Grant : g = u.grants \ {BroadcastTopicPattern(q.a)}
    BY <1>2
  <2> QED
    BY <2>1, SetGrants
<1>6. CASE q.pc = "reset" /\ Run(r, v, "resetBroadcast")
  <2>1. Calls(r) /\ Outcome(r, v, "resetBroadcast")
    BY <1>1, <1>3, <1>6, RunCalls DEF Phase
  <2> QED
    BY <1>1, <1>2, <1>3, <1>4, <1>6, <2>1
<1>7. CASE q.pc = "resetBroadcast" /\ Run(r, w, "list")
  <2>1. Calls(r) /\ Outcome(r, w, "list")
    BY <1>1, <1>3, <1>7, RunCalls DEF Phase
  <2> QED
    BY <1>1, <1>2, <1>3, <1>5, <1>7, <2>1
<1>8. CASE q.pc = "reset" /\ NotFound(r, "fail")
  BY <1>1, <1>3, <1>8, MissingCalls
<1> QED
  BY <1>1, <1>2, <1>4, <1>5, <1>6, <1>7, <1>8 DEF ResetAccess, At

LEMMA AddTokenEffect ==
  ASSUME BaseInv, NEW r \in Requests, AddToken(r)
  PROVE  LET q == req[r]
             u == ntfy[q.p]
         IN /\ q.pc = "addToken" /\ q.p \in Persons /\ q.a \in Apps /\ q.op = "provision"
            /\ Calls(r) /\ UNCHANGED kept
            /\ Outcome(r, [u EXCEPT !.tokens = u.tokens \cup {<<q.a, q.n>>}], "upsert")
<1>1. PICK q \in Request : /\ q = req[r] /\ q.pc = "addToken" /\ q.p \in Persons /\ q.n \in Nat
                           /\ q.a \in Apps /\ q.op = "provision"
  BY RequestOf DEF AddToken, At, OpInv, Phase, Locked, Request
<1>2. PICK u \in User : u = ntfy[q.p] /\ u.tokens \in SUBSET Token
  BY <1>1, UserOf
<1>3. cliUnchanged /\ UNCHANGED kept
  BY DEF AddToken
<1>4. PICK v \in User : v = [u EXCEPT !.tokens = u.tokens \cup {<<q.a, q.n>>}]
  <2>1. <<q.a, q.n>> \in Token
    BY <1>1 DEF Token
  <2>2. PICK t \in SUBSET Token : t = u.tokens \cup {<<q.a, q.n>>}
    BY <1>2, <2>1
  <2> QED
    BY <2>2, SetTokens
<1>5. Run(r, v, "upsert")
  BY <1>1, <1>2, <1>4 DEF AddToken
<1>6. Calls(r) /\ Outcome(r, v, "upsert")
  BY <1>1, <1>3, <1>5, RunCalls DEF Phase, Locked
<1> QED
  BY <1>1, <1>2, <1>3, <1>4, <1>6

LEMMA DeleteUserEffect ==
  ASSUME BaseInv, NEW r \in Requests, DeleteUser(r)
  PROVE  LET q == req[r]
             u == ntfy[q.p]
         IN /\ q.pc = "deleteUser" /\ q.p \in Persons /\ q.op \in Removals
            /\ Calls(r)
            /\ kept' \in [Persons -> BOOLEAN]
            /\ \A x \in Persons : x # q.p => kept'[x] = kept[x]
            /\ kept'[q.p] => kept[q.p] /\ ntfy'[q.p].exists
            /\ \/ ~u.exists /\ ntfy'[q.p] = u /\ Advances(r, "deletePerson")
               \/ u.exists /\ Outcome(r, NoUser, "deletePerson")
<1>1. PICK q \in Request : q = req[r] /\ q.pc = "deleteUser" /\ q.p \in Persons /\ q.op \in Removals
  BY RequestOf DEF DeleteUser, At, OpInv, Phase, Locked
<1>2. PICK u \in User : u = ntfy[q.p]
  BY <1>1, UserOf
<1>3. cliUnchanged
  BY DEF DeleteUser
<1>4. ASSUME ~u.exists, NotFound(r, "deletePerson")
      PROVE  Calls(r) /\ ntfy'[q.p] = u /\ Advances(r, "deletePerson")
  <2>1. Advances(r, "deletePerson") /\ CliTyped /\ ntfy' = ntfy /\ doubt' = doubt
    BY <1>4, NotFoundEffect DEF NotFound, Phase, Locked
  <2> QED
    BY <1>2, <1>3, <1>4, <2>1 DEF Calls
<1>5. ASSUME u.exists, Run(r, NoUser, "deletePerson")
      PROVE  Calls(r) /\ Outcome(r, NoUser, "deletePerson")
  <2>1. NoUser \in User
    BY DEF NoUser, User, Throwaway
  <2> QED
    BY <1>1, <1>3, <1>5, <2>1, RunCalls DEF Phase, Locked
<1>6. /\ Calls(r)
      /\ \/ ~u.exists /\ ntfy'[q.p] = u /\ Advances(r, "deletePerson")
         \/ u.exists /\ Outcome(r, NoUser, "deletePerson")
  BY <1>1, <1>2, <1>4, <1>5 DEF DeleteUser
<1>7. PICK b : b = ntfy'[q.p].exists
  OBVIOUS
<1>8. b \in BOOLEAN
  BY <1>1, <1>6, <1>7 DEF Calls, CliTyped, User
<1>9. kept' = [kept EXCEPT ![q.p] = kept[q.p] /\ b]
  BY <1>1, <1>7 DEF DeleteUser
<1>10. kept \in [Persons -> BOOLEAN]
  BY RequestOf DEF TypeOK, HistTypeOK
<1>11. /\ kept' \in [Persons -> BOOLEAN]
       /\ \A x \in Persons : x # q.p => kept'[x] = kept[x]
       /\ kept'[q.p] => kept[q.p] /\ b
  BY <1>1, <1>8, <1>9, <1>10
<1> QED
  BY <1>1, <1>2, <1>6, <1>7, <1>11

\* A request goes on with the tokens it has yet to remove.
Selects(r, pc, toks) ==
  LET q == req[r]
      s == req'[r]
  IN /\ Moves(r) /\ s.pc = pc /\ s.toks = toks
     /\ s.op = q.op /\ s.p = q.p /\ s.a = q.a /\ s.n = q.n /\ s.held = q.held /\ s.prev = q.prev
     /\ s.row = q.row /\ s.usable = q.usable /\ s.slot = q.slot /\ s.todo = q.todo
     /\ s.raced = q.raced

LEMMA SelectMoves ==
  ASSUME BaseInv, NEW r \in Requests, NEW pc \in Phase, NEW toks \in SUBSET Token,
         \/ req' = [req EXCEPT ![r] = [@ EXCEPT !.pc = pc, !.toks = toks]]
         \/ req' = [req EXCEPT ![r] = [@ EXCEPT !.toks = toks, !.pc = pc]]
  PROVE  Selects(r, pc, toks)
<1>1. PICK q \in Request : q = req[r]
  BY RequestOf
<1>2. PICK s : req' = [req EXCEPT ![r] = s] /\ (\/ s = [q EXCEPT !.pc = pc, !.toks = toks]
                                                \/ s = [q EXCEPT !.toks = toks, !.pc = pc])
  BY <1>1
<1>3. /\ s \in Request /\ s.pc = pc /\ s.toks = toks
      /\ s.op = q.op /\ s.p = q.p /\ s.a = q.a /\ s.n = q.n /\ s.held = q.held /\ s.prev = q.prev
      /\ s.row = q.row /\ s.usable = q.usable /\ s.slot = q.slot /\ s.todo = q.todo
      /\ s.raced = q.raced
  <2>1. CASE s = [q EXCEPT !.pc = pc, !.toks = toks]
    BY <2>1 DEF Request
  <2>2. CASE s = [q EXCEPT !.toks = toks, !.pc = pc]
    BY <2>2 DEF Request
  <2> QED
    BY <1>2, <2>1, <2>2
<1>4. Moves(r) /\ req'[r] = s
  BY <1>2, <1>3, MovesTo, RequestOf
<1> QED
  BY <1>1, <1>3, <1>4 DEF Selects

LEMMA RemoveEffect ==
  ASSUME BaseInv, NEW r \in Requests, RemoveToken(r)
  PROVE  LET q == req[r]
             u == ntfy[q.p]
         IN /\ q.pc = "remove" /\ q.p \in Persons /\ q.a \in Apps
            /\ q.op \in {"provision", "deprovision", "deprovisionApp"}
            /\ Calls(r) /\ UNCHANGED <<doubt, kept>>
            /\ \E t \in q.toks :
                 \/ /\ ntfy'[q.p] = [u EXCEPT !.tokens = u.tokens \ {t}]
                    /\ \/ q.toks = {t} /\ Selects(r, AfterTokens(q.op), q.toks \ {t})
                       \/ q.toks # {t} /\ Selects(r, "remove", q.toks \ {t})
                 \/ /\ Advances(r, "fail")
                    /\ ntfy'[q.p] \in {u, [u EXCEPT !.tokens = u.tokens \ {t}]}
<1>1. PICK q \in Request : /\ q = req[r] /\ q.pc = "remove" /\ q.p \in Persons /\ q.a \in Apps
                           /\ q.op \in {"provision", "deprovision", "deprovisionApp"}
                           /\ q.toks \in SUBSET Token
  BY RequestOf DEF RemoveToken, At, OpInv, Phase, Request
<1>2. PICK u \in User : u = ntfy[q.p] /\ u.tokens \in SUBSET Token
  BY <1>1, UserOf
<1>3. PICK t \in q.toks :
        \/ /\ ntfy' = [ntfy EXCEPT ![q.p].tokens = @ \ {t}] /\ UNCHANGED faults
           /\ req' = [req EXCEPT ![r] =
                        [@ EXCEPT !.toks = q.toks \ {t},
                                  !.pc = IF q.toks = {t} THEN AfterTokens(q.op) ELSE "remove"]]
        \/ Goto(r, "fail") /\ UNCHANGED <<ntfy, faults>>
        \/ /\ Fault /\ Goto(r, "fail") /\ ntfy' \in {ntfy, [ntfy EXCEPT ![q.p].tokens = @ \ {t}]}
  BY <1>1 DEF RemoveToken
<1>4. PICK v \in User : v = [u EXCEPT !.tokens = u.tokens \ {t}]
  <2>1. PICK s \in SUBSET Token : s = u.tokens \ {t}
    BY <1>2
  <2> QED
    BY <2>1, SetTokens
<1>5. ntfy \in [Persons -> User] /\ doubt \in [Persons -> BOOLEAN] /\ TypeOK
  BY RequestOf DEF TypeOK, ExtTypeOK, HistTypeOK
<1>6. [ntfy EXCEPT ![q.p].tokens = @ \ {t}] = [ntfy EXCEPT ![q.p] = v]
  BY <1>1, <1>2, <1>4, <1>5
<1>7. cliUnchanged /\ UNCHANGED <<doubt, kept>>
  BY DEF RemoveToken
<1>8. Calls(r)
  <2>1. faults' \in Nat
    BY <1>3, <1>5, FaultsType
  <2>2. ntfy' \in {ntfy, [ntfy EXCEPT ![q.p] = v]}
    BY <1>3, <1>6
  <2>3. ntfy' \in [Persons -> User] /\ \A x \in Persons : x # q.p => ntfy'[x] = ntfy[x]
    BY <1>5, <2>2
  <2> QED
    BY <1>1, <1>5, <1>7, <2>1, <2>3 DEF Calls, CliTyped
<1>9. CASE /\ ntfy' = [ntfy EXCEPT ![q.p].tokens = @ \ {t}]
           /\ req' = [req EXCEPT ![r] =
                        [@ EXCEPT !.toks = q.toks \ {t},
                                  !.pc = IF q.toks = {t} THEN AfterTokens(q.op) ELSE "remove"]]
  <2>1. PICK pc \in Phase : pc = IF q.toks = {t} THEN AfterTokens(q.op) ELSE "remove"
    BY DEF AfterTokens, Phase, Locked
  <2>2. PICK k \in SUBSET Token : k = q.toks \ {t}
    BY <1>1
  <2>3. req' = [req EXCEPT ![r] = [@ EXCEPT !.toks = k, !.pc = pc]]
    BY <1>9, <2>1, <2>2
  <2>4. Selects(r, pc, k)
    BY <2>3, SelectMoves
  <2>5. ntfy'[q.p] = v
    BY <1>1, <1>5, <1>6, <1>9
  <2> QED
    BY <1>1, <1>2, <1>4, <1>7, <1>8, <2>1, <2>2, <2>4, <2>5
<1>10. CASE Goto(r, "fail") /\ ntfy' \in {ntfy, [ntfy EXCEPT ![q.p].tokens = @ \ {t}]}
  <2>1. Advances(r, "fail")
    BY <1>10, GotoAdvances, RequestOf DEF Phase
  <2>2. ntfy'[q.p] \in {u, v}
    BY <1>1, <1>2, <1>5, <1>6, <1>10
  <2> QED
    BY <1>1, <1>2, <1>4, <1>7, <1>8, <2>1, <2>2
<1> QED
  BY <1>3, <1>9, <1>10

LEMMA ListEffect ==
  ASSUME BaseInv, NEW r \in Requests, ListTokens(r)
  PROVE  LET q == req[r]
             u == ntfy[q.p]
         IN /\ q.pc = "list" /\ q.p \in Persons /\ q.a \in Apps
            /\ q.op \in {"provision", "deprovision", "deprovisionApp"}
            /\ UNCHANGED <<extVars, procVars, clock, ops, histVars>> /\ faults' \in Nat
            /\ \/ TokensOf(u, q.a) = {} /\ Selects(r, AfterTokens(q.op), {})
               \/ TokensOf(u, q.a) # {} /\ Selects(r, "remove", TokensOf(u, q.a))
               \/ Advances(r, "fail")
<1>1. PICK q \in Request : /\ q = req[r] /\ q.pc = "list" /\ q.p \in Persons /\ q.a \in Apps
                           /\ q.op \in {"provision", "deprovision", "deprovisionApp"}
  BY RequestOf DEF ListTokens, At, OpInv, Phase
<1>2. PICK k \in SUBSET Token : k = TokensOf(ntfy[q.p], q.a)
  BY <1>1, UserOf DEF TokensOf
<1>3. UNCHANGED <<extVars, procVars, clock, ops, histVars>> /\ faults' \in Nat
  BY RequestOf, FaultsType DEF ListTokens
<1>4. CASE req' = [req EXCEPT ![r] = [@ EXCEPT !.pc = IF k = {} THEN AfterTokens(q.op) ELSE "remove",
                                               !.toks = k]]
  <2>1. PICK pc \in Phase : pc = IF k = {} THEN AfterTokens(q.op) ELSE "remove"
    BY DEF AfterTokens, Phase, Locked
  <2>2. Selects(r, pc, k)
    BY <1>4, <2>1, SelectMoves
  <2> QED
    BY <1>1, <1>2, <1>3, <2>1, <2>2
<1>5. CASE Goto(r, "fail")
  <2>1. Advances(r, "fail")
    BY <1>5, GotoAdvances, RequestOf DEF Phase
  <2> QED
    BY <1>1, <1>3, <2>1
<1> QED
  BY <1>1, <1>2, <1>4, <1>5 DEF ListTokens

LEMMA OutcomeAdvances ==
  ASSUME NEW r, NEW user, NEW next, Outcome(r, user, next)
  PROVE  \E pc \in {next, "fail"} : Advances(r, pc)
BY DEF Outcome

\* Where the calls lead.
LEMMA CallsBase ==
  ASSUME BaseInv, NEW r \in Requests, Calls(r), kept' \in [Persons -> BOOLEAN], NEW pc, Advances(r, pc),
         \/ req[r].pc = "change" /\ req[r].op = "provision" /\ pc \in {"grant", "fail"}
         \/ /\ req[r].pc = "change" /\ req[r].op # "provision"
            /\ \/ pc \in {"answer", "fail"}
               \/ pc = "record" /\ req[r].held = Null
         \/ req[r].pc \in {"grant", "broadcast", "addToken"} /\ pc \in {"broadcast", "list", "upsert", "fail"}
         \/ req[r].pc \in {"reset", "resetBroadcast"} /\ pc \in {"resetBroadcast", "list", "fail"}
         \/ req[r].pc = "deleteUser" /\ pc \in {"deletePerson", "fail"}
         \/ req[r].pc = "remove" /\ pc = "fail"
  PROVE  BaseInv'
<1>1. OpInv(req[r])
  BY RequestOf
<1>2. CliTyped /\ cliUnchanged
  BY DEF Calls
<1>3. Alike(req[r], req'[r]) /\ req'[r].pc = pc
  BY DEF Advances
<1>4. OpInv(req'[r])
  BY <1>1, <1>3 DEF OpInv, Alike, Changes, Removals, Ops, Phase, Locked, Granting
<1>5. Holds(req'[r]) => Holds(req[r])
  BY <1>1, <1>3 DEF OpInv, Alike, Changes, Removals, Holds, Locked, Granting
<1>6. Holds(req[r]) \/ req[r].pc \in {"answer", "fail"} => Holds(req'[r]) \/ pc \in {"answer", "fail"}
  BY <1>1, <1>3 DEF OpInv, Alike, Changes, Removals, Holds, Locked, Granting
<1> QED
  BY <1>2, <1>4, <1>5, <1>6, CliBase

LEMMA ChangeBase ==
  ASSUME BaseInv, NEW r \in Requests, ChangePassword(r)
  PROVE  BaseInv'
<1>1. kept' \in [Persons -> BOOLEAN] /\ Calls(r) /\ req[r].pc = "change"
  BY ChangeEffect, KeptType, RequestOf
<1>2. ~req[r].row /\ req[r].op # "provision" => req[r].held = Null
  BY <1>1, RequestOf DEF OpInv
<1>3. \/ req[r].op = "provision" /\ \E pc \in {"grant", "fail"} : Advances(r, pc)
      \/ req[r].op # "provision" /\ \E pc \in {"answer", "fail"} : Advances(r, pc)
      \/ req[r].op # "provision" /\ ~req[r].row /\ \E pc \in {"record", "fail"} : Advances(r, pc)
  BY ChangeEffect, OutcomeAdvances DEF Missing
<1> QED
  BY <1>1, <1>2, <1>3, CallsBase

LEMMA GrantBase ==
  ASSUME BaseInv, NEW r \in Requests, GrantAccess(r) \/ AddToken(r)
  PROVE  BaseInv'
<1>1. kept' \in [Persons -> BOOLEAN]
  BY GrantEffect, AddTokenEffect, KeptType, RequestOf
<1>2. /\ Calls(r) /\ req[r].pc \in {"grant", "broadcast", "addToken"}
      /\ \E pc \in {"broadcast", "list", "upsert", "fail"} : Advances(r, pc)
  BY GrantEffect, AddTokenEffect, OutcomeAdvances
<1> QED
  BY <1>1, <1>2, CallsBase

LEMMA ResetBase ==
  ASSUME BaseInv, NEW r \in Requests, ResetAccess(r)
  PROVE  BaseInv'
<1>1. kept' \in [Persons -> BOOLEAN]
  BY ResetEffect, KeptType, RequestOf
<1>2. PICK pc \in {"resetBroadcast", "list", "fail"} : Advances(r, pc)
  BY ResetEffect, OutcomeAdvances DEF Missing
<1> QED
  BY <1>1, <1>2, ResetEffect, CallsBase

LEMMA DeleteUserBase ==
  ASSUME BaseInv, NEW r \in Requests, DeleteUser(r)
  PROVE  BaseInv'
<1>1. PICK pc \in {"deletePerson", "fail"} : Advances(r, pc)
  BY DeleteUserEffect, OutcomeAdvances
<1> QED
  BY <1>1, DeleteUserEffect, CallsBase

\* Tokens selected by whoever has its phase from the code.
LEMMA SelectOp ==
  ASSUME BaseInv, NEW r \in Requests, NEW toks, NEW pc, Selects(r, pc, toks),
         req[r].pc \in {"list", "remove"}, pc \in {"remove", AfterTokens(req[r].op)}
  PROVE  /\ OpInv(req'[r]) /\ Spares(r) /\ req'[r].p = req[r].p
         /\ Holds(req'[r]) => Holds(req[r])
         /\ Holds(req[r]) => Holds(req'[r])
<1>1. OpInv(req[r]) /\ req[r].op \in {"provision", "deprovision", "deprovisionApp"}
  BY RequestOf DEF OpInv
<1>2. pc \in {"remove", "addToken", "lock"} /\ (pc = "addToken" <=> req[r].op = "provision" /\ pc # "remove")
  BY DEF AfterTokens
<1>3. OpInv(req'[r])
  BY <1>1, <1>2 DEF Selects, OpInv, Changes, Removals, Ops, Phase, Locked, Granting
<1>4. (Holds(req'[r]) => Holds(req[r])) /\ (Holds(req[r]) => Holds(req'[r]))
  BY <1>1, <1>2 DEF Selects, OpInv, Changes, Holds, Locked, Granting
<1> QED
  BY <1>3, <1>4, MovesSpares DEF Selects

LEMMA RemoveBase ==
  ASSUME BaseInv, NEW r \in Requests, RemoveToken(r)
  PROVE  BaseInv'
<1>1. /\ req[r].pc = "remove" /\ Calls(r) /\ kept' \in [Persons -> BOOLEAN]
  BY RemoveEffect, KeptType, RequestOf
<1>2. CASE Advances(r, "fail")
  BY <1>1, <1>2, CallsBase
<1>3. CASE \E pc \in {"remove", AfterTokens(req[r].op)}, k \in SUBSET Token : Selects(r, pc, k)
  <2>1. PICK pc \in {"remove", AfterTokens(req[r].op)}, k \in SUBSET Token : Selects(r, pc, k)
    BY <1>3
  <2>2. TypeOK' /\ UNCHANGED lock
    BY <1>1, <2>1, CliTypes, RequestOf DEF Selects, Moves, Calls
  <2>3. \A p \in Persons : lock[p] = r => Holds(req[r])
    BY <1>1, NoneAssumption DEF BaseInv, LockInv
  <2> QED
    BY <1>1, <2>1, <2>2, <2>3, SelectOp, BaseStep
<1>4. req[r].toks \in SUBSET Token
  BY RequestOf DEF Request
<1> QED
  BY <1>2, <1>3, <1>4, RemoveEffect

LEMMA ListBase ==
  ASSUME BaseInv, NEW r \in Requests, ListTokens(r)
  PROVE  BaseInv'
<1>1. req[r].pc = "list" /\ faults' \in Nat /\ UNCHANGED <<extVars, procVars, clock, ops, histVars>>
  BY ListEffect
<1>2. req' \in [Requests -> Request]
  BY ListEffect DEF Selects, Advances, Moves
<1>3. TypeOK' /\ UNCHANGED lock
  BY <1>1, <1>2, QuietTypes, ThrottleType, RequestOf
<1>4. CASE Advances(r, "fail")
  <2>1. OpInv(req[r]) /\ Alike(req[r], req'[r]) /\ req'[r].pc = "fail"
    BY <1>4, RequestOf DEF Advances
  <2>2. OpInv(req'[r])
    BY <1>1, <2>1 DEF OpInv, Alike, Changes, Removals, Ops, Phase, Locked, Granting
  <2>3. req'[r].held # Null => req[r].op = "provision"
    BY <1>1, <2>1 DEF OpInv, Alike, Changes
  <2>4. Holds(req'[r]) => Holds(req[r])
    BY <1>1, <2>1, <2>3 DEF Holds, Alike, Locked
  <2> QED
    BY <1>3, <1>4, <2>2, <2>4, AdvanceBase
<1>5. CASE \E pc \in {"remove", AfterTokens(req[r].op)}, k \in SUBSET Token : Selects(r, pc, k)
  <2>1. PICK pc \in {"remove", AfterTokens(req[r].op)}, k \in SUBSET Token : Selects(r, pc, k)
    BY <1>5
  <2>2. \A p \in Persons : lock[p] = r => Holds(req[r])
    BY <1>1, NoneAssumption DEF BaseInv, LockInv
  <2> QED
    BY <1>1, <1>3, <2>1, <2>2, SelectOp, BaseStep
<1>6. req[r].p \in Persons /\ TokensOf(ntfy[req[r].p], req[r].a) \in SUBSET Token
  BY ListEffect, UserOf DEF TokensOf
<1> QED
  BY <1>4, <1>5, <1>6, ListEffect
-----------------------------------------------------------------------------
(***************************************************************************)
(* Calls to the person service.                                            *)
(***************************************************************************)
StoreTyped == store' \in [Persons -> Row] /\ doubt' \in [Persons -> BOOLEAN] /\ faults' \in Nat
Writes(r) ==
  /\ StoreTyped /\ storeUnchanged
  /\ \A x \in Persons : doubt[x] => doubt'[x]
  /\ \A x \in Persons : x # req[r].p => store'[x] = store[x]

StampRow(n) == [row |-> TRUE, stamp |-> n]

\* A request to the row of p: answered, or failed with or without effect.
LEMMA AnsweredWrites ==
  ASSUME BaseInv, NEW r \in Requests, NEW p \in Persons, p = req[r].p, NEW row \in Row,
         Answered(p, row), storeUnchanged
  PROVE  Writes(r) /\ store'[p] = row
<1>1. TypeOK /\ store \in [Persons -> Row] /\ doubt \in [Persons -> BOOLEAN] /\ faults \in Nat
  BY RequestOf DEF TypeOK, ExtTypeOK, HistTypeOK, OtherTypeOK
<1>2. store' = [store EXCEPT ![p] = row] /\ faults' = faults /\ doubt' = doubt
  BY DEF Answered
<1> QED
  BY <1>1, <1>2 DEF Writes, StoreTyped

LEMMA AmbiguousWrites ==
  ASSUME BaseInv, NEW r \in Requests, NEW p \in Persons, p = req[r].p, NEW row \in Row,
         Ambiguous(p, row), storeUnchanged, NEW b \in BOOLEAN, Doubt(p, b) \/ (UNCHANGED doubt /\ b = FALSE)
  PROVE  Writes(r) /\ store'[p] \in {store[p], row} /\ (b => doubt'[p])
<1>1. TypeOK /\ store \in [Persons -> Row] /\ doubt \in [Persons -> BOOLEAN] /\ faults \in Nat
  BY RequestOf DEF TypeOK, ExtTypeOK, HistTypeOK, OtherTypeOK
<1>2. store' \in {store, [store EXCEPT ![p] = row]} /\ faults' \in Nat
  BY <1>1, FaultsType DEF Ambiguous
<1>3. doubt' \in [Persons -> BOOLEAN] /\ (b => doubt'[p]) /\ \A x \in Persons : doubt[x] => doubt'[x]
  BY <1>1 DEF Doubt
<1> QED
  BY <1>1, <1>2, <1>3 DEF Writes, StoreTyped

LEMMA LostWrites ==
  ASSUME BaseInv, NEW r \in Requests, NEW p \in Persons, p = req[r].p, NEW row \in Row,
         Ambiguous(p, row), storeUnchanged, UNCHANGED doubt
  PROVE  Writes(r) /\ store'[p] \in {store[p], row}
<1>1. FALSE \in BOOLEAN /\ (UNCHANGED doubt /\ FALSE = FALSE)
  OBVIOUS
<1> QED
  BY <1>1, AmbiguousWrites

LEMMA UntouchedWrites ==
  ASSUME BaseInv, NEW r \in Requests, UNCHANGED <<store, doubt>>, Fault \/ UNCHANGED faults,
         storeUnchanged
  PROVE  Writes(r) /\ store' = store
<1>1. TypeOK /\ store \in [Persons -> Row] /\ doubt \in [Persons -> BOOLEAN]
  BY RequestOf DEF TypeOK, ExtTypeOK, HistTypeOK
<1> QED
  BY <1>1, FaultsType DEF Writes, StoreTyped

LEMMA StoreTypes ==
  ASSUME TypeOK, NEW r, Writes(r), req' \in [Requests -> Request]
  PROVE  TypeOK' /\ UNCHANGED lock
BY DEF TypeOK, ExtTypeOK, ProcTypeOK, HistTypeOK, RequestTypeOK, OtherTypeOK, Writes, StoreTyped,
       storeUnchanged, procVars

\* The rows the service writes.
LEMMA RowTypes ==
  ASSUME NEW row \in Row, NEW n \in Nat, NEW m \in Nat, NEW mode \in {"if_unset", "always", "update_only"}
  PROVE  /\ ClaimPassword(mode, row, n) = (IF Claimed(mode, row) THEN StampRow(n) ELSE row)
         /\ ClaimPassword(mode, row, n) \in Row
         /\ ReleasePasswordClaim(row, n, m) \in Row
         /\ row.row /\ row.stamp = n => ReleasePasswordClaim(row, n, m).stamp = m
         /\ ~(row.row /\ row.stamp = n) => ReleasePasswordClaim(row, n, m) = row
         /\ ReleasePasswordClaim(row, n, m).row = row.row
<1>1. StampRow(n) \in Row
  BY DEF StampRow, Row
<1>2. [row EXCEPT !.stamp = m] \in Row /\ [row EXCEPT !.stamp = m].stamp = m
      /\ [row EXCEPT !.stamp = m].row = row.row
  BY DEF Row
<1> QED
  BY <1>1, <1>2 DEF ClaimPassword, ReleasePasswordClaim, StampRow

LEMMA RowOf ==
  ASSUME BaseInv, NEW r \in Requests, req[r].p \in Persons
  PROVE  store[req[r].p] \in Row /\ req[r].n \in Nat /\ req[r].held \in Nat /\ req[r].prev \in Nat
BY RequestOf DEF TypeOK, ExtTypeOK, Request

\* A request goes on with a claim, or with the answer that it has none.
Proceeds(r, pc, held, prev, row, usable) ==
  LET q == req[r]
      s == req'[r]
  IN /\ Moves(r) /\ s.pc = pc /\ s.held = held /\ s.prev = prev /\ s.row = row /\ s.usable = usable
     /\ s.op = q.op /\ s.p = q.p /\ s.a = q.a /\ s.n = q.n /\ s.toks = q.toks /\ s.slot = q.slot
     /\ s.todo = q.todo /\ s.raced = q.raced

LEMMA ClaimIfUnsetEffect ==
  ASSUME BaseInv, NEW r \in Requests, ClaimIfUnset(r)
  PROVE  LET q == req[r]
             won == Claimed("if_unset", store[q.p])
         IN /\ q.pc = "claim" /\ q.op = "provision" /\ q.p \in Persons /\ Writes(r)
            /\ \/ /\ won /\ store'[q.p] = StampRow(q.n)
                  /\ Proceeds(r, "addUser", q.n, q.prev, q.row, TRUE)
               \/ /\ ~won /\ store'[q.p] = store[q.p]
                  /\ Proceeds(r, "addUser", Null, q.prev, q.row, TRUE)
               \/ /\ Advances(r, "releaseLost")
                  /\ store'[q.p] = store[q.p] \/ (won /\ store'[q.p] = StampRow(q.n))
               \/ Advances(r, "addUser") /\ store'[q.p] = store[q.p]
<1>1. PICK q \in Request : q = req[r] /\ q.pc = "claim" /\ q.op = "provision" /\ q.p \in Persons
  BY RequestOf DEF ClaimIfUnset, At, OpInv, Phase, Locked
<1>2. PICK p \in Persons : p = q.p
  BY <1>1
<1>3. PICK row \in Row : /\ row = ClaimPassword("if_unset", store[p], q.n)
                         /\ Claimed("if_unset", store[p]) => row = StampRow(q.n)
                         /\ ~Claimed("if_unset", store[p]) => row = store[p]
  <2>1. PICK old \in Row, n \in Nat : old = store[p] /\ n = q.n
    BY <1>1, <1>2, RowOf
  <2>2. /\ ClaimPassword("if_unset", old, n) = IF Claimed("if_unset", old) THEN StampRow(n) ELSE old
        /\ ClaimPassword("if_unset", old, n) \in Row
    BY RowTypes
  <2> QED
    BY <2>1, <2>2
<1>4. storeUnchanged
  BY DEF ClaimIfUnset
<1>5. PICK held \in Nat : held = IF Claimed("if_unset", store[p]) THEN q.n ELSE Null
  BY <1>1, <1>2, RowOf DEF Null
<1>6. CASE /\ Answered(p, row)
           /\ req' = [req EXCEPT ![r] = [@ EXCEPT !.pc = "addUser", !.usable = TRUE, !.held = held]]
  <2>1. Writes(r) /\ store'[p] = row
    BY <1>1, <1>2, <1>4, <1>6, AnsweredWrites
  <2>2. PICK s : s = [q EXCEPT !.pc = "addUser", !.usable = TRUE, !.held = held]
    OBVIOUS
  <2>3. /\ s \in Request /\ s.pc = "addUser" /\ s.held = held /\ s.prev = q.prev /\ s.row = q.row
        /\ s.usable = TRUE
        /\ s.op = q.op /\ s.p = q.p /\ s.a = q.a /\ s.n = q.n /\ s.toks = q.toks /\ s.slot = q.slot
        /\ s.todo = q.todo /\ s.raced = q.raced
    BY <2>2 DEF Request, Phase, Locked
  <2>4. Moves(r) /\ req'[r] = s
    BY <1>1, <1>6, <2>2, <2>3, MovesTo, RequestOf
  <2>5. Proceeds(r, "addUser", held, q.prev, q.row, TRUE)
    BY <1>1, <2>3, <2>4 DEF Proceeds
  <2> QED
    BY <1>1, <1>2, <1>3, <1>5, <2>1, <2>5
<1>7. CASE Ambiguous(p, row) /\ Goto(r, "releaseLost") /\ UNCHANGED doubt
  <2>1. Writes(r) /\ store'[p] \in {store[p], row}
    BY <1>1, <1>2, <1>4, <1>7, AmbiguousWrites
  <2>2. Advances(r, "releaseLost")
    BY <1>7, GotoAdvances, RequestOf DEF Phase, Locked
  <2> QED
    BY <1>1, <1>2, <1>3, <2>1, <2>2
<1>8. CASE (Fault \/ UNCHANGED faults) /\ Goto(r, "addUser") /\ UNCHANGED <<store, doubt>>
  <2>1. Writes(r) /\ store' = store
    BY <1>4, <1>8, UntouchedWrites
  <2>2. Advances(r, "addUser")
    BY <1>8, GotoAdvances, RequestOf DEF Phase, Locked
  <2> QED
    BY <1>1, <2>1, <2>2
<1> QED
  BY <1>1, <1>2, <1>3, <1>5, <1>6, <1>7, <1>8 DEF ClaimIfUnset

LEMMA ReleaseLostEffect ==
  ASSUME BaseInv, NEW r \in Requests, ReleaseLostClaim(r)
  PROVE  LET q == req[r]
             row == ReleasePasswordClaim(store[q.p], q.n, Null)
         IN /\ q.pc = "releaseLost" /\ q.p \in Persons /\ Writes(r) /\ Advances(r, "addUser")
            /\ \/ store'[q.p] = row
               \/ store'[q.p] \in {store[q.p], row} /\ doubt'[q.p]
<1>1. PICK q \in Request : q = req[r] /\ q.pc = "releaseLost" /\ q.p \in Persons
  BY RequestOf DEF ReleaseLostClaim, At, OpInv, Phase, Locked
<1>2. PICK p \in Persons : p = q.p
  BY <1>1
<1>3. PICK row \in Row : row = ReleasePasswordClaim(store[p], q.n, Null)
  BY <1>1, <1>2, RowOf, RowTypes DEF Null
<1>4. storeUnchanged /\ Advances(r, "addUser")
  BY GotoAdvances, RequestOf DEF ReleaseLostClaim, Phase, Locked
<1>5. CASE Answered(p, row)
  <2>1. Writes(r) /\ store'[p] = row
    BY <1>1, <1>2, <1>4, <1>5, AnsweredWrites
  <2> QED
    BY <1>1, <1>2, <1>3, <1>4, <2>1
<1>6. CASE Ambiguous(p, row) /\ Doubt(p, TRUE)
  <2>1. Writes(r) /\ store'[p] \in {store[p], row} /\ doubt'[p]
    BY <1>1, <1>2, <1>4, <1>6, AmbiguousWrites
  <2> QED
    BY <1>1, <1>2, <1>3, <1>4, <2>1
<1> QED
  BY <1>1, <1>2, <1>3, <1>5, <1>6 DEF ReleaseLostClaim

LEMMA HealEffect ==
  ASSUME BaseInv, NEW r \in Requests, healStaleStamp(r)
  PROVE  LET q == req[r] IN
         /\ q.pc = "heal" /\ q.op = "provision" /\ q.p \in Persons /\ Writes(r)
         /\ \/ /\ store'[q.p] = StampRow(q.n)
               /\ Proceeds(r, "change", q.n, q.prev, q.row, q.usable)
            \/ /\ store'[q.p] \in {store[q.p], StampRow(q.n)} /\ doubt'[q.p]
               /\ Advances(r, "grant")
<1>1. PICK q \in Request : q = req[r] /\ q.pc = "heal" /\ q.op = "provision" /\ q.p \in Persons
  BY RequestOf DEF healStaleStamp, At, OpInv, Phase, Locked
<1>2. PICK p \in Persons : p = q.p
  BY <1>1
<1>3. PICK row \in Row : row = ClaimPassword("always", store[p], q.n) /\ row = StampRow(q.n)
  BY <1>1, <1>2, RowOf, RowTypes DEF Claimed
<1>4. storeUnchanged /\ q.n \in Nat
  BY <1>1 DEF healStaleStamp, Request
<1>5. CASE /\ Answered(p, row)
           /\ req' = [req EXCEPT ![r] = [@ EXCEPT !.pc = "change", !.held = q.n]]
  <2>1. Writes(r) /\ store'[p] = row
    BY <1>1, <1>2, <1>4, <1>5, AnsweredWrites
  <2>2. PICK s : s = [q EXCEPT !.pc = "change", !.held = q.n]
    OBVIOUS
  <2>3. /\ s \in Request /\ s.pc = "change" /\ s.held = q.n /\ s.prev = q.prev /\ s.row = q.row
        /\ s.usable = q.usable
        /\ s.op = q.op /\ s.p = q.p /\ s.a = q.a /\ s.n = q.n /\ s.toks = q.toks /\ s.slot = q.slot
        /\ s.todo = q.todo /\ s.raced = q.raced
    BY <1>4, <2>2 DEF Request, Phase, Locked
  <2>4. Moves(r) /\ req'[r] = s
    BY <1>1, <1>5, <2>2, <2>3, MovesTo, RequestOf
  <2>5. Proceeds(r, "change", q.n, q.prev, q.row, q.usable)
    BY <1>1, <2>3, <2>4 DEF Proceeds
  <2> QED
    BY <1>1, <1>2, <1>3, <2>1, <2>5
<1>6. CASE Ambiguous(p, row) /\ Doubt(p, TRUE) /\ Goto(r, "grant")
  <2>1. Writes(r) /\ store'[p] \in {store[p], row} /\ doubt'[p]
    BY <1>1, <1>2, <1>4, <1>6, AmbiguousWrites
  <2>2. Advances(r, "grant")
    BY <1>6, GotoAdvances, RequestOf DEF Phase, Locked
  <2> QED
    BY <1>1, <1>2, <1>3, <2>1, <2>2
<1> QED
  BY <1>1, <1>2, <1>3, <1>5, <1>6 DEF healStaleStamp

LEMMA ClaimUpdateOnlyEffect ==
  ASSUME BaseInv, NEW r \in Requests, ClaimUpdateOnly(r)
  PROVE  LET q == req[r]
             row == store[q.p]
         IN /\ q.pc = "claim" /\ q.op \in Changes /\ q.p \in Persons /\ Writes(r)
            /\ \/ /\ row.row /\ store'[q.p] = StampRow(q.n)
                  /\ Proceeds(r, "change", q.n, row.stamp, TRUE, q.usable)
               \/ /\ ~row.row /\ store'[q.p] = row
                  /\ Proceeds(r, "change", Null, Null, FALSE, q.usable)
               \/ /\ Advances(r, "fail")
                  /\ \/ store'[q.p] = row
                     \/ row.row /\ store'[q.p] = StampRow(q.n) /\ doubt'[q.p]
<1>1. PICK q \in Request : q = req[r] /\ q.pc = "claim" /\ q.op \in Changes /\ q.p \in Persons
  BY RequestOf DEF ClaimUpdateOnly, At, OpInv, Phase, Locked
<1>2. PICK p \in Persons : p = q.p
  BY <1>1
<1>3. store[p] \in Row /\ store[p].row \in BOOLEAN /\ store[p].stamp \in Nat /\ q.n \in Nat
  BY <1>1, <1>2, RowOf DEF Row
<1>4. PICK row \in Row : /\ row = ClaimPassword("update_only", store[p], q.n)
                         /\ store[p].row => row = StampRow(q.n)
                         /\ ~store[p].row => row = store[p]
  <2>1. /\ ClaimPassword("update_only", store[p], q.n) \in Row
        /\ ClaimPassword("update_only", store[p], q.n) =
             (IF Claimed("update_only", store[p]) THEN StampRow(q.n) ELSE store[p])
    BY <1>3, RowTypes
  <2>2. Claimed("update_only", store[p]) = store[p].row
    BY DEF Claimed
  <2> QED
    BY <2>1, <2>2
<1>5. storeUnchanged
  BY DEF ClaimUpdateOnly
<1>6. Claimed("update_only", store[p]) = store[p].row
  BY DEF Claimed
<1>7. PICK won \in BOOLEAN : won = store[p].row
  BY <1>3
<1>8. PICK held \in Nat : held = IF won THEN q.n ELSE Null
  BY <1>3 DEF Null
<1>9. PICK prev \in Nat : prev = IF won THEN store[p].stamp ELSE Null
  BY <1>3 DEF Null
<1>10. CASE /\ Answered(p, row)
            /\ req' = [req EXCEPT ![r] = [@ EXCEPT !.pc = "change", !.row = won, !.held = held,
                                                   !.prev = prev]]
  <2>1. Writes(r) /\ store'[p] = row
    BY <1>1, <1>2, <1>5, <1>10, AnsweredWrites
  <2>2. PICK s : s = [q EXCEPT !.pc = "change", !.row = won, !.held = held, !.prev = prev]
    OBVIOUS
  <2>3. /\ s \in Request /\ s.pc = "change" /\ s.held = held /\ s.prev = prev /\ s.row = won
        /\ s.usable = q.usable
        /\ s.op = q.op /\ s.p = q.p /\ s.a = q.a /\ s.n = q.n /\ s.toks = q.toks /\ s.slot = q.slot
        /\ s.todo = q.todo /\ s.raced = q.raced
    BY <2>2 DEF Request, Phase, Locked
  <2>4. Moves(r) /\ req'[r] = s
    BY <1>1, <1>10, <2>2, <2>3, MovesTo, RequestOf
  <2>5. Proceeds(r, "change", held, prev, won, q.usable)
    BY <1>1, <2>3, <2>4 DEF Proceeds
  <2>6. CASE won
    BY <1>1, <1>2, <1>4, <1>7, <1>8, <1>9, <2>1, <2>5, <2>6
  <2>7. CASE ~won
    <3>1. won = FALSE /\ ~store[p].row
      BY <1>7, <2>7
    <3> QED
      BY <1>1, <1>2, <1>4, <1>8, <1>9, <2>1, <2>5, <3>1
  <2> QED
    BY <2>6, <2>7
<1>11. CASE Ambiguous(p, row) /\ Doubt(p, store' # store) /\ Goto(r, "fail")
  <2>1. PICK b \in BOOLEAN : b = (store' # store)
    OBVIOUS
  <2>2. Writes(r) /\ store'[p] \in {store[p], row} /\ (b => doubt'[p])
    BY <1>1, <1>2, <1>5, <1>11, <2>1, AmbiguousWrites
  <2>3. Advances(r, "fail")
    BY <1>11, GotoAdvances, RequestOf DEF Phase
  <2>4. CASE store' = store
    BY <1>1, <1>2, <2>2, <2>3, <2>4
  <2>5. CASE store' # store
    <3>1. doubt'[p]
      BY <2>1, <2>2, <2>5
    <3> QED
      BY <1>1, <1>2, <1>4, <2>2, <2>3, <3>1
  <2> QED
    BY <2>4, <2>5
<1>12. CASE Goto(r, "fail") /\ UNCHANGED <<store, faults, doubt>>
  <2>1. Writes(r) /\ store' = store
    BY <1>5, <1>12, UntouchedWrites
  <2>2. Advances(r, "fail")
    BY <1>12, GotoAdvances, RequestOf DEF Phase
  <2> QED
    BY <1>1, <2>1, <2>2
<1> QED
  BY <1>1, <1>2, <1>4, <1>6, <1>7, <1>8, <1>9, <1>10, <1>11, <1>12 DEF ClaimUpdateOnly

LEMMA RecordEffect ==
  ASSUME BaseInv, NEW r \in Requests, recordStampAfterChange(r)
  PROVE  LET q == req[r] IN
         /\ q.pc = "record" /\ q.op \in Changes /\ q.p \in Persons /\ Writes(r)
         /\ Advances(r, "answer") /\ store'[q.p] \in {store[q.p], StampRow(q.n)}
<1>1. PICK q \in Request : q = req[r] /\ q.pc = "record" /\ q.op \in Changes /\ q.p \in Persons
  BY RequestOf DEF recordStampAfterChange, At, OpInv, Phase, Locked
<1>2. PICK p \in Persons : p = q.p
  BY <1>1
<1>3. PICK row \in Row : row = ClaimPassword("always", store[p], q.n) /\ row = StampRow(q.n)
  BY <1>1, <1>2, RowOf, RowTypes DEF Claimed
<1>4. storeUnchanged /\ Advances(r, "answer")
  BY GotoAdvances, RequestOf DEF recordStampAfterChange, Phase
<1>5. Answered(p, row) \/ (Ambiguous(p, row) /\ UNCHANGED doubt)
  BY <1>1, <1>2, <1>3 DEF recordStampAfterChange
<1>6. Writes(r) /\ store'[p] \in {store[p], row}
  BY <1>1, <1>2, <1>4, <1>5, AnsweredWrites, LostWrites
<1> QED
  BY <1>1, <1>2, <1>3, <1>4, <1>6

LEMMA DualWriteEffect ==
  ASSUME BaseInv, NEW r \in Requests, dualWritePerson(r)
  PROVE  LET q == req[r] IN
         /\ q.pc = "upsert" /\ q.op = "provision" /\ q.p \in Persons /\ Writes(r)
         /\ Advances(r, "answer")
         /\ store'[q.p].stamp = store[q.p].stamp /\ (store[q.p].row => store'[q.p].row)
<1>1. PICK q \in Request : q = req[r] /\ q.pc = "upsert" /\ q.op = "provision" /\ q.p \in Persons
  BY RequestOf DEF dualWritePerson, At, OpInv, Phase, Locked
<1>2. PICK p \in Persons : p = q.p
  BY <1>1
<1>3. PICK row \in Row : /\ row = [store[p] EXCEPT !.row = TRUE]
                         /\ row.row /\ row.stamp = store[p].stamp
  <2>1. PICK old \in Row : old = store[p]
    BY <1>1, <1>2, RowOf
  <2>2. PICK new : new = [old EXCEPT !.row = TRUE]
    OBVIOUS
  <2>3. new \in Row /\ new.row /\ new.stamp = old.stamp
    BY <2>2 DEF Row
  <2> QED
    BY <2>1, <2>2, <2>3
<1>4. storeUnchanged /\ Advances(r, "answer")
  BY GotoAdvances, RequestOf DEF dualWritePerson, Phase
<1>5. \/ Answered(p, row) \/ (Ambiguous(p, row) /\ UNCHANGED doubt)
      \/ UNCHANGED <<store, faults, doubt>>
  BY <1>1, <1>2, <1>3 DEF dualWritePerson
<1>6. Writes(r) /\ store'[p] \in {store[p], row}
  BY <1>1, <1>2, <1>4, <1>5, AnsweredWrites, LostWrites, UntouchedWrites
<1> QED
  BY <1>1, <1>2, <1>3, <1>4, <1>6

LEMMA StoreBase ==
  ASSUME BaseInv, NEW r \in Requests, Writes(r), Moves(r), OpInv(req'[r]), req'[r].p = req[r].p,
         Holds(req[r]), Holds(req'[r]) \/ req'[r].pc \in {"answer", "fail"}
  PROVE  BaseInv'
<1>1. TypeOK' /\ UNCHANGED lock
  BY StoreTypes, RequestOf DEF Moves
<1> QED
  BY <1>1, BaseStep, MovesSpares

LEMMA PasswordBase ==
  ASSUME BaseInv, NEW r \in Requests,
         \/ ClaimIfUnset(r) \/ ReleaseLostClaim(r) \/ healStaleStamp(r) \/ ClaimUpdateOnly(r)
         \/ recordStampAfterChange(r) \/ dualWritePerson(r)
  PROVE  BaseInv'
<1>1. OpInv(req[r])
  BY RequestOf
<1>2. ASSUME NEW pc, Advances(r, pc), Writes(r),
             \/ /\ req[r].op = "provision" /\ req[r].pc \in {"claim", "releaseLost"}
                /\ pc \in {"releaseLost", "addUser"}
             \/ req[r].op = "provision" /\ req[r].pc = "heal" /\ pc = "grant"
             \/ req[r].op \in Changes /\ req[r].pc \in {"claim", "record"} /\ pc \in {"answer", "fail"}
             \/ req[r].op = "provision" /\ req[r].pc = "upsert" /\ pc = "answer"
      PROVE  BaseInv'
  <2>1. Alike(req[r], req'[r]) /\ req'[r].pc = pc /\ Moves(r)
    BY <1>2 DEF Advances
  <2>2. OpInv(req'[r])
    BY <1>1, <1>2, <2>1 DEF OpInv, Alike, Changes, Removals, Ops, Phase, Locked, Granting
  <2>3. Holds(req[r]) /\ (Holds(req'[r]) \/ pc \in {"answer", "fail"})
    BY <1>2, <2>1 DEF Holds, Locked
  <2> QED
    BY <1>2, <2>1, <2>2, <2>3, StoreBase DEF Alike
<1>3. ASSUME NEW pc, NEW held, NEW prev, NEW row, NEW usable, Proceeds(r, pc, held, prev, row, usable),
             Writes(r), held \in {Null, req[r].n},
             \/ /\ req[r].op = "provision" /\ req[r].pc = "claim" /\ pc = "addUser"
                /\ prev = req[r].prev
             \/ /\ req[r].op = "provision" /\ req[r].pc = "heal" /\ pc = "change"
                /\ prev = req[r].prev
             \/ /\ req[r].op \in Changes /\ req[r].pc = "claim" /\ pc = "change"
                /\ (held = req[r].n /\ row = TRUE) \/ (held = Null /\ prev = Null)
                /\ usable = req[r].usable
      PROVE  BaseInv'
  <2>1. Moves(r) /\ req'[r].pc = pc /\ req'[r].p = req[r].p
    BY <1>3 DEF Proceeds
  <2>2. OpInv(req'[r])
    BY <1>1, <1>3 DEF OpInv, Proceeds, Changes, Removals, Ops, Phase, Locked, Granting, Null
  <2>3. Holds(req[r]) /\ Holds(req'[r])
    BY <1>3, <2>1 DEF Holds, Locked
  <2> QED
    BY <1>3, <2>1, <2>2, <2>3, StoreBase
<1>4. CASE ClaimIfUnset(r)
  BY <1>2, <1>3, <1>4, ClaimIfUnsetEffect
<1>5. CASE ReleaseLostClaim(r)
  <2>1. req[r].op = "provision"
    BY <1>1, <1>5, ReleaseLostEffect DEF OpInv
  <2> QED
    BY <1>2, <1>5, <2>1, ReleaseLostEffect
<1>6. CASE healStaleStamp(r)
  BY <1>2, <1>3, <1>6, HealEffect
<1>7. CASE ClaimUpdateOnly(r)
  BY <1>2, <1>3, <1>7, ClaimUpdateOnlyEffect
<1>8. CASE recordStampAfterChange(r)
  BY <1>2, <1>8, RecordEffect
<1>9. CASE dualWritePerson(r)
  BY <1>2, <1>9, DualWriteEffect
<1> QED
  BY <1>4, <1>5, <1>6, <1>7, <1>8, <1>9
-----------------------------------------------------------------------------
(***************************************************************************)
(* The other steps.                                                        *)
(***************************************************************************)
LEMMA RemainingEffect ==
  ASSUME BaseInv, NEW r \in Requests, GetRemaining(r)
  PROVE  LET q == req[r]
             u == ntfy[q.p]
         IN /\ q.pc = "last" /\ q.p \in Persons /\ q.op \in {"deprovision", "deprovisionApp"}
            /\ UNCHANGED <<extVars, procVars, clock, ops, histVars>> /\ faults' \in Nat
            /\ \/ Advances(r, "deleteUser") /\ u.grants = {}
               \/ Advances(r, "answer")
               \/ Advances(r, "fail")
<1>1. req[r].pc = "last" /\ req[r].p \in Persons /\ req[r].op \in {"deprovision", "deprovisionApp"}
  BY RequestOf DEF GetRemaining, At, OpInv, Phase, Locked
<1>2. UNCHANGED <<extVars, procVars, clock, ops, histVars>> /\ faults' \in Nat
  BY RequestOf, FaultsType DEF GetRemaining
<1>3. \/ Goto(r, "deleteUser") /\ ntfy[req[r].p].grants = {}
      \/ Goto(r, "answer")
      \/ Goto(r, "fail")
  BY DEF GetRemaining
<1> QED
  BY <1>1, <1>2, <1>3, GotoAdvances, RequestOf DEF Phase, Locked

LEMMA RemainingBase ==
  ASSUME BaseInv, NEW r \in Requests, GetRemaining(r)
  PROVE  BaseInv'
<1>1. /\ req[r].pc = "last" /\ req[r].op \in {"deprovision", "deprovisionApp"} /\ faults' \in Nat
      /\ UNCHANGED <<extVars, procVars, clock, ops, histVars>>
  BY RemainingEffect
<1>2. PICK pc \in {"deleteUser", "answer", "fail"} : Advances(r, pc)
  BY RemainingEffect
<1>3. OpInv(req[r]) /\ Alike(req[r], req'[r]) /\ req'[r].pc = pc
  BY <1>2, RequestOf DEF Advances
<1>4. TypeOK' /\ UNCHANGED lock
  BY <1>1, <1>2, QuietTypes, ThrottleType, RequestOf DEF Advances, Moves
<1>5. OpInv(req'[r])
  BY <1>1, <1>2, <1>3 DEF OpInv, Alike, Changes, Removals, Ops, Phase, Locked, Granting
<1>6. Holds(req[r]) /\ (Holds(req'[r]) \/ pc \in {"answer", "fail"})
  BY <1>1, <1>2, <1>3 DEF Holds, Locked
<1> QED
  BY <1>2, <1>4, <1>5, <1>6, AdvanceBase

LEMMA DeletePersonEffect ==
  ASSUME BaseInv, NEW r \in Requests, DeletePerson(r)
  PROVE  LET q == req[r] IN
         /\ q.pc = "deletePerson" /\ q.p \in Persons /\ q.op \in Removals
         /\ UNCHANGED <<ntfy, publishers, registry, procVars, clock, ops, known, doubt, kept, served>>
         /\ faults' \in Nat
         /\ \E pc \in {"answer", "fail"} : Advances(r, pc)
         /\ \/ UNCHANGED <<store, slots, granted>>
            \/ /\ store' = [store EXCEPT ![q.p] = NoRow] /\ slots' = [slots EXCEPT ![q.p] = {}]
               /\ granted' = [granted EXCEPT ![q.p] = {}]
<1>1. req[r].pc = "deletePerson" /\ req[r].p \in Persons /\ req[r].op \in Removals
  BY RequestOf DEF DeletePerson, At, OpInv, Phase, Locked
<1>2. faults' \in Nat
  BY RequestOf, FaultsType DEF DeletePerson
<1>3. \E pc \in {"answer", "fail"} : Goto(r, pc)
  BY DEF DeletePerson
<1>4. \E pc \in {"answer", "fail"} : Advances(r, pc)
  BY <1>3, GotoAdvances, RequestOf DEF Phase
<1> QED
  BY <1>1, <1>2, <1>4 DEF DeletePerson

LEMMA DeletePersonBase ==
  ASSUME BaseInv, NEW r \in Requests, DeletePerson(r)
  PROVE  BaseInv'
<1>1. req[r].pc = "deletePerson" /\ req[r].op \in Removals /\ req[r].p \in Persons
  BY DeletePersonEffect
<1>2. PICK pc \in {"answer", "fail"} : Advances(r, pc)
  BY DeletePersonEffect
<1>3. OpInv(req[r]) /\ Alike(req[r], req'[r]) /\ req'[r].pc = pc
  BY <1>2, RequestOf DEF Advances
<1>4. TypeOK' /\ UNCHANGED lock
  <2>1. /\ store' \in [Persons -> Row] /\ slots' \in [Persons -> SUBSET Slot]
        /\ granted' \in [Persons -> SUBSET Slot]
    <3>1. NoRow \in Row
      BY DEF NoRow, Row, Null
    <3>2. /\ store \in [Persons -> Row] /\ slots \in [Persons -> SUBSET Slot]
          /\ granted \in [Persons -> SUBSET Slot]
      BY RequestOf DEF TypeOK, ExtTypeOK, HistTypeOK
    <3> QED
      BY <1>1, <3>1, <3>2, DeletePersonEffect
  <2>2. req' \in [Requests -> Request]
    BY <1>2 DEF Advances, Moves
  <2>3. /\ UNCHANGED <<ntfy, publishers, registry, procVars, clock, ops, known, doubt, kept, served>>
        /\ faults' \in Nat
    BY DeletePersonEffect
  <2> QED
    BY <2>1, <2>2, <2>3, RequestOf DEF TypeOK, ExtTypeOK, ProcTypeOK, HistTypeOK, RequestTypeOK,
       OtherTypeOK, procVars
<1>5. OpInv(req'[r])
  BY <1>1, <1>2, <1>3 DEF OpInv, Alike, Changes, Removals, Ops, Phase, Locked, Granting
<1>6. Holds(req[r])
  BY <1>1 DEF Holds, Locked
<1> QED
  BY <1>2, <1>4, <1>5, <1>6, AdvanceBase

\* The steps of DeprovisionApp between the persons.
TeardownStep(r) == ListUsers(r) \/ DeprovisionNext(r) \/ DeletePublisher(r) \/ dualDeleteApp(r)

LEMMA TeardownEffect ==
  ASSUME BaseInv, NEW r \in Requests, TeardownStep(r)
  PROVE  LET q == req[r]
             s == req'[r]
         IN /\ Moves(r) /\ q.op = "deprovisionApp" /\ q.pc \in {"listUsers", "next", "publisher", "app"}
            /\ UNCHANGED <<ntfy, store, slots, procVars, clock, ops, histVars>> /\ faults' \in Nat
            /\ publishers' \in SUBSET Apps /\ registry' \in SUBSET Apps
            /\ \/ s = IdleRequest
               \/ /\ s.pc \in {"next", "check", "publisher", "app", "fail"}
                  /\ s.pc = "check" => s.p \in Persons
                  /\ s.op = q.op /\ s.a = q.a /\ s.n = q.n /\ s.held = q.held /\ s.prev = q.prev
                  /\ s.usable = q.usable /\ s.slot = q.slot
<1> DEFINE Goes(s) ==
      /\ s.pc \in {"next", "check", "publisher", "app", "fail"}
      /\ s.pc = "check" => s.p \in Persons
      /\ s.op = req[r].op /\ s.a = req[r].a /\ s.n = req[r].n /\ s.held = req[r].held
      /\ s.prev = req[r].prev /\ s.usable = req[r].usable /\ s.slot = req[r].slot
<1>1. PICK q \in Request : /\ q = req[r] /\ q.op = "deprovisionApp"
                           /\ q.pc \in {"listUsers", "next", "publisher", "app"}
                           /\ q.todo \in SUBSET Persons
  BY RequestOf DEF TeardownStep, ListUsers, DeprovisionNext, DeletePublisher, dualDeleteApp, At, OpInv,
     Request
<1>2. UNCHANGED <<ntfy, store, slots, procVars, clock, ops, histVars>> /\ faults' \in Nat
  BY RequestOf, FaultsType DEF TeardownStep, ListUsers, DeprovisionNext, DeletePublisher,
     dualDeleteApp, extVars
<1>3. publishers' \in SUBSET Apps /\ registry' \in SUBSET Apps
  <2>1. publishers \in SUBSET Apps /\ registry \in SUBSET Apps
    BY RequestOf DEF TypeOK, ExtTypeOK
  <2> QED
    BY <2>1 DEF TeardownStep, ListUsers, DeprovisionNext, DeletePublisher, dualDeleteApp, extVars
<1>4. ASSUME NEW pc \in {"next", "publisher", "app", "fail"}, Goto(r, pc)
      PROVE  Moves(r) /\ Goes(req'[r])
  <2>1. Advances(r, pc)
    BY <1>4, GotoAdvances, RequestOf DEF Phase
  <2> QED
    BY <2>1 DEF Advances, Alike
<1>5. ASSUME NEW todo \in SUBSET Persons,
             req' = [req EXCEPT ![r] = [@ EXCEPT !.pc = "next", !.todo = todo]]
      PROVE  Moves(r) /\ Goes(req'[r])
  <2>1. PICK s : s = [q EXCEPT !.pc = "next", !.todo = todo]
    OBVIOUS
  <2>2. /\ s \in Request /\ s.pc = "next" /\ s.op = q.op /\ s.a = q.a /\ s.n = q.n
        /\ s.held = q.held /\ s.prev = q.prev /\ s.usable = q.usable /\ s.slot = q.slot
    BY <2>1 DEF Request, Phase
  <2>3. Moves(r) /\ req'[r] = s
    BY <1>1, <1>5, <2>1, <2>2, MovesTo, RequestOf
  <2> QED
    BY <1>1, <2>2, <2>3
<1>6. ASSUME NEW p \in q.todo,
             req' = [req EXCEPT ![r] = [@ EXCEPT !.pc = "check", !.p = p, !.todo = q.todo \ {p},
                                                 !.toks = {}]]
      PROVE  Moves(r) /\ Goes(req'[r])
  <2>1. PICK todo \in SUBSET Persons : todo = q.todo \ {p}
    BY <1>1
  <2>2. PICK s : s = [q EXCEPT !.pc = "check", !.p = p, !.todo = todo, !.toks = {}]
    OBVIOUS
  <2>3. p \in Persons
    BY <1>1, <1>6
  <2>4. /\ s \in Request /\ s.pc = "check" /\ s.p = p /\ s.op = q.op /\ s.a = q.a /\ s.n = q.n
        /\ s.held = q.held /\ s.prev = q.prev /\ s.usable = q.usable /\ s.slot = q.slot
    BY <2>2, <2>3 DEF Request, Phase
  <2>5. Moves(r) /\ req'[r] = s
    BY <1>1, <1>6, <2>1, <2>2, <2>4, MovesTo, RequestOf
  <2> QED
    BY <1>1, <2>3, <2>4, <2>5
<1>7. Moves(r) /\ (req'[r] = IdleRequest \/ Goes(req'[r]))
  <2>1. CASE ListUsers(r)
    <3>1. PICK todo \in SUBSET Persons : todo = {p \in Persons : userHasAppGrant(ntfy[p], q.a)}
      OBVIOUS
    <3> QED
      BY <1>1, <1>4, <1>5, <2>1, <3>1 DEF ListUsers
  <2>2. CASE DeprovisionNext(r)
    BY <1>1, <1>4, <1>6, <2>2 DEF DeprovisionNext
  <2>3. CASE DeletePublisher(r)
    BY <1>4, <2>3 DEF DeletePublisher
  <2>4. CASE dualDeleteApp(r)
    BY <2>4, EndMoves, RequestOf DEF dualDeleteApp
  <2> QED
    BY <2>1, <2>2, <2>3, <2>4 DEF TeardownStep
<1> QED
  BY <1>1, <1>2, <1>3, <1>7

\* A request that holds no lock.
LEMMA HoldsNothing ==
  ASSUME BaseInv, NEW r \in Requests, ~Holds(req[r]), req[r].pc \notin {"answer", "fail"}
  PROVE  \A p \in Persons : lock[p] # r
BY NoneAssumption DEF BaseInv, LockInv

LEMMA TeardownBase ==
  ASSUME BaseInv, NEW r \in Requests, TeardownStep(r)
  PROVE  BaseInv'
<1>1. /\ Moves(r) /\ req[r].op = "deprovisionApp"
      /\ req[r].pc \in {"listUsers", "next", "publisher", "app"}
      /\ UNCHANGED <<ntfy, store, slots, procVars, clock, ops, histVars>> /\ faults' \in Nat
      /\ publishers' \in SUBSET Apps /\ registry' \in SUBSET Apps
  BY TeardownEffect
<1>2. OpInv(req[r]) /\ TypeOK
  BY RequestOf
<1>3. TypeOK' /\ UNCHANGED lock
  BY <1>1, <1>2 DEF TypeOK, ExtTypeOK, ProcTypeOK, HistTypeOK, RequestTypeOK, OtherTypeOK, procVars,
     histVars, Moves
<1>4. ~Holds(req[r]) /\ req[r].held = Null
  BY <1>1, <1>2 DEF Holds, OpInv, Locked, Changes
<1>5. \A p \in Persons : lock[p] # r
  BY <1>1, <1>4, HoldsNothing
<1>6. CASE req'[r] = IdleRequest
  BY <1>1, <1>3, <1>5, <1>6, IdleHolds, BaseStep, MovesSpares
<1>7. CASE req'[r] # IdleRequest
  <2>1. LET q == req[r]
            s == req'[r]
        IN /\ s.pc \in {"next", "check", "publisher", "app", "fail"}
           /\ s.pc = "check" => s.p \in Persons
           /\ s.op = q.op /\ s.a = q.a /\ s.n = q.n /\ s.held = q.held /\ s.prev = q.prev
           /\ s.usable = q.usable /\ s.slot = q.slot
    BY <1>7, TeardownEffect
  <2>2. OpInv(req'[r])
    BY <1>1, <1>2, <2>1 DEF OpInv, Changes, Removals, Ops, Phase, Locked, Granting
  <2>3. ~Holds(req'[r])
    BY <1>1, <1>4, <2>1 DEF Holds, Locked, Changes
  <2> QED
    BY <1>1, <1>3, <1>5, <2>2, <2>3, BaseStep, MovesSpares
<1> QED
  BY <1>6, <1>7

LEMMA LockEffect ==
  ASSUME BaseInv, NEW r \in Requests, LockPerson(r)
  PROVE  LET q == req[r] IN
         /\ q.pc = "lock" /\ q.p \in Persons /\ q.op \in Ops
         /\ lock[q.p] = None /\ lock' = [lock EXCEPT ![q.p] = r]
         /\ UNCHANGED <<extVars, attempts, clock, ops, faults, known, doubt, kept, granted>>
         /\ served' = IF q.op = "provision" THEN {s \in served : <<s[1], s[2]>> # <<q.p, q.a>>}
                                            ELSE served
         /\ \/ q.op \in Changes \cup {"provision"} /\ Advances(r, "claim")
            \/ q.op \in {"deprovision", "deprovisionApp"} /\ Advances(r, "last")
            \/ q.op = "deleteUser" /\ Advances(r, "deleteUser")
<1>1. req[r].pc = "lock" /\ req[r].p \in Persons /\ req[r].op \in Ops
  BY RequestOf DEF LockPerson, At, OpInv, Phase
<1>2. \/ req[r].op \in Changes \cup {"provision"} /\ Goto(r, "claim")
      \/ req[r].op \in {"deprovision", "deprovisionApp"} /\ Goto(r, "last")
      \/ req[r].op = "deleteUser" /\ Goto(r, "deleteUser")
  BY <1>1 DEF LockPerson, AfterLock, Ops, Removals, Changes
<1>3. \/ req[r].op \in Changes \cup {"provision"} /\ Advances(r, "claim")
      \/ req[r].op \in {"deprovision", "deprovisionApp"} /\ Advances(r, "last")
      \/ req[r].op = "deleteUser" /\ Advances(r, "deleteUser")
  BY <1>2, GotoAdvances, RequestOf DEF Phase, Locked
<1> QED
  BY <1>1, <1>3 DEF LockPerson, TakesLock

\* Who takes or leaves a lock.
LEMMA BaseLocks ==
  ASSUME BaseInv, NEW r \in Requests, Spares(r), TypeOK', OpInv(req'[r]),
         \A p \in Persons, o \in Requests : o # r => (lock'[p] = o <=> lock[p] = o),
         Holds(req'[r]) => lock'[req'[r].p] = r /\ req'[r].p \in Persons,
         \A p \in Persons : lock'[p] = r =>
           req'[r].p = p /\ (Holds(req'[r]) \/ req'[r].pc \in {"answer", "fail"})
  PROVE  BaseInv'
<1>1. lock' \in [Persons -> Requests \cup {None}]
  BY DEF TypeOK, ProcTypeOK
<1>2. LockInv'
  BY <1>1, LockStep
<1>3. \A o \in Requests : OpInv(req'[o])
  BY OthersOp
<1>4. (\A o \in Requests : OpInv(req[o]))'
  BY <1>3 DEF OpInv
<1> QED
  BY <1>2, <1>4 DEF BaseInv

LEMMA LockBase ==
  ASSUME BaseInv, NEW r \in Requests, LockPerson(r)
  PROVE  BaseInv'
<1>1. /\ req[r].pc = "lock" /\ req[r].p \in Persons /\ req[r].op \in Ops
      /\ lock[req[r].p] = None /\ lock' = [lock EXCEPT ![req[r].p] = r]
      /\ UNCHANGED <<extVars, attempts, clock, ops, faults, known, doubt, kept, granted>>
      /\ served' \in SUBSET served
  BY LockEffect
<1>2. PICK pc \in {"claim", "last", "deleteUser"} :
        /\ Advances(r, pc)
        /\ pc = "claim" => req[r].op \in Changes \cup {"provision"}
        /\ pc = "last" => req[r].op \in {"deprovision", "deprovisionApp"}
        /\ pc = "deleteUser" => req[r].op \in Removals
  BY LockEffect DEF Removals
<1>3. OpInv(req[r]) /\ TypeOK /\ lock \in [Persons -> Requests \cup {None}]
  BY RequestOf DEF TypeOK, ProcTypeOK
<1>4. Alike(req[r], req'[r]) /\ req'[r].pc = pc /\ Moves(r)
  BY <1>2 DEF Advances
<1>5. lock' \in [Persons -> Requests \cup {None}]
  BY <1>1, <1>3
<1>6. TypeOK'
  BY <1>1, <1>3, <1>4, <1>5 DEF TypeOK, ExtTypeOK, ProcTypeOK, HistTypeOK, RequestTypeOK, OtherTypeOK,
     extVars, Moves
<1>7. OpInv(req'[r])
  BY <1>1, <1>2, <1>3, <1>4 DEF OpInv, Alike, Changes, Removals, Ops, Phase, Locked, Granting
<1>8. Holds(req'[r]) /\ req'[r].p = req[r].p
  BY <1>2, <1>4 DEF Holds, Locked, Alike
<1>9. ~Holds(req[r])
  BY <1>1 DEF Holds, Locked
<1>10. \A p \in Persons : lock[p] # r
  BY <1>1, <1>9, HoldsNothing
<1>11. \A p \in Persons, o \in Requests : o # r => (lock'[p] = o <=> lock[p] = o)
  BY <1>1, <1>3, NoneAssumption
<1>12. \A p \in Persons : lock'[p] = r => p = req[r].p
  BY <1>1, <1>3, <1>10
<1>13. lock'[req[r].p] = r
  BY <1>1, <1>3
<1> QED
  BY <1>1, <1>4, <1>6, <1>7, <1>8, <1>11, <1>12, <1>13, BaseLocks, MovesSpares

LEMMA UnlockedLocks ==
  ASSUME BaseInv, NEW r \in Requests, lock' = Unlocked(r)
  PROVE  /\ lock' \in [Persons -> Requests \cup {None}]
         /\ \A p \in Persons, o \in Requests : o # r => (lock'[p] = o <=> lock[p] = o)
         /\ \A p \in Persons : lock'[p] # r
         /\ \A p \in Persons : lock[p] # r => lock'[p] = lock[p]
         /\ \A p \in Persons : lock[p] = r => lock'[p] = None
<1>1. lock \in [Persons -> Requests \cup {None}]
  BY RequestOf DEF TypeOK, ProcTypeOK
<1> QED
  BY <1>1, NoneAssumption DEF Unlocked

Tells(q) == q.op \in Changes \/ (q.op = "provision" /\ q.held # Null)

LEMMA AnswerEffect ==
  ASSUME BaseInv, NEW r \in Requests, Answer(r)
  PROVE  LET q == req[r] IN
         /\ q.pc = "answer" /\ q.p \in Persons /\ q.op \in Ops /\ Moves(r)
         /\ \/ q.op # "deprovisionApp" /\ req'[r] = IdleRequest
            \/ q.op = "deprovisionApp" /\ Advances(r, "next")
         /\ lock' = Unlocked(r)
         /\ UNCHANGED <<extVars, attempts, clock, ops, faults>>
         /\ \/ ~Tells(q) /\ UNCHANGED <<known, kept, doubt>>
            \/ /\ Tells(q) /\ known' = [known EXCEPT ![q.p] = q.n]
               /\ kept' = [kept EXCEPT ![q.p] = (store[q.p].stamp # Null)]
               /\ doubt' = [doubt EXCEPT ![q.p] = FALSE]
         /\ served' = IF q.op = "provision" /\ ~q.raced THEN served \cup {<<q.p, q.a, q.n>>}
                                                       ELSE served
         /\ granted' = [granted EXCEPT ![q.p] =
                          @ \cup {x \in slots[q.p] : q.op = "resetPassword" /\ x.id = q.n}]
<1>1. PICK q \in Request : q = req[r] /\ q.pc = "answer" /\ q.p \in Persons /\ q.op \in Ops
  BY RequestOf DEF Answer, At, OpInv, Phase
<1>2. CASE q.op # "deprovisionApp"
  <2>1. req' = [req EXCEPT ![r] = IdleRequest]
    BY <1>1, <1>2 DEF Answer
  <2>2. Moves(r) /\ req'[r] = IdleRequest
    BY <2>1, EndMoves, RequestOf
  <2> QED
    BY <1>1, <1>2, <2>2 DEF Answer, Tells, Changes
<1>3. CASE q.op = "deprovisionApp"
  <2>1. Goto(r, "next")
    BY <1>1, <1>3 DEF Answer, Goto
  <2>2. Advances(r, "next") /\ Moves(r)
    BY <2>1, GotoAdvances, RequestOf DEF Advances, Phase
  <2> QED
    BY <1>1, <1>3, <2>2 DEF Answer, Tells, Changes
<1> QED
  BY <1>2, <1>3

LEMMA AnswerBase ==
  ASSUME BaseInv, NEW r \in Requests, Answer(r)
  PROVE  BaseInv'
<1>1. PICK q \in Request : /\ q = req[r] /\ q.pc = "answer" /\ q.p \in Persons /\ q.op \in Ops
                           /\ Moves(r) /\ OpInv(q) /\ lock' = Unlocked(r) /\ q.n \in Nat
                           /\ UNCHANGED <<extVars, attempts, clock, ops, faults>>
  BY AnswerEffect, RequestOf DEF Request
<1>2. TypeOK /\ HistTypeOK /\ slots[q.p] \in SUBSET Slot
  BY <1>1, RequestOf DEF TypeOK, ExtTypeOK
<1>3. /\ known' \in [Persons -> Nat] /\ kept' \in [Persons -> BOOLEAN] /\ doubt' \in [Persons -> BOOLEAN]
  <2>1. PICK b \in BOOLEAN : b = (store[q.p].stamp # Null)
    OBVIOUS
  <2>2. CASE UNCHANGED <<known, kept, doubt>>
    BY <1>2, <2>2 DEF HistTypeOK
  <2>3. CASE /\ known' = [known EXCEPT ![q.p] = q.n] /\ kept' = [kept EXCEPT ![q.p] = b]
             /\ doubt' = [doubt EXCEPT ![q.p] = FALSE]
    BY <1>1, <1>2, <2>3 DEF HistTypeOK
  <2> QED
    BY <1>1, <2>1, <2>2, <2>3, AnswerEffect
<1>4. served' \in SUBSET (Persons \X Apps \X Nat)
  <2>1. q.op = "provision" => q.a \in Apps
    BY <1>1 DEF OpInv
  <2>2. q.op = "provision" => <<q.p, q.a, q.n>> \in Persons \X Apps \X Nat
    BY <1>1, <2>1
  <2> QED
    BY <1>1, <1>2, <2>2, AnswerEffect DEF HistTypeOK
<1>5. granted' \in [Persons -> SUBSET Slot]
  <2>1. PICK g \in SUBSET Slot :
          g = granted[q.p] \cup {x \in slots[q.p] : q.op = "resetPassword" /\ x.id = q.n}
    BY <1>1, <1>2 DEF HistTypeOK
  <2>2. granted' = [granted EXCEPT ![q.p] = g]
    BY <1>1, <2>1, AnswerEffect
  <2> QED
    BY <1>1, <1>2, <2>2 DEF HistTypeOK
<1>6. lock' \in [Persons -> Requests \cup {None}]
  BY <1>1, UnlockedLocks
<1>7. TypeOK'
  BY <1>1, <1>2, <1>3, <1>4, <1>5, <1>6 DEF TypeOK, ExtTypeOK, ProcTypeOK, HistTypeOK, RequestTypeOK,
     OtherTypeOK, extVars, Moves
<1>8. OpInv(req'[r]) /\ ~Holds(req'[r])
  <2>1. CASE q.op # "deprovisionApp"
    BY <1>1, <2>1, AnswerEffect, IdleHolds
  <2>2. CASE q.op = "deprovisionApp"
    <3>1. Alike(q, req'[r]) /\ req'[r].pc = "next"
      BY <1>1, <2>2, AnswerEffect DEF Advances
    <3>2. q.held = Null
      BY <1>1, <2>2 DEF OpInv, Changes
    <3> QED
      BY <1>1, <2>2, <3>1, <3>2 DEF OpInv, Holds, Alike, Changes, Removals, Ops, Phase, Locked, Granting
  <2> QED
    BY <2>1, <2>2
<1> QED
  BY <1>1, <1>7, <1>8, UnlockedLocks, BaseLocks, MovesSpares

LEMMA FailEffect ==
  ASSUME BaseInv, NEW r \in Requests, Fail(r)
  PROVE  LET q == req[r]
             row == ReleasePasswordClaim(store[q.p], q.held, q.prev)
         IN /\ q.pc = "fail" /\ Moves(r) /\ lock' = Unlocked(r)
            /\ \/ q.slot /\ Advances(r, "giveBack")
               \/ ~q.slot /\ req'[r] = IdleRequest
            /\ UNCHANGED <<ntfy, publishers, registry, slots, attempts, clock, ops, known, kept, served,
                           granted>>
            /\ StoreTyped
            /\ \A x \in Persons : doubt[x] => doubt'[x]
            /\ \A x \in Persons : x # q.p => store'[x] = store[x]
            /\ \/ q.held = Null /\ UNCHANGED <<store, doubt>>
               \/ /\ q.held # Null /\ q.p \in Persons
                  /\ \/ store'[q.p] = row
                     \/ store'[q.p] \in {store[q.p], row} /\ doubt'[q.p]
<1>1. PICK q \in Request : q = req[r] /\ q.pc = "fail" /\ (q.held # Null => q.p \in Persons)
  BY RequestOf DEF Fail, At, OpInv
<1>2. Moves(r) /\ ((q.slot /\ Advances(r, "giveBack")) \/ (~q.slot /\ req'[r] = IdleRequest))
  <2>1. CASE q.slot
    <3>1. Goto(r, "giveBack")
      BY <1>1, <2>1 DEF Fail, Goto
    <3> QED
      BY <2>1, <3>1, GotoAdvances, RequestOf DEF Advances, Phase
  <2>2. CASE ~q.slot
    <3>1. req' = [req EXCEPT ![r] = IdleRequest]
      BY <1>1, <2>2 DEF Fail
    <3> QED
      BY <2>2, <3>1, EndMoves, RequestOf
  <2> QED
    BY <2>1, <2>2
<1>3. TypeOK /\ store \in [Persons -> Row] /\ doubt \in [Persons -> BOOLEAN] /\ faults \in Nat
  BY RequestOf DEF TypeOK, ExtTypeOK, HistTypeOK, OtherTypeOK
<1>4. faults' \in Nat
  BY <1>3, FaultsType DEF Fail, Answered, Ambiguous
<1>5. CASE q.held = Null
  <2>1. UNCHANGED <<store, doubt>>
    BY <1>1, <1>5 DEF Fail
  <2> QED
    BY <1>1, <1>2, <1>3, <1>4, <1>5, <2>1 DEF Fail, StoreTyped
<1>6. CASE q.held # Null
  <2>1. PICK p \in Persons : p = q.p
    BY <1>1, <1>6
  <2>2. PICK row \in Row : row = ReleasePasswordClaim(store[p], q.held, q.prev)
    BY <1>1, <2>1, RowOf, RowTypes
  <2>3. \/ store' = [store EXCEPT ![p] = row] /\ doubt' = doubt
        \/ /\ store' \in {store, [store EXCEPT ![p] = row]}
           /\ doubt' = [doubt EXCEPT ![p] = doubt[p] \/ TRUE]
    BY <1>1, <1>6, <2>1, <2>2 DEF Fail, Answered, Ambiguous, Doubt
  <2>4. StoreTyped
    BY <1>3, <1>4, <2>3 DEF StoreTyped
  <2>5. /\ \A x \in Persons : doubt[x] => doubt'[x]
        /\ \A x \in Persons : x # p => store'[x] = store[x]
        /\ \/ store'[p] = row
           \/ store'[p] \in {store[p], row} /\ doubt'[p]
    BY <1>3, <2>3
  <2>6. /\ lock' = Unlocked(r)
        /\ UNCHANGED <<ntfy, publishers, registry, slots, attempts, clock, ops, known, kept, served,
                       granted>>
    BY DEF Fail
  <2> QED
    BY <1>1, <1>2, <1>6, <2>1, <2>2, <2>4, <2>5, <2>6
<1> QED
  BY <1>5, <1>6

LEMMA FailBase ==
  ASSUME BaseInv, NEW r \in Requests, Fail(r)
  PROVE  BaseInv'
<1>1. PICK q \in Request : /\ q = req[r] /\ q.pc = "fail" /\ Moves(r) /\ OpInv(q)
                           /\ lock' = Unlocked(r) /\ StoreTyped
                           /\ UNCHANGED <<ntfy, publishers, registry, slots, attempts, clock, ops, known,
                                          kept, served, granted>>
  BY FailEffect, RequestOf
<1>2. lock' \in [Persons -> Requests \cup {None}]
  BY <1>1, UnlockedLocks
<1>3. TypeOK'
  BY <1>1, <1>2, RequestOf DEF TypeOK, ExtTypeOK, ProcTypeOK, HistTypeOK, RequestTypeOK, OtherTypeOK,
     Moves, StoreTyped
<1>4. OpInv(req'[r]) /\ ~Holds(req'[r])
  <2>1. CASE req'[r] = IdleRequest
    BY <2>1, IdleHolds
  <2>2. CASE q.slot /\ Advances(r, "giveBack")
    <3>1. Alike(q, req'[r]) /\ req'[r].pc = "giveBack"
      BY <1>1, <2>2 DEF Advances
    <3> QED
      BY <1>1, <2>2, <3>1 DEF OpInv, Holds, Alike, Changes, Removals, Ops, Phase, Locked, Granting
  <2> QED
    BY <1>1, <2>1, <2>2, FailEffect
<1> QED
  BY <1>1, <1>3, <1>4, UnlockedLocks, BaseLocks, MovesSpares

\* A new request.
First(op) ==
  CASE op = "provision" -> {"lock"} [] op = "setPassword" -> {"check"}
    [] op = "resetPassword" -> {"throttle"} [] op = "deprovision" -> {"check"}
    [] op = "deprovisionApp" -> {"listUsers"} [] op = "deleteUser" -> {"lock"}

LEMMA BeginEffect ==
  ASSUME BaseInv, NEW r \in Requests, Handle(r)
  PROVE  LET q == req'[r] IN
         /\ Idle(r) /\ Spares(r)
         /\ UNCHANGED <<extVars, procVars, clock, faults, known, doubt, kept, granted>>
         /\ ops' = ops + 1
         /\ q.op \in Ops /\ q.pc \in First(q.op) /\ q.n = ops + 1
         /\ q.op # "deprovisionApp" => q.p \in Persons
         /\ q.op # "deleteUser" => q.a \in Apps
         /\ q.held = Null /\ q.prev = Null /\ ~q.slot /\ ~q.usable
         /\ ~q.raced => \A o \in Requests : ~Takes(req[o], q.p, q.a)
         /\ \A o \in Requests : o # r /\ ~req'[o].raced =>
              ~req[o].raced /\ ~Takes(q, req[o].p, req[o].a)
         /\ served' = {s \in served : ~Takes(q, s[1], s[2])}
<1>1. PICK op \in Ops, p \in Persons \cup {None}, a \in Apps \cup {None}, first \in Phase :
        /\ Begin(r, op, p, a, first) /\ first \in First(op)
        /\ op # "deprovisionApp" => p \in Persons
        /\ op # "deleteUser" => a \in Apps
  BY DEF Handle, HandleProvision, HandleSetPassword, HandleResetPassword, HandleDeprovision,
     HandleDeprovisionApp, HandleDeleteUser, First, Ops, Removals, Phase
<1>2. ops \in Nat /\ req \in [Requests -> Request] /\ first \in Phase
  BY <1>1, RequestOf DEF TypeOK, OtherTypeOK, RequestTypeOK, Phase, First, Ops, Removals
<1>3. PICK raced \in BOOLEAN : raced = (\E o \in Requests : Takes(req[o], p, a))
  OBVIOUS
<1>4. PICK q : q = [IdleRequest EXCEPT !.pc = first, !.op = op, !.p = p, !.a = a, !.n = ops + 1,
                      !.raced = raced]
  OBVIOUS
<1>5. PICK n \in Nat : n = ops + 1
  BY <1>2
<1>6. /\ q \in Request /\ q.pc = first /\ q.op = op /\ q.p = p /\ q.a = a /\ q.n = ops + 1
      /\ q.raced = raced /\ q.held = Null /\ q.prev = Null /\ ~q.slot /\ ~q.usable
  <2>1. q = [IdleRequest EXCEPT !.pc = first, !.op = op, !.p = p, !.a = a, !.n = n, !.raced = raced]
    BY <1>4, <1>5
  <2> QED
    BY <1>1, <1>2, <1>5, <2>1 DEF IdleRequest, Request, Null
<1>7. /\ Idle(r) /\ ops' = ops + 1
      /\ req' = [o \in Requests |->
                   IF o = r THEN q ELSE [req[o] EXCEPT !.raced = @ \/ Takes(q, req[o].p, req[o].a)]]
      /\ served' = {s \in served : ~Takes(q, s[1], s[2])}
      /\ UNCHANGED <<extVars, procVars, config, clock, faults, known, doubt, kept, granted>>
  BY <1>1, <1>3, <1>4 DEF Begin
<1>8. ASSUME NEW o \in Requests, o # r
      PROVE  /\ req'[o] \in Request /\ Alike(req[o], req'[o]) /\ req'[o].pc = req[o].pc
             /\ ~req'[o].raced => ~req[o].raced /\ ~Takes(q, req[o].p, req[o].a)
  <2>1. PICK u \in Request : u = req[o]
    BY <1>2
  <2>2. u.raced \in BOOLEAN
    BY DEF Request
  <2>3. PICK b \in BOOLEAN : b = (u.raced \/ Takes(q, u.p, u.a))
    OBVIOUS
  <2>4. PICK s : s = [u EXCEPT !.raced = b]
    OBVIOUS
  <2>5. s \in Request /\ Alike(u, s) /\ s.pc = u.pc /\ s.raced = b
    BY <2>4 DEF Request, Alike
  <2>6. req'[o] = s
    BY <1>7, <1>8, <2>1, <2>3, <2>4
  <2> QED
    BY <2>1, <2>3, <2>5, <2>6
<1>9. req'[r] = q
  BY <1>7
<1>10. Spares(r)
  <2>1. req' = [o \in Requests |-> req'[o]]
    BY <1>7
  <2>2. \A o \in Requests : req'[o] \in Request
    BY <1>6, <1>8, <1>9
  <2> QED
    BY <1>8, <2>1, <2>2 DEF Spares
<1>11. ~q.raced => \A o \in Requests : ~Takes(req[o], q.p, q.a)
  BY <1>3, <1>6
<1> QED
  BY <1>1, <1>6, <1>7, <1>8, <1>9, <1>10, <1>11

LEMMA BeginBase ==
  ASSUME BaseInv, NEW r \in Requests, Handle(r)
  PROVE  BaseInv'
<1>1. PICK q : /\ q = req'[r] /\ Idle(r) /\ Spares(r)
               /\ UNCHANGED <<extVars, procVars, clock, faults, known, doubt, kept, granted>>
               /\ ops' = ops + 1
               /\ q.op \in Ops /\ q.pc \in First(q.op) /\ q.n = ops + 1
               /\ q.op # "deprovisionApp" => q.p \in Persons
               /\ q.op # "deleteUser" => q.a \in Apps
               /\ q.held = Null /\ q.prev = Null /\ ~q.slot /\ ~q.usable
               /\ served' = {s \in served : ~Takes(q, s[1], s[2])}
  BY BeginEffect
<1>2. TypeOK /\ ops \in Nat
  BY RequestOf DEF TypeOK, OtherTypeOK
<1>3. TypeOK' /\ UNCHANGED lock
  BY <1>1, <1>2 DEF TypeOK, ExtTypeOK, ProcTypeOK, HistTypeOK, RequestTypeOK, OtherTypeOK, Spares,
     extVars, procVars
<1>4. OpInv(q)
  BY <1>1, <1>2 DEF OpInv, First, Changes, Removals, Ops, Phase, Locked, Granting
<1>5. ~Holds(q)
  BY <1>1 DEF Holds, First, Changes, Removals, Ops, Locked
<1>6. ~Holds(req[r])
  BY <1>1 DEF Holds, Idle, Locked
<1>7. \A p \in Persons : lock[p] # r
  BY <1>1, <1>6, HoldsNothing DEF Idle
<1> QED
  BY <1>1, <1>3, <1>4, <1>5, <1>7, BaseStep

LEMMA CrashBase ==
  ASSUME BaseInv, Crash
  PROVE  BaseInv'
<1>1. TypeOK /\ faults' \in Nat
  BY FaultsType DEF BaseInv, Crash
<1>2. req' = [r \in Requests |-> IdleRequest] /\ lock' = [p \in Persons |-> None]
  BY DEF Crash
<1>3. RequestTypeOK' /\ \A r \in Requests : req'[r] = IdleRequest
  BY <1>2, IdleType DEF RequestTypeOK
<1>4. doubt' \in [Persons -> BOOLEAN]
  BY DEF Crash
<1>5. attempts' \in [Persons -> [Apps -> SUBSET Slot]]
  BY DEF Crash
<1>6. TypeOK'
  BY <1>1, <1>2, <1>3, <1>4, <1>5 DEF Crash, TypeOK, ExtTypeOK, ProcTypeOK, HistTypeOK, OtherTypeOK, extVars
<1>7. LockInv'
  BY <1>2, <1>3, IdleHolds DEF LockInv, Holds
<1>8. \A r \in Requests : OpInv(req'[r])
  BY <1>3, IdleHolds
<1>9. (\A r \in Requests : OpInv(req[r]))'
  BY <1>8 DEF OpInv
<1> QED
  BY <1>6, <1>7, <1>9 DEF BaseInv

\* A step that leaves the requests and the locks alone.
LEMMA IdleStepBase ==
  ASSUME BaseInv, UNCHANGED <<extVars, procVars, req, ops, faults, histVars>>, clock' \in Nat
  PROVE  BaseInv'
<1>1. TypeOK'
  BY DEF BaseInv, TypeOK, ExtTypeOK, ProcTypeOK, HistTypeOK, RequestTypeOK, OtherTypeOK, extVars,
     procVars, histVars
<1>2. UNCHANGED <<req, lock>>
  BY DEF procVars
<1>3. LockInv' /\ (\A r \in Requests : OpInv(req[r]))'
  BY <1>2 DEF BaseInv, LockInv, OpInv, Holds
<1> QED
  BY <1>1, <1>3 DEF BaseInv

LEMMA TickBase ==
  ASSUME BaseInv, Tick \/ UNCHANGED vars
  PROVE  BaseInv'
<1>1. UNCHANGED <<extVars, procVars, req, ops, faults, histVars>> /\ clock' \in Nat
  BY DEF Tick, vars, BaseInv, TypeOK, OtherTypeOK
<1> QED
  BY <1>1, IdleStepBase

LEMMA StepBase ==
  ASSUME BaseInv, NEW r \in Requests, Step(r)
  PROVE  BaseInv'
BY CheckBase, AllowBase, ClaimSlotBase, GiveBackBase, AddUserBase, ChangeBase, GrantBase, ResetBase,
   DeleteUserBase, RemoveBase, ListBase, PasswordBase, RemainingBase, DeletePersonBase, TeardownBase,
   LockBase, AnswerBase, FailBase DEF Step, TeardownStep

LEMMA NextBase ==
  ASSUME BaseInv, [Next]_vars
  PROVE  BaseInv'
BY CrashBase, TickBase, StepBase, BeginBase DEF Next, Finished

\* An initial person.
LEMMA FirstPerson ==
  ASSUME NEW f \in InitialPersons
  PROVE  /\ f.user \in User /\ f.row \in Row /\ f.kept \in BOOLEAN
         /\ ~f.row.row => f.row.stamp = Null
         /\ f.kept => f.user.exists /\ f.row.stamp # Null
         /\ f.user.exists => f.user.pw = 1
         /\ \A t \in f.user.tokens :
              /\ t[1] \in Apps /\ t[2] = 1 /\ f.user.exists
              /\ {TopicPattern(t[1]), BroadcastTopicPattern(t[1])} \subseteq f.user.grants
              /\ TokensOf(f.user, t[1]) = {<<t[1], t[2]>>}
<1>1. NoUser \in User /\ NoUser.tokens = {} /\ ~NoUser.exists
  BY DEF NoUser, User, Throwaway
<1>2. ASSUME NEW a \in Apps
      PROVE  /\ Subscribed(a) \in User /\ Subscribed(a).exists /\ Subscribed(a).pw = 1
             /\ Subscribed(a).tokens = {<<a, 1>>}
             /\ {TopicPattern(a), BroadcastTopicPattern(a)} \subseteq Subscribed(a).grants
             /\ TokensOf(Subscribed(a), a) = {<<a, 1>>}
  <2>1. TopicPattern(a) \in Grant /\ BroadcastTopicPattern(a) \in Grant /\ <<a, 1>> \in Token
    BY DEF TopicPattern, BroadcastTopicPattern, Grant, Token
  <2>2. /\ Subscribed(a) \in User /\ Subscribed(a).exists /\ Subscribed(a).pw = 1
        /\ Subscribed(a).tokens = {<<a, 1>>}
        /\ {TopicPattern(a), BroadcastTopicPattern(a)} \subseteq Subscribed(a).grants
    BY <2>1 DEF Subscribed, User
  <2>3. TokensOf(Subscribed(a), a) = {<<a, 1>>}
    BY <2>2 DEF TokensOf
  <2> QED
    BY <2>2, <2>3
<1>3. NoRow \in Row /\ NoRow.stamp = Null
  BY DEF NoRow, Row, Null
<1>4. CASE f = Unknown \/ f = StaleStamp
  <2>1. PICK u \in User : u = NoUser /\ u.tokens = {} /\ ~u.exists
    BY <1>1
  <2>2. /\ f.user = u /\ f.row \in Row /\ f.kept = FALSE
        /\ ~f.row.row => f.row.stamp = Null
    <3>1. CASE f = Unknown
      BY <1>3, <2>1, <3>1 DEF Unknown
    <3>2. CASE f = StaleStamp
      BY <2>1, <3>2 DEF StaleStamp, Row, Null
    <3> QED
      BY <1>4, <3>1, <3>2
  <2> QED
    BY <2>1, <2>2
<1>5. CASE \E a \in Apps : f \in {Legacy(a), LegacyNoRow(a), Settled(a)}
  <2>1. PICK a \in Apps : f = Legacy(a) \/ f = LegacyNoRow(a) \/ f = Settled(a)
    BY <1>5
  <2>2. PICK u \in User : u = Subscribed(a)
    BY <1>2
  <2>3. /\ f.user = u /\ f.row \in Row /\ f.kept \in BOOLEAN
        /\ ~f.row.row => f.row.stamp = Null
        /\ f.kept => f.row.stamp # Null
    <3>1. CASE f = Legacy(a)
      BY <2>2, <3>1 DEF Legacy, Row, Null
    <3>2. CASE f = LegacyNoRow(a)
      BY <1>3, <2>2, <3>2 DEF LegacyNoRow
    <3>3. CASE f = Settled(a)
      BY <2>2, <3>3 DEF Settled, Row, Null
    <3> QED
      BY <2>1, <3>1, <3>2, <3>3
  <2>4. \A t \in f.user.tokens : t = <<a, 1>> /\ t[1] = a /\ t[2] = 1
    BY <1>2, <2>2, <2>3
  <2> QED
    BY <1>2, <2>2, <2>3, <2>4
<1> QED
  BY <1>4, <1>5 DEF InitialPersons

LEMMA InitBase == Init => BaseInv
<1> SUFFICES ASSUME Init PROVE BaseInv
  OBVIOUS
<1>1. PICK f \in [Persons -> InitialPersons] :
        /\ ntfy = [p \in Persons |-> f[p].user]
        /\ store = [p \in Persons |-> f[p].row]
        /\ kept = [p \in Persons |-> f[p].kept]
        /\ served = UNION {{<<p, t[1], t[2]>> : t \in f[p].user.tokens} : p \in Persons}
  BY DEF Init
<1>2. \A p \in Persons : f[p] \in InitialPersons
  BY <1>1
<1>3. ntfy \in [Persons -> User] /\ store \in [Persons -> Row] /\ kept \in [Persons -> BOOLEAN]
  BY <1>1, <1>2, FirstPerson
<1>4. served \in SUBSET (Persons \X Apps \X Nat)
  <2> SUFFICES ASSUME NEW s \in served PROVE s \in Persons \X Apps \X Nat
    OBVIOUS
  <2>1. PICK p \in Persons : s \in {<<p, t[1], t[2]>> : t \in f[p].user.tokens}
    BY <1>1
  <2>2. PICK t \in f[p].user.tokens : s = <<p, t[1], t[2]>>
    BY <2>1
  <2>3. t[1] \in Apps /\ t[2] \in Nat
    BY <1>2, FirstPerson
  <2> QED
    BY <2>2, <2>3
<1>5. ExtTypeOK /\ ProcTypeOK /\ HistTypeOK
  BY <1>3, <1>4 DEF Init, ExtTypeOK, ProcTypeOK, HistTypeOK
<1>6. RequestTypeOK /\ \A r \in Requests : req[r] = IdleRequest
  BY IdleType DEF Init, RequestTypeOK
<1>7. OtherTypeOK
  BY LimitAssumption DEF Init, OtherTypeOK
<1>8. LockInv
  BY <1>6, IdleHolds DEF LockInv, Init
<1> QED
  BY <1>5, <1>6, <1>7, <1>8, IdleHolds DEF BaseInv, TypeOK
-----------------------------------------------------------------------------
(***************************************************************************)
(* Operation numbers.                                                      *)
(***************************************************************************)

\* What the step of r writes as stamp, and what it keeps as the former one.
Stamps(r) ==
  LET q == req[r]
      s == req'[r]
  IN /\ s.pc # "idle" => q.pc # "idle" /\ s.n = q.n
     /\ s.n \in {q.n, 0}
     /\ Before(s) => Before(q)
     /\ s.prev \in {q.prev, 0} \/ \E p \in Persons : s.prev = store[p].stamp
     /\ \A p \in Persons :
          \/ store'[p].stamp \in {store[p].stamp, 0, q.prev}
          \/ store'[p].stamp = q.n /\ ~Before(s) /\ q.pc # "idle"

LEMMA FreshStep ==
  ASSUME BaseInv, FreshInv, NEW r \in Requests, Moves(r), Stamps(r), UNCHANGED ops
  PROVE  FreshInv'
<1>1. PICK q \in Request, s \in Request : q = req[r] /\ s = req'[r]
  BY RequestOf DEF Moves
<1>2. /\ s.pc # "idle" => q.pc # "idle" /\ s.n = q.n
      /\ s.n \in {q.n, 0} /\ (Before(s) => Before(q))
      /\ s.prev \in {q.prev, 0} \/ \E p \in Persons : s.prev = store[p].stamp
  BY <1>1 DEF Stamps
<1>3. ASSUME NEW p \in Persons
      PROVE  \/ store'[p].stamp \in {store[p].stamp, 0, q.prev}
             \/ store'[p].stamp = q.n /\ ~Before(s) /\ q.pc # "idle"
  BY <1>1 DEF Stamps
<1>4. ops \in Nat
  BY RequestOf DEF TypeOK, OtherTypeOK
<1>5. \A o \in Requests : o # r => req'[o] = req[o]
  BY DEF Moves
<1>6. \A p \in Persons : store'[p].stamp <= ops
  BY <1>1, <1>3, <1>4 DEF FreshInv
<1>7. s.n <= ops /\ s.prev <= ops
  BY <1>1, <1>2, <1>4 DEF FreshInv
<1>8. \A o \in Requests : req'[o].n <= ops /\ req'[o].prev <= ops
  BY <1>1, <1>5, <1>7 DEF FreshInv
<1>9. ASSUME NEW o \in Requests, NEW i \in Requests, o # i, req'[o].pc # "idle", req'[i].pc # "idle"
      PROVE  req'[o].n # req'[i].n
  BY <1>1, <1>2, <1>5, <1>9 DEF FreshInv, Idle
<1>10. ASSUME NEW o \in Requests, Before(req'[o])
       PROVE  /\ \A p \in Persons : store'[p].stamp # req'[o].n
              /\ \A i \in Requests : req'[i].prev # req'[o].n
  <2>1. /\ Before(req[o]) /\ req[o].pc # "idle" /\ req'[o].n = req[o].n /\ req[o].n # 0
        /\ \A p \in Persons : store[p].stamp # req[o].n
        /\ \A i \in Requests : req[i].prev # req[o].n
    <3>1. Before(req[o])
      BY <1>1, <1>2, <1>5, <1>10
    <3>2. req[o].pc # "idle" /\ req'[o].pc # "idle"
      BY <1>10, <3>1 DEF Before
    <3>3. req'[o].n = req[o].n /\ req[o].n # 0
      BY <1>1, <1>2, <1>5, <3>2, RequestOf DEF OpInv
    <3> QED
      BY <3>1, <3>2, <3>3 DEF FreshInv
  <2>2. ASSUME NEW p \in Persons PROVE store'[p].stamp # req[o].n
    <3>1. CASE store'[p].stamp \in {store[p].stamp, 0, q.prev}
      BY <1>1, <2>1, <3>1
    <3>2. CASE store'[p].stamp = q.n /\ ~Before(s) /\ q.pc # "idle"
      <4>1. o # r
        BY <1>1, <1>10, <3>2
      <4> QED
        BY <1>1, <2>1, <3>2, <4>1 DEF FreshInv, Idle
    <3> QED
      BY <1>3, <3>1, <3>2
  <2>3. s.prev # req[o].n
    BY <1>1, <1>2, <2>1
  <2>4. \A i \in Requests : req'[i].prev # req[o].n
    BY <1>1, <1>5, <2>1, <2>3
  <2> QED
    BY <2>1, <2>2, <2>4
<1> QED
  BY <1>6, <1>8, <1>9, <1>10 DEF FreshInv, Idle, Before

\* A step that writes no stamp.
LEMMA UnstampedFresh ==
  ASSUME BaseInv, FreshInv, NEW r \in Requests, Moves(r), UNCHANGED <<store, ops>>,
         \/ req'[r] = IdleRequest
         \/ /\ req'[r].n = req[r].n /\ req'[r].prev = req[r].prev /\ req[r].pc # "idle"
            /\ Before(req'[r]) => Before(req[r])
  PROVE  FreshInv'
<1>1. Stamps(r)
  BY IdleType DEF Stamps, Before, Null
<1> QED
  BY <1>1, FreshStep

LEMMA AdvanceFresh ==
  ASSUME BaseInv, FreshInv, NEW r \in Requests, NEW pc, Advances(r, pc), UNCHANGED <<store, ops>>,
         req[r].pc # "idle",
         pc \notin {"throttle", "check", "slot", "lock", "claim"} \/ Before(req[r])
         \/ req[r].op \in Removals
  PROVE  FreshInv'
BY UnstampedFresh DEF Advances, Alike, Before, Removals, Changes

\* Every step that writes no stamp.
LEMMA UnstampedSteps ==
  ASSUME BaseInv, FreshInv, NEW r \in Requests,
         \/ checkAppGrant(r) \/ Allow(r) \/ ClaimSlot(r) \/ ReleaseResetSlot(r) \/ TeardownStep(r)
         \/ AddUser(r) \/ ChangePassword(r) \/ GrantAccess(r) \/ AddToken(r) \/ ResetAccess(r)
         \/ ListTokens(r) \/ RemoveToken(r) \/ GetRemaining(r) \/ DeleteUser(r) \/ LockPerson(r)
         \/ Answer(r)
  PROVE  FreshInv'
<1>1. RequestTypeOK /\ OpInv(req[r])
  BY RequestOf
<1>2. CASE checkAppGrant(r)
  <2>1. PICK pc \in Phase : Goto(r, pc)
    BY <1>1, <1>2 DEF checkAppGrant, At, AfterCheck, Phase
  <2>2. Before(req[r]) \/ req[r].op \in Removals
    BY <1>1, <1>2 DEF checkAppGrant, At, OpInv, Before, Removals
  <2> QED
    BY <1>1, <1>2, <2>1, <2>2, GotoAdvances, AdvanceFresh DEF checkAppGrant, At, extVars
<1>3. CASE Allow(r)
  <2>1. PICK pc \in Phase : Goto(r, pc)
    BY <1>3 DEF Allow, Phase
  <2>2. Before(req[r])
    BY <1>1, <1>3 DEF Allow, At, OpInv, Before, Changes
  <2> QED
    BY <1>1, <1>3, <2>1, <2>2, GotoAdvances, AdvanceFresh DEF Allow, At, extVars
<1>4. CASE ClaimSlot(r)
  <2>1. Before(req[r])
    BY <1>1, <1>4 DEF ClaimSlot, At, OpInv, Before, Changes
  <2> QED
    BY <1>4, <2>1, ClaimSlotMoves, UnstampedFresh DEF ClaimSlot
<1>5. CASE ReleaseResetSlot(r)
  BY <1>1, <1>5, EndMoves, UnstampedFresh DEF ReleaseResetSlot
<1>6. CASE TeardownStep(r)
  <2>1. \/ req'[r] = IdleRequest
        \/ /\ req'[r].n = req[r].n /\ req'[r].prev = req[r].prev /\ req[r].pc # "idle"
           /\ ~Before(req'[r])
    BY <1>6, TeardownEffect DEF Before, Changes
  <2> QED
    BY <1>6, <2>1, TeardownEffect, UnstampedFresh
<1>7. CASE AddUser(r)
  BY <1>7, AddUserEffect, AdvanceFresh DEF cliUnchanged
<1>8. CASE ChangePassword(r)
  BY <1>8, ChangeEffect, AdvanceFresh DEF Calls, cliUnchanged, Outcome, Missing
<1>9. CASE GrantAccess(r)
  BY <1>9, GrantEffect, AdvanceFresh DEF Calls, cliUnchanged, Outcome
<1>10. CASE AddToken(r)
  BY <1>10, AddTokenEffect, AdvanceFresh DEF Calls, cliUnchanged, Outcome
<1>11. CASE ResetAccess(r)
  BY <1>11, ResetEffect, AdvanceFresh DEF Calls, cliUnchanged, Outcome, Missing
<1>12. CASE ListTokens(r)
  <2>1. /\ Moves(r) /\ req'[r].n = req[r].n /\ req'[r].prev = req[r].prev /\ req[r].pc # "idle"
        /\ ~Before(req'[r])
    BY <1>12, ListEffect DEF Selects, Advances, Alike, AfterTokens, Before, Changes
  <2> QED
    BY <1>12, <2>1, ListEffect, UnstampedFresh DEF extVars
<1>13. CASE RemoveToken(r)
  <2>1. /\ Moves(r) /\ req'[r].n = req[r].n /\ req'[r].prev = req[r].prev /\ req[r].pc # "idle"
        /\ ~Before(req'[r])
    BY <1>13, RemoveEffect DEF Selects, Advances, Alike, AfterTokens, Before, Changes
  <2> QED
    BY <1>13, <2>1, RemoveEffect, UnstampedFresh DEF Calls, cliUnchanged
<1>14. CASE GetRemaining(r)
  BY <1>14, RemainingEffect, AdvanceFresh DEF extVars
<1>15. CASE DeleteUser(r)
  BY <1>15, DeleteUserEffect, AdvanceFresh DEF Calls, cliUnchanged, Outcome
<1>16. CASE LockPerson(r)
  <2>1. Before(req[r]) \/ req[r].op \in Removals
    BY <1>16, LockEffect DEF Before, Ops, Changes
  <2> QED
    BY <1>16, <2>1, LockEffect, AdvanceFresh DEF extVars
<1>17. CASE Answer(r)
  <2>1. CASE req'[r] = IdleRequest
    BY <1>17, <2>1, AnswerEffect, UnstampedFresh DEF extVars
  <2>2. CASE Advances(r, "next")
    BY <1>17, <2>2, AnswerEffect, AdvanceFresh DEF extVars
  <2> QED
    BY <1>17, <2>1, <2>2, AnswerEffect
<1> QED
  BY <1>2, <1>3, <1>4, <1>5, <1>6, <1>7, <1>8, <1>9, <1>10, <1>11, <1>12, <1>13, <1>14, <1>15, <1>16,
     <1>17

\* A step that may stamp the row of its person.
LEMMA StampedFresh ==
  ASSUME BaseInv, FreshInv, NEW r \in Requests, Moves(r), UNCHANGED ops, req[r].p \in Persons,
         req[r].pc # "idle", \A x \in Persons : x # req[r].p => store'[x] = store[x],
         store'[req[r].p].stamp \in {store[req[r].p].stamp, 0, req[r].prev, req[r].n},
         ~Before(req'[r]),
         \/ req'[r] = IdleRequest
         \/ req'[r].n = req[r].n /\ req'[r].prev \in {req[r].prev, 0, store[req[r].p].stamp}
  PROVE  FreshInv'
<1>1. Stamps(r)
  BY IdleType DEF Stamps, Null
<1> QED
  BY <1>1, FreshStep

LEMMA StampedSteps ==
  ASSUME BaseInv, FreshInv, NEW r \in Requests,
         \/ ClaimIfUnset(r) \/ ReleaseLostClaim(r) \/ healStaleStamp(r) \/ ClaimUpdateOnly(r)
         \/ recordStampAfterChange(r) \/ dualWritePerson(r)
  PROVE  FreshInv'
<1>1. PICK q \in Request, p \in Persons :
        q = req[r] /\ p = q.p /\ Writes(r) /\ q.pc # "idle"
  BY RequestOf, ClaimIfUnsetEffect, ReleaseLostEffect, HealEffect, ClaimUpdateOnlyEffect, RecordEffect,
     DualWriteEffect
<1>2. UNCHANGED ops /\ \A x \in Persons : x # p => store'[x] = store[x]
  BY <1>1 DEF Writes, storeUnchanged
<1>3. store[p] \in Row /\ q.n \in Nat
  BY <1>1, RowOf
<1>4. StampRow(q.n).stamp = q.n
  BY DEF StampRow
<1>5. ReleasePasswordClaim(store[p], q.n, Null).stamp \in {store[p].stamp, 0}
  <2>1. PICK row \in Row : row = store[p]
    BY <1>3
  <2> QED
    BY <2>1 DEF ReleasePasswordClaim, Row, Null
<1>6. /\ store'[p].stamp \in {store[p].stamp, 0, q.n}
      /\ Moves(r) /\ req'[r].n = q.n /\ req'[r].prev \in {q.prev, 0, store[p].stamp}
      /\ req'[r].pc \notin {"throttle", "check", "slot", "lock", "claim"}
  <2>1. CASE ClaimIfUnset(r)
    BY <1>1, <1>4, <2>1, ClaimIfUnsetEffect DEF Proceeds, Advances, Alike
  <2>2. CASE ReleaseLostClaim(r)
    BY <1>1, <1>5, <2>2, ReleaseLostEffect DEF Advances, Alike
  <2>3. CASE healStaleStamp(r)
    BY <1>1, <1>4, <2>3, HealEffect DEF Proceeds, Advances, Alike
  <2>4. CASE ClaimUpdateOnly(r)
    BY <1>1, <1>4, <2>4, ClaimUpdateOnlyEffect DEF Proceeds, Advances, Alike, Null
  <2>5. CASE recordStampAfterChange(r)
    BY <1>1, <1>4, <2>5, RecordEffect DEF Advances, Alike
  <2>6. CASE dualWritePerson(r)
    BY <1>1, <2>6, DualWriteEffect DEF Advances, Alike
  <2> QED
    BY <2>1, <2>2, <2>3, <2>4, <2>5, <2>6
<1>7. ~Before(req'[r])
  BY <1>6 DEF Before
<1> QED
  BY <1>1, <1>2, <1>6, <1>7, StampedFresh

LEMMA DeletePersonFresh ==
  ASSUME BaseInv, FreshInv, NEW r \in Requests, DeletePerson(r)
  PROVE  FreshInv'
<1>1. PICK q \in Request, p \in Persons : q = req[r] /\ p = q.p /\ q.pc = "deletePerson" /\ UNCHANGED ops
  BY RequestOf, DeletePersonEffect
<1>2. PICK pc \in {"answer", "fail"} : Advances(r, pc)
  BY DeletePersonEffect
<1>3. (\A x \in Persons : x # p => store'[x] = store[x]) /\ store'[p].stamp \in {store[p].stamp, 0}
  <2>1. CASE UNCHANGED store
    BY <2>1
  <2>2. CASE store' = [store EXCEPT ![p] = NoRow]
    BY <2>2, RequestOf DEF TypeOK, ExtTypeOK, NoRow, Null
  <2> QED
    BY <1>1, <2>1, <2>2, DeletePersonEffect
<1>4. Moves(r) /\ req'[r].n = q.n /\ req'[r].prev = q.prev /\ req'[r].pc = pc
  BY <1>1, <1>2 DEF Advances, Alike
<1>5. ~Before(req'[r])
  BY <1>4 DEF Before
<1> QED
  BY <1>1, <1>3, <1>4, <1>5, StampedFresh

LEMMA FailFresh ==
  ASSUME BaseInv, FreshInv, NEW r \in Requests, Fail(r)
  PROVE  FreshInv'
<1>1. PICK q \in Request : q = req[r] /\ q.pc = "fail" /\ Moves(r) /\ UNCHANGED ops /\ OpInv(q)
  BY RequestOf, FailEffect
<1>2. \/ req'[r] = IdleRequest
      \/ req'[r].n = q.n /\ req'[r].prev = q.prev /\ req'[r].pc = "giveBack"
  BY <1>1, FailEffect DEF Advances, Alike
<1>3. ~Before(req'[r])
  BY <1>2, IdleType DEF Before
<1>4. CASE q.held = Null
  <2>1. UNCHANGED store
    BY <1>1, <1>4, FailEffect
  <2> QED
    BY <1>1, <1>2, <1>3, <2>1, UnstampedFresh
<1>5. CASE q.held # Null
  <2>1. PICK p \in Persons : p = q.p
    BY <1>1, <1>5 DEF OpInv
  <2>2. ReleasePasswordClaim(store[p], q.held, q.prev).stamp \in {store[p].stamp, q.prev}
    BY <1>1, <2>1, RowOf, RowTypes
  <2>3. /\ \A x \in Persons : x # p => store'[x] = store[x]
        /\ store'[p].stamp \in {store[p].stamp, q.prev}
    BY <1>1, <1>5, <2>1, <2>2, FailEffect
  <2> QED
    BY <1>1, <1>2, <1>3, <2>1, <2>3, StampedFresh
<1> QED
  BY <1>4, <1>5

LEMMA BeginFresh ==
  ASSUME BaseInv, FreshInv, NEW r \in Requests, Handle(r)
  PROVE  FreshInv'
<1>1. PICK s \in Request :
        /\ s = req'[r] /\ Spares(r) /\ UNCHANGED store /\ ops' = ops + 1 /\ s.n = ops + 1 /\ s.prev = 0
  BY BeginEffect DEF Spares, extVars, Null
<1>2. /\ ops \in Nat /\ \A p \in Persons : store[p].stamp \in Nat
      /\ \A o \in Requests : req[o].n \in Nat /\ req[o].prev \in Nat
  BY RequestOf DEF TypeOK, OtherTypeOK, ExtTypeOK, Row, Request
<1>3. \A o \in Requests : o # r =>
        req'[o].n = req[o].n /\ req'[o].prev = req[o].prev /\ req'[o].pc = req[o].pc /\ req'[o].op = req[o].op
  BY <1>1 DEF Spares, Alike
<1>4. /\ \A p \in Persons : store'[p].stamp <= ops' /\ store'[p].stamp # s.n
      /\ \A o \in Requests : req'[o].n <= ops' /\ req'[o].prev <= ops' /\ req'[o].prev # s.n
      /\ \A o \in Requests : o # r => req'[o].n # s.n
  BY <1>1, <1>2, <1>3 DEF FreshInv
<1>5. \A o, i \in Requests : o # i /\ req'[o].pc # "idle" /\ req'[i].pc # "idle" => req'[o].n # req'[i].n
  BY <1>1, <1>3, <1>4 DEF FreshInv, Idle
<1>6. ASSUME NEW o \in Requests, o # r, Before(req'[o])
      PROVE  /\ \A p \in Persons : store'[p].stamp # req'[o].n
             /\ \A i \in Requests : req'[i].prev # req'[o].n
  <2>1. Before(req[o]) /\ req[o].pc # "idle"
    BY <1>3, <1>6 DEF Before
  <2>2. req[o].n # 0
    BY <2>1, RequestOf DEF OpInv
  <2> QED
    BY <1>1, <1>3, <1>6, <2>1, <2>2 DEF FreshInv
<1> QED
  BY <1>1, <1>4, <1>5, <1>6 DEF FreshInv, Idle, Before

LEMMA NextFresh ==
  ASSUME BaseInv, FreshInv, [Next]_vars
  PROVE  FreshInv'
<1>1. CASE Crash
  <2>1. \A r \in Requests : req'[r].n = 0 /\ req'[r].prev = 0 /\ req'[r].pc = "idle"
    BY <1>1, IdleType DEF Crash, Null
  <2>2. UNCHANGED <<store, ops>> /\ ops \in Nat
    BY <1>1, RequestOf DEF Crash, extVars, BaseInv, TypeOK, OtherTypeOK
  <2> QED
    BY <2>1, <2>2 DEF FreshInv, Before, Idle
<1>2. CASE Tick \/ UNCHANGED vars
  <2>1. UNCHANGED <<store, ops, req>>
    BY <1>2 DEF Tick, vars, extVars
  <2> QED
    BY <2>1 DEF FreshInv, Before, Idle
<1>3. ASSUME NEW r \in Requests, Handle(r) \/ Step(r) PROVE FreshInv'
  BY <1>3, UnstampedSteps, StampedSteps, DeletePersonFresh, FailFresh, BeginFresh DEF Step, TeardownStep
<1> QED
  BY <1>1, <1>2, <1>3 DEF Next, Finished

LEMMA InitFresh == Init => FreshInv
<1> SUFFICES ASSUME Init PROVE FreshInv
  OBVIOUS
<1>1. \A p \in Persons : store[p].stamp \in {0, 1}
  <2>1. PICK f \in [Persons -> InitialPersons] : store = [p \in Persons |-> f[p].row]
    BY DEF Init
  <2>2. \A f1 \in InitialPersons : f1.row.stamp \in {0, 1}
    BY DEF InitialPersons, Unknown, StaleStamp, Legacy, LegacyNoRow, Settled, NoRow, Null
  <2> QED
    BY <2>1, <2>2
<1>2. ops = 1 /\ \A r \in Requests : req[r] = IdleRequest
  BY DEF Init
<1> QED
  BY <1>1, <1>2, IdleType DEF FreshInv, Before, Idle, Null
-----------------------------------------------------------------------------
(***************************************************************************)
(* The stamp and the password.                                             *)
(***************************************************************************)

\* Nothing happens to the password of x.
Same(x) ==
  /\ lock'[x] = lock[x] /\ ntfy'[x].exists = ntfy[x].exists /\ ntfy'[x].pw = ntfy[x].pw
  /\ store'[x] = store[x] /\ known'[x] = known[x] /\ kept'[x] = kept[x]
  /\ doubt[x] => doubt'[x]

LEMMA SamePerson ==
  ASSUME BaseInv, NEW r \in Requests, Spares(r), NEW x \in Persons, PersonInv(x), Same(x), lock[x] # r
  PROVE  PersonInv(x)'
<1>1. RowInv(x)'
  BY DEF PersonInv, RowInv, Same
<1>2. CASE lock[x] = None
  BY <1>1, <1>2 DEF PersonInv, Same, Known
<1>3. CASE lock[x] # None
  <2>1. PICK o \in Requests : o = lock[x] /\ o # r /\ o # None /\ lock'[x] = o
    BY <1>3, RequestOf, NoneAssumption DEF TypeOK, ProcTypeOK, Same
  <2>2. PICK q, s : q = req[o] /\ s = req'[o] /\ Alike(q, s) /\ s.pc = q.pc
    BY <2>1 DEF Spares
  <2>3. HolderInv(x, q)
    BY <2>1, <2>2 DEF PersonInv
  <2>4. HolderInv(x, s)'
    BY <2>2, <2>3 DEF HolderInv, Same, Alike, Known, Given
  <2> QED
    BY <1>1, <2>1, <2>2, <2>4 DEF PersonInv, HolderInv, Known, Given
<1> QED
  BY <1>2, <1>3

\* The step of a request that holds no lock before or after it.
LEMMA FreePassword ==
  ASSUME BaseInv, PasswordInv, NEW r \in Requests, Spares(r), \A x \in Persons : Same(x) /\ lock[x] # r
  PROVE  PasswordInv'
<1>1. \A x \in Persons : PersonInv(x)'
  BY SamePerson DEF PasswordInv
<1> QED
  BY <1>1 DEF PasswordInv

\* The step of a request that holds the lock of its person before and after it.
LEMMA HeldPassword ==
  ASSUME BaseInv, PasswordInv, NEW r \in Requests, Spares(r), NEW p \in Persons, req[r].p = p,
         lock'[p] = r, NEW s, s = req'[r],
         \A x \in Persons : x # p => Same(x), RowInv(p)', HolderInv(p, s)'
  PROVE  PasswordInv'
<1>1. \A x \in Persons : x # p => lock[x] # r
  BY NoneAssumption DEF BaseInv, LockInv
<1>2. \A x \in Persons : x # p => PersonInv(x)'
  BY <1>1, SamePerson DEF PasswordInv
<1>3. PersonInv(p)'
  BY NoneAssumption DEF PersonInv, HolderInv, Known, Given
<1> QED
  BY <1>2, <1>3 DEF PasswordInv, PersonInv, RowInv, HolderInv, Known, Given

\* The step in which a request that holds a lock gives it up.
LEMMA FreedPassword ==
  ASSUME BaseInv, PasswordInv, NEW r \in Requests, Spares(r), NEW p \in Persons, req[r].p = p,
         lock'[p] = None, \A x \in Persons : x # p => Same(x), RowInv(p)', Known(p)'
  PROVE  PasswordInv'
<1>1. \A x \in Persons : x # p => lock[x] # r
  BY NoneAssumption DEF BaseInv, LockInv
<1>2. \A x \in Persons : x # p => PersonInv(x)'
  BY <1>1, SamePerson DEF PasswordInv
<1>3. PersonInv(p)'
  BY DEF PersonInv
<1> QED
  BY <1>2, <1>3 DEF PasswordInv, PersonInv, RowInv, HolderInv, Known, Given

\* What the holder of the lock knows.
LEMMA HolderOf ==
  ASSUME BaseInv, PasswordInv, NEW r \in Requests, Holds(req[r])
  PROVE  /\ req[r].p \in Persons /\ lock[req[r].p] = r /\ HolderInv(req[r].p, req[r])
         /\ RowInv(req[r].p) /\ store[req[r].p] \in Row /\ ntfy[req[r].p] \in User
<1>1. req[r].p \in Persons
  BY RequestOf DEF OpInv, Holds, Locked, Phase, Null
<1>2. lock[req[r].p] = r
  BY DEF BaseInv, LockInv
<1>3. HolderInv(req[r].p, req[r]) /\ RowInv(req[r].p)
  BY <1>1, <1>2, NoneAssumption DEF PasswordInv, PersonInv
<1> QED
  BY <1>1, <1>2, <1>3, RequestOf DEF TypeOK, ExtTypeOK

LEMMA QuietSame ==
  ASSUME UNCHANGED <<ntfy, store, lock, known, doubt, kept>>
  PROVE  \A x \in Persons : Same(x)
BY DEF Same

LEMMA FreeSteps ==
  ASSUME BaseInv, PasswordInv, NEW r \in Requests,
         checkAppGrant(r) \/ Allow(r) \/ ClaimSlot(r) \/ ReleaseResetSlot(r) \/ TeardownStep(r) \/ Handle(r)
  PROVE  PasswordInv'
<1>1. RequestTypeOK /\ OpInv(req[r])
  BY RequestOf
<1>2. /\ UNCHANGED <<ntfy, store, lock, known, doubt, kept>>
      /\ Spares(r) /\ req[r].pc \in {"check", "throttle", "slot", "giveBack", "listUsers", "next",
                                     "publisher", "app", "idle"}
  <2>1. CASE checkAppGrant(r)
    <3>1. PICK pc \in Phase : Goto(r, pc)
      BY <1>1, <2>1 DEF checkAppGrant, At, AfterCheck, Phase
    <3> QED
      BY <1>1, <2>1, <3>1, GotoAdvances, MovesSpares
         DEF Advances, checkAppGrant, At, extVars, procVars, histVars
  <2>2. CASE Allow(r)
    <3>1. PICK pc \in Phase : Goto(r, pc)
      BY <2>2 DEF Allow, Phase
    <3> QED
      BY <1>1, <2>2, <3>1, GotoAdvances, MovesSpares DEF Advances, Allow, At, extVars, histVars
  <2>3. CASE ClaimSlot(r)
    BY <2>3, ClaimSlotMoves, MovesSpares DEF ClaimSlot, procVars, histVars
  <2>4. CASE ReleaseResetSlot(r)
    BY <1>1, <2>4, EndMoves, MovesSpares DEF ReleaseResetSlot, At, procVars, histVars
  <2>5. CASE TeardownStep(r)
    BY <2>5, TeardownEffect, MovesSpares DEF procVars, histVars
  <2>6. CASE Handle(r)
    BY <2>6, BeginEffect DEF Idle, extVars, procVars
  <2> QED
    BY <2>1, <2>2, <2>3, <2>4, <2>5, <2>6
<1>3. ~Holds(req[r])
  BY <1>1, <1>2 DEF Holds, Locked
<1> QED
  BY <1>2, <1>3, HoldsNothing, QuietSame, FreePassword

LEMMA LockPassword ==
  ASSUME BaseInv, PasswordInv, NEW r \in Requests, LockPerson(r)
  PROVE  PasswordInv'
<1>1. PICK q \in Request, p \in Persons :
        /\ q = req[r] /\ p = q.p /\ q.pc = "lock" /\ OpInv(q)
        /\ lock[p] = None /\ lock' = [lock EXCEPT ![p] = r]
        /\ UNCHANGED <<ntfy, store, known, doubt, kept>>
  BY LockEffect, RequestOf DEF extVars
<1>2. lock'[p] = r /\ \A x \in Persons : x # p => Same(x)
  BY <1>1, RequestOf DEF TypeOK, ProcTypeOK, Same
<1>3. PICK s : s = req'[r] /\ Spares(r) /\ Alike(q, s) /\ s.pc \in {"claim", "last", "deleteUser"}
  BY <1>1, LockEffect, MovesSpares DEF Advances
<1>4. PersonInv(p) /\ Known(p) /\ q.held = Null
  BY <1>1 DEF PasswordInv, PersonInv, OpInv, Granting
<1>5. HolderInv(p, s)'
  BY <1>1, <1>3, <1>4 DEF HolderInv, Known, Alike
<1>6. RowInv(p)'
  BY <1>1, <1>4 DEF PersonInv, RowInv
<1> QED
  BY <1>1, <1>2, <1>3, <1>5, <1>6, HeldPassword

\* A call on the user that leaves the password alone.
LEMMA CallSame ==
  ASSUME BaseInv, NEW r \in Requests, Calls(r), UNCHANGED kept, req[r].p \in Persons,
         ntfy'[req[r].p].exists = ntfy[req[r].p].exists, ntfy'[req[r].p].pw = ntfy[req[r].p].pw
  PROVE  \A x \in Persons : Same(x)
<1>1. UNCHANGED <<store, lock, known, kept>>
  BY DEF Calls, cliUnchanged, procVars
<1>2. ASSUME NEW x \in Persons, x # req[r].p PROVE ntfy'[x] = ntfy[x]
  BY <1>2 DEF Calls
<1>3. \A x \in Persons : doubt[x] => doubt'[x]
  BY DEF Calls
<1> QED
  BY <1>1, <1>2, <1>3 DEF Same

\* The provisioning's way from its grants to its answer, and the last-app check.
LEMMA PassingPassword ==
  ASSUME BaseInv, PasswordInv, NEW r \in Requests, Moves(r), \A x \in Persons : Same(x), Holds(req[r]),
         NEW q, q = req[r], NEW s, s = req'[r],
         s.op = q.op, s.p = q.p, s.n = q.n, s.held = q.held, s.prev = q.prev, s.usable = q.usable,
         \/ q.op = "provision" /\ q.pc \in Granting /\ s.pc \in Granting \cup {"fail"}
         \/ q.op \in Removals /\ q.pc = "last" /\ s.pc \in {"deleteUser", "answer", "fail"}
  PROVE  PasswordInv'
<1>1. PICK p \in Persons : p = q.p /\ lock[p] = r /\ HolderInv(p, q) /\ RowInv(p) /\ OpInv(q)
  BY HolderOf, RequestOf
<1>2. Same(p) /\ lock'[p] = r
  BY <1>1 DEF Same
<1>3. RowInv(p)'
  BY <1>1, <1>2 DEF RowInv, Same
<1>4. HolderInv(p, s)'
  <2>1. CASE q.op = "provision" /\ q.pc \in Granting /\ s.pc \in Granting \cup {"fail"}
    BY <1>1, <1>2, <2>1 DEF HolderInv, Same, Known, Given, Granting, Changes
  <2>2. CASE q.op \in Removals /\ q.pc = "last" /\ s.pc \in {"deleteUser", "answer", "fail"}
    BY <1>1, <1>2, <2>2 DEF HolderInv, Same, Known, OpInv, Granting, Changes, Removals
  <2> QED
    BY <2>1, <2>2
<1> QED
  BY <1>1, <1>2, <1>3, <1>4, HeldPassword, MovesSpares

\* An outcome that changes neither the password nor whether there is a user.
LEMMA OutcomeSame ==
  ASSUME BaseInv, NEW r \in Requests, NEW user, NEW next, Outcome(r, user, next), Calls(r),
         UNCHANGED kept, req[r].p \in Persons,
         user.exists = ntfy[req[r].p].exists, user.pw = ntfy[req[r].p].pw
  PROVE  \A x \in Persons : Same(x)
<1>1. ntfy'[req[r].p] \in {user, ntfy[req[r].p]}
  BY DEF Outcome
<1> QED
  BY <1>1, CallSame

\* The user with a grant or a token more, and with one less.
LEMMA GrantedUser ==
  ASSUME BaseInv, NEW p \in Persons, NEW g \in Grant, NEW v, NEW w,
         v = [ntfy[p] EXCEPT !.grants = ntfy[p].grants \cup {g}],
         w = [ntfy[p] EXCEPT !.grants = ntfy[p].grants \ {g}]
  PROVE  /\ v.exists = ntfy[p].exists /\ v.pw = ntfy[p].pw /\ v.tokens = ntfy[p].tokens
         /\ v.grants = ntfy[p].grants \cup {g}
         /\ w.exists = ntfy[p].exists /\ w.pw = ntfy[p].pw /\ w.tokens = ntfy[p].tokens
         /\ w.grants = ntfy[p].grants \ {g}
<1>1. PICK u \in User : u = ntfy[p]
  BY UserOf
<1>2. v = [u EXCEPT !.grants = u.grants \cup {g}] /\ w = [u EXCEPT !.grants = u.grants \ {g}]
  BY <1>1
<1> QED
  BY <1>1, <1>2 DEF User

LEMMA TokenUser ==
  ASSUME BaseInv, NEW p \in Persons, NEW t \in Token, NEW v, NEW w,
         v = [ntfy[p] EXCEPT !.tokens = ntfy[p].tokens \cup {t}],
         w = [ntfy[p] EXCEPT !.tokens = ntfy[p].tokens \ {t}]
  PROVE  /\ v.exists = ntfy[p].exists /\ v.pw = ntfy[p].pw /\ v.grants = ntfy[p].grants
         /\ v.tokens = ntfy[p].tokens \cup {t}
         /\ w.exists = ntfy[p].exists /\ w.pw = ntfy[p].pw /\ w.grants = ntfy[p].grants
         /\ w.tokens = ntfy[p].tokens \ {t}
<1>1. PICK u \in User : u = ntfy[p]
  BY UserOf
<1>2. v = [u EXCEPT !.tokens = u.tokens \cup {t}] /\ w = [u EXCEPT !.tokens = u.tokens \ {t}]
  BY <1>1
<1> QED
  BY <1>1, <1>2 DEF User

LEMMA PasswordUser ==
  ASSUME BaseInv, NEW p \in Persons, NEW n, NEW v, v = [ntfy[p] EXCEPT !.pw = n]
  PROVE  v.exists = ntfy[p].exists /\ v.pw = n /\ v.grants = ntfy[p].grants /\ v.tokens = ntfy[p].tokens
<1>1. PICK u \in User : u = ntfy[p]
  BY UserOf
<1>2. v = [u EXCEPT !.pw = n]
  BY <1>1
<1> QED
  BY <1>1, <1>2 DEF User

LEMMA TopicGrants == ASSUME NEW a \in Apps PROVE TopicPattern(a) \in Grant /\ BroadcastTopicPattern(a) \in Grant
BY DEF TopicPattern, BroadcastTopicPattern, Grant

LEMMA GrantPassword ==
  ASSUME BaseInv, PasswordInv, NEW r \in Requests, GrantAccess(r) \/ AddToken(r)
  PROVE  PasswordInv'
<1>1. PICK q \in Request, p \in Persons, a \in Apps :
        /\ q = req[r] /\ p = q.p /\ a = q.a /\ q.op = "provision" /\ OpInv(q)
        /\ q.pc \in {"grant", "broadcast", "addToken"} /\ Calls(r) /\ UNCHANGED kept
  BY GrantEffect, AddTokenEffect, RequestOf
<1>2. /\ \A x \in Persons : Same(x)
      /\ \E pc \in {"broadcast", "list", "upsert", "fail"} : Advances(r, pc)
  <2>1. CASE GrantAccess(r)
    <3>1. PICK g \in {TopicPattern(a), BroadcastTopicPattern(a)}, next \in {"broadcast", "list"} :
            Outcome(r, [ntfy[p] EXCEPT !.grants = ntfy[p].grants \cup {g}], next)
      BY <1>1, <2>1, GrantEffect
    <3>2. PICK v, w : /\ v = [ntfy[p] EXCEPT !.grants = ntfy[p].grants \cup {g}]
                      /\ w = [ntfy[p] EXCEPT !.grants = ntfy[p].grants \ {g}]
      OBVIOUS
    <3>3. g \in Grant
      BY TopicGrants
    <3>4. v.exists = ntfy[p].exists /\ v.pw = ntfy[p].pw
      BY <3>2, <3>3, GrantedUser
    <3>5. Outcome(r, v, next)
      BY <3>1, <3>2
    <3> QED
      BY <1>1, <3>4, <3>5, OutcomeSame, OutcomeAdvances
  <2>2. CASE AddToken(r)
    <3>1. PICK t \in Token : t = <<a, q.n>>
      BY DEF Token, Request
    <3>2. Outcome(r, [ntfy[p] EXCEPT !.tokens = ntfy[p].tokens \cup {t}], "upsert")
      BY <1>1, <2>2, <3>1, AddTokenEffect
    <3>3. PICK v, w : /\ v = [ntfy[p] EXCEPT !.tokens = ntfy[p].tokens \cup {t}]
                      /\ w = [ntfy[p] EXCEPT !.tokens = ntfy[p].tokens \ {t}]
      OBVIOUS
    <3>4. v.exists = ntfy[p].exists /\ v.pw = ntfy[p].pw
      BY <3>3, TokenUser
    <3>5. Outcome(r, v, "upsert")
      BY <3>2, <3>3
    <3> QED
      BY <1>1, <3>4, <3>5, OutcomeSame, OutcomeAdvances
  <2> QED
    BY <2>1, <2>2
<1>4. PICK s : /\ s = req'[r] /\ Moves(r) /\ Alike(q, s)
               /\ s.pc \in {"broadcast", "list", "upsert", "fail"}
  BY <1>1, <1>2 DEF Advances
<1>5. Holds(q) /\ q.pc \in Granting /\ s.pc \in Granting \cup {"fail"}
  BY <1>1, <1>4 DEF Holds, Locked, Granting
<1> QED
  BY <1>1, <1>2, <1>4, <1>5, PassingPassword DEF Alike

\* The resets of a removal, which hold no lock.
LEMMA ResetPassword ==
  ASSUME BaseInv, PasswordInv, NEW r \in Requests, ResetAccess(r)
  PROVE  PasswordInv'
<1>1. PICK q \in Request, p \in Persons, a \in Apps :
        /\ q = req[r] /\ p = q.p /\ a = q.a /\ q.op \in {"deprovision", "deprovisionApp"}
        /\ q.pc \in {"reset", "resetBroadcast"} /\ Calls(r) /\ UNCHANGED kept
  BY ResetEffect, RequestOf
<1>2. (\A x \in Persons : Same(x)) /\ Moves(r)
  <2>1. CASE Missing(r)
    BY <1>1, <2>1, CallSame DEF Missing, Advances
  <2>2. CASE \E g \in {TopicPattern(a), BroadcastTopicPattern(a)}, next \in {"resetBroadcast", "list"} :
               Outcome(r, [ntfy[p] EXCEPT !.grants = ntfy[p].grants \ {g}], next)
    <3>1. PICK g \in {TopicPattern(a), BroadcastTopicPattern(a)}, next \in {"resetBroadcast", "list"} :
            Outcome(r, [ntfy[p] EXCEPT !.grants = ntfy[p].grants \ {g}], next)
      BY <2>2
    <3>2. PICK v, w : /\ v = [ntfy[p] EXCEPT !.grants = ntfy[p].grants \cup {g}]
                      /\ w = [ntfy[p] EXCEPT !.grants = ntfy[p].grants \ {g}]
      OBVIOUS
    <3>3. g \in Grant
      BY TopicGrants
    <3>4. w.exists = ntfy[p].exists /\ w.pw = ntfy[p].pw
      BY <3>2, <3>3, GrantedUser
    <3>5. Outcome(r, w, next)
      BY <3>1, <3>2
    <3> QED
      BY <1>1, <3>4, <3>5, OutcomeSame, OutcomeAdvances DEF Advances
  <2> QED
    BY <1>1, <2>1, <2>2, ResetEffect
<1>3. ~Holds(q)
  BY <1>1 DEF Holds, Locked, Changes
<1> QED
  BY <1>1, <1>2, <1>3, HoldsNothing, FreePassword, MovesSpares

\* The tokens, whose list is made with the lock by a provisioning and without
\* it by a removal.
LEMMA TokensPassword ==
  ASSUME BaseInv, PasswordInv, NEW r \in Requests, \A x \in Persons : Same(x), Moves(r),
         NEW q, q = req[r], NEW s, s = req'[r], q.pc \in {"list", "remove"},
         s.op = q.op, s.p = q.p, s.n = q.n, s.held = q.held, s.prev = q.prev, s.usable = q.usable,
         s.pc \in {"remove", "fail", AfterTokens(q.op)}
  PROVE  PasswordInv'
<1>1. CASE q.op = "provision"
  <2>1. Holds(q) /\ q.pc \in Granting /\ s.pc \in Granting \cup {"fail"}
    BY <1>1 DEF Holds, Granting, AfterTokens
  <2> QED
    BY <1>1, <2>1, PassingPassword
<1>2. CASE q.op # "provision"
  <2>1. OpInv(q)
    BY RequestOf
  <2>2. ~Holds(q)
    BY <1>2, <2>1 DEF OpInv, Holds, Locked
  <2> QED
    BY <2>2, HoldsNothing, FreePassword, MovesSpares
<1> QED
  BY <1>1, <1>2

LEMMA ListPassword ==
  ASSUME BaseInv, PasswordInv, NEW r \in Requests, ListTokens(r)
  PROVE  PasswordInv'
<1>1. PICK q, s : /\ q = req[r] /\ s = req'[r] /\ q.pc = "list"
                  /\ UNCHANGED <<extVars, procVars, clock, ops, histVars>>
  BY ListEffect
<1>2. \A x \in Persons : Same(x)
  BY <1>1, QuietSame DEF extVars, procVars, histVars
<1>3. /\ Moves(r) /\ s.op = q.op /\ s.p = q.p /\ s.n = q.n /\ s.held = q.held /\ s.prev = q.prev
      /\ s.usable = q.usable /\ s.pc \in {"remove", "fail", AfterTokens(q.op)}
  BY <1>1, ListEffect DEF Selects, Advances, Alike
<1> QED
  BY <1>1, <1>2, <1>3, TokensPassword

LEMMA RemovePassword ==
  ASSUME BaseInv, PasswordInv, NEW r \in Requests, RemoveToken(r)
  PROVE  PasswordInv'
<1>1. PICK q \in Request, p \in Persons, s \in Request :
         /\ q = req[r] /\ p = q.p /\ s = req'[r] /\ q.pc = "remove" /\ Calls(r) /\ UNCHANGED kept
  BY RemoveEffect, RequestOf DEF Selects, Advances, Moves
<1>2. PICK t \in q.toks :
        /\ ntfy'[p] \in {ntfy[p], [ntfy[p] EXCEPT !.tokens = ntfy[p].tokens \ {t}]}
        /\ \/ Selects(r, AfterTokens(q.op), q.toks \ {t})
           \/ Selects(r, "remove", q.toks \ {t})
           \/ Advances(r, "fail")
  BY <1>1, RemoveEffect
<1>3. t \in Token
  BY DEF Request
<1>4. PICK v, w : /\ v = [ntfy[p] EXCEPT !.tokens = ntfy[p].tokens \cup {t}]
                  /\ w = [ntfy[p] EXCEPT !.tokens = ntfy[p].tokens \ {t}]
  OBVIOUS
<1>5. w.exists = ntfy[p].exists /\ w.pw = ntfy[p].pw
  BY <1>3, <1>4, TokenUser
<1>6. ntfy'[p].exists = ntfy[p].exists /\ ntfy'[p].pw = ntfy[p].pw
  BY <1>2, <1>4, <1>5
<1>7. \A x \in Persons : Same(x)
  BY <1>1, <1>6, CallSame
<1>8. /\ Moves(r) /\ s.op = q.op /\ s.p = q.p /\ s.n = q.n /\ s.held = q.held /\ s.prev = q.prev
      /\ s.usable = q.usable /\ s.pc \in {"remove", "fail", AfterTokens(q.op)}
  BY <1>1, <1>2 DEF Selects, Advances, Alike
<1> QED
  BY <1>1, <1>7, <1>8, TokensPassword

LEMMA RemainingPassword ==
  ASSUME BaseInv, PasswordInv, NEW r \in Requests, GetRemaining(r)
  PROVE  PasswordInv'
<1>1. PICK q, s : /\ q = req[r] /\ s = req'[r] /\ q.pc = "last" /\ q.op \in Removals
                  /\ UNCHANGED <<extVars, procVars, clock, ops, histVars>>
  BY RemainingEffect DEF Removals
<1>2. \A x \in Persons : Same(x)
  BY <1>1, QuietSame DEF extVars, procVars, histVars
<1>3. Moves(r) /\ Alike(q, s) /\ s.pc \in {"deleteUser", "answer", "fail"}
  BY <1>1, RemainingEffect DEF Advances
<1>4. Holds(q)
  BY <1>1 DEF Holds, Locked
<1> QED
  BY <1>1, <1>2, <1>3, <1>4, PassingPassword DEF Alike

\* A request to the person service under the lock.
LEMMA WritePassword ==
  ASSUME BaseInv, PasswordInv, NEW r \in Requests, Writes(r), Moves(r), Holds(req[r]),
         NEW p \in Persons, p = req[r].p, NEW s, s = req'[r], RowInv(p)', HolderInv(p, s)'
  PROVE  PasswordInv'
<1>1. UNCHANGED <<ntfy, lock, known, kept>>
  BY DEF Writes, storeUnchanged, procVars
<1>2. \A x \in Persons : x # p => Same(x)
  BY <1>1 DEF Same, Writes
<1>3. lock'[p] = r
  BY <1>1, HolderOf
<1> QED
  BY <1>2, <1>3, HeldPassword, MovesSpares

\* What there is to know at such a request.
LEMMA WriteFacts ==
  ASSUME BaseInv, PasswordInv, NEW r \in Requests, Writes(r), Holds(req[r])
  PROVE  \E q \in Request, p \in Persons :
           /\ q = req[r] /\ p = q.p /\ OpInv(q) /\ HolderInv(p, q) /\ RowInv(p) /\ store[p] \in Row
           /\ ntfy'[p] = ntfy[p] /\ known'[p] = known[p] /\ kept'[p] = kept[p] /\ (doubt[p] => doubt'[p])
BY RequestOf, HolderOf DEF Writes, storeUnchanged

LEMMA ClaimIfUnsetPassword ==
  ASSUME BaseInv, FreshInv, PasswordInv, NEW r \in Requests, ClaimIfUnset(r)
  PROVE  PasswordInv'
<1>1. Writes(r) /\ req[r].pc = "claim" /\ req[r].op = "provision"
  BY ClaimIfUnsetEffect
<1>2. Holds(req[r])
  BY <1>1 DEF Holds, Locked
<1>3. PICK q \in Request, p \in Persons :
         /\ q = req[r] /\ p = q.p /\ OpInv(q) /\ HolderInv(p, q) /\ RowInv(p) /\ store[p] \in Row
         /\ ntfy'[p] = ntfy[p] /\ known'[p] = known[p] /\ kept'[p] = kept[p] /\ (doubt[p] => doubt'[p])
  BY <1>1, <1>2, WriteFacts
<1>4. q.held = Null /\ ~q.usable /\ q.n # 0 /\ Known(p) /\ q.pc = "claim" /\ q.op = "provision"
  BY <1>1, <1>3 DEF OpInv, HolderInv, Granting, Request, Changes
<1>5. store[p].stamp # q.n
  BY <1>1, <1>3 DEF FreshInv, Before
<1>6. PICK s : s = req'[r]
  OBVIOUS
<1>7. PICK won \in BOOLEAN : won = ~(store[p].row /\ store[p].stamp # Null)
  OBVIOUS
<1>8. StampRow(q.n).row /\ StampRow(q.n).stamp = q.n
  BY DEF StampRow
<1>9. Moves(r) /\ s.op = "provision" /\ s.n = q.n /\ s.prev = q.prev /\
      \/ won /\ store'[p] = StampRow(q.n) /\ s.pc = "addUser" /\ s.held = q.n
      \/ ~won /\ store'[p] = store[p] /\ s.pc = "addUser" /\ s.held = Null
      \/ /\ s.pc = "releaseLost" /\ s.held = Null /\ ~s.usable
         /\ store'[p] = store[p] \/ (won /\ store'[p] = StampRow(q.n))
      \/ s.pc = "addUser" /\ s.held = Null /\ ~s.usable /\ store'[p] = store[p]
  BY <1>3, <1>4, <1>6, <1>7, ClaimIfUnsetEffect DEF Proceeds, Advances, Alike, Claimed
<1>10. RowInv(p)'
  BY <1>3, <1>4, <1>7, <1>8, <1>9 DEF RowInv, Null
<1>11. won => ~kept[p]
  BY <1>3, <1>7 DEF RowInv
<1>12. ~won => store[p].stamp # Null
  BY <1>7
<1>13. HolderInv(p, s)'
  BY <1>3, <1>4, <1>5, <1>8, <1>9, <1>11, <1>12 DEF HolderInv, Known, Granting, Changes, Null
<1> QED
  BY <1>1, <1>2, <1>3, <1>6, <1>9, <1>10, <1>13, WritePassword

\* The row after a release.
LEMMA Released ==
  ASSUME NEW old \in Row, NEW n, NEW m \in Nat, NEW row, row = ReleasePasswordClaim(old, n, m)
  PROVE  /\ row.row = old.row
         /\ row.stamp = IF old.row /\ old.stamp = n THEN m ELSE old.stamp
BY DEF ReleasePasswordClaim, Row

LEMMA ReleaseLostPassword ==
  ASSUME BaseInv, PasswordInv, NEW r \in Requests, ReleaseLostClaim(r)
  PROVE  PasswordInv'
<1>1. Writes(r) /\ req[r].pc = "releaseLost" /\ Advances(r, "addUser")
  BY ReleaseLostEffect
<1>2. Holds(req[r])
  BY <1>1 DEF Holds, Locked
<1>3. PICK q \in Request, p \in Persons :
         /\ q = req[r] /\ p = q.p /\ OpInv(q) /\ HolderInv(p, q) /\ RowInv(p) /\ store[p] \in Row
         /\ ntfy'[p] = ntfy[p] /\ known'[p] = known[p] /\ kept'[p] = kept[p] /\ (doubt[p] => doubt'[p])
  BY <1>1, <1>2, WriteFacts
<1>4. q.held = Null /\ ~q.usable /\ q.n # 0 /\ q.op = "provision" /\ q.pc = "releaseLost"
  BY <1>1, <1>3 DEF OpInv, Granting, Request
<1>5. PICK s : s = req'[r] /\ Moves(r) /\ Alike(q, s) /\ s.pc = "addUser"
  BY <1>1, <1>3 DEF Advances
<1>6. PICK row : row = ReleasePasswordClaim(store[p], q.n, Null)
  OBVIOUS
<1>7. /\ row.row = store[p].row
       /\ row.stamp = IF store[p].row /\ store[p].stamp = q.n THEN Null ELSE store[p].stamp
  <2>1. Null \in Nat
    BY DEF Null
  <2> QED
    BY <1>3, <1>6, <2>1, Released
<1>8. store'[p] = row \/ (store'[p] \in {store[p], row} /\ doubt'[p])
  BY <1>3, <1>6, ReleaseLostEffect
<1>9. store[p].stamp = q.n => ~kept[p] /\ store[p].row
  BY <1>3, <1>4 DEF HolderInv, RowInv, Null
<1>10. store[p].stamp # q.n => Known(p)
  BY <1>3, <1>4 DEF HolderInv
<1>11. RowInv(p)'
  BY <1>3, <1>7, <1>8, <1>9 DEF RowInv
<1>12. HolderInv(p, s)'
  BY <1>3, <1>4, <1>5, <1>7, <1>8, <1>9, <1>10 DEF HolderInv, Known, Granting, Changes, Alike
<1> QED
  BY <1>1, <1>2, <1>3, <1>5, <1>11, <1>12, WritePassword

LEMMA HealPassword ==
  ASSUME BaseInv, PasswordInv, NEW r \in Requests, healStaleStamp(r)
  PROVE  PasswordInv'
<1>1. Writes(r) /\ req[r].pc = "heal" /\ req[r].op = "provision"
  BY HealEffect
<1>2. Holds(req[r])
  BY <1>1 DEF Holds, Locked
<1>3. PICK q \in Request, p \in Persons :
         /\ q = req[r] /\ p = q.p /\ OpInv(q) /\ HolderInv(p, q) /\ RowInv(p) /\ store[p] \in Row
         /\ ntfy'[p] = ntfy[p] /\ known'[p] = known[p] /\ kept'[p] = kept[p] /\ (doubt[p] => doubt'[p])
  BY <1>1, <1>2, WriteFacts
<1>4. q.held = Null /\ q.n # 0 /\ q.op = "provision" /\ ~kept[p]
  BY <1>1, <1>3 DEF OpInv, Granting, HolderInv
<1>5. PICK s : /\ s = req'[r] /\ Moves(r) /\ s.op = "provision" /\ s.n = q.n
               /\ \/ s.pc = "change" /\ s.held = q.n /\ store'[p] = StampRow(q.n)
                  \/ /\ s.pc = "grant" /\ s.held = Null /\ doubt'[p]
                     /\ store'[p] \in {store[p], StampRow(q.n)}
  BY <1>3, <1>4, HealEffect DEF Proceeds, Advances, Alike
<1>6. StampRow(q.n).row /\ StampRow(q.n).stamp = q.n
  BY DEF StampRow
<1>7. RowInv(p)'
  BY <1>3, <1>4, <1>5, <1>6 DEF RowInv
<1>8. HolderInv(p, s)'
  BY <1>3, <1>4, <1>5, <1>6 DEF HolderInv, Known, Granting, Changes, Null
<1> QED
  BY <1>1, <1>2, <1>3, <1>5, <1>7, <1>8, WritePassword

LEMMA ClaimUpdateOnlyPassword ==
  ASSUME BaseInv, PasswordInv, NEW r \in Requests, ClaimUpdateOnly(r)
  PROVE  PasswordInv'
<1>1. Writes(r) /\ req[r].pc = "claim" /\ req[r].op \in Changes
  BY ClaimUpdateOnlyEffect
<1>2. Holds(req[r])
  BY <1>1 DEF Holds, Locked
<1>3. PICK q \in Request, p \in Persons :
         /\ q = req[r] /\ p = q.p /\ OpInv(q) /\ HolderInv(p, q) /\ RowInv(p) /\ store[p] \in Row
         /\ ntfy'[p] = ntfy[p] /\ known'[p] = known[p] /\ kept'[p] = kept[p] /\ (doubt[p] => doubt'[p])
  BY <1>1, <1>2, WriteFacts
<1>4. q.held = Null /\ q.n # 0 /\ Known(p) /\ q.op \in Changes /\ q.op # "provision"
  BY <1>1, <1>3 DEF OpInv, HolderInv, Granting, Request, Changes
<1>5. StampRow(q.n).row /\ StampRow(q.n).stamp = q.n
  BY DEF StampRow
<1>6. PICK s : /\ s = req'[r] /\ Moves(r) /\ s.op = q.op /\ s.n = q.n
               /\ \/ /\ s.pc = "change" /\ s.held = q.n /\ s.prev = store[p].stamp
                     /\ store[p].row /\ store'[p] = StampRow(q.n)
                  \/ /\ s.pc = "change" /\ s.held = Null /\ ~store[p].row /\ store'[p] = store[p]
                  \/ /\ s.pc = "fail" /\ s.held = Null
                     /\ \/ store'[p] = store[p]
                        \/ store[p].row /\ store'[p] = StampRow(q.n) /\ doubt'[p]
  <2>1. PICK s : s = req'[r]
    OBVIOUS
  <2>2. CASE store[p].row /\ store'[p] = StampRow(q.n)
             /\ Proceeds(r, "change", q.n, store[p].stamp, TRUE, q.usable)
    BY <1>3, <2>1, <2>2 DEF Proceeds
  <2>3. CASE ~store[p].row /\ store'[p] = store[p] /\ Proceeds(r, "change", Null, Null, FALSE, q.usable)
    BY <1>3, <2>1, <2>3 DEF Proceeds
  <2>4. CASE /\ Advances(r, "fail")
             /\ store'[p] = store[p] \/ (store[p].row /\ store'[p] = StampRow(q.n) /\ doubt'[p])
    BY <1>3, <1>4, <2>1, <2>4 DEF Advances, Alike
  <2> QED
    BY <1>3, <2>2, <2>3, <2>4, ClaimUpdateOnlyEffect
<1>7. RowInv(p)'
  BY <1>3, <1>4, <1>5, <1>6 DEF RowInv, Null
<1>8. HolderInv(p, s)'
  BY <1>3, <1>4, <1>5, <1>6 DEF HolderInv, RowInv, Known, Granting, Changes
<1> QED
  BY <1>1, <1>2, <1>3, <1>6, <1>7, <1>8, WritePassword

LEMMA RecordPassword ==
  ASSUME BaseInv, PasswordInv, NEW r \in Requests, recordStampAfterChange(r)
  PROVE  PasswordInv'
<1>1. Writes(r) /\ req[r].pc = "record" /\ req[r].op \in Changes
  BY RecordEffect
<1>2. Holds(req[r])
  BY <1>1 DEF Holds, Locked
<1>3. PICK q \in Request, p \in Persons :
         /\ q = req[r] /\ p = q.p /\ OpInv(q) /\ HolderInv(p, q) /\ RowInv(p) /\ store[p] \in Row
         /\ ntfy'[p] = ntfy[p] /\ known'[p] = known[p] /\ kept'[p] = kept[p] /\ (doubt[p] => doubt'[p])
  BY <1>1, <1>2, WriteFacts
<1>4. q.held = Null /\ q.op \in Changes /\ Given(p, q) /\ store[p].stamp = Null /\ ~kept[p]
  BY <1>1, <1>3 DEF OpInv, HolderInv, Granting, RowInv
<1>5. StampRow(q.n).row /\ StampRow(q.n).stamp = q.n
  BY DEF StampRow
<1>6. PICK s : /\ s = req'[r] /\ Moves(r) /\ Alike(q, s) /\ s.pc = "answer"
               /\ store'[p] \in {store[p], StampRow(q.n)}
  BY <1>3, RecordEffect DEF Advances
<1>7. RowInv(p)'
  BY <1>3, <1>4, <1>5, <1>6 DEF RowInv
<1>8. HolderInv(p, s)'
  BY <1>3, <1>4, <1>5, <1>6 DEF HolderInv, Given, Alike, Granting, Changes
<1> QED
  BY <1>1, <1>2, <1>3, <1>6, <1>7, <1>8, WritePassword

LEMMA DualWritePassword ==
  ASSUME BaseInv, PasswordInv, NEW r \in Requests, dualWritePerson(r)
  PROVE  PasswordInv'
<1>1. Writes(r) /\ req[r].pc = "upsert" /\ req[r].op = "provision"
  BY DualWriteEffect
<1>2. Holds(req[r])
  BY <1>1 DEF Holds, Locked
<1>3. PICK q \in Request, p \in Persons :
         /\ q = req[r] /\ p = q.p /\ OpInv(q) /\ HolderInv(p, q) /\ RowInv(p) /\ store[p] \in Row
         /\ ntfy'[p] = ntfy[p] /\ known'[p] = known[p] /\ kept'[p] = kept[p] /\ (doubt[p] => doubt'[p])
  BY <1>1, <1>2, WriteFacts
<1>4. PICK s : /\ s = req'[r] /\ Moves(r) /\ Alike(q, s) /\ s.pc = "answer"
               /\ store'[p].stamp = store[p].stamp /\ (store[p].row => store'[p].row)
  BY <1>3, DualWriteEffect DEF Advances
<1>5. RowInv(p)'
  BY <1>3, <1>4 DEF RowInv, Null
<1>6. HolderInv(p, s)'
  BY <1>1, <1>3, <1>4 DEF HolderInv, Known, Given, Alike, Granting, Changes
<1> QED
  BY <1>1, <1>2, <1>3, <1>4, <1>5, <1>6, WritePassword

\* A call on the user under the lock.
LEMMA CallPassword ==
  ASSUME BaseInv, PasswordInv, NEW r \in Requests, Calls(r), Moves(r), Holds(req[r]),
         \A x \in Persons : x # req[r].p => kept'[x] = kept[x],
         NEW p \in Persons, p = req[r].p, NEW s, s = req'[r], RowInv(p)', HolderInv(p, s)'
  PROVE  PasswordInv'
<1>1. UNCHANGED <<store, lock, known>>
  BY DEF Calls, cliUnchanged, procVars
<1>2. \A x \in Persons : x # p => Same(x)
  BY <1>1 DEF Same, Calls
<1>3. lock'[p] = r
  BY <1>1, HolderOf
<1> QED
  BY <1>2, <1>3, HeldPassword, MovesSpares

LEMMA CallFacts ==
  ASSUME BaseInv, PasswordInv, NEW r \in Requests, Calls(r), Holds(req[r])
  PROVE  \E q \in Request, p \in Persons :
           /\ q = req[r] /\ p = q.p /\ OpInv(q) /\ HolderInv(p, q) /\ RowInv(p)
           /\ store'[p] = store[p] /\ known'[p] = known[p] /\ (doubt[p] => doubt'[p])
BY RequestOf, HolderOf DEF Calls, cliUnchanged

LEMMA AddUserPassword ==
  ASSUME BaseInv, PasswordInv, NEW r \in Requests, AddUser(r)
  PROVE  PasswordInv'
<1>1. Calls(r) /\ req[r].pc = "addUser" /\ UNCHANGED kept
  BY AddUserEffect DEF Calls
<1>2. Holds(req[r])
  BY <1>1 DEF Holds, Locked
<1>3. PICK q \in Request, p \in Persons :
         /\ q = req[r] /\ p = q.p /\ OpInv(q) /\ HolderInv(p, q) /\ RowInv(p)
         /\ store'[p] = store[p] /\ known'[p] = known[p] /\ (doubt[p] => doubt'[p])
  BY <1>1, <1>2, CallFacts
<1>4. q.op = "provision" /\ q.pc = "addUser"
  BY <1>1, <1>3 DEF OpInv
<1>5. NewUser(q).exists /\ (q.held # Null => NewUser(q).pw = q.n)
  BY NewUserType
<1>6. q.held = Null /\ store[p].stamp # Null => Strands(r, TRUE) /\ (~q.usable => Strands(r, FALSE))
  BY <1>3, <1>4 DEF Strands, At
<1>7. PICK s : s = req'[r]
  OBVIOUS
<1>8. /\ Moves(r) /\ Alike(q, s)
      /\ \/ ntfy[p].exists /\ ntfy'[p] = ntfy[p] /\ q.held # Null /\ s.pc = "change"
         \/ ntfy[p].exists /\ ntfy'[p] = ntfy[p] /\ q.held = Null /\ s.pc = "grant"
         \/ ~ntfy[p].exists /\ ntfy'[p] = NewUser(q) /\ q.held = Null /\ s.pc = "heal"
         \/ /\ ~ntfy[p].exists /\ ntfy'[p] = NewUser(q) /\ ~(q.held = Null /\ q.usable) /\ s.pc = "grant"
            /\ Strands(r, FALSE) => doubt'[p]
         \/ s.pc = "fail" /\ ~ntfy[p].exists /\ ntfy'[p] = ntfy[p]
         \/ /\ s.pc = "fail" /\ ~ntfy[p].exists /\ ntfy'[p] = NewUser(q)
            /\ Strands(r, TRUE) => doubt'[p]
  BY <1>3, <1>7, AddUserEffect DEF Advances
<1>9. kept'[p] = kept[p] /\ (~ntfy[p].exists => ~kept[p])
  BY <1>1, <1>3 DEF RowInv
<1>10. RowInv(p)'
  BY <1>3, <1>8, <1>9 DEF RowInv
<1>11. HolderInv(p, s)'
  <2>1. CASE ntfy[p].exists /\ ntfy'[p] = ntfy[p]
    BY <1>3, <1>4, <1>8, <1>9, <2>1 DEF HolderInv, Known, Given, Granting, Changes, Alike
  <2>2. CASE ~ntfy[p].exists /\ ntfy'[p] = NewUser(q) /\ s.pc \in {"heal", "grant"}
    <3>1. CASE s.pc = "heal"
      BY <1>3, <1>4, <1>5, <1>8, <1>9, <2>2, <3>1 DEF HolderInv, Known, Given, Granting, Changes, Alike
    <3>2. CASE s.pc = "grant" /\ q.held # Null
      BY <1>3, <1>4, <1>5, <1>8, <1>9, <2>2, <3>2 DEF HolderInv, Given, Granting, Changes, Alike
    <3>3. CASE s.pc = "grant" /\ q.held = Null
      <4>1. store[p].stamp # Null => doubt'[p]
        BY <1>6, <1>8, <2>2, <3>3
      <4>2. Known(p)'
        BY <1>3, <4>1 DEF Known
      <4> QED
        BY <1>4, <1>8, <3>3, <4>2 DEF HolderInv, Alike
    <3> QED
      BY <2>2, <3>1, <3>2, <3>3
  <2>3. CASE s.pc = "fail" /\ ~ntfy[p].exists
    BY <1>3, <1>4, <1>5, <1>6, <1>8, <1>9, <2>3 DEF HolderInv, Known, Given, Granting, Changes, Alike
  <2> QED
    BY <1>8, <2>1, <2>2, <2>3
<1> QED
  BY <1>1, <1>2, <1>3, <1>7, <1>8, <1>10, <1>11, CallPassword

LEMMA ChangePasswordPassword ==
  ASSUME BaseInv, PasswordInv, NEW r \in Requests, ChangePassword(r)
  PROVE  PasswordInv'
<1>1. Calls(r) /\ req[r].pc = "change" /\ UNCHANGED kept
  BY ChangeEffect
<1>2. Holds(req[r])
  BY <1>1 DEF Holds, Locked
<1>3. PICK q \in Request, p \in Persons :
         /\ q = req[r] /\ p = q.p /\ OpInv(q) /\ HolderInv(p, q) /\ RowInv(p)
         /\ store'[p] = store[p] /\ known'[p] = known[p] /\ (doubt[p] => doubt'[p])
  BY <1>1, <1>2, CallFacts
<1>4. PICK v : v = [ntfy[p] EXCEPT !.pw = q.n] /\ v.exists = ntfy[p].exists /\ v.pw = q.n
  <2>1. PICK v, n : n = q.n /\ v = [ntfy[p] EXCEPT !.pw = n]
    OBVIOUS
  <2>2. v.exists = ntfy[p].exists /\ v.pw = n
    BY <2>1, PasswordUser
  <2> QED
    BY <2>1, <2>2
<1>5. q.op # "provision" /\ q.prev # Null => Strands(r, TRUE)
  BY <1>1, <1>3 DEF Strands, At
<1>6. /\ q.pc = "change"
      /\ q.op = "provision" \/ (q.op \in Changes /\ q.op # "provision" /\ (~q.row => q.held = Null))
  BY <1>1, <1>3 DEF OpInv, Changes
<1>7. PICK s : s = req'[r]
  OBVIOUS
<1>8. /\ Moves(r) /\ Alike(q, s)
      /\ \/ s.pc = "fail" /\ ntfy'[p] = ntfy[p]
         \/ s.pc = "fail" /\ ntfy[p].exists /\ ntfy'[p] = v /\ (Strands(r, TRUE) => doubt'[p])
         \/ q.op = "provision" /\ s.pc = "grant" /\ ntfy[p].exists /\ ntfy'[p] = v
         \/ q.op # "provision" /\ s.pc = "answer" /\ ntfy[p].exists /\ ntfy'[p] = v
         \/ q.op # "provision" /\ ~q.row /\ s.pc = "record" /\ ntfy[p].exists /\ ntfy'[p] = v
  BY <1>3, <1>4, <1>7, ChangeEffect DEF Outcome, Missing, Advances
<1>9. kept'[p] = kept[p]
  BY <1>1
<1>10. RowInv(p)'
  BY <1>3, <1>4, <1>8, <1>9 DEF RowInv
<1>11. HolderInv(p, s)'
  <2>1. CASE s.pc = "fail" /\ ntfy'[p] = ntfy[p]
    BY <1>3, <1>6, <1>8, <1>9, <2>1 DEF HolderInv, Known, Given, Granting, Changes, Alike
  <2>2. CASE s.pc = "fail" /\ ntfy[p].exists /\ ntfy'[p] = v /\ (Strands(r, TRUE) => doubt'[p])
    <3>1. CASE q.op = "provision"
      BY <1>3, <1>4, <1>6, <1>8, <1>9, <2>2, <3>1 DEF HolderInv, Known, Given, Granting, Changes, Alike
    <3>2. CASE q.op \in Changes /\ q.op # "provision"
      <4>1. /\ q.held # Null => store'[p].stamp = q.n /\ (kept'[p] => q.prev # Null)
            /\ q.held = Null => store'[p].stamp = Null
            /\ q.prev # Null => doubt'[p]
        BY <1>3, <1>5, <1>6, <1>9, <2>2, <3>2 DEF HolderInv
      <4>2. s.held = q.held /\ s.n = q.n /\ s.prev = q.prev /\ s.op = q.op /\ s.pc = "fail"
        BY <1>8, <2>2 DEF Alike
      <4> QED
        BY <3>2, <4>1, <4>2 DEF HolderInv, Known
    <3> QED
      BY <1>6, <3>1, <3>2
  <2>3. CASE q.op = "provision" /\ s.pc = "grant" /\ ntfy[p].exists /\ ntfy'[p] = v
    BY <1>3, <1>4, <1>6, <1>8, <1>9, <2>3 DEF HolderInv, Known, Given, Granting, Changes, Alike
  <2>4. CASE q.op # "provision" /\ s.pc = "answer" /\ ntfy[p].exists /\ ntfy'[p] = v
    BY <1>3, <1>4, <1>6, <1>8, <1>9, <2>4 DEF HolderInv, Known, Given, Granting, Alike
  <2>5. CASE q.op # "provision" /\ ~q.row /\ s.pc = "record" /\ ntfy[p].exists /\ ntfy'[p] = v
    BY <1>3, <1>4, <1>6, <1>8, <1>9, <2>5 DEF HolderInv, Known, Given, Granting, Alike
  <2> QED
    BY <1>8, <2>1, <2>2, <2>3, <2>4, <2>5
<1> QED
  BY <1>1, <1>2, <1>3, <1>7, <1>8, <1>10, <1>11, CallPassword

LEMMA DeleteUserPassword ==
  ASSUME BaseInv, PasswordInv, NEW r \in Requests, DeleteUser(r)
  PROVE  PasswordInv'
<1>1. /\ Calls(r) /\ req[r].pc = "deleteUser" /\ req[r].op \in Removals
      /\ \A x \in Persons : x # req[r].p => kept'[x] = kept[x]
  BY DeleteUserEffect
<1>2. Holds(req[r])
  BY <1>1 DEF Holds, Locked
<1>3. PICK q \in Request, p \in Persons :
         /\ q = req[r] /\ p = q.p /\ OpInv(q) /\ HolderInv(p, q) /\ RowInv(p)
         /\ store'[p] = store[p] /\ known'[p] = known[p] /\ (doubt[p] => doubt'[p])
  BY <1>1, <1>2, CallFacts
<1>4. q.op \notin Changes /\ q.op # "provision" /\ q.held = Null /\ Known(p)
  BY <1>1, <1>3 DEF OpInv, HolderInv, Granting, Changes, Removals
<1>5. ~NoUser.exists
  BY DEF NoUser
<1>6. PICK s : s = req'[r]
  OBVIOUS
<1>7. /\ Moves(r) /\ Alike(q, s) /\ (kept'[p] => kept[p] /\ ntfy'[p].exists)
      /\ \/ s.pc = "fail" /\ ntfy'[p] = ntfy[p]
         \/ s.pc \in {"fail", "deletePerson"} /\ ~ntfy'[p].exists
  BY <1>3, <1>5, <1>6, DeleteUserEffect DEF Outcome, Advances
<1>8. RowInv(p)'
  BY <1>3, <1>7 DEF RowInv
<1>9. HolderInv(p, s)'
  BY <1>3, <1>4, <1>7 DEF HolderInv, Known, Alike
<1> QED
  BY <1>1, <1>2, <1>3, <1>6, <1>7, <1>8, <1>9, CallPassword

LEMMA DeletePersonPassword ==
  ASSUME BaseInv, PasswordInv, NEW r \in Requests, DeletePerson(r)
  PROVE  PasswordInv'
<1>1. /\ req[r].pc = "deletePerson" /\ req[r].op \in Removals
      /\ UNCHANGED <<ntfy, lock, known, doubt, kept>>
  BY DeletePersonEffect DEF procVars
<1>2. Holds(req[r])
  BY <1>1 DEF Holds, Locked
<1>3. PICK q \in Request, p \in Persons :
         q = req[r] /\ p = q.p /\ OpInv(q) /\ HolderInv(p, q) /\ RowInv(p) /\ lock[p] = r
  BY <1>2, RequestOf, HolderOf
<1>4. q.op \notin Changes /\ q.held = Null /\ ~ntfy[p].exists /\ ~kept[p]
  BY <1>1, <1>3 DEF OpInv, HolderInv, RowInv, Granting, Changes, Removals
<1>5. PICK s : s = req'[r] /\ Moves(r) /\ Alike(q, s) /\ s.pc \in {"answer", "fail"}
  BY <1>3, DeletePersonEffect DEF Advances
<1>6. (\A x \in Persons : x # p => store'[x] = store[x]) /\ (~store'[p].row => store'[p].stamp = Null)
  <2>1. CASE UNCHANGED store
    BY <1>3, <2>1 DEF RowInv
  <2>2. CASE store' = [store EXCEPT ![p] = NoRow]
    BY <2>2, RequestOf DEF TypeOK, ExtTypeOK, NoRow
  <2> QED
    BY <1>3, <2>1, <2>2, DeletePersonEffect
<1>7. \A x \in Persons : x # p => Same(x)
  BY <1>1, <1>6 DEF Same
<1>8. RowInv(p)'
  BY <1>1, <1>4, <1>6 DEF RowInv
<1>9. HolderInv(p, s)'
  BY <1>1, <1>4, <1>5 DEF HolderInv, Known, Alike
<1>10. lock'[p] = r
  BY <1>1, <1>3
<1> QED
  BY <1>3, <1>5, <1>7, <1>8, <1>9, <1>10, HeldPassword, MovesSpares

\* A request that ends without the lock.
LEMMA LocklessPassword ==
  ASSUME BaseInv, PasswordInv, NEW r \in Requests, Moves(r), lock' = Unlocked(r),
         \A x \in Persons : lock[x] # r, UNCHANGED <<ntfy, store, known, doubt, kept>>
  PROVE  PasswordInv'
<1>1. \A x \in Persons : lock'[x] = lock[x]
  BY UnlockedLocks
<1>2. \A x \in Persons : Same(x)
  BY <1>1 DEF Same
<1> QED
  BY <1>2, FreePassword, MovesSpares

LEMMA AnswerPassword ==
  ASSUME BaseInv, PasswordInv, NEW r \in Requests, Answer(r)
  PROVE  PasswordInv'
<1>1. PICK q \in Request, p \in Persons :
        /\ q = req[r] /\ p = q.p /\ q.pc = "answer" /\ OpInv(q) /\ Moves(r) /\ lock' = Unlocked(r)
        /\ UNCHANGED <<ntfy, store>>
        /\ \/ ~Tells(q) /\ UNCHANGED <<known, kept, doubt>>
           \/ /\ Tells(q) /\ known' = [known EXCEPT ![p] = q.n]
              /\ kept' = [kept EXCEPT ![p] = (store[p].stamp # Null)]
              /\ doubt' = [doubt EXCEPT ![p] = FALSE]
  BY RequestOf, AnswerEffect DEF extVars
<1>2. Tells(q) => Holds(q)
  BY <1>1 DEF Tells, Holds
<1>3. CASE \A x \in Persons : lock[x] # r
  <2>1. ~Tells(q)
    BY <1>1, <1>2, <1>3, HolderOf
  <2> QED
    BY <1>1, <1>3, <2>1, LocklessPassword
<1>4. CASE \E x \in Persons : lock[x] = r
  <2>1. lock[p] = r
    BY <1>1, <1>4, NoneAssumption DEF BaseInv, LockInv
  <2>2. HolderInv(p, q) /\ RowInv(p)
    BY <1>1, <2>1, NoneAssumption DEF PasswordInv, PersonInv
  <2>3. lock'[p] = None /\ \A x \in Persons : x # p => lock'[x] = lock[x]
    BY <1>1, <2>1, UnlockedLocks, NoneAssumption DEF BaseInv, LockInv
  <2>4. known \in [Persons -> Nat] /\ doubt \in [Persons -> BOOLEAN] /\ kept \in [Persons -> BOOLEAN]
    BY RequestOf DEF TypeOK, HistTypeOK
  <2>5. \A x \in Persons : x # p => Same(x)
    BY <1>1, <2>3, <2>4 DEF Same
  <2>6. CASE Tells(q)
    <3>1. Given(p, q)
      BY <1>1, <2>2, <2>6 DEF Tells, HolderInv, Granting
    <3>2. known'[p] = q.n /\ kept'[p] = (store[p].stamp # Null)
      BY <1>1, <2>4, <2>6
    <3>3. RowInv(p)' /\ Known(p)'
      BY <1>1, <2>2, <3>1, <3>2 DEF RowInv, Known, Given
    <3> QED
      BY <1>1, <2>3, <2>5, <3>3, FreedPassword, MovesSpares
  <2>7. CASE ~Tells(q)
    <3>1. q.held = Null /\ q.op \notin Changes
      BY <1>1, <2>7 DEF Tells, OpInv
    <3>2. Known(p)
      BY <1>1, <2>2, <3>1 DEF HolderInv
    <3>3. RowInv(p)' /\ Known(p)'
      BY <1>1, <2>2, <2>7, <3>2 DEF RowInv, Known
    <3> QED
      BY <1>1, <2>3, <2>5, <3>3, FreedPassword, MovesSpares
  <2> QED
    BY <2>6, <2>7
<1> QED
  BY <1>3, <1>4

LEMMA FailPassword ==
  ASSUME BaseInv, PasswordInv, NEW r \in Requests, Fail(r)
  PROVE  PasswordInv'
<1>1. PICK q \in Request :
        /\ q = req[r] /\ q.pc = "fail" /\ OpInv(q) /\ Moves(r) /\ lock' = Unlocked(r)
        /\ UNCHANGED <<ntfy, known, kept>>
        /\ \A x \in Persons : doubt[x] => doubt'[x]
        /\ \A x \in Persons : x # q.p => store'[x] = store[x]
  BY RequestOf, FailEffect
<1>2. CASE \A x \in Persons : lock[x] # r
  <2>1. q.held = Null
    BY <1>1, <1>2, HolderOf DEF Holds
  <2>2. UNCHANGED <<store, doubt>>
    BY <1>1, <2>1, FailEffect
  <2> QED
    BY <1>1, <1>2, <2>2, LocklessPassword
<1>3. CASE \E x \in Persons : lock[x] = r
  <2>1. PICK p \in Persons : p = q.p /\ lock[p] = r
    BY <1>1, <1>3, NoneAssumption DEF BaseInv, LockInv
  <2>2. HolderInv(p, q) /\ RowInv(p)
    BY <1>1, <2>1, NoneAssumption DEF PasswordInv, PersonInv
  <2>3. lock'[p] = None /\ \A x \in Persons : x # p => lock'[x] = lock[x]
    BY <1>1, <2>1, UnlockedLocks, NoneAssumption DEF BaseInv, LockInv
  <2>4. \A x \in Persons : x # p => Same(x)
    BY <1>1, <2>1, <2>3 DEF Same
  <2>5. CASE q.held = Null
    <3>1. UNCHANGED <<store, doubt>>
      BY <1>1, <2>5, FailEffect
    <3>2. Known(p)
      BY <1>1, <2>2, <2>5 DEF HolderInv
    <3>3. RowInv(p)' /\ Known(p)'
      BY <1>1, <2>2, <3>1, <3>2 DEF RowInv, Known
    <3> QED
      BY <1>1, <2>1, <2>3, <2>4, <3>3, FreedPassword, MovesSpares
  <2>6. CASE q.held # Null
    <3>1. q.held = q.n /\ store[p].stamp = q.n /\ store[p].row
      BY <1>1, <2>2, <2>6 DEF OpInv, HolderInv, RowInv
    <3>2. PICK row : row = ReleasePasswordClaim(store[p], q.held, q.prev)
      OBVIOUS
    <3>3. row.row /\ row.stamp = q.prev
      <4>1. store[p] \in Row /\ q.prev \in Nat /\ q.held \in Nat
        BY <1>1, <2>1, RowOf
      <4>2. PICK old \in Row, n \in Nat, m \in Nat : old = store[p] /\ n = q.held /\ m = q.prev
        BY <4>1
      <4>3. row = ReleasePasswordClaim(old, n, m)
        BY <3>2, <4>2
      <4>4. row.row = old.row /\ row.stamp = IF old.row /\ old.stamp = n THEN m ELSE old.stamp
        BY <4>3, Released
      <4> QED
        BY <3>1, <4>2, <4>4
    <3>4. store'[p] = row \/ (store'[p] \in {store[p], row} /\ doubt'[p])
      BY <1>1, <2>1, <2>6, <3>2, FailEffect
    <3>5. /\ q.prev # Null /\ ntfy[p].exists /\ ~doubt[p] => ntfy[p].pw = known[p]
          /\ kept[p] => q.prev # Null
      BY <1>1, <2>2, <2>6 DEF HolderInv, OpInv
    <3>6. RowInv(p)' /\ Known(p)'
      BY <1>1, <2>2, <3>1, <3>3, <3>4, <3>5 DEF RowInv, Known
    <3> QED
      BY <1>1, <2>1, <2>3, <2>4, <3>6, FreedPassword, MovesSpares
  <2> QED
    BY <2>5, <2>6
<1> QED
  BY <1>2, <1>3

LEMMA NextPassword ==
  ASSUME BaseInv, FreshInv, PasswordInv, [Next]_vars
  PROVE  PasswordInv'
<1>1. CASE Crash
  <2>1. UNCHANGED <<ntfy, store, known, kept>> /\ lock' = [p \in Persons |-> None]
        /\ doubt' = [p \in Persons |-> doubt[p] \/ lock[p] # None]
    BY <1>1 DEF Crash, extVars
  <2>2. ASSUME NEW p \in Persons PROVE RowInv(p)' /\ lock'[p] = None /\ Known(p)'
    BY <2>1 DEF PasswordInv, PersonInv, RowInv, Known
  <2> QED
    BY <2>2 DEF PasswordInv, PersonInv, RowInv, Known
<1>2. CASE Tick \/ UNCHANGED vars
  <2>1. UNCHANGED <<ntfy, store, known, kept, doubt, lock, req>>
    BY <1>2 DEF Tick, vars, extVars, procVars, histVars
  <2> QED
    BY <2>1 DEF PasswordInv, PersonInv, RowInv, Known, HolderInv, Given
<1>3. ASSUME NEW r \in Requests, Handle(r) \/ Step(r) PROVE PasswordInv'
  BY <1>3, FreeSteps, LockPassword, ClaimIfUnsetPassword, ReleaseLostPassword, AddUserPassword,
     HealPassword, ClaimUpdateOnlyPassword, ChangePasswordPassword, RecordPassword, GrantPassword,
     ResetPassword, ListPassword, RemovePassword, DualWritePassword, RemainingPassword,
     DeleteUserPassword, DeletePersonPassword, AnswerPassword, FailPassword DEF Step, TeardownStep
<1> QED
  BY <1>1, <1>2, <1>3 DEF Next, Finished

LEMMA InitPassword == Init => PasswordInv
<1> SUFFICES ASSUME Init, NEW p \in Persons PROVE PersonInv(p)
  BY DEF PasswordInv
<1>1. PICK f \in [Persons -> InitialPersons] :
        /\ ntfy = [x \in Persons |-> f[x].user]
        /\ store = [x \in Persons |-> f[x].row]
        /\ kept = [x \in Persons |-> f[x].kept]
  BY DEF Init
<1>2. PICK i \in InitialPersons : i = f[p]
  BY <1>1
<1>3. lock[p] = None /\ known[p] = 1
  BY DEF Init
<1>4. /\ ~i.row.row => i.row.stamp = Null
      /\ i.kept => i.user.exists /\ i.row.stamp # Null
      /\ i.user.exists => i.user.pw = 1
  BY FirstPerson
<1>5. ntfy[p] = i.user /\ store[p] = i.row /\ kept[p] = i.kept
  BY <1>1, <1>2
<1> QED
  BY <1>3, <1>4, <1>5 DEF PersonInv, RowInv, Known

LEMMA PasswordAlways == Spec => [](BaseInv /\ FreshInv /\ PasswordInv)
<1>1. Init => BaseInv /\ FreshInv /\ PasswordInv
  BY InitBase, InitFresh, InitPassword
<1>2. BaseInv /\ FreshInv /\ PasswordInv /\ [Next]_vars => (BaseInv /\ FreshInv /\ PasswordInv)'
  BY NextBase, NextFresh, NextPassword
<1> QED
  BY <1>1, <1>2, PTL DEF Spec

\* The state has its types: every request is in a phase of its operation and
\* names what that phase works on, every lock is held by a request that works
\* on that person.
THEOREM TypeCorrect == Spec => []BaseInv
BY PasswordAlways, PTL

\* Between requests a stamped person has a password that was given to them,
\* whichever of the calls of Provision, SetPassword and ResetPassword failed,
\* unless a release, a heal or the answer of a change was lost.
THEOREM StampKnown == Spec => []StampMeansKnown
<1>1. PasswordInv => StampMeansKnown
  BY DEF PasswordInv, PersonInv, Known, StampMeansKnown
<1> QED
  BY <1>1, PasswordAlways, PTL

\* The steps that leave every user with the password they have.
KeepsPasswords == \A x \in Persons : ntfy'[x].exists => ntfy'[x].pw = ntfy[x].pw

LEMMA CallKeeps ==
  ASSUME NEW r \in Requests, Calls(r), NEW p \in Persons, p = req[r].p,
         ntfy'[p].exists => ntfy'[p].pw = ntfy[p].pw
  PROVE  KeepsPasswords
BY DEF Calls, KeepsPasswords

LEMMA OthersKeepPasswords ==
  ASSUME BaseInv, NEW r \in Requests, Handle(r) \/ Step(r), ~AddUser(r), ~ChangePassword(r)
  PROVE  KeepsPasswords
<1>1. CASE UNCHANGED ntfy
  BY <1>1 DEF KeepsPasswords
<1>2. CASE GrantAccess(r) \/ AddToken(r) \/ ResetAccess(r) \/ RemoveToken(r) \/ DeleteUser(r)
  <2>1. PICK q \in Request, p \in Persons : q = req[r] /\ p = q.p /\ Calls(r)
    BY <1>2, GrantEffect, AddTokenEffect, ResetEffect, RemoveEffect, DeleteUserEffect, RequestOf
  <2>2. CASE GrantAccess(r) \/ ResetAccess(r)
    <3>1. PICK a \in Apps : a = q.a
      BY <2>1, <2>2, GrantEffect, ResetEffect
    <3>2. \/ ntfy'[p] = ntfy[p]
          \/ \E g \in {TopicPattern(a), BroadcastTopicPattern(a)} :
               ntfy'[p] \in {[ntfy[p] EXCEPT !.grants = ntfy[p].grants \cup {g}],
                             [ntfy[p] EXCEPT !.grants = ntfy[p].grants \ {g}]}
      BY <2>1, <2>2, <3>1, GrantEffect, ResetEffect DEF Outcome, Missing
    <3>3. ASSUME NEW g \in {TopicPattern(a), BroadcastTopicPattern(a)},
                 ntfy'[p] \in {[ntfy[p] EXCEPT !.grants = ntfy[p].grants \cup {g}],
                               [ntfy[p] EXCEPT !.grants = ntfy[p].grants \ {g}]}
          PROVE  ntfy'[p].pw = ntfy[p].pw
      <4>1. PICK v, w : /\ v = [ntfy[p] EXCEPT !.grants = ntfy[p].grants \cup {g}]
                        /\ w = [ntfy[p] EXCEPT !.grants = ntfy[p].grants \ {g}]
        OBVIOUS
      <4>2. g \in Grant
        BY TopicGrants
      <4>3. v.pw = ntfy[p].pw /\ w.pw = ntfy[p].pw
        BY <4>1, <4>2, GrantedUser
      <4> QED
        BY <3>3, <4>1, <4>3
    <3> QED
      BY <2>1, <3>2, <3>3, CallKeeps
  <2>3. CASE AddToken(r) \/ RemoveToken(r)
    <3>1. \/ ntfy'[p] = ntfy[p]
          \/ \E t \in Token :
               ntfy'[p] \in {[ntfy[p] EXCEPT !.tokens = ntfy[p].tokens \cup {t}],
                             [ntfy[p] EXCEPT !.tokens = ntfy[p].tokens \ {t}]}
      <4>1. CASE AddToken(r)
        <5>1. PICK t \in Token : t = <<q.a, q.n>>
          BY <2>1, <4>1, AddTokenEffect DEF Token, Request
        <5> QED
          BY <2>1, <4>1, <5>1, AddTokenEffect DEF Outcome
      <4>2. CASE RemoveToken(r)
        <5>1. PICK t \in q.toks : ntfy'[p] \in {ntfy[p], [ntfy[p] EXCEPT !.tokens = ntfy[p].tokens \ {t}]}
          BY <2>1, <4>2, RemoveEffect
        <5>2. t \in Token
          BY DEF Request
        <5> QED
          BY <5>1, <5>2
      <4> QED
        BY <2>3, <4>1, <4>2
    <3>2. ASSUME NEW t \in Token,
                 ntfy'[p] \in {[ntfy[p] EXCEPT !.tokens = ntfy[p].tokens \cup {t}],
                               [ntfy[p] EXCEPT !.tokens = ntfy[p].tokens \ {t}]}
          PROVE  ntfy'[p].pw = ntfy[p].pw
      <4>1. PICK v, w : /\ v = [ntfy[p] EXCEPT !.tokens = ntfy[p].tokens \cup {t}]
                        /\ w = [ntfy[p] EXCEPT !.tokens = ntfy[p].tokens \ {t}]
        OBVIOUS
      <4>2. v.pw = ntfy[p].pw /\ w.pw = ntfy[p].pw
        BY <4>1, TokenUser
      <4> QED
        BY <3>2, <4>1, <4>2
    <3> QED
      BY <2>1, <3>1, <3>2, CallKeeps
  <2>4. CASE DeleteUser(r)
    <3>1. ~NoUser.exists
      BY DEF NoUser
    <3>2. ntfy'[p] \in {ntfy[p], NoUser}
      BY <2>1, <2>4, DeleteUserEffect DEF Outcome
    <3> QED
      BY <2>1, <3>1, <3>2, CallKeeps
  <2> QED
    BY <1>2, <2>2, <2>3, <2>4
<1>3. UNCHANGED ntfy \/ GrantAccess(r) \/ AddToken(r) \/ ResetAccess(r) \/ RemoveToken(r) \/ DeleteUser(r)
  <2>1. CASE Handle(r)
    BY <2>1, BeginEffect DEF extVars
  <2>2. CASE Step(r)
    BY <2>2 DEF Step, LockPerson, checkAppGrant, Allow, ClaimSlot, ReleaseResetSlot, ClaimIfUnset,
       ReleaseLostClaim, healStaleStamp, ClaimUpdateOnly, recordStampAfterChange, ListTokens,
       dualWritePerson, GetRemaining, DeletePerson, ListUsers, DeprovisionNext, DeletePublisher,
       dualDeleteApp, Answer, Fail, extVars, storeUnchanged
  <2> QED
    BY <2>1, <2>2
<1> QED
  BY <1>1, <1>2, <1>3

LEMMA ChosenStep ==
  ASSUME BaseInv, PasswordInv, Next, NEW p \in Persons, kept[p], ntfy'[p].exists,
         ntfy'[p].pw # ntfy[p].pw
  PROVE  \E r \in Requests : lock[p] = r /\ req[r].op \in {"setPassword", "resetPassword"}
<1>1. ~UNCHANGED ntfy
  OBVIOUS
<1>2. PICK r \in Requests : Handle(r) \/ Step(r)
  BY <1>1 DEF Next, Crash, Tick, Finished, vars, extVars
<1>3. AddUser(r) \/ ChangePassword(r)
  BY <1>2, OthersKeepPasswords DEF KeepsPasswords
<1>4. Calls(r) /\ req[r].pc \in {"addUser", "change"}
  BY <1>3, AddUserEffect, ChangeEffect DEF Calls
<1>5. req[r].p = p
  BY <1>4 DEF Calls
<1>6. Holds(req[r])
  BY <1>4 DEF Holds, Locked
<1>7. PICK q \in Request : q = req[r] /\ OpInv(q) /\ HolderInv(p, q) /\ RowInv(p) /\ lock[p] = r
  BY <1>5, <1>6, HolderOf, RequestOf
<1>8. ntfy[p].exists /\ store[p].stamp # Null
  BY <1>7 DEF RowInv
<1>9. ~AddUser(r)
  BY <1>5, <1>8, AddUserEffect
<1>10. q.pc = "change"
  BY <1>3, <1>7, <1>9, ChangeEffect
<1>11. q.op \in Changes
  <2>1. q.held # Null
    BY <1>7, <1>8, <1>10 DEF HolderInv
  <2>2. q.op # "provision"
    BY <1>7, <2>1 DEF HolderInv
  <2> QED
    BY <1>7, <1>10, <2>2 DEF OpInv
<1> QED
  BY <1>7, <1>11 DEF Changes

\* A password that the person was given and that was stamped is replaced only
\* under the lock of SetPassword or ResetPassword, as long as the ntfy user
\* lives: no Provision rotates it, whatever failed, raced or crashed before.
THEOREM PasswordKept == Spec => ChosenPasswordIsKept
<1>1. BaseInv /\ PasswordInv /\ [Next]_vars =>
        [\A p \in Persons :
           (kept[p] /\ ntfy'[p].exists /\ ntfy'[p].pw # ntfy[p].pw)
             => \E r \in Requests : lock[p] = r /\ req[r].op \in {"setPassword", "resetPassword"}]_vars
  BY ChosenStep
<1> QED
  BY <1>1, PasswordAlways, PTL DEF Spec, ChosenPasswordIsKept
-----------------------------------------------------------------------------
(***************************************************************************)
(* Grants and tokens.                                                      *)
(***************************************************************************)

\* What the step of r does to users, as far as access is concerned.
Untouched(x) ==
  /\ ntfy'[x].exists = ntfy[x].exists /\ ntfy'[x].grants = ntfy[x].grants
  /\ ntfy'[x].tokens = ntfy[x].tokens
Touches(r) ==
  LET q == req[r]
      u == ntfy[q.p]
      v == ntfy'[q.p]
  IN \/ Untouched(q.p)
     \/ q.pc = "addUser" /\ ~u.exists /\ v.exists /\ v.grants = {} /\ v.tokens = {}
     \/ /\ q.pc \in {"grant", "broadcast"} /\ v.exists = u.exists /\ v.tokens = u.tokens
        /\ u.grants \subseteq v.grants
     \/ /\ q.pc \in {"reset", "resetBroadcast"} /\ v.exists = u.exists /\ v.tokens = u.tokens
        /\ v.grants \subseteq u.grants /\ \A g \in u.grants \ v.grants : g[1] = q.a
     \/ /\ q.pc = "addToken" /\ v.exists = u.exists /\ v.grants = u.grants
        /\ v.tokens = u.tokens \cup {<<q.a, q.n>>}
     \/ /\ q.pc = "remove" /\ v.exists = u.exists /\ v.grants = u.grants
        /\ \E t \in q.toks : v.tokens = u.tokens \ {t}
     \/ q.pc = "deleteUser" /\ ~v.exists /\ v.grants = {} /\ v.tokens = {}
Touching(r) ==
  /\ \A x \in Persons : x # req[r].p => Untouched(x)
  /\ req[r].p \in Persons => Touches(r)

\* Access to a is lost only to a removal, to the last-app deletion and to
\* another provisioning into a.
LEMMA KeepsAccess ==
  ASSUME BaseInv, AccessInv, NEW r \in Requests, Touching(r), NEW x \in Persons, NEW a \in Apps,
         Untaken(x, a), ntfy[x].exists, ~(req[r].pc = "deleteUser" /\ req[r].p = x),
         ~(Working(req[r]) /\ req[r].p = x /\ req[r].a = a)
  PROVE  /\ ntfy'[x].exists
         /\ TopicPattern(a) \in ntfy[x].grants => TopicPattern(a) \in ntfy'[x].grants
         /\ BroadcastTopicPattern(a) \in ntfy[x].grants => BroadcastTopicPattern(a) \in ntfy'[x].grants
         /\ TokensOf(ntfy'[x], a) = TokensOf(ntfy[x], a)
<1>1. CASE Untouched(x)
  BY <1>1 DEF Untouched, TokensOf
<1>2. CASE ~Untouched(x)
  <2>1. req[r].p = x /\ Touches(r)
    BY <1>2 DEF Touching
  <2>2. PICK q \in Request : q = req[r] /\ OpInv(q) /\ RemovalInv(q)
    BY RequestOf DEF AccessInv
  <2>3. ~Takes(q, x, a)
    BY <2>2 DEF Untaken
  <2>4. q.pc # "addUser" \/ ntfy[x].exists
    OBVIOUS
  <2>5. CASE q.pc \in {"grant", "broadcast"}
    BY <1>2, <2>1, <2>2, <2>5 DEF Touches, TokensOf
  <2>6. CASE q.pc \in {"reset", "resetBroadcast"}
    <3>1. q.a # a
      BY <2>1, <2>2, <2>3, <2>6 DEF OpInv, Takes
    <3>2. TopicPattern(a)[1] = a /\ BroadcastTopicPattern(a)[1] = a
      BY DEF TopicPattern, BroadcastTopicPattern
    <3> QED
      BY <1>2, <2>1, <2>2, <2>6, <3>1, <3>2 DEF Touches, TokensOf
  <2>7. CASE q.pc = "addToken"
    <3>1. q.a # a
      BY <2>1, <2>2, <2>7 DEF OpInv, Working
    <3>2. ntfy'[x].tokens = ntfy[x].tokens \cup {<<q.a, q.n>>}
          /\ ntfy'[x].exists = ntfy[x].exists /\ ntfy'[x].grants = ntfy[x].grants
      BY <1>2, <2>1, <2>2, <2>7 DEF Touches
    <3>3. <<q.a, q.n>>[1] # a
      BY <3>1
    <3> QED
      BY <3>2, <3>3 DEF TokensOf
  <2>8. CASE q.pc = "remove"
    <3>1. q.a # a
      BY <2>1, <2>2, <2>3, <2>8 DEF OpInv, Working, Takes
    <3>2. PICK t \in q.toks : ntfy'[x].tokens = ntfy[x].tokens \ {t}
      BY <1>2, <2>1, <2>2, <2>8 DEF Touches
    <3>3. ntfy'[x].exists = ntfy[x].exists /\ ntfy'[x].grants = ntfy[x].grants
      BY <1>2, <2>1, <2>2, <2>8 DEF Touches
    <3>4. t[1] # a
      BY <2>2, <2>8, <3>1 DEF RemovalInv
    <3> QED
      BY <3>2, <3>3, <3>4 DEF TokensOf
  <2> QED
    BY <1>2, <2>1, <2>2, <2>5, <2>6, <2>7, <2>8 DEF Touches
<1> QED
  BY <1>1, <1>2

LEMMA KeepsExists ==
  ASSUME NEW r \in Requests, Touching(r), NEW x \in Persons, ntfy[x].exists,
         ~(req[r].pc = "deleteUser" /\ req[r].p = x)
  PROVE  ntfy'[x].exists
BY DEF Touching, Touches, Untouched

\* The request of the step stays what it is, or ends.
Continues(r) ==
  LET q == req[r]
      s == req'[r]
  IN \/ s = IdleRequest
     \/ /\ s.op = q.op /\ s.a = q.a /\ (s.p = q.p \/ q.op = "deprovisionApp")
        /\ q.op = "provision" => s.raced = q.raced

LEMMA ContinuesTakes ==
  ASSUME NEW r \in Requests, Moves(r), Continues(r), NEW x, NEW a, Untaken(x, a)
  PROVE  Untaken(x, a)'
<1>1. ASSUME NEW o \in Requests PROVE ~Takes(req'[o], x, a)
  <2>1. CASE o = r
    BY <2>1, IdleType DEF Continues, Untaken, Takes
  <2>2. CASE o # r
    BY <2>2 DEF Moves, Untaken
  <2> QED
    BY <2>1, <2>2
<1> QED
  BY <1>1 DEF Untaken, Takes

\* The access of the other requests.
LEMMA OthersAccess ==
  ASSUME BaseInv, AccessInv, NEW r \in Requests, Moves(r), Touching(r), Continues(r),
         NEW o \in Requests, o # r, NEW k, k = req[o]
  PROVE  RaceInv(k)' /\ ProvisionInv(k)' /\ RemovalInv(k)'
<1>1. k \in Request /\ OpInv(k) /\ RaceInv(k) /\ ProvisionInv(k) /\ RemovalInv(k)
  BY RequestOf DEF AccessInv
<1>2. RaceInv(k)'
  <2>1. CASE k.op = "provision" /\ ~k.raced
    <3>1. PICK x, a : x = k.p /\ a = k.a /\ Untaken(x, a)
      BY <1>1, <2>1 DEF RaceInv
    <3>2. Untaken(x, a)'
      BY <3>1, ContinuesTakes
    <3> QED
      BY <3>1, <3>2 DEF RaceInv, Untaken
  <2>2. CASE ~(k.op = "provision" /\ ~k.raced)
    BY <2>2 DEF RaceInv
  <2> QED
    BY <2>1, <2>2
<1>3. ASSUME Holds(k) PROVE k.p \in Persons /\ lock[k.p] = o /\ ~(Holds(req[r]) /\ req[r].p = k.p)
  <2>1. lock[k.p] = o
    BY <1>3 DEF BaseInv, LockInv
  <2>2. k.p \in Persons
    BY <1>1, <1>3 DEF OpInv, Holds, Locked, Phase, Null
  <2>3. Holds(req[r]) => lock[req[r].p] = r
    BY DEF BaseInv, LockInv
  <2> QED
    BY <2>1, <2>2, <2>3
<1>4. req[r].pc = "deleteUser" \/ Working(req[r]) => Holds(req[r])
  <2>1. OpInv(req[r]) /\ req[r] \in Request
    BY RequestOf
  <2> QED
    BY <2>1 DEF OpInv, Holds, Working, Locked, Request, Phase, Changes, Removals
<1>5. ProvisionInv(k)'
  <2>1. CASE k.op = "provision" /\ k.pc \in Granting
    <3>1. Holds(k) /\ k.a \in Apps
      BY <1>1, <2>1 DEF Holds, Granting, Locked, OpInv
    <3>2. PICK x \in Persons, a \in Apps : x = k.p /\ a = k.a
      BY <1>3, <3>1
    <3>3. ~(req[r].pc = "deleteUser" /\ req[r].p = x) /\ ~(Working(req[r]) /\ req[r].p = x)
      BY <1>3, <1>4, <3>1, <3>2
    <3>4. ntfy[x].exists
      BY <1>1, <2>1, <3>2 DEF ProvisionInv
    <3>5. ntfy'[x].exists
      BY <3>3, <3>4, KeepsExists
    <3>6. CASE k.raced
      BY <3>2, <3>5, <3>6 DEF ProvisionInv
    <3>7. CASE ~k.raced
      <4>1. Untaken(x, a)
        BY <1>1, <2>1, <3>2, <3>7 DEF RaceInv
      <4>2. /\ TopicPattern(a) \in ntfy[x].grants => TopicPattern(a) \in ntfy'[x].grants
            /\ BroadcastTopicPattern(a) \in ntfy[x].grants => BroadcastTopicPattern(a) \in ntfy'[x].grants
            /\ TokensOf(ntfy'[x], a) = TokensOf(ntfy[x], a)
        BY <3>3, <3>4, <4>1, KeepsAccess
      <4> QED
        BY <1>1, <2>1, <3>2, <3>5, <3>7, <4>2 DEF ProvisionInv, TokensOf
    <3> QED
      BY <3>6, <3>7
  <2>2. CASE ~(k.op = "provision" /\ k.pc \in Granting)
    BY <2>2 DEF ProvisionInv, Granting
  <2> QED
    BY <2>1, <2>2
<1>6. RemovalInv(k)'
  <2>1. CASE k.pc = "deleteUser" /\ k.op # "deleteUser"
    <3>1. Holds(k)
      BY <2>1 DEF Holds, Locked
    <3>2. PICK x \in Persons : x = k.p /\ ntfy[x].grants = {}
      BY <1>1, <1>3, <2>1, <3>1 DEF RemovalInv
    <3>3. ~(Holds(req[r]) /\ req[r].p = x)
      BY <1>3, <3>1, <3>2
    <3>4. CASE Untouched(x)
      BY <2>1, <3>2, <3>4 DEF RemovalInv, Untouched
    <3>5. CASE ~Untouched(x)
      <4>1. req[r].p = x /\ Touches(r) /\ ~Holds(req[r])
        BY <3>3, <3>5 DEF Touching
      <4>2. ntfy'[x].grants = {}
        BY <3>2, <3>5, <4>1 DEF Touches, Untouched, Holds, Locked
      <4> QED
        BY <2>1, <3>2, <4>2 DEF RemovalInv
    <3> QED
      BY <3>4, <3>5
  <2>2. CASE ~(k.pc = "deleteUser" /\ k.op # "deleteUser")
    BY <1>1, <2>2 DEF RemovalInv
  <2> QED
    BY <2>1, <2>2
<1> QED
  BY <1>2, <1>5, <1>6

\* Who is served stays served.
LEMMA ServedStays ==
  ASSUME BaseInv, AccessInv, NEW r \in Requests, Moves(r), Touching(r), Continues(r), NEW z \in served,
         \/ ~Working(req'[r])
         \/ Working(req[r]) /\ req'[r].p = req[r].p /\ req'[r].a = req[r].a
         \/ <<req'[r].p, req'[r].a>> # <<z[1], z[2]>>
  PROVE  ServedInv(z)'
<1>1. PICK x \in Persons, a \in Apps : x = z[1] /\ a = z[2]
  BY RequestOf DEF TypeOK, HistTypeOK
<1>2. ServedInv(z) /\ Untaken(x, a) /\ Served(z)
  BY <1>1 DEF AccessInv, ServedInv
<1>3. Untaken(x, a)'
  BY <1>2, ContinuesTakes
<1>4. ~(Working(req[r]) /\ req[r].p = x /\ req[r].a = a)
  BY <1>1, <1>2 DEF ServedInv
<1>5. \A o \in Requests : Working(req'[o]) /\ req'[o].p = x => req'[o].a # a
  BY <1>1, <1>2, <1>4 DEF ServedInv, Moves
<1>6. ~(req[r].pc = "deleteUser" /\ req[r].p = x)
  <2> SUFFICES ASSUME req[r].pc = "deleteUser", req[r].p = x PROVE FALSE
    OBVIOUS
  <2>1. CASE req[r].op = "deleteUser"
    BY <1>2, <2>1 DEF Untaken, Takes
  <2>2. CASE req[r].op # "deleteUser"
    BY <1>1, <1>2, <2>2 DEF AccessInv, RemovalInv, Served
  <2> QED
    BY <2>1, <2>2
<1>7. /\ ntfy'[x].exists
      /\ TopicPattern(a) \in ntfy'[x].grants /\ BroadcastTopicPattern(a) \in ntfy'[x].grants
      /\ TokensOf(ntfy'[x], a) = TokensOf(ntfy[x], a)
  <2>1. ntfy[x].exists /\ TopicPattern(a) \in ntfy[x].grants /\ BroadcastTopicPattern(a) \in ntfy[x].grants
    BY <1>1, <1>2 DEF Served
  <2> QED
    BY <1>2, <1>4, <1>6, <2>1, KeepsAccess
<1>8. Served(z)'
  <2>1. TokensOf(ntfy[x], a) = {<<z[2], z[3]>>}
    BY <1>1, <1>2 DEF Served
  <2> QED
    BY <1>1, <1>7, <2>1 DEF Served, TokensOf
<1> QED
  BY <1>1, <1>3, <1>5, <1>8 DEF ServedInv, Working, Untaken

\* One step of a request.
LEMMA AccessStep ==
  ASSUME BaseInv, AccessInv, NEW r \in Requests, Moves(r), Touching(r), Continues(r),
         NEW s, s = req'[r], ProvisionInv(s)', RemovalInv(s)',
         \A z \in served' \ served : ServedInv(z)',
         \A z \in served' : ~Working(s) \/ Working(req[r]) \/ <<s.p, s.a>> # <<z[1], z[2]>>
  PROVE  AccessInv'
<1>1. ASSUME NEW z \in served' PROVE ServedInv(z)'
  <2>1. CASE z \notin served
    BY <2>1
  <2>2. CASE z \in served
    <3>1. Working(s) => s.p = req[r].p /\ s.a = req[r].a
      BY IdleType DEF Continues, Working
    <3> QED
      BY <2>2, <3>1, ServedStays
  <2> QED
    BY <2>1, <2>2
<1>2. ASSUME NEW o \in Requests, o # r
      PROVE  (RaceInv(req[o]) /\ ProvisionInv(req[o]) /\ RemovalInv(req[o]))'
  <2>1. PICK k : k = req[o] /\ k = req'[o]
    BY <1>2 DEF Moves
  <2>2. RaceInv(k)' /\ ProvisionInv(k)' /\ RemovalInv(k)'
    BY <1>2, <2>1, OthersAccess
  <2> QED
    BY <2>1, <2>2 DEF RaceInv, ProvisionInv, RemovalInv
<1>3. RaceInv(s)'
  <2>1. CASE s.op = "provision" /\ ~s.raced
    <3>1. RaceInv(req[r]) /\ req[r].op = "provision" /\ ~req[r].raced /\ s.p = req[r].p /\ s.a = req[r].a
      BY <2>1, IdleType DEF AccessInv, Continues
    <3>2. PICK x, a : x = s.p /\ a = s.a /\ Untaken(x, a)
      BY <3>1 DEF RaceInv
    <3>3. Untaken(x, a)'
      BY <3>2, ContinuesTakes
    <3> QED
      BY <3>2, <3>3 DEF RaceInv, Untaken
  <2>2. CASE ~(s.op = "provision" /\ ~s.raced)
    BY <2>2 DEF RaceInv
  <2> QED
    BY <2>1, <2>2
<1>4. (RaceInv(req[r]) /\ ProvisionInv(req[r]) /\ RemovalInv(req[r]))'
  BY <1>3 DEF RaceInv, ProvisionInv, RemovalInv
<1>5. ASSUME NEW o \in Requests PROVE (RaceInv(req[o]) /\ ProvisionInv(req[o]) /\ RemovalInv(req[o]))'
  BY <1>2, <1>4
<1>6. (\A z \in served : ServedInv(z))'
  BY <1>1
<1> QED
  BY <1>5, <1>6 DEF AccessInv

LEMMA QuietTouching == ASSUME NEW r \in Requests, UNCHANGED ntfy PROVE Touching(r)
BY DEF Touching, Touches, Untouched

LEMMA AdvanceContinues == ASSUME NEW r \in Requests, NEW pc, Advances(r, pc) PROVE Continues(r) /\ Moves(r)
BY DEF Advances, Alike, Continues

LEMMA ProceedContinues ==
  ASSUME NEW r \in Requests, NEW pc, NEW held, NEW prev, NEW row, NEW usable,
         Proceeds(r, pc, held, prev, row, usable)
  PROVE  Continues(r) /\ Moves(r) /\ req'[r].pc = pc
BY DEF Proceeds, Continues

\* A step that leaves the users alone and enters no phase that depends on them.
LEMMA PlainAccess ==
  ASSUME BaseInv, AccessInv, NEW r \in Requests, Moves(r), Continues(r), UNCHANGED <<ntfy, served>>,
         req'[r].pc \notin {"remove", "deleteUser"},
         req'[r].op # "provision" \/ req'[r].pc \notin Granting,
         Working(req'[r]) => Working(req[r])
  PROVE  AccessInv'
<1>1. PICK s : s = req'[r]
  OBVIOUS
<1>2. ProvisionInv(s)' /\ RemovalInv(s)'
  BY <1>1 DEF ProvisionInv, RemovalInv, Granting
<1> QED
  BY <1>1, <1>2, QuietTouching, AccessStep

LEMMA PlainSteps ==
  ASSUME BaseInv, AccessInv, NEW r \in Requests,
         \/ checkAppGrant(r) \/ Allow(r) \/ ClaimSlot(r) \/ ReleaseResetSlot(r) \/ TeardownStep(r)
         \/ DeletePerson(r) \/ Fail(r)
  PROVE  AccessInv'
<1>1. RequestTypeOK /\ OpInv(req[r])
  BY RequestOf
<1>2. UNCHANGED <<ntfy, served>>
  BY TeardownEffect, DeletePersonEffect, FailEffect
     DEF checkAppGrant, Allow, ClaimSlot, ReleaseResetSlot, extVars, histVars
<1>3. /\ Continues(r) /\ Moves(r)
      /\ req'[r] = IdleRequest \/ (req'[r].op # "provision" /\ req'[r].pc \notin {"remove", "deleteUser"})
         \/ req'[r].pc = "giveBack"
  <2>1. CASE checkAppGrant(r)
    <3>1. PICK pc \in {"lock", "slot", "reset", "answer", "fail"} : Goto(r, pc)
      BY <1>1, <2>1 DEF checkAppGrant, At, AfterCheck
    <3>2. Advances(r, pc) /\ req[r].op # "provision"
      BY <1>1, <2>1, <3>1, GotoAdvances DEF checkAppGrant, At, Phase, OpInv, Changes
    <3> QED
      BY <3>1, <3>2, AdvanceContinues DEF Advances, Alike
  <2>2. CASE Allow(r)
    <3>1. PICK pc \in {"check", "fail"} : Goto(r, pc)
      BY <2>2 DEF Allow
    <3>2. Advances(r, pc) /\ req[r].op # "provision"
      BY <1>1, <2>2, <3>1, GotoAdvances DEF Allow, At, Phase, OpInv
    <3> QED
      BY <3>1, <3>2, AdvanceContinues DEF Advances, Alike
  <2>3. CASE ClaimSlot(r)
    <3>1. req[r].op = "resetPassword"
      BY <1>1, <2>3 DEF ClaimSlot, At, OpInv
    <3> QED
      BY <2>3, <3>1, ClaimSlotMoves DEF Continues
  <2>4. CASE ReleaseResetSlot(r)
    BY <1>1, <2>4, EndMoves DEF ReleaseResetSlot, Continues
  <2>5. CASE TeardownStep(r)
    BY <2>5, TeardownEffect DEF Continues
  <2>6. CASE DeletePerson(r)
    <3>1. PICK pc \in {"answer", "fail"} : Advances(r, pc)
      BY <2>6, DeletePersonEffect
    <3>2. req[r].op # "provision"
      BY <2>6, DeletePersonEffect DEF Removals
    <3> QED
      BY <3>1, <3>2, AdvanceContinues DEF Advances, Alike
  <2>7. CASE Fail(r)
    BY <2>7, FailEffect, AdvanceContinues DEF Continues, Advances, Alike
  <2> QED
    BY <2>1, <2>2, <2>3, <2>4, <2>5, <2>6, <2>7
<1>4. req'[r].op # "provision" \/ req'[r].pc = "giveBack"
  BY <1>3, IdleType
<1>5. ~Working(req'[r])
  <2>1. CASE Fail(r) /\ req'[r].pc = "giveBack"
    <3>1. OpInv(req'[r])
      BY <2>1, FailBase DEF BaseInv, OpInv
    <3> QED
      BY <2>1, <3>1 DEF OpInv, Working
  <2>2. CASE req'[r].op # "provision"
    BY <2>2 DEF Working
  <2>3. CASE ~Fail(r)
    <3>1. BaseInv'
      BY StepBase, <2>3 DEF Step, TeardownStep
    <3>2. OpInv(req'[r])
      BY <3>1 DEF BaseInv, OpInv
    <3> QED
      BY <1>4, <3>2 DEF OpInv, Working
  <2> QED
    BY <1>4, <2>1, <2>2, <2>3
<1>6. req'[r].pc \notin {"remove", "deleteUser"} /\ (req'[r].op # "provision" \/ req'[r].pc \notin Granting)
  BY <1>3, IdleType DEF Granting
<1> QED
  BY <1>2, <1>3, <1>5, <1>6, PlainAccess

LEMMA StampAccess ==
  ASSUME BaseInv, AccessInv, NEW r \in Requests,
         ClaimIfUnset(r) \/ ReleaseLostClaim(r) \/ ClaimUpdateOnly(r) \/ recordStampAfterChange(r)
  PROVE  AccessInv'
<1>1. UNCHANGED <<ntfy, served>>
  BY DEF ClaimIfUnset, ReleaseLostClaim, ClaimUpdateOnly, recordStampAfterChange, storeUnchanged
<1>2. OpInv(req[r])
  BY RequestOf
<1>3. CASE ClaimIfUnset(r)
  <2>1. Moves(r) /\ Continues(r) /\ req'[r].pc \in {"addUser", "releaseLost"}
    BY <1>3, ClaimIfUnsetEffect, ProceedContinues, AdvanceContinues DEF Advances
  <2>2. Working(req[r])
    BY <1>3, ClaimIfUnsetEffect DEF Working
  <2> QED
    BY <1>1, <2>1, <2>2, PlainAccess DEF Granting
<1>4. CASE ReleaseLostClaim(r)
  <2>1. Moves(r) /\ Continues(r) /\ req'[r].pc = "addUser"
    BY <1>4, ReleaseLostEffect, AdvanceContinues DEF Advances
  <2>2. Working(req[r])
    BY <1>2, <1>4, ReleaseLostEffect DEF OpInv, Working
  <2> QED
    BY <1>1, <2>1, <2>2, PlainAccess DEF Granting
<1>5. CASE ClaimUpdateOnly(r) \/ recordStampAfterChange(r)
  <2>1. req[r].op \in Changes
    BY <1>5, ClaimUpdateOnlyEffect, RecordEffect
  <2>2. Moves(r) /\ Continues(r) /\ req'[r].pc \in {"change", "fail", "answer"} /\ req'[r].op = req[r].op
    BY <1>5, ClaimUpdateOnlyEffect, RecordEffect, ProceedContinues, AdvanceContinues
       DEF Advances, Alike, Proceeds
  <2>3. req'[r].op # "provision" /\ ~Working(req'[r])
    BY <2>1, <2>2 DEF Changes, Working
  <2> QED
    BY <1>1, <2>2, <2>3, PlainAccess
<1> QED
  BY <1>3, <1>4, <1>5

\* A step that leaves the users alone.
LEMMA QuietAccess ==
  ASSUME BaseInv, AccessInv, NEW r \in Requests, Moves(r), Continues(r), UNCHANGED <<ntfy, served>>,
         NEW s, s = req'[r], ProvisionInv(s)', RemovalInv(s)', Working(s) => Working(req[r])
  PROVE  AccessInv'
BY QuietTouching, AccessStep

LEMMA RemainingAccess ==
  ASSUME BaseInv, AccessInv, NEW r \in Requests, GetRemaining(r)
  PROVE  AccessInv'
<1>1. PICK q \in Request, p \in Persons :
        q = req[r] /\ p = q.p /\ q.op \in {"deprovision", "deprovisionApp"} /\ UNCHANGED <<ntfy, served>>
  BY RemainingEffect, RequestOf DEF extVars, histVars
<1>2. PICK s : /\ s = req'[r] /\ Moves(r) /\ Continues(r) /\ Alike(q, s)
               /\ (s.pc = "deleteUser" /\ ntfy[p].grants = {}) \/ s.pc \in {"answer", "fail"}
  BY <1>1, RemainingEffect, AdvanceContinues DEF Advances
<1>3. ProvisionInv(s)' /\ RemovalInv(s)' /\ ~Working(s)
  BY <1>1, <1>2 DEF ProvisionInv, RemovalInv, Working, Alike
<1> QED
  BY <1>1, <1>2, <1>3, QuietAccess

LEMMA HealAccess ==
  ASSUME BaseInv, PasswordInv, AccessInv, NEW r \in Requests, healStaleStamp(r)
  PROVE  AccessInv'
<1>1. UNCHANGED <<ntfy, served>>
  BY DEF healStaleStamp, storeUnchanged
<1>2. Holds(req[r])
  BY HealEffect DEF Holds, Locked
<1>3. PICK q \in Request, p \in Persons : q = req[r] /\ p = q.p /\ HolderInv(p, q) /\ q.pc = "heal"
                                          /\ q.op = "provision"
  BY <1>2, HealEffect, HolderOf, RequestOf
<1>4. ntfy[p].exists /\ Working(q)
  BY <1>3 DEF HolderInv, Working
<1>5. PICK s : /\ s = req'[r] /\ Moves(r) /\ Continues(r) /\ s.pc \in {"change", "grant"} /\ s.p = q.p
  BY <1>3, HealEffect, ProceedContinues, AdvanceContinues DEF Proceeds, Advances, Alike
<1>6. ProvisionInv(s)' /\ RemovalInv(s)'
  BY <1>1, <1>3, <1>4, <1>5 DEF ProvisionInv, RemovalInv, Granting
<1> QED
  BY <1>1, <1>3, <1>4, <1>5, <1>6, QuietAccess

LEMMA SelectContinues ==
  ASSUME NEW r \in Requests, NEW pc, NEW toks, Selects(r, pc, toks)
  PROVE  Continues(r) /\ Moves(r)
BY DEF Selects, Continues

LEMMA ListAccess ==
  ASSUME BaseInv, AccessInv, NEW r \in Requests, ListTokens(r)
  PROVE  AccessInv'
<1>1. PICK q \in Request, p \in Persons, a \in Apps :
        /\ q = req[r] /\ p = q.p /\ a = q.a /\ UNCHANGED <<ntfy, served>> /\ q.pc = "list"
        /\ ProvisionInv(q)
  BY ListEffect, RequestOf DEF extVars, histVars, AccessInv
<1>2. PICK s : /\ s = req'[r] /\ Moves(r) /\ Continues(r) /\ s.op = q.op /\ s.p = p /\ s.a = a
               /\ s.raced = q.raced
               /\ \/ s.pc \in {"addToken", "lock"} /\ TokensOf(ntfy[p], a) = {}
                  \/ s.pc = "remove" /\ s.toks = TokensOf(ntfy[p], a)
                  \/ s.pc = "fail"
  BY <1>1, ListEffect, SelectContinues, AdvanceContinues DEF Selects, Advances, Alike, AfterTokens
<1>3. \A t \in TokensOf(ntfy[p], a) : t[1] = a
  BY DEF TokensOf
<1>4. RemovalInv(s)'
  BY <1>2, <1>3 DEF RemovalInv
<1>5. ProvisionInv(s)'
  BY <1>1, <1>2 DEF ProvisionInv, Granting
<1>6. Working(s) => Working(q)
  BY <1>1, <1>2 DEF Working
<1> QED
  BY <1>1, <1>2, <1>4, <1>5, <1>6, QuietAccess

LEMMA DualWriteAccess ==
  ASSUME BaseInv, AccessInv, NEW r \in Requests, dualWritePerson(r)
  PROVE  AccessInv'
<1>1. UNCHANGED <<ntfy, served>>
  BY DEF dualWritePerson, storeUnchanged
<1>2. PICK q \in Request : q = req[r] /\ q.pc = "upsert" /\ q.op = "provision" /\ ProvisionInv(q)
  BY DualWriteEffect, RequestOf DEF AccessInv
<1>3. PICK s : s = req'[r] /\ Moves(r) /\ Continues(r) /\ s.pc = "answer" /\ Alike(q, s) /\ s.raced = q.raced
  BY <1>2, DualWriteEffect, AdvanceContinues DEF Advances
<1>4. ProvisionInv(s)' /\ RemovalInv(s)'
  BY <1>1, <1>2, <1>3 DEF ProvisionInv, RemovalInv, Granting, Alike
<1> QED
  BY <1>1, <1>2, <1>3, <1>4, QuietAccess DEF Working

LEMMA LockAccess ==
  ASSUME BaseInv, AccessInv, NEW r \in Requests, LockPerson(r)
  PROVE  AccessInv'
<1>1. PICK q \in Request : q = req[r] /\ UNCHANGED ntfy
  BY LockEffect, RequestOf DEF extVars
<1>2. PICK s : /\ s = req'[r] /\ Moves(r) /\ Continues(r) /\ Alike(q, s)
               /\ s.pc \in {"claim", "last", "deleteUser"} /\ (s.pc = "deleteUser" => s.op = "deleteUser")
  BY <1>1, LockEffect, AdvanceContinues DEF Advances, Alike
<1>3. ProvisionInv(s)' /\ RemovalInv(s)'
  BY <1>2 DEF ProvisionInv, RemovalInv, Granting
<1>4. served' \subseteq served
  BY LockEffect
<1>5. ASSUME NEW z \in served' PROVE ~Working(s) \/ <<s.p, s.a>> # <<z[1], z[2]>>
  BY <1>1, <1>2, LockEffect DEF Working, Alike
<1> QED
  BY <1>1, <1>2, <1>3, <1>4, <1>5, QuietTouching, AccessStep

\* A call on the request's user.
LEMMA CallAccess ==
  ASSUME BaseInv, AccessInv, NEW r \in Requests, Moves(r), Continues(r), Calls(r), Touches(r),
         NEW s, s = req'[r], ProvisionInv(s)', RemovalInv(s)', Working(s) => Working(req[r])
  PROVE  AccessInv'
<1>1. UNCHANGED served
  BY DEF Calls, cliUnchanged
<1>2. Touching(r)
  BY DEF Calls, Touching, Untouched
<1> QED
  BY <1>1, <1>2, AccessStep

LEMMA AddUserAccess ==
  ASSUME BaseInv, AccessInv, NEW r \in Requests, AddUser(r)
  PROVE  AccessInv'
<1>1. PICK q \in Request, p \in Persons : q = req[r] /\ p = q.p /\ q.pc = "addUser" /\ OpInv(q) /\ Calls(r)
  BY AddUserEffect, RequestOf DEF Calls
<1>2. PICK v : v = NewUser(q) /\ v.exists /\ v.grants = {} /\ v.tokens = {}
  BY NewUserType
<1>3. PICK s : /\ s = req'[r] /\ Moves(r) /\ Continues(r) /\ Alike(q, s)
               /\ \/ s.pc = "fail"
                  \/ s.pc \in {"change", "heal", "grant"} /\ ntfy'[p].exists
  BY <1>1, <1>2, AddUserEffect, AdvanceContinues DEF Advances
<1>4. Touches(r)
  <2>1. ntfy'[p] = ntfy[p] \/ (~ntfy[p].exists /\ ntfy'[p] = v)
    BY <1>1, <1>2, AddUserEffect
  <2> QED
    BY <1>1, <1>2, <2>1 DEF Touches, Untouched
<1>5. ProvisionInv(s)' /\ RemovalInv(s)'
  BY <1>1, <1>3 DEF ProvisionInv, RemovalInv, Granting, Alike
<1>6. Working(q)
  BY <1>1 DEF OpInv, Working
<1> QED
  BY <1>1, <1>3, <1>4, <1>5, <1>6, CallAccess

LEMMA ChangeAccess ==
  ASSUME BaseInv, AccessInv, NEW r \in Requests, ChangePassword(r)
  PROVE  AccessInv'
<1>1. PICK q \in Request, p \in Persons : q = req[r] /\ p = q.p /\ q.pc = "change" /\ OpInv(q) /\ Calls(r)
  BY ChangeEffect, RequestOf
<1>2. PICK v : v = [ntfy[p] EXCEPT !.pw = q.n]
  OBVIOUS
<1>3. v.exists = ntfy[p].exists /\ v.grants = ntfy[p].grants /\ v.tokens = ntfy[p].tokens
  BY <1>2, PasswordUser
<1>4. /\ ntfy'[p] = ntfy[p] \/ ntfy'[p] = v
      /\ \/ Advances(r, "fail")
         \/ q.op = "provision" /\ ntfy[p].exists /\ Advances(r, "grant")
         \/ q.op # "provision" /\ Advances(r, "answer")
         \/ q.op # "provision" /\ Advances(r, "record")
  BY <1>1, <1>2, ChangeEffect DEF Outcome, Missing
<1>5. Untouched(p)
  BY <1>3, <1>4 DEF Untouched
<1>6. PICK s : /\ s = req'[r] /\ Moves(r) /\ Continues(r) /\ Alike(q, s)
               /\ \/ s.pc = "fail"
                  \/ q.op = "provision" /\ ntfy[p].exists /\ s.pc = "grant"
                  \/ q.op # "provision" /\ s.pc \in {"answer", "record"}
  BY <1>1, <1>4, AdvanceContinues DEF Advances
<1>7. ProvisionInv(s)' /\ RemovalInv(s)'
  BY <1>1, <1>5, <1>6 DEF ProvisionInv, RemovalInv, Granting, Alike, Untouched
<1>8. Working(s) => Working(q)
  BY <1>1, <1>6 DEF Working, Alike
<1>9. Touches(r)
  BY <1>1, <1>5 DEF Touches
<1> QED
  BY <1>1, <1>6, <1>7, <1>8, <1>9, CallAccess

LEMMA GrantAccessAccess ==
  ASSUME BaseInv, AccessInv, NEW r \in Requests, GrantAccess(r)
  PROVE  AccessInv'
<1>1. PICK q \in Request, p \in Persons, a \in Apps :
        /\ q = req[r] /\ p = q.p /\ a = q.a /\ q.op = "provision" /\ q.pc \in {"grant", "broadcast"}
        /\ Calls(r) /\ ProvisionInv(q)
  BY GrantEffect, RequestOf DEF AccessInv
<1>2. PICK g \in Grant : /\ q.pc = "grant" => g = TopicPattern(a)
                         /\ q.pc = "broadcast" => g = BroadcastTopicPattern(a)
  BY <1>1, TopicGrants
<1>3. PICK v, w : /\ v = [ntfy[p] EXCEPT !.grants = ntfy[p].grants \cup {g}]
                  /\ w = [ntfy[p] EXCEPT !.grants = ntfy[p].grants \ {g}]
  OBVIOUS
<1>4. /\ v.exists = ntfy[p].exists /\ v.tokens = ntfy[p].tokens
      /\ v.grants = ntfy[p].grants \cup {g}
  BY <1>3, GrantedUser
<1>5. \/ Advances(r, "fail") /\ (ntfy'[p] = ntfy[p] \/ ntfy'[p] = v)
      \/ q.pc = "grant" /\ Advances(r, "broadcast") /\ ntfy'[p] = v
      \/ q.pc = "broadcast" /\ Advances(r, "list") /\ ntfy'[p] = v
  BY <1>1, <1>2, <1>3, GrantEffect DEF Outcome
<1>6. Touches(r)
  BY <1>1, <1>4, <1>5 DEF Touches, Untouched
<1>7. PICK s : /\ s = req'[r] /\ Moves(r) /\ Continues(r) /\ Alike(q, s) /\ s.raced = q.raced
               /\ \/ s.pc = "fail"
                  \/ q.pc = "grant" /\ s.pc = "broadcast" /\ ntfy'[p] = v
                  \/ q.pc = "broadcast" /\ s.pc = "list" /\ ntfy'[p] = v
  BY <1>1, <1>5, AdvanceContinues DEF Advances
<1>8. ProvisionInv(s)' /\ RemovalInv(s)'
  BY <1>1, <1>2, <1>4, <1>7 DEF ProvisionInv, RemovalInv, Granting, Alike
<1>9. Working(q)
  BY <1>1 DEF Working
<1> QED
  BY <1>1, <1>6, <1>7, <1>8, <1>9, CallAccess

LEMMA ResetAccessAccess ==
  ASSUME BaseInv, AccessInv, NEW r \in Requests, ResetAccess(r)
  PROVE  AccessInv'
<1>1. PICK q \in Request, p \in Persons, a \in Apps :
        /\ q = req[r] /\ p = q.p /\ a = q.a /\ q.op \in {"deprovision", "deprovisionApp"}
        /\ q.pc \in {"reset", "resetBroadcast"} /\ Calls(r)
  BY ResetEffect, RequestOf
<1>2. PICK g \in Grant : /\ g[1] = a
                         /\ q.pc = "reset" => g = TopicPattern(a)
                         /\ q.pc = "resetBroadcast" => g = BroadcastTopicPattern(a)
  <2>1. TopicPattern(a)[1] = a /\ BroadcastTopicPattern(a)[1] = a
    BY DEF TopicPattern, BroadcastTopicPattern
  <2> QED
    BY <1>1, <2>1, TopicGrants
<1>3. PICK v, w : /\ v = [ntfy[p] EXCEPT !.grants = ntfy[p].grants \cup {g}]
                  /\ w = [ntfy[p] EXCEPT !.grants = ntfy[p].grants \ {g}]
  OBVIOUS
<1>4. /\ w.exists = ntfy[p].exists /\ w.tokens = ntfy[p].tokens
      /\ w.grants = ntfy[p].grants \ {g}
  BY <1>3, GrantedUser
<1>5. /\ ntfy'[p] = ntfy[p] \/ ntfy'[p] = w
      /\ Advances(r, "fail") \/ Advances(r, "resetBroadcast") \/ Advances(r, "list")
  <2>1. Outcome(r, w, "resetBroadcast") \/ Outcome(r, w, "list") \/ Missing(r)
    <3>1. CASE q.pc = "reset"
      BY <1>1, <1>2, <1>3, <3>1, ResetEffect
    <3>2. CASE q.pc = "resetBroadcast"
      BY <1>1, <1>2, <1>3, <3>2, ResetEffect
    <3> QED
      BY <1>1, <3>1, <3>2
  <2> QED
    BY <1>1, <2>1 DEF Outcome, Missing
<1>6. Touches(r)
  BY <1>1, <1>2, <1>4, <1>5 DEF Touches, Untouched
<1>7. PICK s : /\ s = req'[r] /\ Moves(r) /\ Continues(r) /\ Alike(q, s)
               /\ s.pc \in {"fail", "resetBroadcast", "list"}
  BY <1>1, <1>5, AdvanceContinues DEF Advances
<1>8. ProvisionInv(s)' /\ RemovalInv(s)' /\ ~Working(s)
  BY <1>1, <1>7 DEF ProvisionInv, RemovalInv, Alike, Working
<1> QED
  BY <1>1, <1>6, <1>7, <1>8, CallAccess

LEMMA AddTokenAccess ==
  ASSUME BaseInv, AccessInv, NEW r \in Requests, AddToken(r)
  PROVE  AccessInv'
<1>1. PICK q \in Request, p \in Persons, a \in Apps :
        /\ q = req[r] /\ p = q.p /\ a = q.a /\ q.op = "provision" /\ q.pc = "addToken"
        /\ Calls(r) /\ ProvisionInv(q) /\ q.n \in Nat
  BY AddTokenEffect, RequestOf DEF AccessInv, Request
<1>2. PICK t \in Token : t = <<a, q.n>> /\ t[1] = a
  <2>1. <<a, q.n>> \in Token /\ <<a, q.n>>[1] = a
    BY <1>1 DEF Token
  <2> QED
    BY <2>1
<1>3. PICK v, w : /\ v = [ntfy[p] EXCEPT !.tokens = ntfy[p].tokens \cup {t}]
                  /\ w = [ntfy[p] EXCEPT !.tokens = ntfy[p].tokens \ {t}]
  OBVIOUS
<1>4. /\ v.exists = ntfy[p].exists /\ v.grants = ntfy[p].grants
      /\ v.tokens = ntfy[p].tokens \cup {t}
  BY <1>3, TokenUser
<1>5. \/ Advances(r, "fail") /\ (ntfy'[p] = ntfy[p] \/ ntfy'[p] = v)
      \/ Advances(r, "upsert") /\ ntfy'[p] = v
  <2>1. Outcome(r, v, "upsert")
    BY <1>1, <1>2, <1>3, AddTokenEffect
  <2> QED
    BY <1>1, <2>1 DEF Outcome
<1>6. Touches(r)
  BY <1>1, <1>2, <1>4, <1>5 DEF Touches, Untouched
<1>7. PICK s : /\ s = req'[r] /\ Moves(r) /\ Continues(r) /\ Alike(q, s) /\ s.raced = q.raced
               /\ s.pc = "fail" \/ (s.pc = "upsert" /\ ntfy'[p] = v)
  BY <1>1, <1>5, AdvanceContinues DEF Advances
<1>8. TokensOf(ntfy[p], a) = {} => TokensOf(v, a) = {t}
  BY <1>2, <1>4 DEF TokensOf
<1>9. ProvisionInv(s)' /\ RemovalInv(s)'
  <2>1. CASE s.pc = "fail"
    BY <2>1 DEF ProvisionInv, RemovalInv, Granting
  <2>2. CASE s.pc = "upsert"
    <3>1. ntfy'[p] = v /\ s.op = "provision" /\ s.p = p /\ s.a = a /\ s.n = q.n
      BY <1>1, <1>7, <2>2 DEF Alike
    <3>2. /\ v.exists
          /\ ~s.raced => /\ TopicPattern(a) \in v.grants /\ BroadcastTopicPattern(a) \in v.grants
                         /\ TokensOf(v, a) = {<<a, q.n>>}
      BY <1>1, <1>2, <1>4, <1>7, <1>8 DEF ProvisionInv, Granting
    <3> QED
      BY <2>2, <3>1, <3>2 DEF ProvisionInv, RemovalInv, TokensOf
  <2> QED
    BY <1>7, <2>1, <2>2
<1>10. Working(q)
  BY <1>1 DEF Working
<1> QED
  BY <1>1, <1>6, <1>7, <1>9, <1>10, CallAccess

LEMMA RemoveAccess ==
  ASSUME BaseInv, AccessInv, NEW r \in Requests, RemoveToken(r)
  PROVE  AccessInv'
<1>1. PICK q \in Request, p \in Persons, a \in Apps :
        /\ q = req[r] /\ p = q.p /\ a = q.a /\ q.pc = "remove" /\ q.toks \in SUBSET Token
        /\ q.op \in {"provision", "deprovision", "deprovisionApp"}
        /\ Calls(r) /\ ProvisionInv(q) /\ RemovalInv(q)
  BY RemoveEffect, RequestOf DEF AccessInv, Request
<1>2. PICK t \in q.toks :
        \/ /\ ntfy'[p] = [ntfy[p] EXCEPT !.tokens = ntfy[p].tokens \ {t}]
           /\ \/ q.toks = {t} /\ Selects(r, AfterTokens(q.op), q.toks \ {t})
              \/ q.toks # {t} /\ Selects(r, "remove", q.toks \ {t})
        \/ /\ Advances(r, "fail")
           /\ ntfy'[p] \in {ntfy[p], [ntfy[p] EXCEPT !.tokens = ntfy[p].tokens \ {t}]}
  BY <1>1, RemoveEffect
<1>3. PICK v, w : /\ v = [ntfy[p] EXCEPT !.tokens = ntfy[p].tokens \cup {t}]
                  /\ w = [ntfy[p] EXCEPT !.tokens = ntfy[p].tokens \ {t}]
  OBVIOUS
<1>4. w.exists = ntfy[p].exists /\ w.grants = ntfy[p].grants /\ w.tokens = ntfy[p].tokens \ {t}
  <2>1. t \in Token
    BY <1>1
  <2> QED
    BY <1>3, <2>1, TokenUser
<1>5. PICK s : /\ s = req'[r] /\ Moves(r) /\ Continues(r) /\ s.op = q.op /\ s.p = p /\ s.a = a
               /\ s.raced = q.raced
               /\ \/ /\ ntfy'[p] = w
                     /\ \/ q.toks = {t} /\ s.pc = AfterTokens(q.op)
                        \/ s.pc = "remove" /\ s.toks = q.toks \ {t}
                  \/ s.pc = "fail" /\ ntfy'[p] \in {ntfy[p], w}
  BY <1>1, <1>2, <1>3, SelectContinues, AdvanceContinues DEF Selects, Advances, Alike
<1>6. Touches(r)
  BY <1>1, <1>4, <1>5 DEF Touches, Untouched
<1>7. TokensOf(w, a) = TokensOf(ntfy[p], a) \ {t}
  BY <1>4 DEF TokensOf
<1>8. RemovalInv(s)'
  <2>1. s.pc = "remove" => \A k \in s.toks : k[1] = s.a
    BY <1>1, <1>5 DEF RemovalInv, AfterTokens
  <2>2. s.pc # "deleteUser"
    BY <1>5 DEF AfterTokens
  <2> QED
    BY <2>1, <2>2 DEF RemovalInv
<1>9. ProvisionInv(s)'
  <2>1. CASE s.pc = "fail" \/ s.op # "provision"
    BY <2>1 DEF ProvisionInv, Granting
  <2>2. CASE s.pc # "fail" /\ s.op = "provision"
    <3>1. /\ ntfy'[p] = w
          /\ (q.toks = {t} /\ s.pc = "addToken") \/ (s.pc = "remove" /\ s.toks = q.toks \ {t})
      BY <1>5, <2>2 DEF AfterTokens
    <3>2. /\ w.exists
          /\ ~s.raced => /\ TopicPattern(a) \in w.grants /\ BroadcastTopicPattern(a) \in w.grants
                         /\ TokensOf(ntfy[p], a) \subseteq q.toks
      BY <1>1, <1>4, <1>5, <2>2 DEF ProvisionInv, Granting
    <3>3. ~s.raced => /\ s.pc = "remove" => TokensOf(w, a) \subseteq s.toks
                      /\ s.pc = "addToken" => TokensOf(w, a) = {}
      BY <1>7, <3>1, <3>2
    <3> QED
      BY <1>5, <3>1, <3>2, <3>3 DEF ProvisionInv, TokensOf
  <2> QED
    BY <2>1, <2>2
<1>10. Working(s) => Working(q)
  BY <1>1, <1>5 DEF Working
<1> QED
  BY <1>1, <1>5, <1>6, <1>8, <1>9, <1>10, CallAccess

LEMMA DeleteUserAccess ==
  ASSUME BaseInv, AccessInv, NEW r \in Requests, DeleteUser(r)
  PROVE  AccessInv'
<1>1. PICK q \in Request, p \in Persons :
        /\ q = req[r] /\ p = q.p /\ q.pc = "deleteUser" /\ q.op \in Removals /\ Calls(r)
        /\ RemovalInv(q)
  BY DeleteUserEffect, RequestOf DEF AccessInv
<1>2. PICK v : v = NoUser /\ ~v.exists /\ v.grants = {} /\ v.tokens = {}
  <2>1. ~NoUser.exists /\ NoUser.grants = {} /\ NoUser.tokens = {}
    BY DEF NoUser
  <2> QED
    BY <2>1
<1>3. /\ ntfy'[p] = ntfy[p] \/ ntfy'[p] = v
      /\ Advances(r, "deletePerson") \/ Advances(r, "fail")
  BY <1>1, <1>2, DeleteUserEffect DEF Outcome
<1>4. Touches(r)
  BY <1>1, <1>2, <1>3 DEF Touches, Untouched
<1>5. PICK s : s = req'[r] /\ Moves(r) /\ Continues(r) /\ Alike(q, s) /\ s.pc \in {"deletePerson", "fail"}
  BY <1>1, <1>3, AdvanceContinues DEF Advances
<1>6. ProvisionInv(s)' /\ RemovalInv(s)' /\ ~Working(s)
  BY <1>1, <1>5 DEF ProvisionInv, RemovalInv, Working, Alike, Removals
<1> QED
  BY <1>1, <1>4, <1>5, <1>6, CallAccess

\* The answer of a provisioning that nothing raced: what it did is there, it
\* alone has the lock, and no removal is under way.
LEMMA AnswerServed ==
  ASSUME BaseInv, AccessInv, NEW r \in Requests, Answer(r), req[r].op = "provision", ~req[r].raced,
         NEW z, z = <<req[r].p, req[r].a, req[r].n>>
  PROVE  ServedInv(z)'
<1>1. PICK q \in Request, p \in Persons, a \in Apps :
        /\ q = req[r] /\ p = q.p /\ a = q.a /\ q.pc = "answer" /\ q.op = "provision" /\ ~q.raced
        /\ ProvisionInv(q) /\ RaceInv(q)
  BY AnswerEffect, RequestOf DEF AccessInv, OpInv
<1>2. z[1] = p /\ z[2] = a /\ z[3] = q.n
  BY <1>1
<1>3. UNCHANGED ntfy /\ Moves(r) /\ req'[r] = IdleRequest
  BY <1>1, AnswerEffect DEF extVars
<1>4. Untaken(p, a)'
  <2>1. Untaken(p, a) /\ Continues(r)
    BY <1>1, <1>3 DEF RaceInv, Continues
  <2> QED
    BY <1>3, <2>1, ContinuesTakes
<1>5. ASSUME NEW o \in Requests, Working(req'[o]), req'[o].p = p PROVE FALSE
  <2>1. o # r /\ req'[o] = req[o]
    BY <1>3, <1>5, IdleType DEF Working, Moves
  <2>2. Holds(req[o])
    <3>1. OpInv(req[o]) /\ req[o] \in Request
      BY RequestOf
    <3> QED
      BY <1>5, <2>1, <3>1 DEF OpInv, Holds, Working, Locked, Request, Phase, Changes, Removals
  <2>3. Holds(req[r])
    BY <1>1 DEF Holds
  <2>4. lock[p] = o /\ lock[p] = r
    BY <1>1, <1>5, <2>1, <2>2, <2>3 DEF BaseInv, LockInv
  <2> QED
    BY <2>1, <2>4
<1>6. Served(z)'
  <2>1. /\ ntfy[p].exists /\ TopicPattern(a) \in ntfy[p].grants
        /\ BroadcastTopicPattern(a) \in ntfy[p].grants
        /\ TokensOf(ntfy[p], a) = {<<a, q.n>>}
    BY <1>1 DEF ProvisionInv, Granting
  <2> QED
    BY <1>2, <1>3, <2>1 DEF Served
<1> QED
  BY <1>2, <1>4, <1>5, <1>6 DEF ServedInv, Working, Untaken

LEMMA AnswerAccess ==
  ASSUME BaseInv, AccessInv, NEW r \in Requests, Answer(r)
  PROVE  AccessInv'
<1>1. PICK q \in Request : q = req[r] /\ UNCHANGED ntfy /\ Moves(r)
  BY AnswerEffect, RequestOf DEF extVars
<1>2. PICK s : /\ s = req'[r] /\ Continues(r)
               /\ s = IdleRequest \/ (s.pc = "next" /\ s.op = "deprovisionApp")
  BY <1>1, AnswerEffect, AdvanceContinues DEF Continues, Advances, Alike
<1>3. ProvisionInv(s)' /\ RemovalInv(s)' /\ ~Working(s)
  BY <1>2, IdleType DEF ProvisionInv, RemovalInv, Working
<1>4. ASSUME NEW z \in served' \ served PROVE ServedInv(z)'
  <2>1. q.op = "provision" /\ ~q.raced /\ z = <<q.p, q.a, q.n>>
    BY <1>1, <1>4, AnswerEffect
  <2> QED
    BY <1>1, <2>1, AnswerServed
<1> QED
  BY <1>1, <1>2, <1>3, <1>4, QuietTouching, AccessStep

\* A new request: who it may take access from is no longer served, and the
\* provisionings it may take from are marked.
LEMMA BeginAccess ==
  ASSUME BaseInv, AccessInv, NEW r \in Requests, Handle(r)
  PROVE  AccessInv'
<1>1. PICK s : /\ s = req'[r] /\ Spares(r) /\ UNCHANGED ntfy /\ s.op \in Ops /\ s.pc \in First(s.op)
               /\ ~s.raced => Untaken(s.p, s.a)
               /\ \A o \in Requests : o # r /\ ~req'[o].raced =>
                    ~req[o].raced /\ ~Takes(s, req[o].p, req[o].a)
               /\ served' = {z \in served : ~Takes(s, z[1], z[2])}
  BY BeginEffect DEF extVars, Untaken
<1>2. /\ s.pc \in {"lock", "check", "throttle", "listUsers"} /\ ~Working(s)
  BY <1>1 DEF First, Ops, Removals, Working
<1>3. ASSUME NEW o \in Requests, o # r
      PROVE  Alike(req[o], req'[o]) /\ req'[o].pc = req[o].pc
  BY <1>1, <1>3 DEF Spares
<1>4. ASSUME NEW x, NEW a, Untaken(x, a), ~Takes(s, x, a) PROVE Untaken(x, a)'
  BY <1>1, <1>3, <1>4 DEF Untaken, Takes, Alike
<1>5. ASSUME NEW z \in served' PROVE ServedInv(z)'
  <2>1. z \in served /\ ~Takes(s, z[1], z[2]) /\ ServedInv(z)
    BY <1>1, <1>5 DEF AccessInv
  <2>2. PICK x, a : x = z[1] /\ a = z[2] /\ Untaken(x, a)
    BY <2>1 DEF ServedInv
  <2>3. Untaken(x, a)'
    BY <1>4, <2>1, <2>2
  <2>4. \A o \in Requests : Working(req'[o]) /\ req'[o].p = x => req'[o].a # a
    BY <1>1, <1>2, <1>3, <2>1, <2>2 DEF ServedInv, Working, Alike
  <2>5. Served(z)'
    BY <1>1, <2>1 DEF ServedInv, Served
  <2> QED
    BY <2>2, <2>3, <2>4, <2>5 DEF ServedInv, Working, Untaken
<1>6. RaceInv(s)' /\ ProvisionInv(s)' /\ RemovalInv(s)'
  <2>1. ProvisionInv(s)' /\ RemovalInv(s)'
    BY <1>2 DEF ProvisionInv, RemovalInv, Granting
  <2>2. CASE s.op = "provision" /\ ~s.raced
    <3>1. PICK x, a : x = s.p /\ a = s.a /\ Untaken(x, a) /\ ~Takes(s, x, a)
      BY <1>1, <2>2 DEF Takes
    <3>2. Untaken(x, a)'
      BY <1>4, <3>1
    <3> QED
      BY <2>1, <3>1, <3>2 DEF RaceInv, Untaken
  <2>3. CASE ~(s.op = "provision" /\ ~s.raced)
    BY <2>1, <2>3 DEF RaceInv
  <2> QED
    BY <2>2, <2>3
<1>7. ASSUME NEW o \in Requests, o # r, NEW k, k = req'[o]
      PROVE  RaceInv(k)' /\ ProvisionInv(k)' /\ RemovalInv(k)'
  <2>1. PICK q : /\ q = req[o] /\ Alike(q, k) /\ k.pc = q.pc /\ RaceInv(q) /\ ProvisionInv(q) /\ RemovalInv(q)
                 /\ ~k.raced => ~q.raced /\ ~Takes(s, q.p, q.a)
    BY <1>1, <1>3, <1>7 DEF AccessInv
  <2>2. RaceInv(k)'
    <3>1. CASE k.op = "provision" /\ ~k.raced
      <4>1. PICK x, a : x = k.p /\ a = k.a /\ Untaken(x, a) /\ ~Takes(s, x, a)
        BY <2>1, <3>1 DEF RaceInv, Alike
      <4>2. Untaken(x, a)'
        BY <1>4, <4>1
      <4> QED
        BY <4>1, <4>2 DEF RaceInv, Untaken
    <3>2. CASE ~(k.op = "provision" /\ ~k.raced)
      BY <3>2 DEF RaceInv
    <3> QED
      BY <3>1, <3>2
  <2>3. ProvisionInv(k)' /\ RemovalInv(k)'
    BY <1>1, <2>1 DEF ProvisionInv, RemovalInv, Alike
  <2> QED
    BY <2>2, <2>3
<1>8. (\A z \in served : ServedInv(z))'
  BY <1>5
<1>9. ASSUME NEW o \in Requests PROVE (RaceInv(req[o]) /\ ProvisionInv(req[o]) /\ RemovalInv(req[o]))'
  <2>1. PICK k : k = req'[o]
    OBVIOUS
  <2>2. RaceInv(k)' /\ ProvisionInv(k)' /\ RemovalInv(k)'
    BY <1>1, <1>6, <1>7, <2>1
  <2> QED
    BY <2>1, <2>2 DEF RaceInv, ProvisionInv, RemovalInv
<1> QED
  BY <1>8, <1>9 DEF AccessInv

LEMMA NextAccess ==
  ASSUME BaseInv, PasswordInv, AccessInv, [Next]_vars
  PROVE  AccessInv'
<1>1. CASE Crash
  <2>1. UNCHANGED <<ntfy, served>> /\ \A r \in Requests : req'[r] = IdleRequest
    BY <1>1 DEF Crash, extVars
  <2>2. \A x, a : Untaken(x, a)'
    BY <2>1, IdleType DEF Untaken, Takes
  <2>3. \A z \in served : ServedInv(z)'
    BY <2>1, <2>2, IdleType DEF AccessInv, ServedInv, Served, Working
  <2>4. ASSUME NEW r \in Requests PROVE (RaceInv(req[r]) /\ ProvisionInv(req[r]) /\ RemovalInv(req[r]))'
    BY <2>1, IdleType DEF RaceInv, ProvisionInv, RemovalInv
  <2>5. (\A z \in served : ServedInv(z))'
    BY <2>1, <2>3
  <2> QED
    BY <2>4, <2>5 DEF AccessInv
<1>2. CASE Tick \/ UNCHANGED vars
  <2>1. UNCHANGED <<ntfy, served, req>>
    BY <1>2 DEF Tick, vars, extVars, histVars
  <2> QED
    BY <2>1 DEF AccessInv, ServedInv, Served, RaceInv, ProvisionInv, RemovalInv, Untaken, Working
<1>3. ASSUME NEW r \in Requests, Handle(r) \/ Step(r) PROVE AccessInv'
  BY <1>3, PlainSteps, StampAccess, RemainingAccess, HealAccess, ListAccess, DualWriteAccess, LockAccess,
     AddUserAccess, ChangeAccess, GrantAccessAccess, ResetAccessAccess, AddTokenAccess, RemoveAccess,
     DeleteUserAccess, AnswerAccess, BeginAccess DEF Step, TeardownStep
<1> QED
  BY <1>1, <1>2, <1>3 DEF Next, Finished

LEMMA InitAccess == Init => AccessInv
<1> SUFFICES ASSUME Init PROVE AccessInv
  OBVIOUS
<1>1. PICK f \in [Persons -> InitialPersons] :
        /\ ntfy = [x \in Persons |-> f[x].user]
        /\ served = UNION {{<<p, t[1], t[2]>> : t \in f[p].user.tokens} : p \in Persons}
  BY DEF Init
<1>2. \A r \in Requests : req[r] = IdleRequest
  BY DEF Init
<1>3. ASSUME NEW z \in served PROVE ServedInv(z)
  <2>1. PICK p \in Persons : \E t \in f[p].user.tokens : z = <<p, t[1], t[2]>>
    BY <1>1, <1>3
  <2>2. PICK i \in InitialPersons : i = f[p] /\ ntfy[p] = i.user
    BY <1>1
  <2>3. PICK t \in i.user.tokens : z = <<p, t[1], t[2]>>
    BY <2>1, <2>2
  <2>4. /\ i.user.exists
        /\ {TopicPattern(t[1]), BroadcastTopicPattern(t[1])} \subseteq i.user.grants
        /\ TokensOf(i.user, t[1]) = {<<t[1], t[2]>>}
    BY FirstPerson
  <2>5. z[1] = p /\ z[2] = t[1] /\ z[3] = t[2]
    BY <2>3
  <2>6. Served(z)
    BY <2>2, <2>4, <2>5 DEF Served
  <2> QED
    BY <1>2, <2>6, IdleType DEF ServedInv, Untaken, Takes, Working
<1>4. \A r \in Requests : RaceInv(req[r]) /\ ProvisionInv(req[r]) /\ RemovalInv(req[r])
  BY <1>2, IdleType DEF RaceInv, ProvisionInv, RemovalInv
<1> QED
  BY <1>3, <1>4 DEF AccessInv

\* Who was provisioned into an app and has not been taken out of it has the
\* user, both grants and exactly the token of the answer: no removal from
\* another app, no last-app deletion and no failed or crashed request of
\* anybody takes them along.
THEOREM ServedAlways == Spec => []ProvisionedIsServed
<1>1. Init => AccessInv
  BY InitAccess
<1>2. BaseInv /\ PasswordInv /\ AccessInv /\ [Next]_vars => AccessInv'
  BY NextAccess
<1>3. AccessInv => ProvisionedIsServed
  BY DEF AccessInv, ServedInv, Served, ProvisionedIsServed
<1> QED
  BY <1>1, <1>2, <1>3, PasswordAlways, PTL DEF Spec
-----------------------------------------------------------------------------
(***************************************************************************)
(* The reset slots.                                                        *)
(***************************************************************************)

LEMMA ClaimTypes ==
  ASSUME BaseInv, NEW p \in Persons, NEW x \in Claims(p)
  PROVE  x \in Slot /\ x.at \in Nat /\ x.id \in Nat
<1>1. slots[p] \in SUBSET Slot /\ granted[p] \in SUBSET Slot
  BY RequestOf DEF BaseInv, TypeOK, ExtTypeOK, HistTypeOK
<1> QED
  BY <1>1 DEF Claims, Slot

LEMMA ClockTypes == ASSUME BaseInv PROVE clock \in Nat /\ ops \in Nat /\ Window \in Nat /\ ResetLimit \in Nat
BY LimitAssumption DEF BaseInv, TypeOK, OtherTypeOK

\* No claim is added: what is given back, pruned or deleted only lowers counts.
LEMMA FewerClaims ==
  ASSUME BaseInv, NEW p \in Persons, SlotInv(p), slots'[p] \cup granted'[p] \subseteq Claims(p),
         clock' \in Nat, clock' >= clock, ops' \in Nat, ops' >= ops,
         \A x \in granted'[p] : x.at + Window > clock' => x \in slots'[p],
         \A x \in granted'[p] : \A o \in Requests : req'[o].pc # "idle" => req'[o].n # x.id
  PROVE  SlotInv(p)'
<1>1. PICK C, D : C = Claims(p) /\ D = slots'[p] \cup granted'[p] /\ D \subseteq C
  OBVIOUS
<1>2. D = Claims(p)'
  BY <1>1 DEF Claims
<1>3. \A x \in D : x.at <= clock' /\ x.id <= ops'
  <2>1. \A x \in C : x.at \in Nat /\ x.id \in Nat /\ x.at <= clock /\ x.id <= ops
    BY <1>1, ClaimTypes DEF SlotInv
  <2> QED
    BY <1>1, <2>1, ClockTypes
<1>4. IsFiniteSet(C)
  BY <1>1 DEF SlotInv
<1>5. IsFiniteSet(D)
  BY <1>1, <1>4, FS_Subset
<1>6. ASSUME NEW t \in Nat PROVE Cardinality({x \in D : x.at <= t /\ x.at + Window > t}) <= ResetLimit
  <2>1. PICK S, T : S = {x \in C : x.at <= t /\ x.at + Window > t}
                    /\ T = {x \in D : x.at <= t /\ x.at + Window > t}
    OBVIOUS
  <2>2. S \in SUBSET C /\ T \in SUBSET S
    BY <1>1, <2>1
  <2>3. IsFiniteSet(S)
    BY <1>4, <2>2, FS_Subset
  <2>4. IsFiniteSet(T) /\ Cardinality(T) <= Cardinality(S)
    BY <2>2, <2>3, FS_Subset
  <2>5. Cardinality(S) <= ResetLimit
    BY <1>1, <2>1 DEF SlotInv, Counting
  <2>6. Cardinality(S) \in Nat /\ Cardinality(T) \in Nat
    BY <2>3, <2>4, FS_CardinalityType
  <2> QED
    BY <2>1, <2>4, <2>5, <2>6, ClockTypes
<1>7. \A t \in Nat : Cardinality(Counting(p, t)') <= ResetLimit
  BY <1>2, <1>6 DEF Counting
<1> QED
  BY <1>2, <1>3, <1>5, <1>7 DEF SlotInv, Idle, Counting

\* Nothing happens to the slots of p, and no operation takes an old number.
LEMMA SlotsKept ==
  ASSUME BaseInv, NEW p \in Persons, SlotInv(p), slots'[p] = slots[p], granted'[p] = granted[p],
         clock' \in Nat, clock' >= clock, ops' \in Nat, ops' >= ops,
         \A o \in Requests : req'[o].pc # "idle" =>
           (req[o].pc # "idle" /\ req'[o].n = req[o].n) \/ req'[o].n = ops + 1
  PROVE  SlotInv(p)'
<1>1. \A x \in granted'[p] : x.at \in Nat /\ x.id \in Nat /\ x.id <= ops
  BY ClaimTypes DEF SlotInv, Claims
<1>2. \A x \in granted'[p] : x.at + Window > clock' => x \in slots'[p]
  BY <1>1, ClockTypes DEF SlotInv
<1>3. \A x \in granted'[p] : \A o \in Requests : req'[o].pc # "idle" => req'[o].n # x.id
  BY <1>1, ClockTypes DEF SlotInv, Idle
<1>4. slots'[p] \cup granted'[p] \subseteq Claims(p)
  BY DEF Claims
<1> QED
  BY <1>2, <1>3, <1>4, FewerClaims

\* A claim: a slot is added when the window has room for it.
LEMMA SlotClaimed ==
  ASSUME BaseInv, FreshInv, NEW p \in Persons, SlotInv(p), NEW r \in Requests, granted'[p] = granted[p],
         slots'[p] = ClaimResetSlot(slots[p], req[r].n), UNCHANGED <<clock, ops>>,
         \A o \in Requests : req'[o].pc # "idle" => req[o].pc # "idle" /\ req'[o].n = req[o].n
  PROVE  SlotInv(p)'
<1>1. clock \in Nat /\ ops \in Nat /\ Window \in Nat \ {0} /\ ResetLimit \in Nat
  BY ClockTypes, LimitAssumption
<1>2. \A x \in granted[p] : \A o \in Requests : req'[o].pc # "idle" => req'[o].n # x.id
  BY DEF SlotInv, Idle
<1>3. PICK W : W = InWindow(slots[p]) /\ W \subseteq slots[p]
  BY DEF InWindow
<1>4. \A x \in granted[p] : x.at + Window > clock => x \in W
  BY <1>3 DEF SlotInv, InWindow
<1>5. CASE slots'[p] = W
  <2>1. slots'[p] \cup granted'[p] \subseteq Claims(p)
    BY <1>3, <1>5 DEF Claims
  <2> QED
    BY <1>1, <1>2, <1>4, <1>5, <2>1, FewerClaims
<1>6. CASE Cardinality(W) < ResetLimit /\ slots'[p] = W \cup {[id |-> req[r].n, at |-> clock]}
  <2>1. PICK y : y = [id |-> req[r].n, at |-> clock] /\ y.id = req[r].n /\ y.at = clock
    <3>1. PICK y : y = [id |-> req[r].n, at |-> clock]
      OBVIOUS
    <3> QED
      BY <3>1
  <2>2. PICK C, D : C = Claims(p) /\ D = Claims(p)' /\ D \subseteq C \cup {y}
    <3>1. slots'[p] \cup granted'[p] \subseteq slots[p] \cup granted[p] \cup {y}
      BY <1>3, <1>6, <2>1
    <3> QED
      BY <3>1 DEF Claims
  <2>3. \A x \in C : x.at \in Nat /\ x.id \in Nat /\ x.at <= clock /\ x.id <= ops
    BY <2>2, ClaimTypes DEF SlotInv
  <2>4. \A x \in D : x.at <= clock /\ x.id <= ops /\ x.at \in Nat
    BY <1>1, <2>1, <2>2, <2>3 DEF FreshInv
  <2>5. IsFiniteSet(C) /\ IsFiniteSet(D) /\ IsFiniteSet(W)
    <3>1. IsFiniteSet(C)
      BY <2>2 DEF SlotInv
    <3>2. IsFiniteSet(C \cup {y})
      BY <3>1, FS_AddElement
    <3>3. W \in SUBSET C /\ D \in SUBSET (C \cup {y})
      BY <1>3, <2>2 DEF Claims
    <3> QED
      BY <3>1, <3>2, <3>3, FS_Subset
  <2>6. ASSUME NEW t \in Nat PROVE Cardinality({x \in D : x.at <= t /\ x.at + Window > t}) <= ResetLimit
    <3>1. PICK T : T = {x \in D : x.at <= t /\ x.at + Window > t}
      OBVIOUS
    <3>2. CASE t < clock
      <4>1. PICK S : S = {x \in C : x.at <= t /\ x.at + Window > t}
        OBVIOUS
      <4>2. y \notin T
        BY <1>1, <2>1, <3>1, <3>2
      <4>3. S \in SUBSET C /\ T \in SUBSET S
        BY <2>2, <3>1, <4>1, <4>2
      <4>4. IsFiniteSet(S)
        BY <2>5, <4>3, FS_Subset
      <4>5. IsFiniteSet(T) /\ Cardinality(T) <= Cardinality(S)
        BY <4>3, <4>4, FS_Subset
      <4>6. Cardinality(S) <= ResetLimit
        BY <2>2, <4>1 DEF SlotInv, Counting
      <4>7. Cardinality(S) \in Nat /\ Cardinality(T) \in Nat
        BY <4>4, <4>5, FS_CardinalityType
      <4> QED
        BY <1>1, <3>1, <4>5, <4>6, <4>7
    <3>3. CASE t >= clock
      <4>1. T \in SUBSET (W \cup {y})
        <5>1. ASSUME NEW x \in T PROVE x \in W \cup {y}
          <6>1. x \in D /\ x.at + Window > t /\ x.at \in Nat
            BY <2>4, <3>1, <5>1
          <6>2. x.at + Window > clock
            BY <1>1, <3>3, <6>1
          <6>3. x \in slots'[p] \/ x \in granted[p]
            BY <2>2, <6>1 DEF Claims
          <6> QED
            BY <1>4, <1>6, <2>1, <6>2, <6>3
        <5> QED
          BY <5>1
      <4>2. IsFiniteSet(W \cup {y}) /\ Cardinality(W) \in Nat
            /\ Cardinality(W \cup {y}) = IF y \in W THEN Cardinality(W) ELSE Cardinality(W) + 1
        BY <2>5, FS_AddElement, FS_CardinalityType
      <4>3. IsFiniteSet(T) /\ Cardinality(T) <= Cardinality(W \cup {y})
        BY <4>1, <4>2, FS_Subset
      <4>4. Cardinality(T) \in Nat
        BY <4>3, FS_CardinalityType
      <4>5. Cardinality(W \cup {y}) \in Nat /\ Cardinality(W \cup {y}) <= ResetLimit
        BY <1>1, <1>6, <4>2
      <4> QED
        BY <1>1, <3>1, <4>3, <4>4, <4>5
    <3> QED
      BY <1>1, <3>2, <3>3
  <2>7. \A t \in Nat : Cardinality(Counting(p, t)') <= ResetLimit
    BY <2>2, <2>6 DEF Counting
  <2>8. \A x \in granted[p] : x.at + Window > clock => x \in slots'[p]
    BY <1>4, <1>6
  <2> QED
    BY <1>2, <2>2, <2>4, <2>5, <2>7, <2>8 DEF SlotInv, Idle, Counting
<1> QED
  BY <1>3, <1>5, <1>6 DEF ClaimResetSlot

\* A request keeps its number until it ends.
LEMMA StepNumbers ==
  ASSUME BaseInv, NEW r \in Requests, Step(r)
  PROVE  Moves(r) /\ (req'[r].pc # "idle" => req[r].pc # "idle" /\ req'[r].n = req[r].n)
<1>1. RequestTypeOK /\ OpInv(req[r])
  BY RequestOf
<1>2. ASSUME NEW pc, Advances(r, pc) PROVE Moves(r) /\ req'[r].n = req[r].n
  BY <1>2 DEF Advances, Alike
<1>3. CASE checkAppGrant(r) \/ Allow(r)
  <2>1. PICK pc \in Phase : Goto(r, pc)
    BY <1>1, <1>3 DEF checkAppGrant, Allow, At, AfterCheck, Phase
  <2>2. req[r].pc # "idle"
    BY <1>3 DEF checkAppGrant, Allow, At
  <2> QED
    BY <1>1, <1>2, <2>1, <2>2, GotoAdvances
<1>4. CASE ClaimSlot(r) \/ ReleaseResetSlot(r) \/ TeardownStep(r)
  BY <1>1, <1>4, ClaimSlotMoves, EndMoves, TeardownEffect, IdleType DEF ReleaseResetSlot
<1>5. CASE AddUser(r) \/ ChangePassword(r) \/ GrantAccess(r) \/ AddToken(r)
  <2>1. (\E pc \in Phase : Advances(r, pc)) /\ req[r].pc # "idle"
    BY <1>5, AddUserEffect, ChangeEffect, GrantEffect, AddTokenEffect DEF Outcome, Missing, Phase, Locked
  <2> QED
    BY <1>2, <2>1
<1>6. CASE ResetAccess(r) \/ GetRemaining(r) \/ DeleteUser(r) \/ DeletePerson(r) \/ LockPerson(r)
  <2>1. (\E pc \in Phase : Advances(r, pc)) /\ req[r].pc # "idle"
    BY <1>6, ResetEffect, RemainingEffect, DeleteUserEffect, DeletePersonEffect, LockEffect
       DEF Outcome, Missing, Phase, Locked
  <2> QED
    BY <1>2, <2>1
<1>7. CASE ListTokens(r) \/ RemoveToken(r)
  BY <1>7, ListEffect, RemoveEffect DEF Selects, Advances, Alike
<1>8. CASE ClaimIfUnset(r) \/ ReleaseLostClaim(r) \/ healStaleStamp(r)
  BY <1>8, ClaimIfUnsetEffect, ReleaseLostEffect, HealEffect DEF Proceeds, Advances, Alike
<1>9. CASE ClaimUpdateOnly(r) \/ recordStampAfterChange(r) \/ dualWritePerson(r)
  BY <1>9, ClaimUpdateOnlyEffect, RecordEffect, DualWriteEffect DEF Proceeds, Advances, Alike
<1>10. CASE Answer(r) \/ Fail(r)
  BY <1>10, AnswerEffect, FailEffect, IdleType DEF Advances, Alike
<1> QED
  BY <1>3, <1>4, <1>5, <1>6, <1>7, <1>8, <1>9, <1>10 DEF Step, TeardownStep

LEMMA StepSlots ==
  ASSUME BaseInv, NEW r \in Requests, Step(r), NEW o \in Requests, req'[o].pc # "idle"
  PROVE  req[o].pc # "idle" /\ req'[o].n = req[o].n
<1>1. CASE o = r
  BY <1>1, StepNumbers
<1>2. CASE o # r
  BY <1>2, StepNumbers DEF Moves
<1> QED
  BY <1>1, <1>2

\* Every step but these leaves the slots alone.
LEMMA SlotlessSteps ==
  ASSUME BaseInv, NEW r \in Requests, Step(r),
         ~(ClaimSlot(r) \/ ReleaseResetSlot(r) \/ DeletePerson(r) \/ Answer(r))
  PROVE  UNCHANGED <<slots, granted, clock, ops>>
<1>1. CASE checkAppGrant(r) \/ Allow(r) \/ TeardownStep(r) \/ LockPerson(r)
  BY <1>1, TeardownEffect DEF checkAppGrant, Allow, LockPerson, extVars, histVars
<1>2. CASE ListTokens(r) \/ GetRemaining(r) \/ Fail(r)
  BY <1>2 DEF ListTokens, GetRemaining, Fail, extVars, histVars
<1>3. CASE \/ AddUser(r) \/ ChangePassword(r) \/ GrantAccess(r) \/ AddToken(r) \/ ResetAccess(r)
           \/ RemoveToken(r) \/ DeleteUser(r)
  <2>1. cliUnchanged
    BY <1>3 DEF AddUser, ChangePassword, GrantAccess, AddToken, ResetAccess, RemoveToken, DeleteUser
  <2> QED
    BY <2>1 DEF cliUnchanged
<1>4. CASE \/ ClaimIfUnset(r) \/ ReleaseLostClaim(r) \/ healStaleStamp(r) \/ ClaimUpdateOnly(r)
           \/ recordStampAfterChange(r) \/ dualWritePerson(r)
  <2>1. storeUnchanged
    BY <1>4 DEF ClaimIfUnset, ReleaseLostClaim, healStaleStamp, ClaimUpdateOnly, recordStampAfterChange,
       dualWritePerson
  <2> QED
    BY <2>1 DEF storeUnchanged
<1> QED
  BY <1>1, <1>2, <1>3, <1>4 DEF Step, TeardownStep

LEMMA ClaimSlotReset ==
  ASSUME BaseInv, FreshInv, ResetInv, NEW r \in Requests, ClaimSlot(r), NEW x \in Persons
  PROVE  SlotInv(x)'
<1>1. PICK p \in Persons : p = req[r].p /\ UNCHANGED <<clock, ops, granted>>
  BY RequestOf DEF ClaimSlot, At, OpInv, Phase, histVars
<1>2. slots' = slots \/ slots' = [slots EXCEPT ![p] = ClaimResetSlot(slots[p], req[r].n)]
  BY <1>1 DEF ClaimSlot
<1>3. clock' \in Nat /\ ops' \in Nat /\ clock' >= clock /\ ops' >= ops /\ slots \in [Persons -> SUBSET Slot]
  BY <1>1, ClockTypes, RequestOf DEF TypeOK, ExtTypeOK
<1>4. \A o \in Requests : req'[o].pc # "idle" => req[o].pc # "idle" /\ req'[o].n = req[o].n
  BY StepSlots DEF Step
<1>5. SlotInv(x)
  BY DEF ResetInv
<1>6. CASE slots'[x] = slots[x]
  BY <1>1, <1>3, <1>4, <1>5, <1>6, SlotsKept
<1>7. CASE x = p /\ slots'[p] = ClaimResetSlot(slots[p], req[r].n)
  BY <1>1, <1>4, <1>5, <1>7, SlotClaimed
<1> QED
  BY <1>2, <1>3, <1>6, <1>7

LEMMA GiveBackReset ==
  ASSUME BaseInv, ResetInv, NEW r \in Requests, ReleaseResetSlot(r), NEW x \in Persons
  PROVE  SlotInv(x)'
<1>1. PICK p \in Persons : p = req[r].p /\ UNCHANGED <<clock, ops, granted>> /\ req[r].pc = "giveBack"
  BY RequestOf DEF ReleaseResetSlot, At, OpInv, Phase, histVars
<1>2. slots' = slots \/ slots' = [slots EXCEPT ![p] = {y \in slots[p] : y.id # req[r].n}]
  BY <1>1 DEF ReleaseResetSlot
<1>3. clock' \in Nat /\ ops' \in Nat /\ clock' >= clock /\ ops' >= ops /\ slots \in [Persons -> SUBSET Slot]
  BY <1>1, ClockTypes, RequestOf DEF TypeOK, ExtTypeOK
<1>4. \A o \in Requests : req'[o].pc # "idle" => req[o].pc # "idle" /\ req'[o].n = req[o].n
  BY StepSlots DEF Step
<1>5. SlotInv(x)
  BY DEF ResetInv
<1>6. CASE slots'[x] = slots[x]
  BY <1>1, <1>3, <1>4, <1>5, <1>6, SlotsKept
<1>7. CASE x = p /\ slots'[p] = {y \in slots[p] : y.id # req[r].n}
  <2>1. \A y \in granted[p] : y.id # req[r].n
    BY <1>1, <1>5, <1>7 DEF SlotInv, Idle
  <2>2. \A y \in granted'[p] : y.at + Window > clock' => y \in slots'[p]
    BY <1>1, <1>5, <1>7, <2>1 DEF SlotInv
  <2>3. \A y \in granted'[p] : \A o \in Requests : req'[o].pc # "idle" => req'[o].n # y.id
    BY <1>1, <1>4, <1>5, <1>7 DEF SlotInv, Idle
  <2>4. slots'[p] \cup granted'[p] \subseteq Claims(p)
    BY <1>1, <1>7 DEF Claims
  <2> QED
    BY <1>3, <1>5, <1>7, <2>2, <2>3, <2>4, FewerClaims
<1> QED
  BY <1>2, <1>3, <1>6, <1>7

LEMMA DeletePersonReset ==
  ASSUME BaseInv, ResetInv, NEW r \in Requests, DeletePerson(r), NEW x \in Persons
  PROVE  SlotInv(x)'
<1>1. PICK p \in Persons : p = req[r].p /\ UNCHANGED <<clock, ops>>
  BY DeletePersonEffect
<1>2. \/ slots' = slots /\ granted' = granted
      \/ slots' = [slots EXCEPT ![p] = {}] /\ granted' = [granted EXCEPT ![p] = {}]
  BY <1>1, DeletePersonEffect
<1>3. /\ clock' \in Nat /\ ops' \in Nat /\ clock' >= clock /\ ops' >= ops
      /\ slots \in [Persons -> SUBSET Slot] /\ granted \in [Persons -> SUBSET Slot]
  BY <1>1, ClockTypes, RequestOf DEF TypeOK, ExtTypeOK, HistTypeOK
<1>4. \A o \in Requests : req'[o].pc # "idle" => req[o].pc # "idle" /\ req'[o].n = req[o].n
  BY StepSlots DEF Step
<1>5. SlotInv(x)
  BY DEF ResetInv
<1>6. CASE slots'[x] = slots[x] /\ granted'[x] = granted[x]
  BY <1>3, <1>4, <1>5, <1>6, SlotsKept
<1>7. CASE slots'[x] = {} /\ granted'[x] = {}
  BY <1>3, <1>5, <1>7, FewerClaims
<1> QED
  BY <1>2, <1>3, <1>6, <1>7

\* A reset that is answered keeps its slot for good, under a number that no
\* other request has.
LEMMA AnswerReset ==
  ASSUME BaseInv, FreshInv, ResetInv, NEW r \in Requests, Answer(r), NEW x \in Persons
  PROVE  SlotInv(x)'
<1>1. PICK p \in Persons :
        /\ p = req[r].p /\ UNCHANGED <<clock, ops, slots>> /\ req[r].pc = "answer"
        /\ granted' = [granted EXCEPT ![p] =
                         granted[p] \cup {y \in slots[p] : req[r].op = "resetPassword" /\ y.id = req[r].n}]
  BY AnswerEffect DEF extVars
<1>2. clock' \in Nat /\ ops' \in Nat /\ clock' >= clock /\ ops' >= ops /\ granted \in [Persons -> SUBSET Slot]
  BY <1>1, ClockTypes, RequestOf DEF TypeOK, HistTypeOK
<1>3. \A o \in Requests : req'[o].pc # "idle" => req[o].pc # "idle" /\ req'[o].n = req[o].n
  BY StepSlots DEF Step
<1>4. SlotInv(x)
  BY DEF ResetInv
<1>5. CASE x # p
  BY <1>1, <1>2, <1>3, <1>4, <1>5, SlotsKept
<1>6. CASE x = p
  <2>1. granted'[p] = granted[p] \cup {y \in slots[p] : req[r].op = "resetPassword" /\ y.id = req[r].n}
    BY <1>1, <1>2
  <2>2. slots'[p] \cup granted'[p] \subseteq Claims(p)
    BY <1>1, <2>1 DEF Claims
  <2>3. \A y \in granted'[p] : y.at + Window > clock' => y \in slots'[p]
    BY <1>1, <1>4, <1>6, <2>1 DEF SlotInv
  <2>4. ASSUME NEW y \in granted'[p], NEW o \in Requests, req'[o].pc # "idle" PROVE req'[o].n # y.id
    <3>1. CASE y \in granted[p]
      BY <1>3, <1>4, <1>6, <2>4, <3>1 DEF SlotInv, Idle
    <3>2. CASE req[r].op = "resetPassword" /\ y.id = req[r].n
      <4>1. o # r
        BY <2>4, <3>2, AnswerEffect, IdleType
      <4> QED
        BY <1>1, <1>3, <2>4, <3>2, <4>1 DEF FreshInv, Idle
    <3> QED
      BY <2>1, <2>4, <3>1, <3>2
  <2> QED
    BY <1>2, <1>4, <1>6, <2>2, <2>3, <2>4, FewerClaims
<1> QED
  BY <1>5, <1>6

LEMMA NextReset ==
  ASSUME BaseInv, FreshInv, ResetInv, [Next]_vars
  PROVE  ResetInv'
<1> SUFFICES ASSUME NEW x \in Persons PROVE SlotInv(x)'
  BY DEF ResetInv
<1>1. SlotInv(x) /\ clock \in Nat /\ ops \in Nat
  BY ClockTypes DEF ResetInv
<1>2. CASE Crash
  <2>1. UNCHANGED <<slots, granted, clock, ops>> /\ \A o \in Requests : req'[o].pc = "idle"
    BY <1>2, IdleType DEF Crash, extVars
  <2> QED
    BY <1>1, <2>1, SlotsKept
<1>3. CASE Tick \/ UNCHANGED vars
  <2>1. UNCHANGED <<slots, granted, ops, req>> /\ clock' \in Nat /\ clock' >= clock
    BY <1>1, <1>3 DEF Tick, vars, extVars, histVars
  <2> QED
    BY <1>1, <2>1, SlotsKept
<1>4. ASSUME NEW r \in Requests, Handle(r) PROVE SlotInv(x)'
  <2>1. UNCHANGED <<slots, granted, clock>> /\ ops' = ops + 1 /\ Spares(r) /\ req'[r].n = ops + 1
    BY <1>4, BeginEffect DEF extVars
  <2>2. \A o \in Requests : req'[o].pc # "idle" =>
           (req[o].pc # "idle" /\ req'[o].n = req[o].n) \/ req'[o].n = ops + 1
    BY <2>1 DEF Spares, Alike
  <2>3. clock' \in Nat /\ clock' >= clock /\ ops' \in Nat /\ ops' >= ops
    BY <1>1, <2>1
  <2> QED
    BY <1>1, <2>1, <2>2, <2>3, SlotsKept
<1>5. ASSUME NEW r \in Requests, Step(r) PROVE SlotInv(x)'
  <2>1. CASE ClaimSlot(r) \/ ReleaseResetSlot(r) \/ DeletePerson(r) \/ Answer(r)
    BY <2>1, ClaimSlotReset, GiveBackReset, DeletePersonReset, AnswerReset
  <2>2. CASE ~(ClaimSlot(r) \/ ReleaseResetSlot(r) \/ DeletePerson(r) \/ Answer(r))
    <3>1. UNCHANGED <<slots, granted, clock, ops>>
      BY <1>5, <2>2, SlotlessSteps
    <3>2. \A o \in Requests : req'[o].pc # "idle" => req[o].pc # "idle" /\ req'[o].n = req[o].n
      BY <1>5, StepSlots
    <3> QED
      BY <1>1, <3>1, <3>2, SlotsKept
  <2> QED
    BY <2>1, <2>2
<1> QED
  BY <1>2, <1>3, <1>4, <1>5 DEF Next, Finished

LEMMA InitReset == Init => ResetInv
<1> SUFFICES ASSUME Init, NEW p \in Persons PROVE SlotInv(p)
  BY DEF ResetInv
<1>1. slots[p] = {} /\ granted[p] = {}
  BY DEF Init
<1>2. Claims(p) = {}
  BY <1>1 DEF Claims
<1>3. \A t \in Nat : Counting(p, t) = {}
  BY <1>2 DEF Counting
<1>4. IsFiniteSet({}) /\ Cardinality({}) = 0
  BY FS_EmptySet
<1> QED
  BY <1>1, <1>2, <1>3, <1>4, LimitAssumption DEF SlotInv

\* In no window does a person get more passwords reset than the limit, whatever
\* the requests, the failed claims and releases and the restarts in between.
THEOREM ResetsLimited == Spec => []ResetsWithinLimit
<1>1. Init => ResetInv
  BY InitReset
<1>2. BaseInv /\ FreshInv /\ ResetInv /\ [Next]_vars => ResetInv'
  BY NextReset
<1>3. BaseInv /\ ResetInv => ResetsWithinLimit
  <2> SUFFICES ASSUME BaseInv, ResetInv, NEW p \in Persons, NEW t \in 0..clock
               PROVE  Cardinality({x \in granted[p] : x.at <= t /\ x.at + Window > t}) <= ResetLimit
    BY DEF ResetsWithinLimit
  <2>1. t \in Nat /\ ResetLimit \in Nat
    BY ClockTypes
  <2>2. PICK S, T : S = Counting(p, t) /\ T = {x \in granted[p] : x.at <= t /\ x.at + Window > t}
    OBVIOUS
  <2>3. S \in SUBSET Claims(p) /\ T \in SUBSET S
    BY <2>2 DEF Counting, Claims
  <2>4. IsFiniteSet(Claims(p)) /\ Cardinality(S) <= ResetLimit
    BY <2>1, <2>2 DEF ResetInv, SlotInv
  <2>5. IsFiniteSet(S)
    BY <2>3, <2>4, FS_Subset
  <2>6. IsFiniteSet(T) /\ Cardinality(T) <= Cardinality(S)
    BY <2>3, <2>5, FS_Subset
  <2>7. Cardinality(S) \in Nat /\ Cardinality(T) \in Nat
    BY <2>5, <2>6, FS_CardinalityType
  <2> QED
    BY <2>1, <2>2, <2>4, <2>6, <2>7
<1> QED
  BY <1>1, <1>2, <1>3, PasswordAlways, PTL DEF Spec
=============================================================================
