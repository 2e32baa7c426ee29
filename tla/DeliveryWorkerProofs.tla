------------------------ MODULE DeliveryWorkerProofs ------------------------
(***************************************************************************)
(* Proofs about DeliveryWorker, for any number of loops, deliveries and    *)
(* destinations and for all timeouts the assumptions of that module allow. *)
(***************************************************************************)
EXTENDS DeliveryWorker, TLAPS

USE DEF NoWork, NullId

-----------------------------------------------------------------------------
(* Types                                                                   *)

\* The lease is at least the floor NewWorker enforces.
LEMMA LeaseIsNat == Lease \in Nat /\ Lease >= LeaseFloor /\ LeaseFloor \in Nat
  BY TimesAssumption DEF Lease, LeaseFloor

\* A busy loop holds a delivery, whose name is a destination's or Recipient.
LEMMA BusyHolds ==
  ASSUME TypeOK, NEW w \in Worker, pc[w] # "idle"
  PROVE  /\ held[w] \in Delivery
         /\ ~IsRecipient(held[w]) => DestName[held[w]] \in Name
<1>1. held[w] \in Delivery
  BY DEF TypeOK, LoopsOK
<1> QED
  BY <1>1, NamesAssumption DEF IsRecipient

\* A loop that goes back to claiming is well-typed.
LEMMA IdleType ==
  ASSUME LoopsOK, NEW w \in Worker, BackToLoop(w)
  PROVE  LoopsOK'
  BY NamesAssumption, TimesAssumption
  DEF LoopsOK, BackToLoop, NoClaim, NoResult, ClaimType, ResultType, Reasons

\* A loop that has decided holds a well-formed result to record.
LEMMA StartRecordType ==
  ASSUME LoopsOK, NEW w \in Worker, NEW r \in ResultType, pc[w] # "idle",
         r.next # "none", StartRecord(w, r), target' = target
  PROVE  LoopsOK'
  BY TimesAssumption DEF LoopsOK, StartRecord, Busy

\* Decide yields a well-formed result.
LEMMA DecideType ==
  ASSUME NEW c, NEW outcome \in Outcomes, NEW backoff \in MinBackoff..MaxBackoff
  PROVE  /\ Decide(c, outcome, backoff) \in ResultType
         /\ Decide(c, outcome, backoff).next # "none"
<1>1. backoff \in 0..MaxBackoff /\ 0 \in 0..MaxBackoff
  BY TimesAssumption, BackoffAssumption DEF MinBackoff
<1> QED
  BY <1>1 DEF Decide, DeadResult, ResultType, Outcomes, States, Reasons

\* The result of an attempt that never reached a sink is well-formed.
LEMMA NeverSentType ==
  ASSUME TypeOK, NEW w \in Worker, NEW reason \in Reasons, pc[w] # "idle",
         RecordNeverSent(w, reason)
  PROVE  TypeOK'
<1>1. DeadResult("terminal", reason) \in ResultType /\ DeadResult("terminal", reason).next # "none"
  BY TimesAssumption DEF DeadResult, ResultType, Outcomes, States
<1>2. LoopsOK'
  BY <1>1, StartRecordType DEF TypeOK, RecordNeverSent
<1> QED
  BY <1>2 DEF TypeOK, RecordNeverSent, rowVars, regVars, procVars, history,
              RowsOK, RegistryOK, ProcessOK, HistoryOK

\* RecordAttempt's transaction keeps the rows' types.
LEMMA WriteType ==
  ASSUME TypeOK, NEW w \in Worker, pc[w] = "record", WriteAttempt(w)
  PROVE  RowsOK' /\ stale' \in [Delivery -> BOOLEAN]
<1>1. held[w] \in Delivery
  BY BusyHolds
<1>2. result[w] \in ResultType /\ result[w].next \in States
  BY DEF ResultType, States, TypeOK, LoopsOK
<1>3. CASE state[held[w]] # "pending"
  BY <1>3 DEF TypeOK, RowsOK, HistoryOK, WriteAttempt, rowVars
<1>4. CASE state[held[w]] = "pending"
  <2>1. RowsOK'
    BY <1>1, <1>2, <1>4, TimesAssumption DEF TypeOK, RowsOK, WriteAttempt, ResultType
  <2>2. stale' \in [Delivery -> BOOLEAN]
    BY <1>1, <1>4 DEF TypeOK, HistoryOK, WriteAttempt
  <2> QED
    BY <2>1, <2>2
<1> QED
  BY <1>3, <1>4

\* What a loop does after its record keeps the loops' types.
LEMMA AfterRecordType ==
  ASSUME TypeOK, NEW w \in Worker, pc[w] # "idle", AfterRecord(w)
  PROVE  LoopsOK'
<1>1. CASE result[w].outcome = "gone" /\ ~IsRecipient(held[w])
  BY <1>1, TimesAssumption DEF TypeOK, LoopsOK, AfterRecord, Busy
<1>2. CASE ~(result[w].outcome = "gone" /\ ~IsRecipient(held[w]))
  BY <1>2, IdleType DEF TypeOK, AfterRecord
<1> QED
  BY <1>1, <1>2

\* The initial state is well-typed.
LEMMA InitType == Init => TypeOK
<1> SUFFICES ASSUME Init PROVE TypeOK
  OBVIOUS
<1>1. RowsOK /\ RegistryOK /\ HistoryOK
  BY TimesAssumption DEF Init, RowsOK, RegistryOK, HistoryOK, States, Reasons
<1>2. LoopsOK
  BY TimesAssumption, NamesAssumption
  DEF Init, LoopsOK, NoClaim, NoResult, ClaimType, ResultType, Reasons
<1>3. ProcessOK
  BY TimesAssumption, NamesAssumption DEF Init, ProcessOK
<1> QED
  BY <1>1, <1>2, <1>3 DEF TypeOK

\* The operator's requests keep the types.
LEMMA OperatorType == TypeOK /\ Operator => TypeOK'
<1> SUFFICES ASSUME TypeOK, Operator PROVE TypeOK'
  OBVIOUS
<1> USE TimesAssumption
<1>1. ASSUME NEW d \in Delivery, Enqueue(d) PROVE TypeOK'
  <2> DEFINE id == IF IsRecipient(d) THEN NullId ELSE destId[DestName[d]]
  <2>1. id \in 0..MaxIds
    BY NamesAssumption DEF TypeOK, RegistryOK, IsRecipient
  <2>2. /\ destinationId' = [destinationId EXCEPT ![d] = id]
        /\ addressed' = [addressed EXCEPT ![d] = id]
    BY <1>1 DEF Enqueue
  <2> HIDE DEF id
  <2> QED
    BY <1>1, <2>1, <2>2
    DEF TypeOK, RowsOK, RegistryOK, LoopsOK, ProcessOK, HistoryOK, Enqueue,
        regVars, loopVars, procVars, States
<1>2. ASSUME NEW d \in Delivery, Replay(d) PROVE TypeOK'
  BY <1>2 DEF TypeOK, RowsOK, RegistryOK, LoopsOK, ProcessOK, HistoryOK, Replay,
              regVars, loopVars, procVars, States, Reasons
<1>3. ASSUME NEW d \in Delivery, SetPublisher(d) PROVE TypeOK'
  BY <1>3 DEF TypeOK, RowsOK, RegistryOK, LoopsOK, ProcessOK, HistoryOK, SetPublisher,
              rowVars, loopVars, procVars, history
<1>4. ASSUME NEW n \in Name, CreateDestination(n) PROVE TypeOK'
  BY <1>4 DEF TypeOK, RowsOK, RegistryOK, LoopsOK, ProcessOK, HistoryOK, CreateDestination,
              rowVars, loopVars, procVars, history
<1>5. ASSUME NEW n \in Name, DeleteDestination(n) PROVE TypeOK'
  BY <1>5 DEF TypeOK, RowsOK, RegistryOK, LoopsOK, ProcessOK, HistoryOK, DeleteDestination,
              loopVars, procVars, history
<1>6. ASSUME NEW n \in Name, NEW on \in BOOLEAN, PatchEnabled(n, on) PROVE TypeOK'
  BY <1>6 DEF TypeOK, RowsOK, RegistryOK, LoopsOK, ProcessOK, HistoryOK, PatchEnabled,
              rowVars, loopVars, procVars, history
<1> QED
  BY <1>1, <1>2, <1>3, <1>4, <1>5, <1>6 DEF Operator

\* Each step of a claim loop keeps the types.
LEMMA LoopType ==
  ASSUME TypeOK, NEW w \in Worker, Claim(w) \/ Attempt(w)
  PROVE  TypeOK'
<1> USE TimesAssumption
<1>1. ASSUME NEW d \in Delivery, NEW lag \in 0..MaxClaimLag, ClaimDue(w, d, lag) PROVE TypeOK'
  BY <1>1, NamesAssumption, LeaseIsNat
  DEF TypeOK, RowsOK, RegistryOK, LoopsOK, ProcessOK, HistoryOK, ClaimDue, regVars,
      procVars, history, Busy, ClaimType
<1>2. ASSUME ResolveOk(w) PROVE TypeOK'
  <2>1. held[w] \in Delivery /\ (~IsRecipient(held[w]) => DestName[held[w]] \in Name)
    BY <1>2, BusyHolds DEF ResolveOk
  <2>2. Cap(made[held[w]] + 1, MaxBudgetAttempts + 1) \in Nat
    BY <2>1 DEF TypeOK, HistoryOK, Cap
  <2> QED
    BY <1>2, <2>1, <2>2
    DEF TypeOK, RowsOK, RegistryOK, LoopsOK, ProcessOK, HistoryOK, ResolveOk, rowVars,
        regVars, procVars, Busy
<1>3. ASSUME ResolveDead(w) PROVE TypeOK'
  <2>1. Resolution(w) \in Reasons
    BY DEF Resolution, Reasons
  <2> QED
    BY <1>3, <2>1, NeverSentType DEF ResolveDead
<1>4. ASSUME ResolveError(w) PROVE TypeOK'
  <2>1. CASE claim[w].age >= MaxBudgetAge
    BY <1>4, <2>1, NeverSentType DEF ResolveError, Reasons
  <2>2. CASE ~(claim[w].age >= MaxBudgetAge)
    <3>1. LoopsOK'
      BY <1>4, <2>2, IdleType DEF TypeOK, ResolveError
    <3> QED
      BY <1>4, <2>2, <3>1 DEF TypeOK, RowsOK, RegistryOK, ProcessOK, HistoryOK,
                              ResolveError, rowVars, regVars, procVars, history
  <2> QED
    BY <2>1, <2>2
<1>5. ASSUME NEW outcome \in Outcomes, NEW backoff \in MinBackoff..MaxBackoff,
             Deliver(w, outcome, backoff)
      PROVE  TypeOK'
  <2>1. held[w] \in Delivery
    BY <1>5, BusyHolds DEF Deliver
  <2>2. LoopsOK'
    BY <1>5, DecideType, StartRecordType DEF TypeOK, Deliver
  <2>3. acked' \in [Delivery -> BOOLEAN]
    BY <1>5, <2>1 DEF TypeOK, HistoryOK, Deliver
  <2>4. goneIds' \subseteq 0..MaxIds
    BY <1>5 DEF TypeOK, HistoryOK, LoopsOK, Deliver
  <2> QED
    BY <1>5, <2>2, <2>3, <2>4 DEF TypeOK, RowsOK, RegistryOK, ProcessOK, HistoryOK, Deliver,
                                  rowVars, regVars, procVars
<1>6. ASSUME RecordAttempt(w) PROVE TypeOK'
  <2>1. RowsOK' /\ stale' \in [Delivery -> BOOLEAN]
    BY <1>6, WriteType DEF RecordAttempt
  <2>2. LoopsOK'
    BY <1>6, AfterRecordType DEF RecordAttempt
  <2> QED
    BY <1>6, <2>1, <2>2 DEF TypeOK, RegistryOK, ProcessOK, HistoryOK, RecordAttempt,
                            regVars, procVars
<1>7. ASSUME DisableDestination(w) PROVE TypeOK'
  <2>1. LoopsOK'
    BY <1>7, IdleType DEF TypeOK, DisableDestination
  <2>2. enabled' \in [Name -> BOOLEAN] /\ disabledReason' \in [Name -> BOOLEAN]
    BY <1>7 DEF TypeOK, RegistryOK, DisableDestination
  <2> QED
    BY <1>7, <2>1, <2>2 DEF TypeOK, RowsOK, RegistryOK, ProcessOK, HistoryOK,
                            DisableDestination, rowVars, procVars, history
<1> QED
  BY <1>1, <1>2, <1>3, <1>4, <1>5, <1>6, <1>7 DEF Claim, Attempt

\* The steps of a shutdown and a restart keep the types.
LEMMA StopType ==
  ASSUME TypeOK, AllLoopsStop, faults' \in 0..MaxFaults
  PROVE  TypeOK'
<1>1. LoopsOK'
  BY TimesAssumption, NamesAssumption
  DEF AllLoopsStop, LoopsOK, NoClaim, NoResult, ClaimType, ResultType, Reasons
<1>2. lost' \in [Delivery -> BOOLEAN]
  BY DEF AllLoopsStop
<1> QED
  BY <1>1, <1>2, TimesAssumption
  DEF AllLoopsStop, TypeOK, RowsOK, RegistryOK, ProcessOK, HistoryOK, rowVars, regVars

\* Failing calls, panics and crashes keep the types.
LEMMA FaultType == TypeOK /\ Fault => TypeOK'
<1> SUFFICES ASSUME TypeOK, Fault PROVE TypeOK'
  OBVIOUS
<1> USE TimesAssumption
<1>0. faults < MaxFaults => faults + 1 \in 0..MaxFaults
  BY DEF TypeOK, ProcessOK
<1>1. ASSUME NEW w \in Worker, Panic(w) PROVE TypeOK'
  <2>1. LoopsOK'
    BY <1>1, IdleType DEF TypeOK, Panic
  <2>2. lost' \in [Delivery -> BOOLEAN]
    BY <1>1 DEF Panic
  <2> QED
    BY <1>0, <1>1, <2>1, <2>2 DEF TypeOK, RowsOK, RegistryOK, ProcessOK, HistoryOK, Panic,
                                  rowVars, regVars
<1>2. ASSUME NEW w \in Worker, DisableFailed(w) PROVE TypeOK'
  <2>1. LoopsOK'
    BY <1>2, IdleType DEF TypeOK, DisableFailed
  <2> QED
    BY <1>0, <1>2, <2>1 DEF TypeOK, RowsOK, RegistryOK, ProcessOK, HistoryOK, DisableFailed,
                            rowVars, regVars, history
<1>3. ASSUME NEW w \in Worker, NEW committed \in BOOLEAN, RecordFailed(w, committed)
      PROVE  TypeOK'
  <2>1. RowsOK' /\ stale' \in [Delivery -> BOOLEAN]
    <3>1. CASE committed
      BY <1>3, <3>1, WriteType DEF RecordFailed
    <3>2. CASE ~committed
      BY <1>3, <3>2 DEF RecordFailed, TypeOK, RowsOK, HistoryOK, rowVars
    <3> QED
      BY <3>1, <3>2
  <2>2. held[w] \in Delivery
    BY <1>3, BusyHolds DEF RecordFailed
  <2>3. LoopsOK' /\ lost' \in [Delivery -> BOOLEAN]
    <3>1. CASE tries[w] + 1 < RecordAttempts /\ left[w] > 0
      BY <1>3, <3>1 DEF RecordFailed, TypeOK, LoopsOK, HistoryOK
    <3>2. CASE ~(tries[w] + 1 < RecordAttempts /\ left[w] > 0)
      <4>1. AfterRecord(w) /\ lost' = [lost EXCEPT ![held[w]] = @ \/ ~(written[w] \/ committed)]
        BY <1>3, <3>2 DEF RecordFailed
      <4>2. LoopsOK'
        BY <1>3, <4>1, AfterRecordType DEF RecordFailed
      <4> QED
        BY <4>1, <4>2, <2>2 DEF TypeOK, HistoryOK
    <3> QED
      BY <3>1, <3>2
  <2> QED
    BY <1>0, <1>3, <2>1, <2>3 DEF TypeOK, RegistryOK, ProcessOK, HistoryOK, RecordFailed, regVars
<1>4. ASSUME NEW d \in Delivery, NEW lag \in 0..MaxClaimLag, ClaimLost(d, lag) PROVE TypeOK'
  BY <1>0, <1>4, LeaseIsNat DEF TypeOK, RowsOK, RegistryOK, LoopsOK, ProcessOK, HistoryOK,
                                ClaimLost, regVars, loopVars, history
<1>5. ASSUME Crash PROVE TypeOK'
  BY <1>0, <1>5, StopType DEF Crash
<1>6. ASSUME Sigterm PROVE TypeOK'
  BY <1>0, <1>6 DEF TypeOK, RowsOK, RegistryOK, LoopsOK, ProcessOK, HistoryOK, Sigterm,
                    rowVars, regVars, loopVars, history
<1> QED
  BY <1>1, <1>2, <1>3, <1>4, <1>5, <1>6 DEF Fault

\* The clock keeps the types: no deadline lets it run past its bound.
LEMMA TickType == TypeOK /\ Tick => TypeOK'
<1> SUFFICES ASSUME TypeOK, Tick PROVE TypeOK'
  OBVIOUS
<1> USE TimesAssumption
<1>1. LoopsOK'
  <2>1. claim' \in [Worker -> ClaimType]
    <3>1. ASSUME NEW c \in ClaimType
          PROVE  [c EXCEPT !.age = Cap(@ + 1, MaxBudgetAge)] \in ClaimType
      BY DEF ClaimType, Cap
    <3> QED
      BY <3>1 DEF Tick, TypeOK, LoopsOK
  <2>2. result' \in [Worker -> ResultType] /\ \A w \in Worker : result'[w].next = result[w].next
    <3>1. ASSUME NEW r \in ResultType
          PROVE  /\ [r EXCEPT !.due = Down1(@)] \in ResultType
                 /\ [r EXCEPT !.due = Down1(@)].next = r.next
      BY DEF ResultType, Down1
    <3> QED
      BY <3>1 DEF Tick, TypeOK, LoopsOK
  <2>3. left' \in [Worker -> Nat]
    BY DEF Tick, TypeOK, LoopsOK, Down1
  <2> QED
    BY <2>1, <2>2, <2>3 DEF Tick, TypeOK, LoopsOK
<1>2. RowsOK'
  BY DEF Tick, TypeOK, RowsOK, Cap
<1> QED
  BY <1>1, <1>2 DEF Tick, TypeOK, RegistryOK, ProcessOK, HistoryOK, Down1, regVars, history

\* Every step keeps the types.
LEMMA TypeStep == TypeOK /\ [Next]_vars => TypeOK'
<1> SUFFICES ASSUME TypeOK, [Next]_vars PROVE TypeOK'
  OBVIOUS
<1>1. CASE Exit
  BY <1>1, StopType DEF Exit, TypeOK, ProcessOK
<1>2. CASE Restart
  BY <1>2, NamesAssumption DEF TypeOK, RowsOK, RegistryOK, LoopsOK, ProcessOK, HistoryOK,
                               Restart, rowVars, regVars, loopVars, history
<1>3. CASE UNCHANGED vars
  BY <1>3 DEF TypeOK, RowsOK, RegistryOK, LoopsOK, ProcessOK, HistoryOK, vars, rowVars,
              regVars, loopVars, procVars, history
<1> QED
  BY <1>1, <1>2, <1>3, LoopType, FaultType, OperatorType, TickType DEF Next

\* Every column, context and flag keeps its type, whatever the loops, the
\* operator, the faults and the clock do.
THEOREM TypeCorrect == Spec => []TypeOK
<1>1. Init => TypeOK
  BY InitType
<1>2. TypeOK /\ [Next]_vars => TypeOK'
  BY TypeStep
<1> QED
  BY <1>1, <1>2, PTL DEF Spec

-----------------------------------------------------------------------------
(* Addressees                                                              *)

\* A written row is in a final state or pending again, never absent.
LEMMA WriteKeepsRows ==
  ASSUME TypeOK, NEW w \in Worker, pc[w] = "record", WriteAttempt(w), NEW d \in Delivery,
         state[d] # "absent"
  PROVE  state'[d] # "absent"
<1>1. held[w] \in Delivery /\ result[w].next # "absent"
  BY BusyHolds DEF TypeOK, LoopsOK, ResultType
<1> QED
  BY <1>1 DEF WriteAttempt, rowVars, TypeOK, RowsOK

\* A loop's step sends only to the destination its claim resolved.
LEMMA AddresseeLoop ==
  ASSUME TypeOK, AddresseeInv, NEW w \in Worker, Claim(w) \/ Attempt(w)
  PROVE  AddresseeInv'
<1>1. ASSUME NEW d \in Delivery, NEW lag \in 0..MaxClaimLag, ClaimDue(w, d, lag)
      PROVE  AddresseeInv'
  BY <1>1 DEF AddresseeInv, ClaimDue, Claimable, TypeOK, LoopsOK, RowsOK, history, IsRecipient
<1>2. ASSUME ResolveOk(w) PROVE AddresseeInv'
  <2>1. held[w] \in Delivery
    BY <1>2, BusyHolds DEF ResolveOk
  <2>2. target'[w] = addressed[held[w]]
    BY <1>2, <2>1 DEF AddresseeInv, ResolveOk, Resolution, TypeOK, LoopsOK
  <2> QED
    BY <1>2, <2>2 DEF AddresseeInv, ResolveOk, TypeOK, LoopsOK, rowVars, IsRecipient
<1>3. ASSUME ResolveDead(w) PROVE AddresseeInv'
  BY <1>3 DEF AddresseeInv, ResolveDead, RecordNeverSent, StartRecord, TypeOK, LoopsOK,
              rowVars, history, IsRecipient
<1>4. ASSUME ResolveError(w) PROVE AddresseeInv'
  BY <1>4 DEF AddresseeInv, ResolveError, RecordNeverSent, StartRecord, BackToLoop, TypeOK,
              LoopsOK, rowVars, history, IsRecipient
<1>5. ASSUME NEW outcome \in Outcomes, NEW backoff \in MinBackoff..MaxBackoff,
             Deliver(w, outcome, backoff)
      PROVE  AddresseeInv'
  BY <1>5 DEF AddresseeInv, Deliver, StartRecord, TypeOK, LoopsOK, rowVars, IsRecipient
<1>6. ASSUME RecordAttempt(w) PROVE AddresseeInv'
  <2>1. \A d \in Delivery : state[d] # "absent" => state'[d] # "absent"
    BY <1>6, WriteKeepsRows DEF RecordAttempt
  <2>2. destinationId' = destinationId
    BY <1>6 DEF RecordAttempt, WriteAttempt, rowVars
  <2> QED
    BY <1>6, <2>1, <2>2 DEF AddresseeInv, RecordAttempt, AfterRecord, BackToLoop, TypeOK,
                            LoopsOK, IsRecipient
<1>7. ASSUME DisableDestination(w) PROVE AddresseeInv'
  BY <1>7 DEF AddresseeInv, DisableDestination, BackToLoop, TypeOK, LoopsOK, rowVars,
              history, IsRecipient
<1> QED
  BY <1>1, <1>2, <1>3, <1>4, <1>5, <1>6, <1>7 DEF Claim, Attempt

\* A fault sends nothing.
LEMMA AddresseeFault == TypeOK /\ AddresseeInv /\ Fault => AddresseeInv'
<1> SUFFICES ASSUME TypeOK, AddresseeInv, Fault PROVE AddresseeInv'
  OBVIOUS
<1>1. ASSUME NEW w \in Worker, Panic(w) \/ DisableFailed(w) PROVE AddresseeInv'
  BY <1>1 DEF AddresseeInv, Panic, DisableFailed, BackToLoop, TypeOK, LoopsOK, rowVars,
              history, IsRecipient
<1>2. ASSUME NEW w \in Worker, NEW committed \in BOOLEAN, RecordFailed(w, committed)
      PROVE  AddresseeInv'
  <2>1. \A d \in Delivery : state[d] # "absent" => state'[d] # "absent"
    BY <1>2, WriteKeepsRows DEF RecordFailed, rowVars
  <2>2. destinationId' = destinationId
    BY <1>2 DEF RecordFailed, WriteAttempt, rowVars
  <2> QED
    BY <1>2, <2>1, <2>2 DEF AddresseeInv, RecordFailed, AfterRecord, BackToLoop, TypeOK,
                            LoopsOK, IsRecipient
<1>3. ASSUME NEW d \in Delivery, NEW lag \in 0..MaxClaimLag, ClaimLost(d, lag)
      PROVE  AddresseeInv'
  BY <1>3 DEF AddresseeInv, ClaimLost, loopVars, history, IsRecipient
<1>4. ASSUME Crash PROVE AddresseeInv'
  BY <1>4 DEF AddresseeInv, Crash, AllLoopsStop, rowVars, IsRecipient
<1>5. ASSUME Sigterm PROVE AddresseeInv'
  BY <1>5 DEF AddresseeInv, Sigterm, rowVars, loopVars, history, IsRecipient
<1> QED
  BY <1>1, <1>2, <1>3, <1>4, <1>5 DEF Fault

\* Every step keeps AddresseeInv.
LEMMA AddresseeStep == TypeOK /\ AddresseeInv /\ [Next]_vars => AddresseeInv'
<1> SUFFICES ASSUME TypeOK, AddresseeInv, [Next]_vars PROVE AddresseeInv'
  OBVIOUS
<1>1. CASE Operator
  <2>1. ASSUME NEW d \in Delivery, Enqueue(d) PROVE AddresseeInv'
    BY <2>1 DEF AddresseeInv, Enqueue, TypeOK, RowsOK, HistoryOK, LoopsOK, loopVars,
                IsRecipient
  <2>2. ASSUME NEW d \in Delivery, Replay(d) PROVE AddresseeInv'
    BY <2>2 DEF AddresseeInv, Replay, TypeOK, RowsOK, LoopsOK, loopVars, IsRecipient
  <2>3. ASSUME NEW d \in Delivery, SetPublisher(d) PROVE AddresseeInv'
    BY <2>3 DEF AddresseeInv, SetPublisher, rowVars, loopVars, history, IsRecipient
  <2>4. ASSUME NEW n \in Name, CreateDestination(n) PROVE AddresseeInv'
    BY <2>4 DEF AddresseeInv, CreateDestination, rowVars, loopVars, history, IsRecipient
  <2>5. ASSUME NEW n \in Name, DeleteDestination(n) PROVE AddresseeInv'
    BY <2>5 DEF AddresseeInv, DeleteDestination, TypeOK, RowsOK, loopVars, history, IsRecipient
  <2>6. ASSUME NEW n \in Name, NEW on \in BOOLEAN, PatchEnabled(n, on) PROVE AddresseeInv'
    BY <2>6 DEF AddresseeInv, PatchEnabled, rowVars, loopVars, history, IsRecipient
  <2> QED
    BY <1>1, <2>1, <2>2, <2>3, <2>4, <2>5, <2>6 DEF Operator
<1>2. CASE Exit
  BY <1>2 DEF AddresseeInv, Exit, AllLoopsStop, rowVars, IsRecipient
<1>3. CASE Restart
  BY <1>3 DEF AddresseeInv, Restart, rowVars, loopVars, history, IsRecipient
<1>4. CASE Tick
  <2>1. \A w \in Worker : claim'[w].id = claim[w].id
    BY <1>4 DEF Tick, TypeOK, LoopsOK, ClaimType
  <2> QED
    BY <1>4, <2>1 DEF AddresseeInv, Tick, TypeOK, LoopsOK, history, IsRecipient
<1>5. CASE UNCHANGED vars
  BY <1>5 DEF AddresseeInv, vars, rowVars, loopVars, history, IsRecipient
<1> QED
  BY <1>1, <1>2, <1>3, <1>4, <1>5, AddresseeLoop, AddresseeFault DEF Next

\* A delivery is only ever sent to the destination it was addressed to.
THEOREM AddresseeCorrect == Spec => []SentOnlyToAddressee
<1>1. Init => TypeOK /\ AddresseeInv
  BY InitType DEF Init, AddresseeInv
<1>2. TypeOK /\ AddresseeInv /\ [Next]_vars => (TypeOK /\ AddresseeInv)'
  BY TypeStep, AddresseeStep
<1>3. AddresseeInv => SentOnlyToAddressee
  BY DEF AddresseeInv, SentOnlyToAddressee
<1> QED
  BY <1>1, <1>2, <1>3, PTL DEF Spec

-----------------------------------------------------------------------------
(* Disabling after a 410                                                   *)

\* A loop disables only the destination whose sink answered 410.
LEMMA GoneLoop ==
  ASSUME TypeOK, GoneInv, NEW w \in Worker, Claim(w) \/ Attempt(w)
  PROVE  GoneInv'
<1> USE DEF GoneInv, DisabledOnlyIfGone
<1>1. ASSUME NEW d \in Delivery, NEW lag \in 0..MaxClaimLag, ClaimDue(w, d, lag)
      PROVE  GoneInv'
  BY <1>1 DEF ClaimDue, TypeOK, LoopsOK, regVars, history
<1>2. ASSUME ResolveOk(w) PROVE GoneInv'
  BY <1>2 DEF ResolveOk, TypeOK, LoopsOK, regVars
<1>3. ASSUME ResolveDead(w) PROVE GoneInv'
  BY <1>3 DEF ResolveDead, RecordNeverSent, StartRecord, DeadResult, TypeOK, LoopsOK, regVars,
              history
<1>4. ASSUME ResolveError(w) PROVE GoneInv'
  BY <1>4 DEF ResolveError, RecordNeverSent, StartRecord, DeadResult, BackToLoop, TypeOK,
              LoopsOK, regVars, history
<1>5. ASSUME NEW outcome \in Outcomes, NEW backoff \in MinBackoff..MaxBackoff,
             Deliver(w, outcome, backoff)
      PROVE  GoneInv'
  <2>1. Decide(claim[w], outcome, backoff).outcome = outcome
    BY DEF Decide, DeadResult, Outcomes
  <2> QED
    BY <1>5, <2>1 DEF Deliver, StartRecord, TypeOK, LoopsOK, regVars
<1>6. ASSUME RecordAttempt(w) PROVE GoneInv'
  BY <1>6 DEF RecordAttempt, AfterRecord, BackToLoop, TypeOK, LoopsOK, regVars
<1>7. ASSUME DisableDestination(w) PROVE GoneInv'
  BY <1>7 DEF DisableDestination, BackToLoop, TypeOK, LoopsOK, RegistryOK, history
<1> QED
  BY <1>1, <1>2, <1>3, <1>4, <1>5, <1>6, <1>7 DEF Claim, Attempt

\* Every step keeps GoneInv.
LEMMA GoneStep == TypeOK /\ GoneInv /\ [Next]_vars => GoneInv'
<1> SUFFICES ASSUME TypeOK, GoneInv, [Next]_vars PROVE GoneInv'
  OBVIOUS
<1> USE DEF GoneInv, DisabledOnlyIfGone
<1>1. CASE Operator
  <2>1. ASSUME NEW d \in Delivery, Enqueue(d) \/ Replay(d) \/ SetPublisher(d) PROVE GoneInv'
    BY <2>1 DEF Enqueue, Replay, SetPublisher, loopVars, regVars, history
  <2>2. ASSUME NEW n \in Name, CreateDestination(n) \/ DeleteDestination(n) PROVE GoneInv'
    BY <2>2 DEF CreateDestination, DeleteDestination, TypeOK, RegistryOK, loopVars, history
  <2>3. ASSUME NEW n \in Name, NEW on \in BOOLEAN, PatchEnabled(n, on) PROVE GoneInv'
    BY <2>3 DEF PatchEnabled, TypeOK, RegistryOK, loopVars, history
  <2> QED
    BY <1>1, <2>1, <2>2, <2>3 DEF Operator
<1>2. CASE Fault
  <2>1. ASSUME NEW w \in Worker, Panic(w) \/ DisableFailed(w) PROVE GoneInv'
    BY <2>1 DEF Panic, DisableFailed, BackToLoop, TypeOK, LoopsOK, regVars, history
  <2>2. ASSUME NEW w \in Worker, NEW committed \in BOOLEAN, RecordFailed(w, committed)
        PROVE  GoneInv'
    BY <2>2 DEF RecordFailed, AfterRecord, BackToLoop, TypeOK, LoopsOK, regVars
  <2>3. ASSUME NEW d \in Delivery, NEW lag \in 0..MaxClaimLag, ClaimLost(d, lag) PROVE GoneInv'
    BY <2>3 DEF ClaimLost, loopVars, regVars, history
  <2>4. ASSUME Crash PROVE GoneInv'
    BY <2>4 DEF Crash, AllLoopsStop, regVars
  <2>5. ASSUME Sigterm PROVE GoneInv'
    BY <2>5 DEF Sigterm, loopVars, regVars, history
  <2> QED
    BY <1>2, <2>1, <2>2, <2>3, <2>4, <2>5 DEF Fault
<1>3. CASE Exit
  BY <1>3 DEF Exit, AllLoopsStop, regVars
<1>4. CASE Restart
  BY <1>4 DEF Restart, regVars, loopVars, history
<1>5. CASE Tick
  <2>1. \A w \in Worker : result'[w].outcome = result[w].outcome
    BY <1>5 DEF Tick, TypeOK, LoopsOK, ResultType
  <2> QED
    BY <1>5, <2>1 DEF Tick, regVars, history
<1>6. CASE UNCHANGED vars
  BY <1>6 DEF vars, regVars, loopVars, history
<1> QED
  BY <1>1, <1>2, <1>3, <1>4, <1>5, <1>6, GoneLoop DEF Next

\* Only a destination that answered 410 is ever disabled for it.
THEOREM DisableCorrect == Spec => []DisabledOnlyIfGone
<1>1. Init => TypeOK /\ GoneInv
  BY InitType DEF Init, GoneInv, DisabledOnlyIfGone
<1>2. TypeOK /\ GoneInv /\ [Next]_vars => (TypeOK /\ GoneInv)'
  BY TypeStep, GoneStep
<1>3. GoneInv => DisabledOnlyIfGone
  BY DEF GoneInv
<1> QED
  BY <1>1, <1>2, <1>3, PTL DEF Spec

-----------------------------------------------------------------------------
(* Shutdown                                                                *)

\* A loop that drains stays within the time its attempt may take.
LEMMA DrainLoop ==
  ASSUME TypeOK, DrainInv, NEW w \in Worker, Claim(w) \/ Attempt(w)
  PROVE  DrainInv'
<1> USE TimesAssumption DEF DrainInv, InFlight
<1>1. ASSUME NEW d \in Delivery, NEW lag \in 0..MaxClaimLag, ClaimDue(w, d, lag)
      PROVE  DrainInv'
  BY <1>1 DEF ClaimDue, TypeOK, LoopsOK, Busy, procVars
<1>2. ASSUME ResolveOk(w) PROVE DrainInv'
  BY <1>2 DEF ResolveOk, TypeOK, LoopsOK, Busy, procVars
<1>3. ASSUME NEW r, StartRecord(w, r), pc[w] \in {"resolve", "send"}, UNCHANGED procVars
      PROVE  DrainInv'
  BY <1>3 DEF StartRecord, TypeOK, LoopsOK, ProcessOK, Busy, procVars
<1>4. ASSUME BackToLoop(w), UNCHANGED procVars PROVE DrainInv'
  BY <1>4 DEF BackToLoop, TypeOK, LoopsOK, Busy, procVars
<1>5. ASSUME AfterRecord(w), pc[w] = "record", UNCHANGED procVars PROVE DrainInv'
  <2>1. CASE result[w].outcome = "gone" /\ ~IsRecipient(held[w])
    BY <1>5, <2>1 DEF AfterRecord, TypeOK, LoopsOK, ProcessOK, Busy, procVars
  <2> QED
    BY <1>4, <1>5, <2>1 DEF AfterRecord
<1> QED
  BY <1>1, <1>2, <1>3, <1>4, <1>5
  DEF Claim, Attempt, ResolveDead, ResolveError, RecordNeverSent, Deliver, RecordAttempt,
      DisableDestination

\* Every step keeps DrainInv.
LEMMA DrainStep == TypeOK /\ DrainInv /\ [Next]_vars => DrainInv'
<1> SUFFICES ASSUME TypeOK, DrainInv, [Next]_vars PROVE DrainInv'
  OBVIOUS
<1> USE TimesAssumption DEF DrainInv, InFlight
<1>1. CASE Operator
  <2>1. UNCHANGED <<loopVars, procVars>>
    BY <1>1 DEF Operator, Enqueue, Replay, SetPublisher, CreateDestination, DeleteDestination,
                PatchEnabled
  <2> QED
    BY <2>1 DEF loopVars, procVars
<1>2. CASE Fault
  <2>1. ASSUME NEW w \in Worker, Panic(w) \/ DisableFailed(w) PROVE DrainInv'
    BY <2>1 DEF Panic, DisableFailed, BackToLoop, TypeOK, LoopsOK, Busy
  <2>2. ASSUME NEW w \in Worker, NEW committed \in BOOLEAN, RecordFailed(w, committed)
        PROVE  DrainInv'
    <3>1. CASE UNCHANGED <<pc, left>>
      BY <2>2, <3>1 DEF RecordFailed
    <3>2. CASE AfterRecord(w)
      BY <2>2, <3>2 DEF RecordFailed, AfterRecord, BackToLoop, TypeOK, LoopsOK, ProcessOK, Busy
    <3> QED
      BY <2>2, <3>1, <3>2 DEF RecordFailed
  <2>3. ASSUME NEW d \in Delivery, NEW lag \in 0..MaxClaimLag, ClaimLost(d, lag) PROVE DrainInv'
    BY <2>3 DEF ClaimLost, loopVars
  <2>4. ASSUME Crash PROVE DrainInv'
    BY <2>4 DEF Crash, AllLoopsStop
  <2>5. ASSUME Sigterm PROVE DrainInv'
    BY <2>5, StopAssumption DEF Sigterm, loopVars, TypeOK, LoopsOK, Busy
  <2> QED
    BY <1>2, <2>1, <2>2, <2>3, <2>4, <2>5 DEF Fault
<1>3. CASE Exit
  BY <1>3 DEF Exit, AllLoopsStop
<1>4. CASE Restart
  BY <1>4 DEF Restart, loopVars
<1>5. CASE Tick
  BY <1>5 DEF Tick, Down1, TypeOK, LoopsOK, ProcessOK, Busy
<1>6. CASE UNCHANGED vars
  BY <1>6 DEF vars, loopVars, procVars
<1> QED
  BY <1>1, <1>2, <1>3, <1>4, <1>5, <1>6, DrainLoop DEF Next

\* SIGTERM never abandons an attempt: all of them end within the shutdown wait.
THEOREM DrainCorrect == Spec => []DrainFinishesAttempts
<1>1. Init => TypeOK /\ DrainInv
  BY InitType DEF Init, DrainInv
<1>2. TypeOK /\ DrainInv /\ [Next]_vars => (TypeOK /\ DrainInv)'
  BY TypeStep, DrainStep
<1>3. TypeOK /\ DrainInv => DrainFinishesAttempts
  <2>1. ASSUME NEW w \in Worker, TypeOK PROVE ~(InFlight(w) < 0)
    <3>1. pc[w] \in {"idle", "resolve", "send", "record", "disable"} /\ left[w] \in Nat
      BY <2>1 DEF TypeOK, LoopsOK, Busy
    <3> QED
      BY <3>1, TimesAssumption DEF InFlight
  <2> QED
    BY <2>1 DEF DrainInv, DrainFinishesAttempts
<1> QED
  BY <1>1, <1>2, <1>3, PTL DEF Spec

-----------------------------------------------------------------------------
(* The lease                                                               *)

\* What RecordAttempt's transaction does to row d under the lease invariant,
\* when it does not overwrite a replayed row.
LEMMA WriteUnderLease ==
  ASSUME TypeOK, LeaseInv, NEW w \in Worker, pc[w] = "record", WriteAttempt(w),
         NEW d \in Delivery, ~stale'[d]
  PROVE  /\ ~stale[d]
         /\ replays'[d] = replays[d]
         /\ \/ UNCHANGED <<state[d], nextIn[d]>> /\ (held[w] = d => ~Owns(w, d))
            \/ UNCHANGED <<state[d], nextIn[d]>> /\ held[w] # d
            \/ /\ Owns(w, d)
               /\ state'[d] = result[w].next
               /\ result[w].next = "pending" => nextIn'[d] = result[w].due
<1>1. held[w] \in Delivery
  BY BusyHolds
<1>2. ~stale[d] /\ replays'[d] = replays[d]
  <2>1. replays' = replays
    BY DEF WriteAttempt, rowVars
  <2>2. stale' = stale \/ stale' = [stale EXCEPT ![held[w]] = @ \/ claim[w].replay # replays[held[w]]]
    BY DEF WriteAttempt
  <2>3. stale \in [Delivery -> BOOLEAN]
    BY DEF TypeOK, HistoryOK
  <2> QED
    BY <1>1, <2>1, <2>2, <2>3
<1>3. CASE held[w] # d
  BY <1>1, <1>2, <1>3 DEF WriteAttempt, rowVars, TypeOK, RowsOK
<1>4. CASE held[w] = d /\ state[d] # "pending"
  BY <1>2, <1>4 DEF WriteAttempt, rowVars, LeaseInv, OwnerInv
<1>5. CASE held[w] = d /\ state[d] = "pending"
  <2>1. claim[w].replay = replays[d]
    BY <1>1, <1>5 DEF WriteAttempt, TypeOK, HistoryOK
  <2>2. Owns(w, d)
    BY <1>2, <1>5, <2>1 DEF Owns, LeaseInv, WrittenInv
  <2> QED
    BY <1>1, <1>2, <1>5, <2>2 DEF WriteAttempt, TypeOK, RowsOK
<1> QED
  BY <1>3, <1>4, <1>5

\* The time a loop may still need for its attempt is a number.
LEMMA TenureIsNat ==
  ASSUME TypeOK, NEW w \in Worker
  PROVE  Tenure(w) \in Nat
  BY TimesAssumption DEF TypeOK, LoopsOK, Tenure

\* A row that is due has no owner.
LEMMA DueHasNoOwner ==
  ASSUME TypeOK, LeaseInv, NEW d \in Delivery, ~stale[d], nextIn[d] <= 0, NEW w \in Worker
  PROVE  ~Owns(w, d)
  BY TenureIsNat DEF TypeOK, RowsOK, LeaseInv, OwnerInv

\* A claim makes the loop the only owner of a row that had none.
LEMMA LeaseClaim ==
  ASSUME TypeOK, LeaseInv, NEW w \in Worker, NEW d \in Delivery, NEW lag \in 0..MaxClaimLag,
         ClaimDue(w, d, lag)
  PROVE  LeaseInv'
<1> USE TimesAssumption
<1>1. nextIn[d] <= 0 /\ state[d] = "pending"
  BY DEF ClaimDue, Claimable, TypeOK, RowsOK
<1>2. \A v \in Worker : ~stale[d] => ~Owns(v, d)
  BY <1>1, DueHasNoOwner
<1>3. /\ nextIn'[d] > AttemptTimeout + RecordTimeout
      /\ \A c \in Delivery : c # d => nextIn'[c] = nextIn[c]
  BY LeaseIsNat, LagAssumption DEF ClaimDue, LeaseFloor, TypeOK, RowsOK
<1>4. /\ pc'[w] = "resolve" /\ held'[w] = d /\ left'[w] = AttemptTimeout
      /\ claim'[w].replay = replays[d]
      /\ \A v \in Worker : v # w => /\ pc'[v] = pc[v] /\ held'[v] = held[v]
                                     /\ left'[v] = left[v] /\ claim'[v] = claim[v]
      /\ UNCHANGED <<state, replays, stale, result, written>>
  BY DEF ClaimDue, TypeOK, LoopsOK, history
<1>5. /\ \A c \in Delivery : Owns(w, c)' => c = d
      /\ \A c \in Delivery, v \in Worker : v # w => (Owns(v, c)' <=> Owns(v, c))
      /\ \A v \in Worker : v # w => Tenure(v)' = Tenure(v)
      /\ Tenure(w)' = AttemptTimeout + RecordTimeout
  BY <1>4 DEF Owns, Tenure
<1>6. OwnerInv'
  BY <1>1, <1>2, <1>3, <1>4, <1>5 DEF LeaseInv, OwnerInv
<1>7. OneOwner'
  BY <1>2, <1>4, <1>5 DEF LeaseInv, OneOwner
<1>8. WrittenInv'
  BY <1>4 DEF LeaseInv, WrittenInv, TypeOK, RowsOK
<1>9. RetryInv'
  BY <1>4 DEF LeaseInv, RetryInv
<1> QED
  BY <1>6, <1>7, <1>8, <1>9 DEF LeaseInv

\* Steps of one loop that leave the rows alone and do not give it a row.
LEMMA LeaseQuiet ==
  ASSUME TypeOK, LeaseInv, NEW w \in Worker,
         UNCHANGED <<rowVars, stale>>,
         \A v \in Worker : v # w => /\ pc'[v] = pc[v] /\ held'[v] = held[v]
                                    /\ left'[v] = left[v] /\ claim'[v] = claim[v]
                                    /\ result'[v] = result[v] /\ written'[v] = written[v],
         \A d \in Delivery : Owns(w, d)' => Owns(w, d) /\ Tenure(w)' <= Tenure(w)
                                           /\ claim'[w].replay = claim[w].replay,
         held'[w] \in Delivery => held'[w] = held[w] /\ claim'[w].replay = claim[w].replay,
         pc'[w] = "record" /\ written'[w] => pc[w] = "record" /\ written[w] /\ result'[w].next = result[w].next,
         pc'[w] = "record" /\ result'[w].next = "pending" => result'[w].due > left'[w],
         Tenure(w)' \in Int
  PROVE  LeaseInv'
<1>1. /\ \A d \in Delivery, v \in Worker : v # w => (Owns(v, d)' <=> Owns(v, d))
      /\ \A v \in Worker : v # w => Tenure(v)' = Tenure(v)
      /\ UNCHANGED <<state, nextIn, replays>>
  BY DEF Owns, Tenure, rowVars
<1>2. OwnerInv'
  BY <1>1, TenureIsNat DEF LeaseInv, OwnerInv, TypeOK, RowsOK
<1>3. OneOwner'
  BY <1>1 DEF LeaseInv, OneOwner
<1>4. WrittenInv'
  BY <1>1 DEF LeaseInv, WrittenInv
<1>5. RetryInv'
  BY <1>1 DEF LeaseInv, RetryInv
<1> QED
  BY <1>2, <1>3, <1>4, <1>5 DEF LeaseInv

\* A loop that gives its claim up leaves the other owners alone.
LEMMA LeaseIdle ==
  ASSUME TypeOK, LeaseInv, NEW w \in Worker, BackToLoop(w), UNCHANGED <<rowVars, stale>>
  PROVE  LeaseInv'
<1>1. held'[w] \notin Delivery /\ pc'[w] = "idle"
  BY NamesAssumption DEF BackToLoop, TypeOK, LoopsOK
<1>2. Tenure(w)' \in Int
  BY <1>1, TimesAssumption DEF Tenure, BackToLoop, TypeOK, LoopsOK
<1>3. \A d \in Delivery : ~Owns(w, d)'
  BY <1>1 DEF Owns
<1> QED
  BY <1>1, <1>2, <1>3, LeaseQuiet DEF BackToLoop, TypeOK, LoopsOK

\* Starting a record keeps the owner within its lease.
LEMMA LeaseStartRecord ==
  ASSUME TypeOK, LeaseInv, NEW w \in Worker, NEW r, pc[w] \in {"resolve", "send"},
         r.next = "pending" => r.due > RecordTimeout,
         StartRecord(w, r), UNCHANGED <<rowVars, stale>>
  PROVE  LeaseInv'
<1>1. /\ pc'[w] = "record" /\ held'[w] = held[w] /\ claim'[w] = claim[w]
      /\ left'[w] = RecordTimeout /\ result'[w] = r /\ ~written'[w]
  BY DEF StartRecord, TypeOK, LoopsOK
<1>2. Tenure(w)' \in Int /\ Tenure(w)' <= Tenure(w)
  BY <1>1, TimesAssumption DEF Tenure, TypeOK, LoopsOK
<1>3. \A d \in Delivery : Owns(w, d)' => Owns(w, d)
  BY <1>1 DEF Owns
<1> QED
  BY <1>1, <1>2, <1>3, LeaseQuiet DEF StartRecord, TypeOK, LoopsOK

\* RecordAttempt's transaction, after which the loop is done recording or knows
\* that it may have to write once more.
LEMMA LeaseWrite ==
  ASSUME TypeOK, LeaseInv, NEW w \in Worker, pc[w] = "record", WriteAttempt(w),
         \A v \in Worker : v # w => /\ pc'[v] = pc[v] /\ held'[v] = held[v]
                                    /\ left'[v] = left[v] /\ claim'[v] = claim[v]
                                    /\ result'[v] = result[v] /\ written'[v] = written[v],
         \/ /\ pc'[w] \in {"idle", "disable"}
            /\ held'[w] \in Delivery => held'[w] = held[w] /\ claim'[w] = claim[w]
         \/ /\ pc'[w] = "record" /\ written'[w]
            /\ UNCHANGED <<held, left, claim, result>>
  PROVE  LeaseInv'
<1>1. /\ \A d \in Delivery, v \in Worker : v # w => (Owns(v, d)' <=> Owns(v, d))
      /\ \A v \in Worker : v # w => Tenure(v)' = Tenure(v)
  BY DEF Owns, Tenure
<1>2. ASSUME NEW d \in Delivery, Owns(w, d)'
      PROVE  /\ Owns(w, d) /\ result[w].next = "pending" /\ pc'[w] = "record"
             /\ UNCHANGED <<held, left, claim, result>>
  BY <1>2 DEF Owns
<1>3. RetryInv'
  BY DEF LeaseInv, RetryInv
<1>4. ASSUME NEW d \in Delivery, NEW v \in Worker, Owns(v, d)', ~stale'[d]
      PROVE  /\ state'[d] = "pending" /\ claim'[v].replay = replays'[d]
             /\ nextIn'[d] > Tenure(v)'
  <2>1. CASE v # w
    BY <1>1, <1>4, <2>1, WriteUnderLease DEF LeaseInv, OwnerInv, OneOwner
  <2>2. CASE v = w
    <3>1. /\ Owns(w, d) /\ result[w].next = "pending" /\ pc'[w] = "record"
          /\ UNCHANGED <<held, left, claim, result>>
      BY <1>2, <1>4, <2>2
    <3>2. state'[d] = "pending" /\ nextIn'[d] = result[w].due /\ replays'[d] = replays[d] /\ ~stale[d]
      BY <1>4, <3>1, WriteUnderLease DEF Owns
    <3>3. result[w].due > left[w] /\ claim[w].replay = replays[d]
      BY <3>1, <3>2 DEF LeaseInv, RetryInv, OwnerInv
    <3> QED
      BY <2>2, <3>1, <3>2, <3>3 DEF Tenure
  <2> QED
    BY <2>1, <2>2
<1>5. OwnerInv'
  BY <1>4 DEF OwnerInv
<1>6. OneOwner'
  BY <1>1, <1>2, WriteUnderLease DEF LeaseInv, OneOwner
<1>7. ASSUME NEW d \in Delivery, NEW v \in Worker, held'[v] = d, ~stale'[d]
      PROVE  /\ claim'[v].replay <= replays'[d]
             /\ pc'[v] = "record" /\ written'[v] /\ claim'[v].replay = replays'[d] =>
                   state'[d] = result'[v].next
  <2>1. held[v] = d /\ claim'[v] = claim[v] /\ replays'[d] = replays[d] /\ ~stale[d]
    BY <1>7, WriteUnderLease
  <2>2. claim[v].replay <= replays[d]
    BY <2>1 DEF LeaseInv, WrittenInv
  <2>3. ASSUME v # w, pc'[v] = "record", written'[v], claim'[v].replay = replays'[d]
        PROVE  state'[d] = result'[v].next
    <3>1. state[d] = result[v].next
      BY <2>1, <2>3 DEF LeaseInv, WrittenInv
    <3>2. ~Owns(w, d)
      <4>1. SUFFICES ASSUME Owns(w, d) PROVE FALSE
        OBVIOUS
      <4>2. result[v].next = "pending"
        BY <2>1, <3>1, <4>1 DEF LeaseInv, OwnerInv
      <4>3. Owns(v, d)
        BY <2>1, <2>3, <4>2 DEF Owns
      <4> QED
        BY <2>1, <2>3, <4>1, <4>3 DEF LeaseInv, OneOwner
    <3> QED
      BY <1>7, <2>3, <3>1, <3>2, WriteUnderLease
  <2>4. ASSUME v = w, pc'[v] = "record", written'[v], claim'[v].replay = replays'[d]
        PROVE  state'[d] = result'[v].next
    <3>1. result' = result
      BY <2>4
    <3>2. CASE Owns(w, d)
      BY <1>7, <2>1, <2>4, <3>1, <3>2, WriteUnderLease
    <3>3. CASE ~Owns(w, d)
      <4>1. written[w] /\ state[d] = result[w].next
        BY <2>1, <2>4, <3>3 DEF Owns, LeaseInv, WrittenInv
      <4> QED
        BY <1>7, <2>1, <2>4, <3>1, <3>3, <4>1, WriteUnderLease
    <3> QED
      BY <3>2, <3>3
  <2> QED
    BY <2>1, <2>2, <2>3, <2>4
<1>8. WrittenInv'
  BY <1>7 DEF WrittenInv
<1> QED
  BY <1>3, <1>5, <1>6, <1>8 DEF LeaseInv

\* The steps of an attempt keep the owner within its lease.
LEMMA LeaseAttempt ==
  ASSUME TypeOK, LeaseInv, NEW w \in Worker, Attempt(w)
  PROVE  LeaseInv'
<1>1. ASSUME ResolveOk(w) PROVE LeaseInv'
  <2>1. /\ pc[w] = "resolve" /\ pc'[w] = "send" /\ UNCHANGED <<rowVars, stale>>
        /\ UNCHANGED <<held, left, claim, result, written>>
        /\ \A v \in Worker : v # w => pc'[v] = pc[v]
    BY <1>1 DEF ResolveOk, TypeOK, LoopsOK
  <2>2. /\ \A d \in Delivery : Owns(w, d)' <=> Owns(w, d)
        /\ Tenure(w)' = Tenure(w) /\ Tenure(w) \in Nat
    BY <2>1, TenureIsNat DEF Owns, Tenure
  <2> QED
    BY <2>1, <2>2, LeaseQuiet
<1>2. ASSUME NEW reason, RecordNeverSent(w, reason), pc[w] = "resolve" PROVE LeaseInv'
  BY <1>2, LeaseStartRecord DEF RecordNeverSent, DeadResult, history
<1>3. ASSUME ResolveDead(w) \/ ResolveError(w) PROVE LeaseInv'
  BY <1>2, <1>3, LeaseIdle DEF ResolveDead, ResolveError, history
<1>4. ASSUME NEW outcome \in Outcomes, NEW backoff \in MinBackoff..MaxBackoff,
             Deliver(w, outcome, backoff)
      PROVE  LeaseInv'
  <2>1. backoff > RecordTimeout
    BY TimesAssumption, BackoffAssumption DEF MinBackoff
  <2>2. Decide(claim[w], outcome, backoff).next = "pending" =>
           Decide(claim[w], outcome, backoff).due > RecordTimeout
    BY <2>1 DEF Decide, DeadResult, Outcomes
  <2> QED
    BY <1>4, <2>2, LeaseStartRecord DEF Deliver
<1>5. ASSUME RecordAttempt(w) PROVE LeaseInv'
  <2>1. \/ /\ pc'[w] \in {"idle", "disable"}
           /\ held'[w] \in Delivery => held'[w] = held[w] /\ claim'[w] = claim[w]
    BY <1>5, NamesAssumption DEF RecordAttempt, AfterRecord, BackToLoop, TypeOK, LoopsOK
  <2>2. \A v \in Worker : v # w => /\ pc'[v] = pc[v] /\ held'[v] = held[v]
                                   /\ left'[v] = left[v] /\ claim'[v] = claim[v]
                                   /\ result'[v] = result[v] /\ written'[v] = written[v]
    BY <1>5 DEF RecordAttempt, AfterRecord, BackToLoop, TypeOK, LoopsOK
  <2> QED
    BY <1>5, <2>1, <2>2, LeaseWrite DEF RecordAttempt
<1>6. ASSUME DisableDestination(w) PROVE LeaseInv'
  BY <1>6, LeaseIdle DEF DisableDestination, history
<1> QED
  BY <1>1, <1>3, <1>4, <1>5, <1>6 DEF Attempt

\* Faults keep LeaseInv: a failed record counts against the lease.
LEMMA LeaseFault == TypeOK /\ LeaseInv /\ Fault => LeaseInv'
<1> SUFFICES ASSUME TypeOK, LeaseInv, Fault PROVE LeaseInv'
  OBVIOUS
<1>1. ASSUME NEW w \in Worker, Panic(w) \/ DisableFailed(w) PROVE LeaseInv'
  BY <1>1, LeaseIdle DEF Panic, DisableFailed, history
<1>2. ASSUME NEW w \in Worker, NEW committed \in BOOLEAN, RecordFailed(w, committed)
      PROVE  LeaseInv'
  <2>1. \A v \in Worker : v # w => /\ pc'[v] = pc[v] /\ held'[v] = held[v]
                                   /\ left'[v] = left[v] /\ claim'[v] = claim[v]
                                   /\ result'[v] = result[v] /\ written'[v] = written[v]
    BY <1>2 DEF RecordFailed, AfterRecord, BackToLoop, TypeOK, LoopsOK
  <2>2. \/ /\ AfterRecord(w) /\ pc'[w] \in {"idle", "disable"}
           /\ held'[w] \in Delivery => held'[w] = held[w] /\ claim'[w] = claim[w]
        \/ /\ UNCHANGED <<pc, held, left, claim, result>>
           /\ written' = [written EXCEPT ![w] = @ \/ committed]
    BY <1>2, NamesAssumption DEF RecordFailed, AfterRecord, BackToLoop, TypeOK, LoopsOK
  <2>3. CASE committed
    BY <1>2, <2>1, <2>2, <2>3, LeaseWrite DEF RecordFailed, TypeOK, LoopsOK
  <2>4. CASE ~committed
    <3>1. UNCHANGED <<rowVars, stale>> /\ pc[w] = "record"
      BY <1>2, <2>4 DEF RecordFailed
    <3>2. CASE AfterRecord(w) /\ pc'[w] = "idle"
      BY <3>1, <3>2, LeaseIdle DEF AfterRecord, TypeOK, LoopsOK
    <3>3. CASE AfterRecord(w) /\ pc'[w] = "disable"
      <4>1. held'[w] = held[w] /\ claim'[w] = claim[w] /\ left'[w] = DisableTimeout
        BY <3>3 DEF AfterRecord, BackToLoop, TypeOK, LoopsOK
      <4>2. Tenure(w)' \in Int /\ \A d \in Delivery : ~Owns(w, d)'
        BY <3>3, <4>1, TimesAssumption DEF Tenure, Owns
      <4> QED
        BY <2>1, <3>1, <3>3, <4>1, <4>2, LeaseQuiet
    <3>4. CASE UNCHANGED <<pc, held, left, claim, result>> /\ written' = [written EXCEPT ![w] = @ \/ committed]
      <4>1. written' = written
        BY <2>4, <3>4 DEF TypeOK, LoopsOK
      <4>2. Tenure(w)' = Tenure(w) /\ \A d \in Delivery : Owns(w, d)' <=> Owns(w, d)
        BY <3>4, <4>1 DEF Tenure, Owns
      <4>3. Tenure(w) \in Nat
        BY TenureIsNat
      <4>4. pc'[w] = "record" /\ result'[w].next = "pending" => result'[w].due > left'[w]
        BY <3>4 DEF LeaseInv, RetryInv
      <4> QED
        BY <2>1, <3>1, <3>4, <4>1, <4>2, <4>3, <4>4, LeaseQuiet
    <3> QED
      BY <2>2, <3>2, <3>3, <3>4
  <2> QED
    BY <2>3, <2>4
<1>3. ASSUME NEW d \in Delivery, NEW lag \in 0..MaxClaimLag, ClaimLost(d, lag) PROVE LeaseInv'
  <2>1. \A w \in Worker : ~stale[d] => ~Owns(w, d)
    BY <1>3, TimesAssumption, DueHasNoOwner DEF ClaimLost, Claimable, TypeOK, RowsOK
  <2>2. \A c \in Delivery : c # d => nextIn'[c] = nextIn[c]
    BY <1>3 DEF ClaimLost, TypeOK, RowsOK
  <2>3. UNCHANGED <<state, replays, stale>> /\ UNCHANGED loopVars
    BY <1>3 DEF ClaimLost, history
  <2>4. /\ \A c \in Delivery, w \in Worker : Owns(w, c)' <=> Owns(w, c)
        /\ \A w \in Worker : Tenure(w)' = Tenure(w)
    BY <2>3 DEF Owns, Tenure, loopVars
  <2> QED
    BY <2>1, <2>2, <2>3, <2>4 DEF LeaseInv, OwnerInv, OneOwner, WrittenInv, RetryInv, loopVars
<1>4. ASSUME AllLoopsStop PROVE LeaseInv'
  BY <1>4, NamesAssumption DEF AllLoopsStop, LeaseInv, OwnerInv, OneOwner, WrittenInv, RetryInv, Owns
<1>5. ASSUME Crash PROVE LeaseInv'
  BY <1>4, <1>5 DEF Crash
<1>6. ASSUME Sigterm PROVE LeaseInv'
  BY <1>6 DEF Sigterm, LeaseInv, OwnerInv, OneOwner, WrittenInv, RetryInv, Owns, Tenure,
              rowVars, loopVars, history
<1> QED
  BY <1>1, <1>2, <1>3, <1>5, <1>6 DEF Fault

\* A replay of a dead row finds no owner that has yet to write it.
LEMMA LeaseReplay ==
  ASSUME TypeOK, LeaseInv, NEW d \in Delivery, Enqueue(d) \/ Replay(d)
  PROVE  LeaseInv'
<1>1. /\ state[d] \in {"absent", "dead"} /\ state'[d] = "pending"
      /\ replays'[d] \in {replays[d], replays[d] + 1}
      /\ state[d] = "dead" => replays'[d] = replays[d] + 1
      /\ \A c \in Delivery : c # d => /\ state'[c] = state[c] /\ nextIn'[c] = nextIn[c]
                                       /\ replays'[c] = replays[c]
      /\ UNCHANGED loopVars /\ stale' = stale
  BY DEF Enqueue, Replay, TypeOK, RowsOK
<1>2. /\ \A c \in Delivery, w \in Worker : Owns(w, c)' <=> Owns(w, c)
      /\ \A w \in Worker : Tenure(w)' = Tenure(w)
  BY <1>1 DEF Owns, Tenure, loopVars
<1>3. \A w \in Worker : ~stale[d] => ~Owns(w, d)
  BY <1>1 DEF LeaseInv, OwnerInv
<1>4. OwnerInv' /\ OneOwner' /\ RetryInv'
  BY <1>1, <1>2, <1>3 DEF LeaseInv, OwnerInv, OneOwner, RetryInv, loopVars
<1>5. ASSUME NEW w \in Worker, held[w] = d, ~stale[d]
      PROVE  /\ claim[w].replay <= replays'[d]
             /\ ~(pc[w] = "record" /\ written[w] /\ claim[w].replay = replays'[d])
  <2>1. claim[w].replay <= replays[d] /\ claim[w].replay \in Int /\ replays[d] \in Int
    BY <1>5 DEF LeaseInv, WrittenInv, TypeOK, LoopsOK, RowsOK, ClaimType
  <2>2. CASE replays'[d] = replays[d] + 1
    BY <2>1, <2>2
  <2>3. CASE state[d] = "absent" /\ replays'[d] = replays[d]
    <3>1. pc[w] = "record" => result[w].next # "absent"
      BY DEF TypeOK, LoopsOK, ResultType
    <3> QED
      BY <1>5, <2>1, <2>3, <3>1 DEF LeaseInv, WrittenInv
  <2> QED
    BY <1>1, <2>2, <2>3
<1>6. WrittenInv'
  BY <1>1, <1>5 DEF LeaseInv, WrittenInv, loopVars
<1> QED
  BY <1>4, <1>6 DEF LeaseInv

\* Time cannot outrun the lease of a loop that is still at work.
LEMMA LeaseTick == TypeOK /\ LeaseInv /\ Tick => LeaseInv'
<1> SUFFICES ASSUME TypeOK, LeaseInv, Tick PROVE LeaseInv'
  OBVIOUS
<1> USE TimesAssumption
<1>1. ASSUME NEW w \in Worker
      PROVE  /\ claim'[w].replay = claim[w].replay
             /\ result'[w].next = result[w].next
             /\ result'[w].due = Down1(result[w].due)
             /\ result[w].due \in Nat /\ left[w] \in Nat
             /\ pc[w] # "idle" => left[w] > 0 /\ left'[w] = left[w] - 1
  BY DEF Tick, TypeOK, LoopsOK, ClaimType, ResultType, Busy, Down1
<1>2. UNCHANGED <<state, replays, stale, pc, held, written>>
  BY DEF Tick, history
<1>3. \A d \in Delivery, w \in Worker : Owns(w, d)' <=> Owns(w, d)
  BY <1>1, <1>2 DEF Owns
<1>4. ASSUME NEW d \in Delivery, NEW w \in Worker, Owns(w, d), ~stale[d]
      PROVE  nextIn'[d] > Tenure(w)'
  <2>1. pc[w] # "idle" /\ nextIn[d] > Tenure(w) /\ nextIn[d] \in Int /\ Tenure(w) \in Nat
    BY <1>4, TenureIsNat DEF Owns, LeaseInv, OwnerInv, TypeOK, RowsOK
  <2>2. nextIn'[d] = nextIn[d] - 1
    BY <2>1 DEF Tick
  <2>3. Tenure(w)' = Tenure(w) - 1
    BY <1>1, <1>2, <2>1 DEF Tenure
  <2> QED
    BY <2>1, <2>2, <2>3
<1>5. OwnerInv'
  BY <1>1, <1>2, <1>3, <1>4 DEF LeaseInv, OwnerInv
<1>6. OneOwner'
  BY <1>2, <1>3 DEF LeaseInv, OneOwner
<1>7. WrittenInv'
  BY <1>1, <1>2 DEF LeaseInv, WrittenInv
<1>8. RetryInv'
  BY <1>1, <1>2 DEF LeaseInv, RetryInv, Down1
<1> QED
  BY <1>5, <1>6, <1>7, <1>8 DEF LeaseInv

\* Every step keeps LeaseInv.
LEMMA LeaseStep == TypeOK /\ LeaseInv /\ [Next]_vars => LeaseInv'
<1> SUFFICES ASSUME TypeOK, LeaseInv, [Next]_vars PROVE LeaseInv'
  OBVIOUS
<1>1. ASSUME UNCHANGED <<state, nextIn, replays, stale, loopVars>> PROVE LeaseInv'
  BY <1>1 DEF LeaseInv, OwnerInv, OneOwner, WrittenInv, RetryInv, Owns, Tenure, loopVars
<1>2. CASE Operator
  <2>1. ASSUME NEW d \in Delivery, SetPublisher(d) PROVE LeaseInv'
    BY <1>1, <2>1 DEF SetPublisher, rowVars, history
  <2>2. ASSUME NEW n \in Name, CreateDestination(n) \/ DeleteDestination(n) PROVE LeaseInv'
    BY <1>1, <2>2 DEF CreateDestination, DeleteDestination, rowVars, history
  <2>3. ASSUME NEW n \in Name, NEW on \in BOOLEAN, PatchEnabled(n, on) PROVE LeaseInv'
    BY <1>1, <2>3 DEF PatchEnabled, rowVars, history
  <2> QED
    BY <1>2, <2>1, <2>2, <2>3, LeaseReplay DEF Operator
<1>3. CASE Exit
  BY <1>3, NamesAssumption DEF Exit, AllLoopsStop, LeaseInv, OwnerInv, OneOwner, WrittenInv,
                               RetryInv, Owns
<1>4. CASE Restart \/ UNCHANGED vars
  BY <1>1, <1>4 DEF Restart, vars, rowVars, history
<1>5. ASSUME NEW w \in Worker, Claim(w) PROVE LeaseInv'
  BY <1>5, LeaseClaim DEF Claim
<1> QED
  BY <1>2, <1>3, <1>4, <1>5, LeaseAttempt, LeaseFault, LeaseTick DEF Next

\* The types and LeaseInv always hold.
LEMMA LeaseAlways == Spec => [](TypeOK /\ LeaseInv)
<1>1. Init => TypeOK /\ LeaseInv
  BY InitType, NamesAssumption
  DEF Init, LeaseInv, OwnerInv, OneOwner, WrittenInv, RetryInv, Owns
<1>2. TypeOK /\ LeaseInv /\ [Next]_vars => (TypeOK /\ LeaseInv)'
  BY TypeStep, LeaseStep
<1> QED
  BY <1>1, <1>2, PTL DEF Spec

\* No delivery is ever in flight in two loops at once, for every lease, timeout
\* and backoff the configuration can produce.
THEOREM LeaseCorrect == Spec => []NoConcurrentSend
<1>1. LeaseInv => NoConcurrentSend
  BY DEF LeaseInv, OneOwner, Owns, NoConcurrentSend, Sending
<1> QED
  BY <1>1, LeaseAlways, PTL

-----------------------------------------------------------------------------
(* Closed rows                                                             *)

\* No step but a replay changes a final row.
LEMMA ClosedStep ==
  ASSUME TypeOK, [Next]_vars, NEW d \in Delivery, state[d] \in {"delivered", "dead"}
  PROVE  \/ state'[d] = state[d] /\ attemptCount'[d] = attemptCount[d]
         \/ /\ state[d] = "dead" /\ state'[d] = "pending"
            /\ replays'[d] = replays[d] + 1
            /\ attemptCount'[d] = attemptCount[d]
<1> DEFINE Closed == state'[d] = state[d] /\ attemptCount'[d] = attemptCount[d]
<1>1. ASSUME UNCHANGED <<state, attemptCount>> PROVE Closed
  BY <1>1
<1>2. ASSUME NEW w \in Worker, pc[w] = "record", WriteAttempt(w) PROVE Closed
  BY <1>2, BusyHolds DEF WriteAttempt, rowVars, TypeOK, RowsOK
<1>3. CASE Operator
  BY <1>3 DEF Operator, Enqueue, Replay, SetPublisher, CreateDestination, DeleteDestination,
              PatchEnabled, rowVars, TypeOK, RowsOK
<1>4. CASE Fault
  BY <1>1, <1>2, <1>4 DEF Fault, Panic, DisableFailed, RecordFailed, ClaimLost, Crash,
                          AllLoopsStop, Sigterm, rowVars
<1>5. ASSUME NEW w \in Worker, Claim(w) \/ Attempt(w) PROVE Closed
  BY <1>1, <1>2, <1>5 DEF Claim, ClaimDue, Attempt, ResolveOk, ResolveDead, ResolveError,
                          RecordNeverSent, Deliver, RecordAttempt, DisableDestination, rowVars
<1>6. CASE Exit \/ Restart \/ Tick \/ UNCHANGED vars
  BY <1>1, <1>6 DEF Exit, AllLoopsStop, Restart, Tick, vars, rowVars
<1> QED
  BY <1>3, <1>4, <1>5, <1>6 DEF Next

\* Nothing but a replay reopens a final row, and nothing is logged against it.
THEOREM ClosedCorrect == Spec => FinalRowsAreClosed
<1> DEFINE Step ==
      \A d \in Delivery :
         state[d] \in {"delivered", "dead"} =>
            \/ state'[d] = state[d] /\ attemptCount'[d] = attemptCount[d]
            \/ /\ state[d] = "dead" /\ state'[d] = "pending"
               /\ replays'[d] = replays[d] + 1
               /\ attemptCount'[d] = attemptCount[d]
<1>1. TypeOK /\ [Next]_vars => [Step]_vars
  BY ClosedStep
<1>2. Spec => [][Step]_vars
  BY <1>1, TypeCorrect, PTL DEF Spec
<1> QED
  BY <1>2 DEF FinalRowsAreClosed

-----------------------------------------------------------------------------
(* Accepted deliveries                                                     *)

\* The loop that saw the receiver accept d has still to write it.
Keeps(w, d) ==
    /\ held[w] = d /\ pc[w] = "record" /\ result[w].next = "delivered" /\ ~written[w]

Kept(d) == state[d] = "delivered" \/ \E w \in Worker : Keeps(w, d)

\* A step that accepts nothing new and disturbs neither delivered rows nor the
\* loops that keep an acceptance.
LEMMA KeptQuiet ==
  ASSUME AcceptedIsKept, NEW d \in Delivery, acked'[d] => acked[d], lost[d] => lost'[d],
         stale[d] => stale'[d],
         ~lost'[d] /\ ~stale'[d] => (state[d] = "delivered" => state'[d] = "delivered"),
         \A w \in Worker : Keeps(w, d) /\ ~lost'[d] /\ ~stale'[d] => Keeps(w, d)' \/ Kept(d)'
  PROVE  acked'[d] /\ ~lost'[d] /\ ~stale'[d] => Kept(d)'
  BY DEF AcceptedIsKept, Kept, Keeps

\* A write either is the one that keeps the acceptance or leaves it alone.
LEMMA KeptWrite ==
  ASSUME TypeOK, LeaseInv, AcceptedIsKept, NEW w \in Worker, pc[w] = "record", WriteAttempt(w),
         NEW d \in Delivery, acked' = acked, lost[d] => lost'[d],
         \A v \in Worker : v # w => (Keeps(v, d)' <=> Keeps(v, d))
  PROVE  acked'[d] /\ ~lost'[d] /\ ~stale'[d] => Kept(d)'
<1>1. stale[d] => stale'[d]
  BY BusyHolds DEF WriteAttempt, TypeOK, HistoryOK
<1>2. state[d] = "delivered" => state'[d] = "delivered"
  BY BusyHolds DEF WriteAttempt, TypeOK, RowsOK, rowVars
<1>3. ASSUME Keeps(w, d), ~stale'[d] PROVE state'[d] = "delivered"
  <2>1. Owns(w, d) /\ held[w] = d
    BY <1>3 DEF Keeps, Owns
  <2> QED
    BY <1>3, <2>1, WriteUnderLease DEF Keeps
<1> QED
  BY <1>1, <1>2, <1>3, KeptQuiet DEF Kept

\* A loop's step keeps what a receiver has accepted.
LEMMA KeptLoop ==
  ASSUME TypeOK, LeaseInv, AcceptedIsKept, NEW w \in Worker, Claim(w) \/ Attempt(w),
         NEW d \in Delivery
  PROVE  acked'[d] /\ ~lost'[d] /\ ~stale'[d] => Kept(d)'
<1>1. ASSUME pc[w] # "record", UNCHANGED <<state, acked, lost, stale>>,
             \A v \in Worker : v # w => (Keeps(v, d)' <=> Keeps(v, d))
      PROVE  acked'[d] /\ ~lost'[d] /\ ~stale'[d] => Kept(d)'
  <2>1. \A v \in Worker : Keeps(v, d) => Keeps(v, d)'
    BY <1>1 DEF Keeps
  <2> QED
    BY <1>1, <2>1, KeptQuiet
<1>2. ASSUME NEW c \in Delivery, NEW lag \in 0..MaxClaimLag, ClaimDue(w, c, lag)
      PROVE  acked'[d] /\ ~lost'[d] /\ ~stale'[d] => Kept(d)'
  BY <1>1, <1>2 DEF ClaimDue, Keeps, history, TypeOK, LoopsOK
<1>3. ASSUME ResolveOk(w) PROVE acked'[d] /\ ~lost'[d] /\ ~stale'[d] => Kept(d)'
  BY <1>1, <1>3 DEF ResolveOk, Keeps, rowVars, TypeOK, LoopsOK
<1>4. ASSUME ResolveDead(w) PROVE acked'[d] /\ ~lost'[d] /\ ~stale'[d] => Kept(d)'
  BY <1>1, <1>4 DEF ResolveDead, RecordNeverSent, StartRecord, Keeps, rowVars, history, TypeOK, LoopsOK
<1>5. ASSUME ResolveError(w) PROVE acked'[d] /\ ~lost'[d] /\ ~stale'[d] => Kept(d)'
  BY <1>1, <1>5 DEF ResolveError, RecordNeverSent, StartRecord, BackToLoop, Keeps, rowVars,
                    history, TypeOK, LoopsOK
<1>6. ASSUME NEW outcome \in Outcomes, NEW backoff \in MinBackoff..MaxBackoff,
             Deliver(w, outcome, backoff)
      PROVE  acked'[d] /\ ~lost'[d] /\ ~stale'[d] => Kept(d)'
  <2>1. pc[w] = "send" /\ UNCHANGED <<state, lost, stale>>
    BY <1>6 DEF Deliver, rowVars
  <2>2. \A v \in Worker : v # w => (Keeps(v, d)' <=> Keeps(v, d))
    BY <1>6 DEF Deliver, StartRecord, Keeps, TypeOK, LoopsOK
  <2>3. CASE held[w] = d /\ outcome = "success"
    <3>1. Decide(claim[w], outcome, backoff).next = "delivered"
      BY <2>3 DEF Decide
    <3>2. Keeps(w, d)'
      BY <1>6, <2>3, <3>1 DEF Deliver, StartRecord, Keeps, TypeOK, LoopsOK
    <3> QED
      BY <3>2 DEF Kept
  <2>4. CASE ~(held[w] = d /\ outcome = "success")
    <3>1. acked'[d] => acked[d]
      BY <1>6, <2>4 DEF Deliver, TypeOK, HistoryOK
    <3>2. \A v \in Worker : Keeps(v, d) => Keeps(v, d)'
      BY <2>1, <2>2 DEF Keeps
    <3> QED
      BY <2>1, <3>1, <3>2, KeptQuiet
  <2> QED
    BY <2>3, <2>4
<1>7. ASSUME RecordAttempt(w) PROVE acked'[d] /\ ~lost'[d] /\ ~stale'[d] => Kept(d)'
  <2>1. \A v \in Worker : v # w => (Keeps(v, d)' <=> Keeps(v, d))
    BY <1>7 DEF RecordAttempt, AfterRecord, BackToLoop, Keeps, TypeOK, LoopsOK
  <2> QED
    BY <1>7, <2>1, KeptWrite DEF RecordAttempt
<1>8. ASSUME DisableDestination(w) PROVE acked'[d] /\ ~lost'[d] /\ ~stale'[d] => Kept(d)'
  BY <1>1, <1>8 DEF DisableDestination, BackToLoop, Keeps, rowVars, history, TypeOK, LoopsOK
<1> QED
  BY <1>2, <1>3, <1>4, <1>5, <1>6, <1>7, <1>8 DEF Claim, Attempt

\* A fault keeps what was accepted, or marks its outcome as lost.
LEMMA KeptFault ==
  ASSUME TypeOK, LeaseInv, AcceptedIsKept, Fault \/ Exit, NEW d \in Delivery
  PROVE  acked'[d] /\ ~lost'[d] /\ ~stale'[d] => Kept(d)'
<1>1. ASSUME NEW w \in Worker, Panic(w)
      PROVE  acked'[d] /\ ~lost'[d] /\ ~stale'[d] => Kept(d)'
  <2>1. \A v \in Worker : Keeps(v, d) => lost'[d] \/ Keeps(v, d)'
    BY <1>1 DEF Panic, Unwritten, BackToLoop, Keeps, TypeOK, LoopsOK
  <2>2. UNCHANGED <<state, acked, stale>> /\ (lost[d] => lost'[d])
    BY <1>1 DEF Panic, rowVars
  <2> QED
    BY <2>1, <2>2, KeptQuiet
<1>2. ASSUME NEW w \in Worker, DisableFailed(w)
      PROVE  acked'[d] /\ ~lost'[d] /\ ~stale'[d] => Kept(d)'
  <2>1. \A v \in Worker : Keeps(v, d) => Keeps(v, d)'
    BY <1>2 DEF DisableFailed, BackToLoop, Keeps, TypeOK, LoopsOK
  <2>2. UNCHANGED <<state, acked, stale, lost>>
    BY <1>2 DEF DisableFailed, rowVars, history
  <2> QED
    BY <2>1, <2>2, KeptQuiet
<1>3. ASSUME NEW w \in Worker, NEW committed \in BOOLEAN, RecordFailed(w, committed)
      PROVE  acked'[d] /\ ~lost'[d] /\ ~stale'[d] => Kept(d)'
  <2>1. \A v \in Worker : v # w => (Keeps(v, d)' <=> Keeps(v, d))
    BY <1>3 DEF RecordFailed, AfterRecord, BackToLoop, Keeps, TypeOK, LoopsOK
  <2>2. held[w] \in Delivery /\ pc[w] = "record" /\ acked' = acked
    BY <1>3, BusyHolds DEF RecordFailed
  <2>3. lost[d] => lost'[d]
    BY <1>3, <2>2 DEF RecordFailed, TypeOK, HistoryOK
  <2>4. CASE committed
    BY <1>3, <2>1, <2>2, <2>3, <2>4, KeptWrite DEF RecordFailed
  <2>5. CASE ~committed
    <3>1. UNCHANGED <<state, stale>>
      BY <1>3, <2>5 DEF RecordFailed, rowVars
    <3>2. ASSUME Keeps(w, d) PROVE lost'[d] \/ Keeps(w, d)'
      <4>1. CASE tries[w] + 1 < RecordAttempts /\ left[w] > 0
        BY <1>3, <2>5, <3>2, <4>1 DEF RecordFailed, Keeps, TypeOK, LoopsOK
      <4>2. CASE ~(tries[w] + 1 < RecordAttempts /\ left[w] > 0)
        <5>1. lost' = [lost EXCEPT ![held[w]] = @ \/ ~(written[w] \/ committed)]
          BY <1>3, <4>2 DEF RecordFailed
        <5> QED
          BY <2>2, <2>5, <3>2, <5>1 DEF Keeps, TypeOK, HistoryOK
      <4> QED
        BY <4>1, <4>2
    <3> QED
      BY <2>1, <2>2, <2>3, <3>1, <3>2, KeptQuiet
  <2> QED
    BY <2>4, <2>5
<1>4. ASSUME (\E c \in Delivery, lag \in 0..MaxClaimLag : ClaimLost(c, lag)) \/ Sigterm
      PROVE  acked'[d] /\ ~lost'[d] /\ ~stale'[d] => Kept(d)'
  <2>1. UNCHANGED <<state, acked, stale, lost, loopVars>>
    BY <1>4 DEF ClaimLost, Sigterm, rowVars, history
  <2>2. \A v \in Worker : Keeps(v, d) => Keeps(v, d)'
    BY <2>1 DEF Keeps, loopVars
  <2> QED
    BY <2>1, <2>2, KeptQuiet
<1>5. ASSUME AllLoopsStop PROVE acked'[d] /\ ~lost'[d] /\ ~stale'[d] => Kept(d)'
  <2>1. \A v \in Worker : Keeps(v, d) => lost'[d]
    BY <1>5 DEF AllLoopsStop, Unwritten, Keeps
  <2>2. UNCHANGED <<state, acked, stale>> /\ (lost[d] => lost'[d])
    BY <1>5 DEF AllLoopsStop, rowVars
  <2> QED
    BY <2>1, <2>2, KeptQuiet
<1> QED
  BY <1>1, <1>2, <1>3, <1>4, <1>5 DEF Fault, Crash, Exit

\* Every step keeps AcceptedIsKept.
LEMMA KeptStep == TypeOK /\ LeaseInv /\ AcceptedIsKept /\ [Next]_vars => AcceptedIsKept'
<1> SUFFICES ASSUME TypeOK, LeaseInv, AcceptedIsKept, [Next]_vars, NEW d \in Delivery
             PROVE  acked'[d] /\ ~lost'[d] /\ ~stale'[d] => Kept(d)'
  BY DEF AcceptedIsKept, Kept, Keeps
<1>1. ASSUME UNCHANGED <<acked, stale, lost, pc, held, written>>,
             \A w \in Worker : result'[w].next = result[w].next,
             state[d] = "delivered" => state'[d] = "delivered"
      PROVE  acked'[d] /\ ~lost'[d] /\ ~stale'[d] => Kept(d)'
  <2>1. \A v \in Worker : Keeps(v, d) => Keeps(v, d)'
    BY <1>1 DEF Keeps
  <2> QED
    BY <1>1, <2>1, KeptQuiet
<1>2. CASE Operator
  BY <1>1, <1>2 DEF Operator, Enqueue, Replay, SetPublisher, CreateDestination,
                    DeleteDestination, PatchEnabled, rowVars, loopVars, history, TypeOK, RowsOK
<1>3. CASE Tick
  BY <1>1, <1>3 DEF Tick, history, TypeOK, LoopsOK, ResultType
<1>4. CASE Restart \/ UNCHANGED vars
  BY <1>1, <1>4 DEF Restart, vars, rowVars, loopVars, history
<1> QED
  BY <1>2, <1>3, <1>4, KeptLoop, KeptFault DEF Next

\* What a receiver has accepted is never sent again, unless its outcome was lost.
THEOREM AcceptedCorrect == Spec => []AcceptedIsKept
<1>1. Init => AcceptedIsKept
  BY DEF Init, AcceptedIsKept
<1>2. TypeOK /\ LeaseInv /\ AcceptedIsKept /\ [Next]_vars => AcceptedIsKept'
  BY KeptStep
<1> QED
  BY <1>1, <1>2, LeaseAlways, PTL DEF Spec

-----------------------------------------------------------------------------
(* The budget                                                              *)

\* A loop whose claim still speaks for the row: what it has sent, if anything,
\* is not written yet.
Unsettled(w, d) == held[w] = d /\ (pc[w] = "resolve" \/ Unwritten(w, d))

\* The sends a budget has paid for are counted in the row, but for the one in
\* flight.  A retry may be counted more than once (a commit reported as failed
\* is written again), never less, so a row that waits has a send left.
SpentInv(d) ==
    /\ made[d] <= MaxBudgetAttempts
    /\ state[d] = "absent" => made[d] = 0
    /\ state[d] = "pending" /\ (\A w \in Worker : ~Unwritten(w, d)) =>
          made[d] <= budgetAttempts[d] /\ made[d] < MaxBudgetAttempts
    /\ \A w \in Worker : Unsettled(w, d) =>
          claim[w].budget = budgetAttempts[d] /\ made[d] <= claim[w].budget + 1

\* Decide lets only an attempt that is not the last of its budget be retried.
RetryLeft ==
    \A w \in Worker : pc[w] = "record" /\ result[w].next = "pending" =>
        claim[w].budget < MaxBudgetAttempts - 1

BudgetInv == RetryLeft /\ \A d \in Delivery : ~lost[d] /\ ~stale[d] => SpentInv(d)

LEMMA UnsettledOwns ==
  ASSUME NEW w \in Worker, NEW d \in Delivery
  PROVE  /\ Unsettled(w, d) => Owns(w, d)
         /\ Unwritten(w, d) => Unsettled(w, d)
  BY DEF Unsettled, Unwritten, Owns

\* The numbers of SpentInv.
LEMMA BudgetTypes ==
  ASSUME TypeOK, NEW d \in Delivery
  PROVE  /\ made[d] \in Nat /\ budgetAttempts[d] \in Nat
         /\ \A w \in Worker : claim[w].budget \in Nat
  BY DEF TypeOK, RowsOK, HistoryOK, LoopsOK, ClaimType

\* A step that leaves the row's count alone, and the claims that speak for it.
LEMMA SpentQuiet ==
  ASSUME BudgetInv, NEW d \in Delivery, lost[d] => lost'[d], stale[d] => stale'[d],
         UNCHANGED <<made[d], budgetAttempts[d], state[d]>>,
         \A w \in Worker : Unwritten(w, d) => lost'[d] \/ Unwritten(w, d)',
         \A w \in Worker : Unsettled(w, d)' => Unsettled(w, d) /\ claim'[w].budget = claim[w].budget
  PROVE  ~lost'[d] /\ ~stale'[d] => SpentInv(d)'
<1> SUFFICES ASSUME ~lost'[d], ~stale'[d] PROVE SpentInv(d)'
  OBVIOUS
<1>1. SpentInv(d)
  BY DEF BudgetInv
<1>2. (\A w \in Worker : ~Unwritten(w, d)') => (\A w \in Worker : ~Unwritten(w, d))
  OBVIOUS
<1> QED
  BY <1>1, <1>2 DEF SpentInv

\* A claim takes the row's count as it is: nobody else has a send in flight.
LEMMA SpentClaim ==
  ASSUME TypeOK, LeaseInv, BudgetInv, NEW w \in Worker, NEW c \in Delivery,
         NEW lag \in 0..MaxClaimLag, ClaimDue(w, c, lag), NEW d \in Delivery
  PROVE  ~lost'[d] /\ ~stale'[d] => SpentInv(d)'
<1>0. /\ pc[w] = "idle" /\ pc' = [pc EXCEPT ![w] = "resolve"] /\ held' = [held EXCEPT ![w] = c]
      /\ UNCHANGED <<state, budgetAttempts, written, made, lost, stale>>
  BY DEF ClaimDue, history
<1>1. /\ \A v \in Worker \ {w} : /\ pc'[v] = pc[v] /\ held'[v] = held[v] /\ claim'[v] = claim[v]
      /\ pc'[w] = "resolve" /\ held'[w] = c /\ claim'[w].budget = budgetAttempts[c]
  BY <1>0 DEF ClaimDue, TypeOK, LoopsOK
<1>2. \A v \in Worker : Unwritten(v, d)' <=> Unwritten(v, d)
  BY <1>0, <1>1 DEF Unwritten
<1>3. \A v \in Worker \ {w} : Unsettled(v, d)' <=> Unsettled(v, d)
  BY <1>1, <1>2 DEF Unsettled
<1>4. CASE d # c
  <2>1. ~Unsettled(w, d)'
    BY <1>1, <1>4 DEF Unsettled, Unwritten
  <2> QED
    BY <1>0, <1>1, <1>2, <1>3, <2>1, SpentQuiet
<1>5. CASE d = c
  <2> SUFFICES ASSUME ~lost[d], ~stale[d] PROVE SpentInv(d)'
    BY <1>0
  <2>1. SpentInv(d) /\ state[d] = "pending" /\ nextIn[d] <= 0
    BY <1>5 DEF BudgetInv, ClaimDue, Claimable, TypeOK, RowsOK
  <2>2. \A v \in Worker : ~Unsettled(v, d) /\ ~Unwritten(v, d)
    BY <2>1, DueHasNoOwner, UnsettledOwns
  <2>3. made[d] <= budgetAttempts[d] /\ made[d] < MaxBudgetAttempts
    BY <2>1, <2>2 DEF SpentInv
  <2>4. \A v \in Worker : Unsettled(v, d)' => v = w
    BY <1>3, <2>2
  <2> QED
    BY <1>0, <1>1, <1>5, <2>1, <2>3, <2>4, BudgetTypes, TimesAssumption DEF SpentInv
<1> QED
  BY <1>4, <1>5

\* A send spends one of the attempts the row has left.
LEMMA SpentSend ==
  ASSUME TypeOK, LeaseInv, BudgetInv, NEW w \in Worker, ResolveOk(w), NEW d \in Delivery
  PROVE  ~lost'[d] /\ ~stale'[d] => SpentInv(d)'
<1>0. /\ pc[w] = "resolve" /\ held[w] \in Delivery
      /\ UNCHANGED <<state, budgetAttempts, written, held, claim, lost, stale>>
      /\ pc' = [pc EXCEPT ![w] = "send"]
      /\ made' = [made EXCEPT ![held[w]] = Cap(@ + 1, MaxBudgetAttempts + 1)]
  BY BusyHolds DEF ResolveOk, rowVars
<1>1. pc'[w] = "send" /\ \A v \in Worker \ {w} : pc'[v] = pc[v]
  BY <1>0 DEF TypeOK, LoopsOK
<1>2. \A v \in Worker : Unwritten(v, d) => Unwritten(v, d)'
  BY <1>0, <1>1 DEF Unwritten
<1>3. \A v \in Worker : Unsettled(v, d)' => Unsettled(v, d)
  BY <1>0, <1>1 DEF Unsettled, Unwritten
<1>4. CASE d # held[w]
  <2>1. made'[d] = made[d]
    BY <1>0, <1>4 DEF TypeOK, HistoryOK
  <2> QED
    BY <1>0, <1>2, <1>3, <2>1, SpentQuiet
<1>5. CASE d = held[w]
  <2> SUFFICES ASSUME ~lost[d], ~stale[d] PROVE SpentInv(d)'
    BY <1>0
  <2>1. SpentInv(d) /\ Owns(w, d) /\ Unsettled(w, d)
    BY <1>0, <1>5 DEF BudgetInv, Owns, Unsettled
  <2>2. state[d] = "pending" /\ \A v \in Worker : Owns(v, d) => v = w
    BY <2>1 DEF LeaseInv, OwnerInv, OneOwner
  <2>3. \A v \in Worker : ~Unwritten(v, d)
    BY <1>0, <2>2, UnsettledOwns DEF Unwritten
  <2>4. made[d] <= budgetAttempts[d] /\ made[d] < MaxBudgetAttempts
    BY <2>1, <2>2, <2>3 DEF SpentInv
  <2>5. made'[d] = made[d] + 1
    BY <1>0, <1>5, <2>4, BudgetTypes, TimesAssumption DEF Cap, TypeOK, HistoryOK
  <2>6. Unwritten(w, d)'
    BY <1>0, <1>1, <1>5 DEF Unwritten
  <2>7. \A v \in Worker : Unsettled(v, d)' => v = w
    BY <1>3, <2>2, UnsettledOwns
  <2>8. claim[w].budget = budgetAttempts[d]
    BY <2>1 DEF SpentInv
  <2> QED
    BY <1>0, <2>2, <2>4, <2>5, <2>6, <2>7, <2>8, BudgetTypes, TimesAssumption DEF SpentInv
<1> QED
  BY <1>4, <1>5

\* The write of an outcome counts the send; a second write of a retry counts it
\* again.
LEMMA SpentWrite ==
  ASSUME TypeOK, LeaseInv, BudgetInv, NEW w \in Worker, pc[w] = "record", WriteAttempt(w),
         NEW d \in Delivery, made' = made, lost[d] => lost'[d], ~Unsettled(w, d)',
         \A v \in Worker \ {w} : /\ Unwritten(v, d)' <=> Unwritten(v, d)
                                 /\ Unsettled(v, d)' <=> Unsettled(v, d)
                                 /\ claim'[v] = claim[v]
  PROVE  ~lost'[d] /\ ~stale'[d] => SpentInv(d)'
<1>0. held[w] \in Delivery /\ (stale[d] => stale'[d])
  BY BusyHolds DEF WriteAttempt, TypeOK, HistoryOK
<1>1. CASE held[w] # d
  <2>1. UNCHANGED <<made[d], budgetAttempts[d], state[d]>>
    BY <1>0, <1>1 DEF WriteAttempt, rowVars, TypeOK, RowsOK
  <2>2. ~Unwritten(w, d)
    BY <1>1 DEF Unwritten
  <2> QED
    BY <1>0, <2>1, <2>2, SpentQuiet
<1>2. ASSUME held[w] = d, state[d] # "pending", ~lost'[d], ~stale'[d] PROVE SpentInv(d)'
  <2>1. SpentInv(d) /\ UNCHANGED <<budgetAttempts, state>>
    BY <1>0, <1>2 DEF BudgetInv, WriteAttempt, rowVars
  <2> QED
    BY <1>2, <2>1 DEF SpentInv
<1>3. ASSUME held[w] = d, state[d] = "pending", ~lost'[d], ~stale'[d] PROVE SpentInv(d)'
  <2>1. SpentInv(d) /\ ~stale[d]
    BY <1>0, <1>3 DEF BudgetInv
  <2>2. claim[w].replay = replays[d]
    BY <1>0, <1>3 DEF WriteAttempt, TypeOK, HistoryOK
  <2>3. Owns(w, d)
    BY <1>3, <2>1, <2>2 DEF Owns, LeaseInv, WrittenInv
  <2>4. \A v \in Worker : Owns(v, d) => v = w
    BY <2>1, <2>3 DEF LeaseInv, OneOwner
  <2>5. \A v \in Worker : ~Unsettled(v, d)' /\ ~Unwritten(v, d)'
    <3>1. \A v \in Worker : ~Unsettled(v, d)'
      BY <2>4, UnsettledOwns
    <3>2. \A v \in Worker : Unwritten(v, d)' => Unsettled(v, d)'
      BY DEF Unsettled, Unwritten
    <3> QED
      BY <3>1, <3>2
  <2>6. state'[d] = result[w].next /\ budgetAttempts'[d] = budgetAttempts[d] + 1
    BY <1>0, <1>3 DEF WriteAttempt, TypeOK, RowsOK
  <2>7. result[w].next # "absent"
    BY DEF TypeOK, LoopsOK, ResultType
  <2>8. ASSUME result[w].next = "pending"
        PROVE  made[d] <= budgetAttempts[d] + 1 /\ made[d] < MaxBudgetAttempts
    <3>1. claim[w].budget < MaxBudgetAttempts - 1
      BY <2>8 DEF BudgetInv, RetryLeft
    <3>2. CASE Unwritten(w, d)
      <4>1. claim[w].budget = budgetAttempts[d] /\ made[d] <= claim[w].budget + 1
        BY <2>1, <3>2, UnsettledOwns DEF SpentInv
      <4> QED
        BY <3>1, <4>1, BudgetTypes, TimesAssumption
    <3>3. CASE ~Unwritten(w, d)
      <4>1. \A v \in Worker : ~Unwritten(v, d)
        BY <2>4, <3>3, UnsettledOwns
      <4>2. made[d] <= budgetAttempts[d] /\ made[d] < MaxBudgetAttempts
        BY <1>3, <2>1, <4>1 DEF SpentInv
      <4> QED
        BY <4>2, BudgetTypes
    <3> QED
      BY <3>2, <3>3
  <2>9. made[d] <= MaxBudgetAttempts
    BY <2>1 DEF SpentInv
  <2> QED
    BY <2>5, <2>6, <2>7, <2>8, <2>9 DEF SpentInv
<1> QED
  BY <1>1, <1>2, <1>3

\* A loop's step keeps the count.
LEMMA SpentLoop ==
  ASSUME TypeOK, LeaseInv, BudgetInv, NEW w \in Worker, Claim(w) \/ Attempt(w), NEW d \in Delivery
  PROVE  ~lost'[d] /\ ~stale'[d] => SpentInv(d)'
<1>1. ASSUME UNCHANGED <<state, budgetAttempts, made, lost, stale>>,
             Unwritten(w, d) => Unwritten(w, d)',
             Unsettled(w, d)' => Unsettled(w, d) /\ claim'[w].budget = claim[w].budget,
             \A v \in Worker \ {w} : /\ pc'[v] = pc[v] /\ held'[v] = held[v]
                                     /\ written'[v] = written[v] /\ claim'[v] = claim[v]
      PROVE  ~lost'[d] /\ ~stale'[d] => SpentInv(d)'
  <2>1. \A v \in Worker \ {w} : /\ Unwritten(v, d)' <=> Unwritten(v, d)
                                /\ Unsettled(v, d)' <=> Unsettled(v, d)
    BY <1>1 DEF Unwritten, Unsettled
  <2> QED
    BY <1>1, <2>1, SpentQuiet
<1>2. ASSUME NEW c \in Delivery, NEW lag \in 0..MaxClaimLag, ClaimDue(w, c, lag)
      PROVE  ~lost'[d] /\ ~stale'[d] => SpentInv(d)'
  BY <1>2, SpentClaim
<1>3. CASE ResolveOk(w)
  BY <1>3, SpentSend
<1>4. ASSUME pc[w] = "resolve", NEW reason, RecordNeverSent(w, reason)
      PROVE  ~lost'[d] /\ ~stale'[d] => SpentInv(d)'
  BY <1>1, <1>4 DEF RecordNeverSent, StartRecord, Unwritten, Unsettled, rowVars, history, TypeOK, LoopsOK
<1>5. ASSUME ~Unwritten(w, d), BackToLoop(w), UNCHANGED <<rowVars, history>>
      PROVE  ~lost'[d] /\ ~stale'[d] => SpentInv(d)'
  <2>1. ~Unsettled(w, d)'
    BY <1>5 DEF BackToLoop, Unsettled, Unwritten, TypeOK, LoopsOK
  <2> QED
    BY <1>1, <1>5, <2>1 DEF BackToLoop, rowVars, history, TypeOK, LoopsOK
<1>6. CASE ResolveDead(w) \/ ResolveError(w)
  BY <1>4, <1>5, <1>6 DEF ResolveDead, ResolveError, Unwritten
<1>7. ASSUME NEW outcome \in Outcomes, NEW backoff \in MinBackoff..MaxBackoff,
             Deliver(w, outcome, backoff)
      PROVE  ~lost'[d] /\ ~stale'[d] => SpentInv(d)'
  BY <1>1, <1>7 DEF Deliver, StartRecord, Unwritten, Unsettled, rowVars, TypeOK, LoopsOK
<1>8. CASE RecordAttempt(w)
  <2>1. pc[w] = "record" /\ WriteAttempt(w) /\ AfterRecord(w) /\ UNCHANGED <<lost, made>>
    BY <1>8 DEF RecordAttempt
  <2>2. pc'[w] \in {"idle", "disable"} /\
        \A v \in Worker \ {w} : /\ pc'[v] = pc[v] /\ held'[v] = held[v]
                                /\ written'[v] = written[v] /\ claim'[v] = claim[v]
    BY <2>1 DEF AfterRecord, BackToLoop, TypeOK, LoopsOK
  <2>3. /\ ~Unsettled(w, d)'
        /\ \A v \in Worker \ {w} : /\ Unwritten(v, d)' <=> Unwritten(v, d)
                                   /\ Unsettled(v, d)' <=> Unsettled(v, d)
    BY <2>2 DEF Unwritten, Unsettled
  <2> QED
    BY <2>1, <2>2, <2>3, SpentWrite
<1>9. CASE DisableDestination(w)
  BY <1>5, <1>9 DEF DisableDestination, Unwritten
<1> QED
  BY <1>2, <1>3, <1>6, <1>7, <1>8, <1>9 DEF Claim, Attempt

\* A fault keeps the count, or marks the outcome as lost.
LEMMA SpentFault ==
  ASSUME TypeOK, LeaseInv, BudgetInv, Fault \/ Exit, NEW d \in Delivery
  PROVE  ~lost'[d] /\ ~stale'[d] => SpentInv(d)'
<1>1. ASSUME NEW w \in Worker, BackToLoop(w), UNCHANGED <<rowVars, stale, made>>,
             lost[d] => lost'[d], Unwritten(w, d) => lost'[d]
      PROVE  ~lost'[d] /\ ~stale'[d] => SpentInv(d)'
  <2>1. pc'[w] = "idle" /\
        \A v \in Worker \ {w} : /\ pc'[v] = pc[v] /\ held'[v] = held[v]
                                /\ written'[v] = written[v] /\ claim'[v] = claim[v]
    BY <1>1 DEF BackToLoop, TypeOK, LoopsOK
  <2>2. /\ ~Unsettled(w, d)'
        /\ \A v \in Worker \ {w} : /\ Unwritten(v, d)' <=> Unwritten(v, d)
                                   /\ Unsettled(v, d)' <=> Unsettled(v, d)
    BY <2>1 DEF Unwritten, Unsettled
  <2> QED
    BY <1>1, <2>1, <2>2, SpentQuiet DEF rowVars
<1>2. ASSUME NEW w \in Worker, Panic(w)
      PROVE  ~lost'[d] /\ ~stale'[d] => SpentInv(d)'
  <2>1. (lost[d] => lost'[d]) /\ (Unwritten(w, d) => lost'[d])
    BY <1>2 DEF Panic
  <2> QED
    BY <1>1, <1>2, <2>1 DEF Panic
<1>3. ASSUME NEW w \in Worker, DisableFailed(w)
      PROVE  ~lost'[d] /\ ~stale'[d] => SpentInv(d)'
  BY <1>1, <1>3 DEF DisableFailed, Unwritten, history
<1>4. ASSUME NEW w \in Worker, NEW committed \in BOOLEAN, RecordFailed(w, committed)
      PROVE  ~lost'[d] /\ ~stale'[d] => SpentInv(d)'
  <2>0. held[w] \in Delivery /\ pc[w] = "record" /\ made' = made
    BY <1>4, BusyHolds DEF RecordFailed
  <2>1. lost[d] => lost'[d]
    BY <1>4, <2>0 DEF RecordFailed, TypeOK, HistoryOK
  <2>2. \A v \in Worker \ {w} : /\ pc'[v] = pc[v] /\ held'[v] = held[v]
                                /\ written'[v] = written[v] /\ claim'[v] = claim[v]
    BY <1>4 DEF RecordFailed, AfterRecord, BackToLoop, TypeOK, LoopsOK
  <2>3. \A v \in Worker \ {w} : /\ Unwritten(v, d)' <=> Unwritten(v, d)
                                /\ Unsettled(v, d)' <=> Unsettled(v, d)
    BY <2>2 DEF Unwritten, Unsettled
  <2>4. CASE committed
    <3>1. pc'[w] \in {"idle", "disable"} \/ (pc'[w] = "record" /\ written'[w])
      BY <1>4, <2>4 DEF RecordFailed, AfterRecord, BackToLoop, TypeOK, LoopsOK
    <3>2. ~Unsettled(w, d)'
      BY <3>1 DEF Unsettled, Unwritten
    <3>3. WriteAttempt(w)
      BY <1>4, <2>4 DEF RecordFailed
    <3> QED
      BY <2>0, <2>1, <2>2, <2>3, <3>2, <3>3, SpentWrite
  <2>5. CASE ~committed
    <3>1. UNCHANGED <<state, budgetAttempts, stale>>
      BY <1>4, <2>5 DEF RecordFailed, rowVars
    <3>2. CASE tries[w] + 1 < RecordAttempts /\ left[w] > 0
      <4>1. /\ pc' = pc /\ held' = held /\ claim' = claim
            /\ written' = [written EXCEPT ![w] = written[w] \/ committed]
        BY <1>4, <3>2 DEF RecordFailed
      <4>2. written'[w] <=> written[w]
        BY <2>5, <4>1 DEF TypeOK, LoopsOK
      <4>3. (Unwritten(w, d)' <=> Unwritten(w, d)) /\ (Unsettled(w, d)' <=> Unsettled(w, d))
        BY <4>1, <4>2 DEF Unwritten, Unsettled
      <4> QED
        BY <2>0, <2>1, <2>2, <2>3, <3>1, <4>1, <4>3, SpentQuiet
    <3>3. CASE ~(tries[w] + 1 < RecordAttempts /\ left[w] > 0)
      <4>1. lost' = [lost EXCEPT ![held[w]] = @ \/ ~(written[w] \/ committed)] /\ AfterRecord(w)
        BY <1>4, <3>3 DEF RecordFailed
      <4>2. Unwritten(w, d) => lost'[d]
        BY <2>0, <2>5, <4>1 DEF Unwritten, TypeOK, HistoryOK
      <4>3. pc'[w] \in {"idle", "disable"}
        BY <4>1 DEF AfterRecord, BackToLoop, TypeOK, LoopsOK
      <4>4. ~Unsettled(w, d)'
        BY <4>3 DEF Unsettled, Unwritten
      <4> QED
        BY <2>0, <2>1, <2>2, <2>3, <3>1, <4>2, <4>4, SpentQuiet
    <3> QED
      BY <3>2, <3>3
  <2> QED
    BY <2>4, <2>5
<1>5. ASSUME (\E c \in Delivery, lag \in 0..MaxClaimLag : ClaimLost(c, lag)) \/ Sigterm
      PROVE  ~lost'[d] /\ ~stale'[d] => SpentInv(d)'
  <2>1. UNCHANGED <<state, budgetAttempts, made, stale, lost, loopVars>>
    BY <1>5 DEF ClaimLost, Sigterm, rowVars, history
  <2>2. \A v \in Worker : /\ Unwritten(v, d)' <=> Unwritten(v, d)
                          /\ Unsettled(v, d)' <=> Unsettled(v, d)
                          /\ claim'[v] = claim[v]
    BY <2>1 DEF Unwritten, Unsettled, loopVars
  <2> QED
    BY <2>1, <2>2, SpentQuiet
<1>6. ASSUME AllLoopsStop PROVE ~lost'[d] /\ ~stale'[d] => SpentInv(d)'
  <2>1. \A v \in Worker : Unwritten(v, d) => lost'[d]
    BY <1>6 DEF AllLoopsStop
  <2>2. UNCHANGED <<state, budgetAttempts, made, stale>> /\ (lost[d] => lost'[d])
    BY <1>6 DEF AllLoopsStop, rowVars
  <2>3. \A v \in Worker : ~Unsettled(v, d)'
    BY <1>6 DEF AllLoopsStop, Unsettled, Unwritten
  <2> QED
    BY <2>1, <2>2, <2>3, SpentQuiet
<1> QED
  BY <1>2, <1>3, <1>4, <1>5, <1>6 DEF Fault, Crash, Exit

\* A loop that has decided on a retry keeps its claim until it is done.
LEMMA RetryLeftStep == TypeOK /\ RetryLeft /\ [Next]_vars => RetryLeft'
<1> SUFFICES ASSUME TypeOK, RetryLeft, [Next]_vars, NEW w \in Worker,
                    pc'[w] = "record", result'[w].next = "pending"
             PROVE  claim'[w].budget < MaxBudgetAttempts - 1
  BY DEF RetryLeft
<1>0. claim[w].budget \in Nat
  BY BudgetTypes DEF TypeOK, LoopsOK, ClaimType
<1>1. ASSUME pc[w] = "record", result'[w].next = result[w].next,
             claim'[w].budget = claim[w].budget
      PROVE  claim'[w].budget < MaxBudgetAttempts - 1
  BY <1>1 DEF RetryLeft
<1>2. ASSUME UNCHANGED loopVars PROVE claim'[w].budget < MaxBudgetAttempts - 1
  BY <1>1, <1>2 DEF loopVars
<1>3. ASSUME NEW v \in Worker, BackToLoop(v) PROVE claim'[w].budget < MaxBudgetAttempts - 1
  BY <1>1, <1>3 DEF BackToLoop, TypeOK, LoopsOK
<1>4. ASSUME NEW v \in Worker, AfterRecord(v) PROVE claim'[w].budget < MaxBudgetAttempts - 1
  BY <1>1, <1>3, <1>4 DEF AfterRecord, TypeOK, LoopsOK
<1>5. ASSUME NEW v \in Worker, NEW reason, RecordNeverSent(v, reason)
      PROVE claim'[w].budget < MaxBudgetAttempts - 1
  <2>1. DeadResult("terminal", reason).next = "dead"
    BY DEF DeadResult
  <2> QED
    BY <1>1, <1>5, <2>1 DEF RecordNeverSent, StartRecord, TypeOK, LoopsOK
<1>6. ASSUME NEW v \in Worker, NEW c \in Delivery, NEW lag \in 0..MaxClaimLag, ClaimDue(v, c, lag)
      PROVE  claim'[w].budget < MaxBudgetAttempts - 1
  BY <1>1, <1>6 DEF ClaimDue, TypeOK, LoopsOK
<1>7. ASSUME NEW v \in Worker, ResolveOk(v) PROVE claim'[w].budget < MaxBudgetAttempts - 1
  BY <1>1, <1>7 DEF ResolveOk, TypeOK, LoopsOK
<1>8. ASSUME NEW v \in Worker, NEW outcome \in Outcomes, NEW backoff \in MinBackoff..MaxBackoff,
             Deliver(v, outcome, backoff)
      PROVE  claim'[w].budget < MaxBudgetAttempts - 1
  <2>1. StartRecord(v, Decide(claim[v], outcome, backoff))
    BY <1>8 DEF Deliver
  <2>2. CASE v # w
    BY <1>1, <2>1, <2>2 DEF StartRecord, TypeOK, LoopsOK
  <2>3. CASE v = w
    <3>1. Decide(claim[w], outcome, backoff).next = "pending" /\ claim' = claim
      BY <2>1, <2>3 DEF StartRecord, TypeOK, LoopsOK
    <3>2. ~(claim[w].budget >= MaxBudgetAttempts - 1)
      BY <3>1 DEF Decide, DeadResult, Outcomes
    <3> QED
      BY <1>0, <3>1, <3>2, TimesAssumption
  <2> QED
    BY <2>2, <2>3
<1>9. ASSUME NEW v \in Worker, Claim(v) \/ Attempt(v)
      PROVE  claim'[w].budget < MaxBudgetAttempts - 1
  BY <1>3, <1>4, <1>5, <1>6, <1>7, <1>8, <1>9
  DEF Claim, Attempt, ResolveDead, ResolveError, RecordAttempt, DisableDestination
<1>10. CASE Fault \/ Exit
  <2>1. ASSUME NEW v \in Worker, NEW committed \in BOOLEAN, RecordFailed(v, committed)
        PROVE  claim'[w].budget < MaxBudgetAttempts - 1
    BY <1>1, <1>4, <2>1 DEF RecordFailed
  <2>2. ~AllLoopsStop
    BY DEF AllLoopsStop
  <2> QED
    BY <1>2, <1>3, <1>10, <2>1, <2>2
    DEF Fault, Panic, DisableFailed, ClaimLost, Crash, Sigterm, Exit
<1>11. CASE Operator \/ Restart \/ UNCHANGED vars
  BY <1>2, <1>11 DEF Operator, Enqueue, Replay, SetPublisher, CreateDestination,
                     DeleteDestination, PatchEnabled, Restart, vars
<1>12. CASE Tick
  <2>1. result'[w].next = result[w].next /\ claim'[w].budget = claim[w].budget /\ pc' = pc
    BY <1>12 DEF Tick, TypeOK, LoopsOK, ResultType, ClaimType
  <2> QED
    BY <1>1, <2>1
<1> QED
  BY <1>9, <1>10, <1>11, <1>12 DEF Next

\* Every step keeps the count.
LEMMA BudgetStep == TypeOK /\ LeaseInv /\ BudgetInv /\ [Next]_vars => BudgetInv'
<1> SUFFICES ASSUME TypeOK, LeaseInv, BudgetInv, [Next]_vars, NEW d \in Delivery
             PROVE  ~lost'[d] /\ ~stale'[d] => SpentInv(d)'
  BY RetryLeftStep DEF BudgetInv
<1>1. ASSUME UNCHANGED <<pc, held, written>>, \A w \in Worker : claim'[w].budget = claim[w].budget
      PROVE  \A w \in Worker : /\ Unwritten(w, d)' <=> Unwritten(w, d)
                               /\ Unsettled(w, d)' <=> Unsettled(w, d)
                               /\ claim'[w].budget = claim[w].budget
  BY <1>1 DEF Unwritten, Unsettled
<1>2. ASSUME UNCHANGED <<pc, held, written, made, lost, stale>>,
             UNCHANGED <<state[d], budgetAttempts[d]>>,
             \A w \in Worker : claim'[w].budget = claim[w].budget
      PROVE  ~lost'[d] /\ ~stale'[d] => SpentInv(d)'
  BY <1>1, <1>2, SpentQuiet
<1>3. ASSUME NEW c \in Delivery, Enqueue(c) PROVE ~lost'[d] /\ ~stale'[d] => SpentInv(d)'
  <2>1. CASE c # d
    BY <1>2, <1>3, <2>1 DEF Enqueue, loopVars, TypeOK, RowsOK
  <2>2. CASE c = d
    <3> SUFFICES ASSUME ~lost[d], ~stale[d] PROVE SpentInv(d)'
      BY <1>3 DEF Enqueue
    <3>1. SpentInv(d) /\ state[d] = "absent" /\ UNCHANGED <<made, budgetAttempts, loopVars>>
      BY <1>3, <2>2 DEF BudgetInv, Enqueue
    <3>2. made[d] = 0
      BY <3>1 DEF SpentInv
    <3>3. state'[d] = "pending"
      BY <1>3, <2>2 DEF Enqueue, TypeOK, RowsOK
    <3>4. \A w \in Worker : Unsettled(w, d)' => Unsettled(w, d) /\ claim'[w] = claim[w]
      BY <3>1 DEF loopVars, Unsettled, Unwritten
    <3> QED
      BY <3>1, <3>2, <3>3, <3>4, BudgetTypes, TimesAssumption DEF SpentInv
  <2> QED
    BY <2>1, <2>2
<1>4. ASSUME NEW c \in Delivery, Replay(c) PROVE ~lost'[d] /\ ~stale'[d] => SpentInv(d)'
  <2>1. CASE c # d
    <3>1. UNCHANGED <<pc, held, written, claim, lost, stale, made[d], state[d], budgetAttempts[d]>>
      BY <1>4, <2>1 DEF Replay, loopVars, TypeOK, RowsOK, HistoryOK
    <3> QED
      BY <1>1, <3>1, SpentQuiet
  <2>2. CASE c = d
    <3> SUFFICES ASSUME ~lost[d], ~stale[d] PROVE SpentInv(d)'
      BY <1>4 DEF Replay
    <3>1. state[d] = "dead" /\ UNCHANGED loopVars
      BY <1>4, <2>2 DEF Replay
    <3>2. made'[d] = 0 /\ budgetAttempts'[d] = 0 /\ state'[d] = "pending"
      BY <1>4, <2>2 DEF Replay, TypeOK, RowsOK, HistoryOK
    <3>3. \A w \in Worker : ~Owns(w, d)
      BY <3>1 DEF LeaseInv, OwnerInv
    <3>4. \A w \in Worker : ~Unsettled(w, d)'
      <4>1. \A w \in Worker : Unsettled(w, d)' <=> Unsettled(w, d)
        BY <3>1 DEF loopVars, Unsettled, Unwritten
      <4> QED
        BY <3>3, <4>1, UnsettledOwns
    <3> QED
      BY <3>2, <3>4, TimesAssumption DEF SpentInv
  <2> QED
    BY <2>1, <2>2
<1>5. CASE Operator
  BY <1>2, <1>3, <1>4, <1>5 DEF Operator, SetPublisher, CreateDestination,
                    DeleteDestination, PatchEnabled, rowVars, loopVars, history
<1>6. CASE Tick
  <2>1. \A w \in Worker : claim'[w].budget = claim[w].budget
    BY <1>6 DEF Tick, TypeOK, LoopsOK, ClaimType
  <2> QED
    BY <1>2, <1>6, <2>1 DEF Tick, history
<1>7. CASE Restart \/ UNCHANGED vars
  BY <1>2, <1>7 DEF Restart, vars, rowVars, loopVars, history
<1> QED
  BY <1>5, <1>6, <1>7, SpentLoop, SpentFault DEF Next

\* However often a delivery is retried, recorded twice or replayed, one budget
\* pays for at most MaxBudgetAttempts sends, unless an outcome was lost: Decide
\* works on the claim's count, and the count never falls behind the sends.
THEOREM BudgetCorrect == Spec => []SendsWithinBudget
<1>1. Init => BudgetInv
  BY TimesAssumption DEF Init, BudgetInv, RetryLeft, SpentInv, Unsettled, Unwritten
<1>2. TypeOK /\ LeaseInv /\ BudgetInv /\ [Next]_vars => BudgetInv'
  BY BudgetStep
<1>3. BudgetInv => SendsWithinBudget
  BY DEF BudgetInv, SpentInv, SendsWithinBudget
<1> QED
  BY <1>1, <1>2, <1>3, LeaseAlways, PTL DEF Spec

-----------------------------------------------------------------------------
(* The queue                                                               *)

\* A step of DeliveryQueue, or nothing it sees.
QueueStep == [Queue!Next]_(Queue!vars)

\* The loop's attempt is a task of DeliveryQueue.
HasTask(w) == Owns(w, held[w]) /\ ~stale[held[w]]

\* What DeliveryQueue sees of the rows does not change.
RowsSame ==
    /\ \A d \in Delivery : Phase(d)' = Phase(d)
    /\ \A d \in Delivery : (replays'[d] > 0) = (replays[d] > 0)

\* What a loop knows, by cases.
LEMMA KnowsIs ==
  ASSUME NEW w \in Worker
  PROVE  Knows(w) = IF pc[w] # "record" THEN "nothing"
                    ELSE IF result[w].outcome = "success" THEN "accepted" ELSE "failed"
  BY DEF Knows

\* A row's phase, by cases.
LEMMA PhaseIs ==
  ASSUME NEW d \in Delivery
  PROVE  Phase(d) = IF stale[d] THEN "overwritten"
                    ELSE IF state[d] = "pending" THEN "waiting" ELSE state[d]
  BY DEF Phase

\* A task is on the row the loop holds, which waits; a loop that owns nothing has
\* none.
LEMMA TaskIs ==
  ASSUME TypeOK, LeaseInv, NEW w \in Worker
  PROVE  /\ HasTask(w) => /\ held[w] \in Delivery /\ pc[w] # "idle"
                          /\ Task(w) = [on |-> held[w], knows |-> Knows(w)]
                          /\ state[held[w]] = "pending" /\ Phase(held[w]) = "waiting"
         /\ ~HasTask(w) => Task(w) = Queue!NoTask
         /\ -1 \notin Delivery
<1>1. ASSUME HasTask(w)
      PROVE  /\ held[w] \in Delivery /\ pc[w] # "idle"
             /\ state[held[w]] = "pending" /\ Phase(held[w]) = "waiting"
  <2>1. held[w] \in Delivery /\ pc[w] # "idle"
    BY <1>1, BusyHolds DEF HasTask, Owns
  <2>2. state[held[w]] = "pending" /\ ~stale[held[w]]
    BY <1>1, <2>1 DEF HasTask, LeaseInv, OwnerInv
  <2> QED
    BY <2>1, <2>2, PhaseIs
<1>2. /\ HasTask(w) => Task(w) = [on |-> held[w], knows |-> Knows(w)]
      /\ ~HasTask(w) => Task(w) = Queue!NoTask
  BY DEF Task, HasTask, Queue!NoTask
<1> QED
  BY <1>1, <1>2, NamesAssumption

\* A loop that does not move keeps its task, unless its row is overwritten.
LEMMA TaskKept ==
  ASSUME TypeOK, NEW v \in Worker, pc'[v] = pc[v], held'[v] = held[v], written'[v] = written[v],
         result'[v].next = result[v].next, result'[v].outcome = result[v].outcome,
         \A d \in Delivery : held[v] = d => stale'[d] = stale[d]
  PROVE  Task(v)' = Task(v)
<1>1. Knows(v)' = Knows(v)
  BY DEF Knows
<1>2. Owns(v, held[v])' <=> Owns(v, held[v])
  BY DEF Owns
<1>3. Owns(v, held[v]) => stale'[held[v]] = stale[held[v]]
  BY BusyHolds DEF Owns
<1> QED
  BY <1>1, <1>2, <1>3 DEF Task

\* A loop that owns nothing after the step has no task.
LEMMA TaskGone ==
  ASSUME NEW v \in Worker,
         \/ pc'[v] \in {"idle", "disable"}
         \/ pc'[v] = "record" /\ written'[v] /\ result'[v].next # "pending"
         \/ stale'[held'[v]]
  PROVE  Task(v)' = Queue!NoTask
  BY DEF Task, Owns, Queue!NoTask

\* Neither the rows nor the tasks change.
LEMMA QueueQuiet ==
  ASSUME RowsSame, \A v \in Worker : Task(v)' = Task(v), faults' = faults
  PROVE  QueueStep
<1>1. [d \in Delivery |-> Phase(d)]' = [d \in Delivery |-> Phase(d)]
  BY DEF RowsSame
<1>2. [w \in Worker |-> Task(w)]' = [w \in Worker |-> Task(w)]
  OBVIOUS
<1>3. [d \in Delivery |-> replays[d] > 0]' = [d \in Delivery |-> replays[d] > 0]
  BY DEF RowsSame
<1> QED
  BY <1>1, <1>2, <1>3 DEF QueueStep, Queue!vars

\* A fault takes the tasks of some loops.
LEMMA QueueFails ==
  ASSUME RowsSame, \A v \in Worker : Task(v)' \in {Task(v), Queue!NoTask}, faults' = faults + 1
  PROVE  QueueStep
<1> DEFINE W == {v \in Worker : Task(v)' = Queue!NoTask}
<1>1. [d \in Delivery |-> Phase(d)]' = [d \in Delivery |-> Phase(d)]
  BY DEF RowsSame
<1>2. [d \in Delivery |-> replays[d] > 0]' = [d \in Delivery |-> replays[d] > 0]
  BY DEF RowsSame
<1>3. Queue!Drop(W)
  BY DEF Queue!Drop
<1>4. Queue!Fail(W)
  BY <1>1, <1>2, <1>3 DEF Queue!Fail
<1> QED
  BY <1>4 DEF QueueStep, Queue!Next

\* A loop without the acceptance of its row gives it back.
LEMMA QueueRetries ==
  ASSUME TypeOK, LeaseInv, NEW w \in Worker, HasTask(w), Knows(w) # "accepted", RowsSame,
         Task(w)' = Queue!NoTask, \A v \in Worker \ {w} : Task(v)' = Task(v), faults' = faults
  PROVE  QueueStep
<1>1. [d \in Delivery |-> Phase(d)]' = [d \in Delivery |-> Phase(d)]
  BY DEF RowsSame
<1>2. [d \in Delivery |-> replays[d] > 0]' = [d \in Delivery |-> replays[d] > 0]
  BY DEF RowsSame
<1>3. Queue!Drop({w})
  BY DEF Queue!Drop
<1>4. Task(w).on \in Delivery /\ Task(w).knows # "accepted"
  BY TaskIs
<1>5. Queue!Retry(w)
  BY <1>1, <1>2, <1>3, <1>4 DEF Queue!Retry
<1> QED
  BY <1>5 DEF QueueStep, Queue!Next

\* A loop learns what became of its attempt.
LEMMA QueueLearns ==
  ASSUME TypeOK, LeaseInv, NEW w \in Worker, HasTask(w), Knows(w) = "nothing", RowsSame,
         NEW answer \in {"accepted", "failed"},
         Task(w)' = [on |-> held[w], knows |-> answer],
         \A v \in Worker \ {w} : Task(v)' = Task(v), faults' = faults
  PROVE  QueueStep
<1>1. [d \in Delivery |-> Phase(d)]' = [d \in Delivery |-> Phase(d)]
  BY DEF RowsSame
<1>2. [d \in Delivery |-> replays[d] > 0]' = [d \in Delivery |-> replays[d] > 0]
  BY DEF RowsSame
<1>3. Task(w).on = held[w] /\ held[w] \in Delivery /\ Task(w).knows = "nothing"
  BY TaskIs
<1>4. Queue!Learn(w, answer)
  BY <1>1, <1>2, <1>3 DEF Queue!Learn
<1> QED
  BY <1>4 DEF QueueStep, Queue!Next

\* A loop writes how its row ends.
LEMMA QueueSettles ==
  ASSUME TypeOK, LeaseInv, NEW w \in Worker, HasTask(w), Knows(w) # "nothing",
         \A d \in Delivery :
            Phase(d)' = IF d # held[w] THEN Phase(d)
                        ELSE IF Knows(w) = "accepted" THEN "delivered" ELSE "dead",
         \A d \in Delivery : (replays'[d] > 0) = (replays[d] > 0),
         Task(w)' = Queue!NoTask, \A v \in Worker \ {w} : Task(v)' = Task(v),
         faults' \in {faults, faults + 1}
  PROVE  QueueStep
<1>1. /\ Task(w).on = held[w] /\ held[w] \in Delivery
      /\ Task(w).knows = Knows(w) /\ Phase(held[w]) = "waiting"
  BY TaskIs
<1>2. [d \in Delivery |-> Phase(d)]' =
        [[d \in Delivery |-> Phase(d)] EXCEPT ![held[w]] =
           IF Knows(w) = "accepted" THEN "delivered" ELSE "dead"]
  BY <1>1
<1>3. [d \in Delivery |-> replays[d] > 0]' = [d \in Delivery |-> replays[d] > 0]
  OBVIOUS
<1>4. Queue!Drop({w})
  BY DEF Queue!Drop
<1>5. Queue!Settle(w)
  BY <1>1, <1>2, <1>3, <1>4 DEF Queue!Settle
<1> QED
  BY <1>5 DEF QueueStep, Queue!Next

\* The record of an attempt from before a replay reaches row d.
LEMMA QueueOverwrites ==
  ASSUME TypeOK, NEW d \in Delivery, Phase(d) = "waiting", replays[d] > 0, Phase(d)' = "overwritten",
         \A c \in Delivery : c # d => Phase(c)' = Phase(c), replays' = replays,
         \A v \in Worker : Task(v)' = IF Task(v).on = d THEN Queue!NoTask ELSE Task(v),
         faults' \in {faults, faults + 1}
  PROVE  QueueStep
<1>1. [c \in Delivery |-> Phase(c)]' = [[c \in Delivery |-> Phase(c)] EXCEPT ![d] = "overwritten"]
  OBVIOUS
<1>2. [c \in Delivery |-> replays[c] > 0]' = [c \in Delivery |-> replays[c] > 0]
  OBVIOUS
<1>3. Queue!Drop({w \in Worker : [v \in Worker |-> Task(v)][w].on = d})
  BY DEF Queue!Drop
<1>4. Queue!Overwrite(d)
  BY <1>1, <1>2, <1>3 DEF Queue!Overwrite
<1> QED
  BY <1>4 DEF QueueStep, Queue!Next

\* A loop takes a waiting row that nobody has.
LEMMA QueueTakes ==
  ASSUME TypeOK, NEW w \in Worker, NEW d \in Delivery, RowsSame, Phase(d) = "waiting",
         Task(w) = Queue!NoTask, \A v \in Worker : Task(v).on # d,
         Task(w)' = [on |-> d, knows |-> "nothing"],
         \A v \in Worker \ {w} : Task(v)' = Task(v), faults' = faults
  PROVE  QueueStep
<1>1. [c \in Delivery |-> Phase(c)]' = [c \in Delivery |-> Phase(c)]
  BY DEF RowsSame
<1>2. [c \in Delivery |-> replays[c] > 0]' = [c \in Delivery |-> replays[c] > 0]
  BY DEF RowsSame
<1>3. Queue!Take(w, d)
  BY <1>1, <1>2 DEF Queue!Take, Queue!NoTask
<1> QED
  BY <1>3 DEF QueueStep, Queue!Next

\* ClaimDue: the row has no owner, so its claim is a new task.
LEMMA QueueClaim ==
  ASSUME TypeOK, LeaseInv, NEW w \in Worker, NEW d \in Delivery, NEW lag \in 0..MaxClaimLag,
         ClaimDue(w, d, lag)
  PROVE  QueueStep
<1>1. nextIn[d] <= 0 /\ state[d] = "pending" /\ pc[w] = "idle"
  BY TimesAssumption DEF ClaimDue, Claimable, TypeOK, RowsOK
<1>2. UNCHANGED <<state, replays, stale, result, written, faults>>
  BY DEF ClaimDue, history, procVars
<1>3. RowsSame
  BY <1>2 DEF RowsSame, Phase
<1>4. \A v \in Worker \ {w} : Task(v)' = Task(v)
  BY <1>2, TaskKept DEF ClaimDue, TypeOK, LoopsOK
<1>5. Task(w) = Queue!NoTask
  BY <1>1, TaskIs
<1>6. pc'[w] = "resolve" /\ held'[w] = d
  BY DEF ClaimDue, TypeOK, LoopsOK
<1>7. CASE stale[d]
  <2>1. Task(w)' = Queue!NoTask
    BY <1>2, <1>6, <1>7, TaskGone
  <2> QED
    BY <1>2, <1>3, <1>4, <1>5, <2>1, QueueQuiet
<1>8. CASE ~stale[d]
  <2>1. ASSUME NEW v \in Worker PROVE Task(v).on # d
    <3>1. ~(HasTask(v) /\ held[v] = d)
      BY <1>1, <1>8, DueHasNoOwner DEF HasTask
    <3> QED
      BY <3>1, TaskIs DEF Queue!NoTask
  <2>2. Task(w)' = [on |-> d, knows |-> "nothing"]
    BY <1>2, <1>6, <1>8 DEF Task, Owns, Knows
  <2>3. Phase(d) = "waiting"
    BY <1>1, <1>8, PhaseIs
  <2> QED
    BY <1>2, <1>3, <1>4, <1>5, <2>1, <2>2, <2>3, QueueTakes
<1> QED
  BY <1>7, <1>8

\* An attempt that starts its record has learnt its outcome.
LEMMA QueueStartsRecord ==
  ASSUME TypeOK, LeaseInv, NEW w \in Worker, NEW r, pc[w] \in {"resolve", "send"},
         StartRecord(w, r), UNCHANGED <<rowVars, stale, faults>>
  PROVE  QueueStep
<1>1. RowsSame
  BY DEF RowsSame, Phase, rowVars
<1>2. \A v \in Worker \ {w} : Task(v)' = Task(v)
  BY TaskKept DEF StartRecord, TypeOK, LoopsOK
<1>3. pc'[w] = "record" /\ held'[w] = held[w] /\ result'[w] = r /\ ~written'[w]
  BY DEF StartRecord, TypeOK, LoopsOK
<1>4. held[w] \in Delivery
  BY BusyHolds
<1>5. CASE stale[held[w]]
  <2>1. Task(w) = Queue!NoTask /\ Task(w)' = Queue!NoTask
    BY <1>3, <1>5, TaskIs, TaskGone DEF HasTask
  <2> QED
    BY <1>1, <1>2, <2>1, QueueQuiet
<1>6. CASE ~stale[held[w]]
  <2> DEFINE answer == IF r.outcome = "success" THEN "accepted" ELSE "failed"
  <2>1. HasTask(w)
    BY <1>6 DEF HasTask, Owns
  <2>2. Knows(w) = "nothing"
    BY DEF Knows
  <2>3. Knows(w)' = answer
    BY <1>3 DEF Knows
  <2>4. Task(w)' = [on |-> held[w], knows |-> answer]
    BY <1>3, <1>6, <2>3 DEF Task, Owns
  <2>5. answer \in {"accepted", "failed"}
    OBVIOUS
  <2> HIDE DEF answer
  <2> QED
    BY <1>1, <1>2, <2>1, <2>2, <2>4, <2>5, QueueLearns
<1> QED
  BY <1>5, <1>6

\* RecordAttempt's transaction ends the task it belongs to, is a retry, or meets a
\* row that is closed, or overwrites one that was replayed.
LEMMA QueueWrite ==
  ASSUME TypeOK, LeaseInv, QueueInv, NEW w \in Worker, pc[w] = "record", WriteAttempt(w),
         \A v \in Worker : v # w => /\ pc'[v] = pc[v] /\ held'[v] = held[v]
                                    /\ result'[v] = result[v] /\ written'[v] = written[v],
         \/ /\ pc'[w] \in {"idle", "disable"}
            /\ faults' \in {faults, faults + 1}
         \/ /\ pc'[w] = "record" /\ written'[w]
            /\ held'[w] = held[w] /\ result'[w] = result[w]
            /\ faults' = faults + 1
  PROVE  QueueStep
<1>1. PICK d \in Delivery : held[w] = d
  BY BusyHolds
<1>2. result[w].next \in {"pending", "delivered", "dead"}
  BY DEF TypeOK, LoopsOK, ResultType
<1>3. /\ \A c \in Delivery : c # d => Phase(c)' = Phase(c) /\ stale'[c] = stale[c]
      /\ replays' = replays
  BY <1>1 DEF WriteAttempt, rowVars, Phase, TypeOK, RowsOK, HistoryOK
<1>4. ASSUME stale'[d] = stale[d] PROVE \A v \in Worker \ {w} : Task(v)' = Task(v)
  BY <1>3, <1>4, TaskKept
<1>5. CASE stale[d] \/ state[d] # "pending"
  <2>1. Phase(d)' = Phase(d) /\ stale'[d] = stale[d]
    BY <1>1, <1>5 DEF WriteAttempt, rowVars, Phase, TypeOK, HistoryOK
  <2>2. Task(w) = Queue!NoTask
    BY <1>1, <1>5, TaskIs DEF HasTask
  <2>3. Task(w)' = Queue!NoTask
    <3>1. result[w].next = "pending" => Owns(w, d)
      BY <1>1 DEF Owns
    <3>2. ~stale[d] => ~Owns(w, d)
      BY <1>1, <1>5 DEF LeaseInv, OwnerInv
    <3> QED
      BY <1>1, <2>1, <3>1, <3>2, TaskGone
  <2>4. RowsSame
    BY <1>3, <2>1 DEF RowsSame
  <2>5. \A v \in Worker : Task(v)' = Task(v)
    BY <1>4, <2>1, <2>2, <2>3
  <2> QED
    BY <2>4, <2>5, QueueQuiet, QueueFails
<1>6. CASE ~stale[d] /\ state[d] = "pending" /\ claim[w].replay # replays[d]
  <2>1. stale'[d]
    BY <1>1, <1>6 DEF WriteAttempt, TypeOK, HistoryOK
  <2>2. replays[d] > 0
    BY <1>1, <1>6 DEF LeaseInv, WrittenInv, TypeOK, LoopsOK, RowsOK, ClaimType
  <2>3. Phase(d) = "waiting" /\ Phase(d)' = "overwritten"
    BY <1>1, <1>6, <2>1 DEF Phase
  <2>4. ASSUME NEW v \in Worker PROVE Task(v)' = IF Task(v).on = d THEN Queue!NoTask ELSE Task(v)
    <3>1. CASE held[v] = d
      <4>1. Task(v)' = Queue!NoTask
        BY <2>1, <3>1, TaskGone
      <4>2. Task(v).on = d \/ Task(v) = Queue!NoTask
        BY <3>1, TaskIs
      <4> QED
        BY <4>1, <4>2
    <3>2. CASE held[v] # d
      <4>1. Task(v)' = Task(v)
        BY <1>1, <1>3, <3>2, TaskKept
      <4>2. Task(v).on # d
        BY <1>1, <3>2, TaskIs DEF Queue!NoTask
      <4> QED
        BY <4>1, <4>2
    <3> QED
      BY <3>1, <3>2
  <2> QED
    BY <1>1, <1>3, <2>2, <2>3, <2>4, QueueOverwrites
<1>7. CASE ~stale[d] /\ state[d] = "pending" /\ claim[w].replay = replays[d]
  <2>1. stale'[d] = stale[d] /\ state'[d] = result[w].next
    BY <1>1, <1>7 DEF WriteAttempt, TypeOK, RowsOK, HistoryOK
  <2>2. HasTask(w)
    BY <1>1, <1>7 DEF HasTask, Owns, LeaseInv, WrittenInv
  <2>3. Knows(w) = IF result[w].next = "delivered" THEN "accepted" ELSE "failed"
    BY KnowsIs DEF QueueInv
  <2>4. \A v \in Worker \ {w} : Task(v)' = Task(v)
    BY <1>4, <2>1
  <2>5. CASE result[w].next = "pending"
    <3>1. RowsSame
      BY <1>1, <1>3, <1>7, <2>1, <2>5 DEF RowsSame, Phase
    <3>2. CASE pc'[w] \in {"idle", "disable"}
      <4>1. Task(w)' = Queue!NoTask
        BY <3>2, TaskGone
      <4> QED
        BY <2>2, <2>3, <2>4, <2>5, <3>1, <3>2, <4>1, QueueRetries, QueueFails
    <3>3. CASE pc'[w] = "record" /\ held'[w] = held[w] /\ result'[w] = result[w] /\ faults' = faults + 1
      <4>1. Task(w)' = Task(w)
        BY <1>1, <2>1, <2>2, <2>5, <3>3 DEF Task, HasTask, Owns, Knows
      <4> QED
        BY <2>4, <3>1, <3>3, <4>1, QueueFails
    <3> QED
      BY <3>2, <3>3
  <2>6. CASE result[w].next # "pending"
    <3>1. Task(w)' = Queue!NoTask
      BY <2>6, TaskGone
    <3>2. Phase(d)' = IF Knows(w) = "accepted" THEN "delivered" ELSE "dead"
      BY <1>1, <1>2, <1>7, <2>1, <2>3, <2>6 DEF Phase
    <3> QED
      BY <1>1, <1>3, <2>2, <2>3, <2>4, <3>1, <3>2, QueueSettles
  <2> QED
    BY <2>5, <2>6
<1> QED
  BY <1>5, <1>6, <1>7

\* The outcome a result carries fits what it says the row becomes.
Fits(r) == r.next = "delivered" <=> r.outcome = "success"

\* QueueInv survives a step whose loops at record have fitting results and that
\* overwrites no row but a replayed one.
LEMMA QueueInvKept ==
  ASSUME TypeOK, QueueInv,
         \A w \in Worker : pc'[w] = "record" =>
            \/ Fits(result'[w])
            \/ /\ pc[w] = "record" /\ result'[w].next = result[w].next
               /\ result'[w].outcome = result[w].outcome,
         \A d \in Delivery : replays'[d] >= replays[d] /\ replays'[d] \in Nat,
         \A d \in Delivery : stale'[d] => stale[d] \/ replays[d] > 0
  PROVE  QueueInv'
<1>1. ASSUME NEW d \in Delivery, stale'[d] PROVE replays'[d] > 0
  BY <1>1 DEF QueueInv, TypeOK, RowsOK
<1>2. ASSUME NEW w \in Worker, pc'[w] = "record"
      PROVE  result'[w].next = "delivered" <=> result'[w].outcome = "success"
  BY <1>2 DEF QueueInv, Fits
<1> QED
  BY <1>1, <1>2 DEF QueueInv

\* The transaction of RecordAttempt makes a row stale only when it was replayed.
LEMMA StaleIsReplayed ==
  ASSUME TypeOK, LeaseInv, NEW w \in Worker, pc[w] = "record", WriteAttempt(w)
  PROVE  /\ \A d \in Delivery : stale'[d] => stale[d] \/ replays[d] > 0
         /\ replays' = replays
<1>1. PICK c \in Delivery : held[w] = c
  BY BusyHolds
<1>2. replays' = replays
  BY DEF WriteAttempt, rowVars
<1>3. ASSUME NEW d \in Delivery, stale'[d], ~stale[d] PROVE d = c /\ claim[w].replay # replays[c]
  BY <1>1, <1>3 DEF WriteAttempt, TypeOK, HistoryOK
<1>4. ASSUME ~stale[c], claim[w].replay # replays[c] PROVE replays[c] > 0
  BY <1>1, <1>4 DEF LeaseInv, WrittenInv, TypeOK, LoopsOK, RowsOK, ClaimType
<1> QED
  BY <1>2, <1>3, <1>4

\* Decide and recordNeverSent yield fitting results.
LEMMA DecideFits ==
  /\ \A c : \A outcome \in Outcomes, backoff \in MinBackoff..MaxBackoff :
        Fits(Decide(c, outcome, backoff))
  /\ \A reason : Fits(DeadResult("terminal", reason))
  BY DEF Decide, DeadResult, Fits, Outcomes

\* A loop's own steps keep QueueInv.
LEMMA QueueInvLoop ==
  ASSUME TypeOK, LeaseInv, QueueInv, NEW w \in Worker, Claim(w) \/ Attempt(w)
  PROVE  QueueInv'
<1>1. ASSUME UNCHANGED <<replays, stale, result>>, pc'[w] # "record",
             \A v \in Worker : v # w => pc'[v] = pc[v]
      PROVE  QueueInv'
  BY <1>1, QueueInvKept DEF TypeOK, RowsOK
<1>2. ASSUME NEW r, Fits(r), StartRecord(w, r), UNCHANGED <<rowVars, stale>> PROVE QueueInv'
  <2>1. /\ result'[w] = r
        /\ \A v \in Worker : v # w => pc'[v] = pc[v] /\ result'[v] = result[v]
    BY <1>2 DEF StartRecord, TypeOK, LoopsOK
  <2> QED
    BY <1>2, <2>1, QueueInvKept DEF TypeOK, RowsOK, rowVars
<1>3. ASSUME BackToLoop(w), UNCHANGED <<rowVars, stale>> PROVE QueueInv'
  <2>1. /\ pc'[w] = "idle"
        /\ \A v \in Worker : v # w => pc'[v] = pc[v] /\ result'[v] = result[v]
    BY <1>3 DEF BackToLoop, TypeOK, LoopsOK
  <2> QED
    BY <1>3, <2>1, QueueInvKept DEF TypeOK, RowsOK, rowVars
<1>4. ASSUME Claim(w) PROVE QueueInv'
  BY <1>1, <1>4 DEF Claim, ClaimDue, TypeOK, LoopsOK, history
<1>5. ASSUME ResolveOk(w) PROVE QueueInv'
  BY <1>1, <1>5 DEF ResolveOk, TypeOK, LoopsOK, rowVars
<1>6. ASSUME ResolveDead(w) \/ ResolveError(w) PROVE QueueInv'
  BY <1>2, <1>3, <1>6, DecideFits DEF ResolveDead, ResolveError, RecordNeverSent, history
<1>7. ASSUME NEW outcome \in Outcomes, NEW backoff \in MinBackoff..MaxBackoff,
             Deliver(w, outcome, backoff)
      PROVE  QueueInv'
  BY <1>2, <1>7, DecideFits DEF Deliver
<1>8. ASSUME RecordAttempt(w) PROVE QueueInv'
  <2>1. /\ pc'[w] # "record"
        /\ \A v \in Worker : v # w => pc'[v] = pc[v] /\ result'[v] = result[v]
    BY <1>8 DEF RecordAttempt, AfterRecord, BackToLoop, TypeOK, LoopsOK
  <2>2. pc[w] = "record" /\ WriteAttempt(w)
    BY <1>8 DEF RecordAttempt
  <2> QED
    BY <2>1, <2>2, StaleIsReplayed, QueueInvKept DEF TypeOK, RowsOK
<1>9. ASSUME DisableDestination(w) PROVE QueueInv'
  BY <1>3, <1>9 DEF DisableDestination, history
<1> QED
  BY <1>4, <1>5, <1>6, <1>7, <1>8, <1>9 DEF Attempt

\* Faults keep QueueInv.
LEMMA QueueInvFault == TypeOK /\ LeaseInv /\ QueueInv /\ Fault => QueueInv'
<1> SUFFICES ASSUME TypeOK, LeaseInv, QueueInv, Fault PROVE QueueInv'
  OBVIOUS
<1>1. ASSUME NEW w \in Worker, Panic(w) \/ DisableFailed(w) PROVE QueueInv'
  <2>1. /\ pc'[w] = "idle" /\ UNCHANGED <<replays, stale>>
        /\ \A v \in Worker : v # w => pc'[v] = pc[v] /\ result'[v] = result[v]
    BY <1>1 DEF Panic, DisableFailed, BackToLoop, TypeOK, LoopsOK, rowVars, history
  <2> QED
    BY <2>1, QueueInvKept DEF TypeOK, RowsOK
<1>2. ASSUME NEW w \in Worker, NEW committed \in BOOLEAN, RecordFailed(w, committed)
      PROVE  QueueInv'
  <2>1. /\ pc[w] = "record"
        /\ pc'[w] = "record" => result'[w] = result[w]
        /\ \A v \in Worker : v # w => pc'[v] = pc[v] /\ result'[v] = result[v]
    BY <1>2 DEF RecordFailed, AfterRecord, BackToLoop, TypeOK, LoopsOK
  <2>2. WriteAttempt(w) \/ UNCHANGED <<replays, stale>>
    BY <1>2 DEF RecordFailed, rowVars
  <2> QED
    BY <2>1, <2>2, StaleIsReplayed, QueueInvKept DEF TypeOK, RowsOK
<1>3. ASSUME UNCHANGED <<replays, stale>>,
             UNCHANGED <<pc, result>> \/ \A w \in Worker : pc'[w] = "idle"
      PROVE  QueueInv'
  BY <1>3, QueueInvKept DEF TypeOK, RowsOK
<1>4. ASSUME NEW d \in Delivery, NEW lag \in 0..MaxClaimLag, ClaimLost(d, lag) PROVE QueueInv'
  BY <1>3, <1>4 DEF ClaimLost, loopVars, history
<1>5. ASSUME Crash \/ Sigterm PROVE QueueInv'
  BY <1>3, <1>5 DEF Crash, AllLoopsStop, Sigterm, rowVars, loopVars, history
<1> QED
  BY <1>1, <1>2, <1>4, <1>5 DEF Fault

\* Every step keeps QueueInv.
LEMMA QueueInvStep == TypeOK /\ LeaseInv /\ QueueInv /\ [Next]_vars => QueueInv'
<1> SUFFICES ASSUME TypeOK, LeaseInv, QueueInv, [Next]_vars PROVE QueueInv'
  OBVIOUS
<1>1. ASSUME UNCHANGED <<replays, stale>>,
             UNCHANGED <<pc, result>> \/ \A w \in Worker : pc'[w] = "idle"
      PROVE  QueueInv'
  BY <1>1, QueueInvKept DEF TypeOK, RowsOK
<1>2. CASE Operator
  <2>1. ASSUME NEW d \in Delivery, Enqueue(d) \/ SetPublisher(d) PROVE QueueInv'
    BY <1>1, <2>1 DEF Enqueue, SetPublisher, rowVars, loopVars, history
  <2>2. ASSUME NEW d \in Delivery, Replay(d) PROVE QueueInv'
    <3>1. /\ UNCHANGED <<pc, result, stale>>
          /\ \A c \in Delivery : replays'[c] >= replays[c] /\ replays'[c] \in Nat
      BY <2>2 DEF Replay, loopVars, TypeOK, RowsOK
    <3> QED
      BY <3>1, QueueInvKept
  <2>3. ASSUME NEW n \in Name, CreateDestination(n) \/ DeleteDestination(n) PROVE QueueInv'
    BY <1>1, <2>3 DEF CreateDestination, DeleteDestination, rowVars, loopVars, history
  <2>4. ASSUME NEW n \in Name, NEW on \in BOOLEAN, PatchEnabled(n, on) PROVE QueueInv'
    BY <1>1, <2>4 DEF PatchEnabled, rowVars, loopVars, history
  <2> QED
    BY <1>2, <2>1, <2>2, <2>3, <2>4 DEF Operator
<1>3. CASE Tick
  <2>1. /\ UNCHANGED <<replays, stale, pc>>
        /\ \A w \in Worker : /\ result'[w].next = result[w].next
                             /\ result'[w].outcome = result[w].outcome
    BY <1>3 DEF Tick, history, TypeOK, LoopsOK, ResultType
  <2> QED
    BY <2>1, QueueInvKept DEF TypeOK, RowsOK
<1>4. CASE Exit \/ Restart \/ UNCHANGED vars
  BY <1>1, <1>4 DEF Exit, AllLoopsStop, Restart, vars, rowVars, loopVars, history
<1> QED
  BY <1>2, <1>3, <1>4, QueueInvLoop, QueueInvFault DEF Next

\* A loop's own steps are steps of DeliveryQueue.
LEMMA QueueLoop ==
  ASSUME TypeOK, LeaseInv, QueueInv, NEW w \in Worker, Claim(w) \/ Attempt(w)
  PROVE  QueueStep
<1>1. ASSUME BackToLoop(w), pc[w] # "record", UNCHANGED <<rowVars, stale, faults>> PROVE QueueStep
  <2>1. RowsSame
    BY <1>1 DEF RowsSame, Phase, rowVars
  <2>2. \A v \in Worker \ {w} : Task(v)' = Task(v)
    BY <1>1, TaskKept DEF BackToLoop, TypeOK, LoopsOK
  <2>3. Task(w)' = Queue!NoTask
    BY <1>1, TaskGone DEF BackToLoop, TypeOK, LoopsOK
  <2>4. Knows(w) # "accepted"
    BY <1>1, KnowsIs
  <2>5. CASE HasTask(w)
    BY <1>1, <2>1, <2>2, <2>3, <2>4, <2>5, QueueRetries
  <2>6. CASE ~HasTask(w)
    <3>1. \A v \in Worker : Task(v)' = Task(v)
      BY <2>2, <2>3, <2>6, TaskIs
    <3> QED
      BY <1>1, <2>1, <3>1, QueueQuiet
  <2> QED
    BY <2>5, <2>6
<1>2. ASSUME Claim(w) PROVE QueueStep
  BY <1>2, QueueClaim DEF Claim
<1>3. ASSUME ResolveOk(w) PROVE QueueStep
  <2>1. RowsSame /\ faults' = faults
    BY <1>3 DEF ResolveOk, RowsSame, Phase, rowVars, procVars
  <2>2. \A v \in Worker \ {w} : Task(v)' = Task(v)
    BY <1>3, TaskKept DEF ResolveOk, TypeOK, LoopsOK
  <2>3. /\ pc[w] = "resolve" /\ pc'[w] = "send"
        /\ UNCHANGED <<held, result, written, stale>>
    BY <1>3 DEF ResolveOk, TypeOK, LoopsOK
  <2>4. Task(w)' = Task(w)
    BY <2>3 DEF Task, Owns, Knows
  <2> QED
    BY <2>1, <2>2, <2>4, QueueQuiet
<1>4. ASSUME ResolveDead(w) \/ ResolveError(w) PROVE QueueStep
  <2>1. pc[w] = "resolve"
    BY <1>4 DEF ResolveDead, ResolveError
  <2>2. ASSUME NEW reason, RecordNeverSent(w, reason) PROVE QueueStep
    BY <2>1, <2>2, QueueStartsRecord DEF RecordNeverSent, procVars, history
  <2> QED
    BY <1>1, <1>4, <2>1, <2>2 DEF ResolveDead, ResolveError, procVars, history
<1>5. ASSUME NEW outcome \in Outcomes, NEW backoff \in MinBackoff..MaxBackoff,
             Deliver(w, outcome, backoff)
      PROVE  QueueStep
  BY <1>5, QueueStartsRecord DEF Deliver, procVars
<1>6. ASSUME RecordAttempt(w) PROVE QueueStep
  <2>1. pc'[w] \in {"idle", "disable"} /\ faults' = faults
    BY <1>6 DEF RecordAttempt, AfterRecord, BackToLoop, TypeOK, LoopsOK, procVars
  <2>2. \A v \in Worker : v # w => /\ pc'[v] = pc[v] /\ held'[v] = held[v]
                                   /\ result'[v] = result[v] /\ written'[v] = written[v]
    BY <1>6 DEF RecordAttempt, AfterRecord, BackToLoop, TypeOK, LoopsOK
  <2> QED
    BY <1>6, <2>1, <2>2, QueueWrite DEF RecordAttempt
<1>7. ASSUME DisableDestination(w) PROVE QueueStep
  BY <1>1, <1>7 DEF DisableDestination, procVars, history
<1> QED
  BY <1>2, <1>3, <1>4, <1>5, <1>6, <1>7 DEF Attempt

\* A fault takes tasks, or is a commit whose answer is lost.
LEMMA QueueFault == TypeOK /\ LeaseInv /\ QueueInv /\ Fault => QueueStep
<1> SUFFICES ASSUME TypeOK, LeaseInv, QueueInv, Fault PROVE QueueStep
  OBVIOUS
<1>1. ASSUME UNCHANGED <<state, replays, stale>>, faults' = faults + 1,
             \A v \in Worker : \/ pc'[v] \in {"idle", "disable"}
                               \/ /\ pc'[v] = pc[v] /\ held'[v] = held[v]
                                  /\ result'[v] = result[v] /\ written'[v] = written[v]
      PROVE  QueueStep
  <2>1. RowsSame
    BY <1>1 DEF RowsSame, Phase
  <2>2. \A v \in Worker : Task(v)' \in {Task(v), Queue!NoTask}
    BY <1>1, TaskKept, TaskGone
  <2> QED
    BY <1>1, <2>1, <2>2, QueueFails
<1>2. ASSUME NEW w \in Worker, Panic(w) \/ DisableFailed(w) PROVE QueueStep
  <2>1. \A v \in Worker : \/ pc'[v] = "idle"
                          \/ /\ pc'[v] = pc[v] /\ held'[v] = held[v]
                             /\ result'[v] = result[v] /\ written'[v] = written[v]
    BY <1>2 DEF Panic, DisableFailed, BackToLoop, TypeOK, LoopsOK
  <2> QED
    BY <1>1, <1>2, <2>1 DEF Panic, DisableFailed, rowVars, history
<1>3. ASSUME NEW w \in Worker, NEW committed \in BOOLEAN, RecordFailed(w, committed)
      PROVE  QueueStep
  <2>1. /\ pc[w] = "record" /\ faults' = faults + 1
        /\ \A v \in Worker : v # w => /\ pc'[v] = pc[v] /\ held'[v] = held[v]
                                      /\ result'[v] = result[v] /\ written'[v] = written[v]
    BY <1>3 DEF RecordFailed, AfterRecord, BackToLoop, TypeOK, LoopsOK
  <2>2. \/ pc'[w] \in {"idle", "disable"}
        \/ /\ UNCHANGED <<pc, held, result>>
           /\ written'[w] = (written[w] \/ committed)
    BY <1>3 DEF RecordFailed, AfterRecord, BackToLoop, TypeOK, LoopsOK
  <2>3. CASE committed
    <3>1. \/ pc'[w] \in {"idle", "disable"}
          \/ pc'[w] = "record" /\ written'[w] /\ held'[w] = held[w] /\ result'[w] = result[w]
      BY <2>1, <2>2, <2>3
    <3> QED
      BY <1>3, <2>1, <2>3, <3>1, QueueWrite DEF RecordFailed
  <2>4. CASE ~committed
    <3>1. \/ pc'[w] \in {"idle", "disable"}
          \/ UNCHANGED <<pc, held, result>> /\ written'[w] = written[w]
      BY <2>2, <2>4 DEF TypeOK, LoopsOK
    <3> QED
      BY <1>1, <1>3, <2>1, <2>4, <3>1 DEF RecordFailed, rowVars
  <2> QED
    BY <2>3, <2>4
<1>4. ASSUME NEW d \in Delivery, NEW lag \in 0..MaxClaimLag, ClaimLost(d, lag) PROVE QueueStep
  BY <1>1, <1>4 DEF ClaimLost, loopVars, history
<1>5. ASSUME Crash \/ Sigterm PROVE QueueStep
  BY <1>1, <1>5 DEF Crash, AllLoopsStop, Sigterm, rowVars, loopVars, history
<1> QED
  BY <1>2, <1>3, <1>4, <1>5 DEF Fault

\* Submit opens a row, Replay opens it again; the registry is not the queue's.
LEMMA QueueOperator == TypeOK /\ QueueInv /\ Operator => QueueStep
<1> SUFFICES ASSUME TypeOK, QueueInv, Operator PROVE QueueStep
  OBVIOUS
<1>1. ASSUME UNCHANGED <<loopVars, stale>> PROVE \A v \in Worker : Task(v)' = Task(v)
  BY <1>1, TaskKept DEF loopVars
<1>2. ASSUME UNCHANGED <<state, replays, stale, loopVars, faults>> PROVE QueueStep
  <2>1. RowsSame
    BY <1>2 DEF RowsSame, Phase
  <2> QED
    BY <1>1, <1>2, <2>1, QueueQuiet
<1>3. ASSUME NEW d \in Delivery, Enqueue(d) PROVE QueueStep
  <2>1. /\ state[d] = "absent" /\ state'[d] = "pending"
        /\ \A c \in Delivery : c # d => state'[c] = state[c]
        /\ UNCHANGED <<replays, stale, loopVars, faults>>
    BY <1>3 DEF Enqueue, TypeOK, RowsOK, procVars
  <2>2. \A c \in Delivery : c # d => Phase(c)' = Phase(c)
    BY <2>1 DEF Phase
  <2>3. [w \in Worker |-> Task(w)]' = [w \in Worker |-> Task(w)]
    BY <1>1, <2>1
  <2>4. CASE stale[d]
    <3>1. Phase(d)' = Phase(d)
      BY <2>1, <2>4 DEF Phase
    <3>2. RowsSame
      BY <2>1, <2>2, <3>1 DEF RowsSame
    <3> QED
      BY <1>1, <2>1, <3>2, QueueQuiet
  <2>5. CASE ~stale[d]
    <3>1. Phase(d) = "absent" /\ Phase(d)' = "waiting"
      BY <2>1, <2>5 DEF Phase
    <3>2. [c \in Delivery |-> Phase(c)]' = [[c \in Delivery |-> Phase(c)] EXCEPT ![d] = "waiting"]
      BY <2>2, <3>1
    <3>3. [c \in Delivery |-> replays[c] > 0]' = [c \in Delivery |-> replays[c] > 0]
      BY <2>1
    <3>4. Queue!Enqueue(d)
      BY <2>1, <2>3, <3>1, <3>2, <3>3 DEF Queue!Enqueue
    <3> QED
      BY <3>4 DEF QueueStep, Queue!Next
  <2> QED
    BY <2>4, <2>5
<1>4. ASSUME NEW d \in Delivery, Replay(d) PROVE QueueStep
  <2>1. /\ state[d] = "dead" /\ state'[d] = "pending"
        /\ \A c \in Delivery : c # d => state'[c] = state[c] /\ replays'[c] = replays[c]
        /\ replays'[d] > 0
        /\ UNCHANGED <<stale, loopVars, faults>>
    BY <1>4 DEF Replay, TypeOK, RowsOK, procVars
  <2>2. \A c \in Delivery : c # d => Phase(c)' = Phase(c)
    BY <2>1 DEF Phase
  <2>3. [w \in Worker |-> Task(w)]' = [w \in Worker |-> Task(w)]
    BY <1>1, <2>1
  <2>4. CASE stale[d]
    <3>1. Phase(d)' = Phase(d) /\ replays[d] > 0
      BY <2>1, <2>4 DEF Phase, QueueInv
    <3>2. RowsSame
      BY <2>1, <2>2, <3>1 DEF RowsSame
    <3> QED
      BY <1>1, <2>1, <3>2, QueueQuiet
  <2>5. CASE ~stale[d]
    <3>1. Phase(d) = "dead" /\ Phase(d)' = "waiting"
      BY <2>1, <2>5 DEF Phase
    <3>2. [c \in Delivery |-> Phase(c)]' = [[c \in Delivery |-> Phase(c)] EXCEPT ![d] = "waiting"]
      BY <2>2, <3>1
    <3>3. [c \in Delivery |-> replays[c] > 0]' =
             [[c \in Delivery |-> replays[c] > 0] EXCEPT ![d] = TRUE]
      BY <2>1
    <3>4. Queue!Reopen(d)
      BY <2>1, <2>3, <3>1, <3>2, <3>3 DEF Queue!Reopen
    <3> QED
      BY <3>4 DEF QueueStep, Queue!Next
  <2> QED
    BY <2>4, <2>5
<1>5. ASSUME NEW d \in Delivery, SetPublisher(d) PROVE QueueStep
  BY <1>2, <1>5 DEF SetPublisher, rowVars, procVars, history
<1>6. ASSUME NEW n \in Name, CreateDestination(n) \/ DeleteDestination(n) PROVE QueueStep
  BY <1>2, <1>6 DEF CreateDestination, DeleteDestination, rowVars, procVars, history
<1>7. ASSUME NEW n \in Name, NEW on \in BOOLEAN, PatchEnabled(n, on) PROVE QueueStep
  BY <1>2, <1>7 DEF PatchEnabled, rowVars, procVars, history
<1> QED
  BY <1>3, <1>4, <1>5, <1>6, <1>7 DEF Operator

\* Every step of the worker, its faults, its operator and its clock is a step of
\* DeliveryQueue or nothing it sees; a drained exit, in particular, finds no task.
LEMMA QueueRefines ==
  TypeOK /\ LeaseInv /\ QueueInv /\ DrainInv /\ [Next]_vars => QueueStep
<1> SUFFICES ASSUME TypeOK, LeaseInv, QueueInv, DrainInv, [Next]_vars PROVE QueueStep
  OBVIOUS
<1>1. ASSUME UNCHANGED <<state, replays, stale, faults>>,
             \A v \in Worker : \/ pc[v] = "idle" /\ pc'[v] = "idle"
                               \/ /\ pc'[v] = pc[v] /\ held'[v] = held[v] /\ written'[v] = written[v]
                                  /\ result'[v].next = result[v].next
                                  /\ result'[v].outcome = result[v].outcome
      PROVE  QueueStep
  <2>1. RowsSame
    BY <1>1 DEF RowsSame, Phase
  <2>2. ASSUME NEW v \in Worker PROVE Task(v)' = Task(v)
    <3>1. CASE pc[v] = "idle" /\ pc'[v] = "idle"
      BY <3>1, TaskIs, TaskGone
    <3>2. CASE ~(pc[v] = "idle" /\ pc'[v] = "idle")
      BY <1>1, <3>2, TaskKept
    <3> QED
      BY <3>1, <3>2
  <2> QED
    BY <1>1, <2>1, <2>2, QueueQuiet
<1>2. CASE Exit
  <2>1. \A w \in Worker : pc[w] = "idle"
    <3>1. ASSUME NEW w \in Worker, pc[w] # "idle", grace = 0, proc = "draining" PROVE FALSE
      <4>1. InFlight(w) < 0
        BY <3>1 DEF DrainInv
      <4>2. pc[w] \in {"resolve", "send", "record", "disable"} /\ left[w] \in Nat
        BY <3>1 DEF TypeOK, LoopsOK, Busy
      <4> QED
        BY <4>1, <4>2, TimesAssumption DEF InFlight
    <3> QED
      BY <1>2, <3>1 DEF Exit
  <2> QED
    BY <1>1, <1>2, <2>1 DEF Exit, AllLoopsStop, rowVars
<1>3. CASE Tick
  <2>1. \A v \in Worker : /\ result'[v].next = result[v].next
                          /\ result'[v].outcome = result[v].outcome
    BY <1>3 DEF Tick, TypeOK, LoopsOK, ResultType
  <2> QED
    BY <1>1, <1>3, <2>1 DEF Tick, history
<1>4. CASE Restart \/ UNCHANGED vars
  BY <1>1, <1>4 DEF Restart, vars, rowVars, loopVars, procVars, history
<1> QED
  BY <1>2, <1>3, <1>4, QueueLoop, QueueFault, QueueOperator DEF Next

\* The worker keeps the promise of DeliveryQueue, for any number of loops and
\* deliveries and all timeouts: one loop at a time has a row, an accepted delivery
\* ends as delivered, and an attempt vanishes only by a fault, leaving its row
\* queued; a drain loses none, and the only other exception is a record that
\* outlived a replay of its row.
THEOREM QueueCorrect == Spec => ImplementsQueue
<1>1. Init => Queue!Init
  <2> SUFFICES ASSUME Init PROVE Queue!Init
    OBVIOUS
  <2>1. \A d \in Delivery : Phase(d) = "absent" /\ (replays[d] > 0) = FALSE
    BY DEF Init, Phase
  <2>2. \A w \in Worker : Task(w) = Queue!NoTask
    BY DEF Init, Task, Owns, Queue!NoTask
  <2>3. faults = 0
    BY DEF Init
  <2> QED
    BY <2>1, <2>2, <2>3 DEF Queue!Init
<1>2. Init => QueueInv /\ DrainInv
  BY DEF Init, QueueInv, DrainInv
<1>3. QueueInv /\ DrainInv /\ TypeOK /\ LeaseInv /\ [Next]_vars => (QueueInv /\ DrainInv)'
  BY QueueInvStep, DrainStep
<1>4. TypeOK /\ LeaseInv /\ QueueInv /\ DrainInv /\ [Next]_vars => [Queue!Next]_(Queue!vars)
  BY QueueRefines DEF QueueStep
<1> QED
  BY <1>1, <1>2, <1>3, <1>4, LeaseAlways, PTL DEF Spec, ImplementsQueue, Queue!Spec
=============================================================================
