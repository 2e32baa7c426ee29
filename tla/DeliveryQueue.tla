---------------------------- MODULE DeliveryQueue ----------------------------
(***************************************************************************)
(* What the delivery queue promises, without clocks, leases, retries of    *)
(* the record or destinations.  A worker takes a waiting delivery nobody   *)
(* else has, learns whether the receiver accepted it, and settles it: what *)
(* was accepted is delivered, what failed is dead or waits again.  A task  *)
(* disappears without that only by a fault, and then its delivery waits    *)
(* for somebody else: at least once, one at a time.  The operator can      *)
(* reopen a dead delivery; the record of an attempt from before may then   *)
(* overwrite it, after which nothing more is promised of that delivery.    *)
(***************************************************************************)
EXTENDS Integers

CONSTANTS Worker, Delivery, None

VARIABLES
    phase,      \* of each delivery
    task,       \* of each worker: its delivery, and what it knows of it
    reopened,   \* the deliveries the operator has reopened
    faults      \* how many faults there were

vars == <<phase, task, reopened, faults>>

NoTask == [on |-> None, knows |-> "nothing"]

Init ==
    /\ phase = [d \in Delivery |-> "absent"]
    /\ task = [w \in Worker |-> NoTask]
    /\ reopened = [d \in Delivery |-> FALSE]
    /\ faults = 0

\* The workers of W have nothing to do any more.
Drop(W) == task' = [w \in Worker |-> IF w \in W THEN NoTask ELSE task[w]]

Enqueue(d) ==
    /\ phase[d] = "absent"
    /\ phase' = [phase EXCEPT ![d] = "waiting"]
    /\ UNCHANGED <<task, reopened, faults>>

Take(w, d) ==
    /\ task[w] = NoTask
    /\ phase[d] = "waiting"
    /\ \A v \in Worker : task[v].on # d
    /\ task' = [task EXCEPT ![w] = [on |-> d, knows |-> "nothing"]]
    /\ UNCHANGED <<phase, reopened, faults>>

Learn(w, answer) ==
    /\ task[w].on \in Delivery /\ task[w].knows = "nothing"
    /\ task' = [task EXCEPT ![w] = [on |-> task[w].on, knows |-> answer]]
    /\ UNCHANGED <<phase, reopened, faults>>

\* The end of an attempt that ends its delivery.  The fault is a commit whose
\* answer is lost.
Settle(w) ==
    /\ task[w].on \in Delivery /\ task[w].knows # "nothing"
    /\ phase[task[w].on] = "waiting"
    /\ phase' = [phase EXCEPT ![task[w].on] =
                    IF task[w].knows = "accepted" THEN "delivered" ELSE "dead"]
    /\ faults' \in {faults, faults + 1}
    /\ Drop({w})
    /\ UNCHANGED reopened

\* The end of an attempt whose delivery is tried again.
Retry(w) ==
    /\ task[w].on \in Delivery /\ task[w].knows # "accepted"
    /\ Drop({w})
    /\ UNCHANGED <<phase, reopened, faults>>

\* A fault takes the tasks of some workers, or of none.
Fail(W) ==
    /\ faults' = faults + 1
    /\ Drop(W)
    /\ UNCHANGED <<phase, reopened>>

Reopen(d) ==
    /\ phase[d] = "dead"
    /\ phase' = [phase EXCEPT ![d] = "waiting"]
    /\ reopened' = [reopened EXCEPT ![d] = TRUE]
    /\ UNCHANGED <<task, faults>>

\* The record of an attempt from before the reopening reaches the delivery.
Overwrite(d) ==
    /\ phase[d] = "waiting" /\ reopened[d]
    /\ phase' = [phase EXCEPT ![d] = "overwritten"]
    /\ Drop({w \in Worker : task[w].on = d})
    /\ faults' \in {faults, faults + 1}
    /\ UNCHANGED reopened

Next ==
    \/ \E d \in Delivery : Enqueue(d) \/ Reopen(d) \/ Overwrite(d)
    \/ \E w \in Worker, d \in Delivery : Take(w, d)
    \/ \E w \in Worker, answer \in {"accepted", "failed"} : Learn(w, answer)
    \/ \E w \in Worker : Settle(w) \/ Retry(w)
    \/ \E W \in SUBSET Worker : Fail(W)

Spec == Init /\ [][Next]_vars
=============================================================================
