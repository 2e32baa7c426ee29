-------------------------- MODULE MessageLifecycle --------------------------
(***************************************************************************)
(* What the message store promises of each message, without transactions,  *)
(* locks or delivery rows.  A message is accepted once under its key, as   *)
(* scheduled, held or released.  While it is scheduled it may be replaced  *)
(* as a whole; until it is released it may be cancelled, and then nobody   *)
(* is sent anything.  It is released at once to all its targets, never     *)
(* before it is due, and is the same from then on until it is forgotten.   *)
(***************************************************************************)
EXTENDS Integers

CONSTANTS Key, Content, Dest, Times

VARIABLES
    now,        \* the time
    phase,      \* of each message
    content,    \* what it says
    due,        \* when it may be sent
    targets,    \* whom it is for
    sent        \* whom the worker was told to send it to

vars == <<now, phase, content, due, targets, sent>>
message == <<phase, content, due, targets, sent>>

Init ==
    /\ phase = [k \in Key |-> "absent"]
    /\ content = [k \in Key |-> "none"]
    /\ targets = [k \in Key |-> {}]
    /\ sent = [k \in Key |-> {}]

\* Only message k changes.
Only(k) ==
    /\ phase' = [phase EXCEPT ![k] = phase'[k]]
    /\ content' = [content EXCEPT ![k] = content'[k]]
    /\ due' = [due EXCEPT ![k] = due'[k]]
    /\ targets' = [targets EXCEPT ![k] = targets'[k]]
    /\ sent' = [sent EXCEPT ![k] = sent'[k]]
    /\ UNCHANGED now

\* The message is what was submitted; released at once, it is due and goes to all.
Store(k) ==
    /\ content'[k] \in Content /\ due'[k] \in Times /\ targets'[k] \subseteq Dest
    /\ targets'[k] = {} <=> phase'[k] = "held"
    /\ sent'[k] = IF phase'[k] = "released" THEN targets'[k] ELSE {}
    /\ phase'[k] = "released" => due'[k] <= now
    /\ Only(k)

Accept(k) ==
    /\ phase[k] = "absent" /\ phase'[k] \in {"scheduled", "held", "released"}
    /\ Store(k)

Replace(k) ==
    /\ phase[k] = "scheduled" /\ phase'[k] \in {"scheduled", "released"}
    /\ Store(k)

Release(K) ==
    /\ \A k \in K : phase[k] = "scheduled" /\ due[k] <= now
    /\ phase' = [k \in Key |-> IF k \in K THEN "released" ELSE phase[k]]
    /\ sent' = [k \in Key |-> IF k \in K THEN targets[k] ELSE sent[k]]
    /\ UNCHANGED <<now, content, due, targets>>

Cancel(k) ==
    /\ phase[k] \in {"scheduled", "held"}
    /\ phase' = [phase EXCEPT ![k] = "cancelled"]
    /\ UNCHANGED <<now, content, due, targets, sent>>

\* Retention ends; a message that is still to be released is kept.
Forget(K) ==
    /\ \A k \in K : phase[k] \in {"released", "cancelled", "held"}
    /\ phase' = [k \in Key |-> IF k \in K THEN "absent" ELSE phase[k]]
    /\ content' = [k \in Key |-> IF k \in K THEN "none" ELSE content[k]]
    /\ targets' = [k \in Key |-> IF k \in K THEN {} ELSE targets[k]]
    /\ sent' = [k \in Key |-> IF k \in K THEN {} ELSE sent[k]]
    /\ \A k \in Key \ K : due'[k] = due[k]
    /\ UNCHANGED now

Pass == now' > now /\ UNCHANGED message

Next ==
    \/ \E k \in Key : Accept(k) \/ Replace(k) \/ Cancel(k)
    \/ \E K \in SUBSET Key : Release(K) \/ Forget(K)
    \/ Pass

Spec == Init /\ [][Next]_vars
=============================================================================
