---------------------------- MODULE KeyRotation ----------------------------
(***************************************************************************)
(* Secrets at rest and the rotation of the master key.  A sealed column    *)
(* holds, per row, a plaintext and the key it is sealed under.  The server *)
(* seals under its primary key and opens under the primary or, during a    *)
(* rotation, the previous one; rotate-keys reseals the rows it has loaded, *)
(* one compare-and-set each, while the server goes on writing them;        *)
(* verify-keys reads every row with the primary key alone.                 *)
(*                                                                         *)
(* Two blobs are equal when plaintext and key are: the plaintexts of the   *)
(* module that writes the rows are never issued twice.                     *)
(***************************************************************************)
EXTENDS Naturals, FiniteSets

CONSTANTS Rows,      \* row keys of the sealed table
          None       \* a row, a key or a lock holder that is not there

ASSUME KeyAssumption == None \notin {"old", "new"}

VARIABLES
  sealed,   \* Rows -> None or [text, key]
  ring,     \* the running server's keys: [primary, previous]
  command,  \* the rotate-keys or verify-keys process
  passed    \* verify-keys has exited 0

rotationVars == <<sealed, ring, command, passed>>

Idle == [pc |-> "idle", snapshot |-> [r \in {} |-> None]]

(***************************************************************************)
(* seal.Sealer.                                                            *)
(***************************************************************************)
Seal(text) == [text |-> text, key |-> ring.primary]
Opens(keys, blob) == blob.key \in {keys.primary, keys.previous}

\* Mutant: the check accepts the previous key as well.
AnyKey(keys) == keys

PrimaryOnly(keys) == [keys EXCEPT !.previous = None]

RotationInit ==
  /\ sealed \in [Rows -> {None}]
  /\ ring = [primary |-> "old", previous |-> None]
  /\ command = Idle /\ passed = FALSE

\* The rows that were there when the table was read.
loadRows == [r \in {s \in Rows : sealed[s] # None} |-> sealed[r]]

\* Both keys come from the environment the server was recreated with.
runRotateKeys ==
  /\ command = Idle /\ ring.previous # None
  /\ command' = [Idle EXCEPT !.pc = "rotate", !.snapshot = loadRows]
  /\ UNCHANGED <<sealed, ring, passed>>

Without(f, r) == [s \in DOMAIN f \ {r} |-> f[s]]

\* Mutant: the update names the row and not the blob that was read.
UpdateByKey(r, resealed) ==
  IF sealed[r] # None THEN [sealed EXCEPT ![r] = resealed] ELSE sealed

\* The sealed column after the conditional update, unchanged if it no longer
\* holds the blob that was read.
updateSealed(r, resealed) ==
  IF sealed[r] = command.snapshot[r] THEN [sealed EXCEPT ![r] = resealed] ELSE sealed

\* One row of the loop: a current row is skipped; an unreadable or a changed
\* one is left as it is and reported.
Rotate(r) ==
  LET blob == command.snapshot[r]
      stale == Opens(ring, blob) /\ blob.key # ring.primary
  IN /\ command.pc = "rotate" /\ r \in DOMAIN command.snapshot
     /\ sealed' = IF stale THEN updateSealed(r, Seal(blob.text)) ELSE sealed
     /\ command' = [command EXCEPT !.snapshot = Without(@, r)]
     /\ UNCHANGED <<ring, passed>>

\* rotate-keys ends, with every row visited or aborted by a database error.
\* The operator goes by verify-keys, not by its exit status.
EndRotate ==
  /\ command.pc = "rotate"
  /\ command' = Idle
  /\ UNCHANGED <<sealed, ring, passed>>

\* verify-keys reads the rows and checks what it has read with the primary
\* key alone; it writes nothing, so it is one step.
runVerifyKeys ==
  /\ command = Idle /\ ring.previous # None
  /\ \A r \in DOMAIN loadRows : Opens(PrimaryOnly(ring), loadRows[r])
  /\ passed' = TRUE
  /\ UNCHANGED <<sealed, ring, command>>

(***************************************************************************)
(* The operator's steps: the server is recreated with the new key as       *)
(* primary and the old one as previous; and, once verify-keys has passed,  *)
(* with the new key alone.                                                 *)
(***************************************************************************)
DeployNewKey ==
  /\ ring.primary = "old"
  /\ ring' = [primary |-> "new", previous |-> "old"]
  /\ UNCHANGED <<sealed, command, passed>>

DropPreviousKey ==
  /\ passed /\ command = Idle /\ ring.previous # None
  /\ ring' = [ring EXCEPT !.previous = None]
  /\ UNCHANGED <<sealed, command, passed>>

RotationNext ==
  \/ runRotateKeys \/ EndRotate \/ runVerifyKeys
  \/ \E r \in Rows : Rotate(r)

-----------------------------------------------------------------------------
\* Every secret the server stores stays readable by the server: through the
\* switch to the new key, an aborted or repeated rotation, writes of requests
\* between the load and the reseal, and the removal of the old key; and once
\* verify-keys has exited 0, no row needs the old key.
SealedStaysReadable ==
  \A r \in Rows : sealed[r] # None =>
    /\ Opens(ring, sealed[r])
    /\ passed => sealed[r].key = ring.primary
=============================================================================
