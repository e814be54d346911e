---------------------------- MODULE BackupStore -----------------------------
(***************************************************************************)
(* What a PulpBackup promises to whoever restores from it, whatever the     *)
(* controller does on the claim: the status names nothing, or one backup    *)
(* with all that is needed.  What it names does not change, and it is only  *)
(* ever replaced, at once, by a later one.                                  *)
(***************************************************************************)
EXTENDS Naturals

CONSTANTS
  Needed,  \* the files of a complete backup
  Nothing  \* what there is to restore from at first

VARIABLES
  id,       \* the backup that is named; 0: none
  content,  \* what is in it
  reported  \* BackupComplete

Init == id = 0 /\ content = Nothing /\ reported = FALSE

(* A later run has written all of its files.                                *)
Publish ==
  /\ id' > id /\ Needed \subseteq content'.files
  /\ reported' \in BOOLEAN

Report ==
  /\ id # 0 /\ reported' = TRUE
  /\ UNCHANGED <<id, content>>

(* A run begins or fails; what the last one left stays.                     *)
Run ==
  /\ reported' = FALSE
  /\ UNCHANGED <<id, content>>

Next == Publish \/ Report \/ Run

Spec == Init /\ [][Next]_<<id, content, reported>>
=============================================================================
