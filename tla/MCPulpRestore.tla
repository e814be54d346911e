--------------------------- MODULE MCPulpRestore ---------------------------
(* Small instances of PulpRestore: one item that may be missing, one that   *)
(* is required besides the database credentials, one that is optional.      *)
EXTENDS PulpRestore

BackupItems == <<"settings", "admin", "postgres", "token">>
Mandatory   == {"admin", "postgres"}
AllFiles    == {"settings", "admin", "postgres", "token"}
NoSettings  == {"admin", "postgres", "token"}
TwoEach     == [c \in Components |-> 2]
ScaledApi   == {"api"}
NoneScaled  == {}
Anywhere    == Steps
Nowhere     == {}
=============================================================================
