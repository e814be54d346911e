---------------------------- MODULE MCPulpBackup ----------------------------
(* Small instances of PulpBackup: the dump, a Secret that Pulp's status has *)
(* to name, one that is not in use, and /var/lib/pulp.                      *)
EXTENDS PulpBackup

BackupFiles == <<"settings", "db", "token", "dir">>
InUse       == {"db", "token", "dir"}
Token       == {"token"}
One         == {"a"}
Anywhere    == Steps
=============================================================================
