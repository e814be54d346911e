----------------------------- MODULE MCPulpJobs -----------------------------
(* Small instances of PulpJobs.                                             *)
EXTENDS PulpJobs

Base == [image |-> "old", store |-> "file", set |-> FALSE, sums |-> "",
         admin |-> "admin", sign |-> TRUE, off |-> FALSE]

(* Every field of .spec changes in some edit: an upgrade with other         *)
(* settings and a new admin Secret, one by hand with disable_migrations,    *)
(* and a move to another storage, with other settings, that drops the       *)
(* signing Secrets.                                                         *)
Choices ==
  {Base,
   [Base EXCEPT !.image = "new", !.set = TRUE, !.admin = "other"],
   [Base EXCEPT !.image = "new", !.off = TRUE],
   [Base EXCEPT !.store = "s3", !.set = TRUE, !.sums = "custom", !.sign = FALSE]}

New == {Base}
=============================================================================
