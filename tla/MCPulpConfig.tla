---------------------------- MODULE MCPulpConfig ----------------------------
(* Small instances of PulpConfig.                                           *)
EXTENDS PulpConfig

Base == [store |-> {"class"}, size |-> TRUE, dbStore |-> {"class"}, cacheStore |-> {},
         ingress |-> "web", same |-> TRUE, host |-> FALSE, sums |-> "none", cached |-> TRUE,
         debug |-> FALSE, named |-> {"ca"}, trustCA |-> TRUE, ipv6 |-> TRUE, otel |-> FALSE,
         migrate |-> {}]

(* Object storage with LDAP; LDAP without a CA, and a CA without LDAP; a    *)
(* setting that needs a migration; external services behind an Ingress,     *)
(* without IPv6, with signing and custom settings; two storages, which are  *)
(* refused; and a Route, which is refused outside OpenShift.                *)
Choices ==
  {Base,
   [Base EXCEPT !.store = {"s3"}, !.size = FALSE, !.named = {"ldap", "ldapCA"}, !.trustCA = FALSE],
   [Base EXCEPT !.named = {"ldap"}, !.trustCA = FALSE],
   [Base EXCEPT !.named = {"ldapCA"}, !.trustCA = FALSE],
   [Base EXCEPT !.named = {}, !.trustCA = FALSE, !.migrate = {"HIDE_GUARDED_DISTRIBUTIONS"}],
   [Base EXCEPT !.store = {"azure"}, !.size = FALSE, !.ingress = "nginx", !.host = TRUE, !.dbStore = {},
                !.named = {"sso", "db", "cache", "scripts", "key", "custom"}, !.trustCA = FALSE,
                !.sums = "valid", !.debug = TRUE, !.ipv6 = FALSE, !.otel = TRUE],
   [Base EXCEPT !.store = {"class", "pvc"}, !.named = {}],
   [Base EXCEPT !.ingress = "route", !.store = {"gcs"}, !.size = FALSE, !.named = {}]}

New == {s \in Choices : s = Base \/ s.named = {"ldap", "ldapCA"}}

(* One of the two settings that need a migration is true.                   *)
Redirect == {[Base EXCEPT !.migrate = {"REDIRECT_TO_OBJECT_STORAGE"}]}
=============================================================================
