--------------------------- MODULE MCRepoManager ---------------------------
(* Small instances of RepoManager: the api and the worker Deployments, the  *)
(* database, whose condition the status check does not wait for, and        *)
(* pulp-web, which nodeport asks for and route does not.                    *)
EXTENDS RepoManager

Pulpcore    == <<"api", "worker">>
WithDatabase == <<"database", "api", "worker">>
OwnCond     == [r \in ResourceSet |-> r]
WithWeb     == <<"api", "web">>
Deployments == {"api", "worker", "web"} \cap ResourceSet
OneType     == [v \in Versions |-> "nodeport"]
NoWeb       == [t \in {"nodeport"} |-> {}]
FourthIsRoute == [v \in Versions |-> IF v = 4 THEN "route" ELSE "nodeport"]
WebOrRoute  == [t \in {"nodeport", "route"} |-> IF t = "nodeport" THEN {"web"} ELSE {}]
AlwaysReady == {"worker", "database"} \cap ResourceSet
None        == {}
Second      == {2}
Third       == {3}
=============================================================================
