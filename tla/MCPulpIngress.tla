--------------------------- MODULE MCPulpIngress ---------------------------
(* Small instances of PulpIngress.  is_nginx_ingress belongs to the class   *)
(* that it describes, and changes with it.                                  *)
EXTENDS PulpIngress

ClassSet == {"nginx", "haproxy", "openshift-default"}
OneRoute == {"api"}

Choice(t, c) == [type |-> t, class |-> c, nginx |-> c = "nginx", port |-> t = "NodePort"]

(* Every type, two spellings of one of them, every class, a class that      *)
(* stays in .spec although the type has no use for it, and one that is      *)
(* missing.                                                                 *)
Choices ==
  {Choice("ingress", c) : c \in ClassSet \cup {""}}
    \cup {Choice("route", ""), Choice("NodePort", "openshift-default"),
          Choice("nodeport", ""), Choice("LoadBalancer", ""), Choice("none", "")}

New == {Choice("", ""), Choice("route", ""), Choice("ingress", "haproxy")}
All == Choices \cup New
=============================================================================
