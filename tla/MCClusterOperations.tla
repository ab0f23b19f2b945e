------------------------ MODULE MCClusterOperations -------------------------
(* Instances on hosts: one each, the last ones on the last host. *)
EXTENDS ClusterOperations

Spread == [i \in Instances |-> IF i \in Hosts THEN i ELSE Cardinality(Hosts)]
=============================================================================
