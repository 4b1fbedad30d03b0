------------------------- MODULE MCClusterConnection -------------------------
(* Two kubeconfigs with a context name in common that leads to different *)
(* clusters, and one that only the first has.                            *)
EXTENDS ClusterConnection, TLC

CONSTANTS c1, c2

First  == [leads |-> ("lab" :> c1) @@ ("prod" :> c2), current |-> "lab"]
Second == [leads |-> ("lab" :> c2), current |-> "lab"]

MCKubeconfigs == {First, Second}
=============================================================================
