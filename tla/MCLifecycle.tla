----------------------------- MODULE MCLifecycle -----------------------------
(* Instances of TopologyLifecycle.                                           *)
EXTENDS TopologyLifecycle, TLC

\* Namespaces, workers, nodes and UIDs are interchangeable.
Symmetric == Permutations(Namespaces) \cup Permutations(Workers)
             \cup Permutations(Nodes) \cup Permutations(UIDs)
=============================================================================
