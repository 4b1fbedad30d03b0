------------------------- MODULE NamespaceOperations -------------------------
(***************************************************************************)
(* What the operation lock and the emptiness check promise together,       *)
(* without saying how: the topology of a namespace is built from nothing   *)
(* and taken apart by one operation at a time.  Between operations, and    *)
(* while the backend is down, only the cluster touches it, by taking the   *)
(* whole namespace away.                                                   *)
(*                                                                         *)
(* TopologyLifecycle implements this specification.                        *)
(***************************************************************************)
CONSTANTS Namespaces, Workers, Nodes

VARIABLES
  stage,   \* stage[w]: "out", or what the operation of w is at
  place,   \* place[w]: the namespace the request of w is about
  crds,    \* crds[n]: pods of n that have their Topology CRD
  sets     \* sets[n]: pods of n that have their StatefulSet

vars == <<stage, place, crds, sets>>

Empty(n) == crds[n] = {} /\ sets[n] = {}
Alone(w) == \A v \in Workers \ {w} : stage[v] # "out" => place[v] # place[w]
Enter(w, s) == stage' = [stage EXCEPT ![w] = s]

Init ==
  /\ stage = [w \in Workers |-> "out"] /\ place \in [Workers -> Namespaces]
  /\ crds = [n \in Namespaces |-> {}] /\ sets = [n \in Namespaces |-> {}]

Arrive(w) ==
  /\ stage[w] = "out"
  /\ \E n \in Namespaces : place' = [place EXCEPT ![w] = n]
  /\ UNCHANGED <<stage, crds, sets>>

\* An operation begins in a namespace no other is in.
Begin(w) ==
  /\ stage[w] = "out" /\ Alone(w)
  /\ Enter(w, "check") \/ Enter(w, "settle")
  /\ UNCHANGED <<place, crds, sets>>

\* It sets out to build only in an empty namespace.
Build(w) ==
  /\ stage[w] = "check" /\ Empty(place[w])
  /\ Enter(w, "build")
  /\ UNCHANGED <<place, crds, sets>>

\* A pod's CRD or StatefulSet that was not there.
Create(w) ==
  /\ stage[w] = "build"
  /\ \E k \in Nodes :
       \/ /\ k \notin crds[place[w]]
          /\ crds' = [crds EXCEPT ![place[w]] = @ \cup {k}] /\ UNCHANGED sets
       \/ /\ k \notin sets[place[w]]
          /\ sets' = [sets EXCEPT ![place[w]] = @ \cup {k}] /\ UNCHANGED crds
  /\ Enter(w, "build") \/ Enter(w, "settle")
  /\ UNCHANGED place

\* What is left to do creates nothing any more.
Settle(w) ==
  /\ stage[w] \in {"check", "build"}
  /\ Enter(w, "settle")
  /\ UNCHANGED <<place, crds, sets>>

Remove(w) ==
  /\ stage[w] = "settle"
  /\ \E k \in Nodes :
       \/ crds' = [crds EXCEPT ![place[w]] = @ \ {k}] /\ UNCHANGED sets
       \/ sets' = [sets EXCEPT ![place[w]] = @ \ {k}] /\ UNCHANGED crds
  /\ UNCHANGED <<stage, place>>

End(w) ==
  /\ stage[w] = "settle"
  /\ Enter(w, "out")
  /\ UNCHANGED <<place, crds, sets>>

\* The backend dies, and with it every operation.
Die ==
  /\ stage' = [w \in Workers |-> "out"]
  /\ UNCHANGED <<place, crds, sets>>

\* The cluster is through with deleting a namespace.
Gone(n) ==
  /\ crds' = [crds EXCEPT ![n] = {}] /\ sets' = [sets EXCEPT ![n] = {}]
  /\ UNCHANGED <<stage, place>>

Next ==
  \/ \E w \in Workers : Arrive(w) \/ Begin(w) \/ Build(w) \/ Create(w) \/ Settle(w)
                        \/ Remove(w) \/ End(w)
  \/ Die \/ \E n \in Namespaces : Gone(n)

Spec == Init /\ [][Next]_vars

==============================================================================
