------------------------ MODULE TopologyModifyProofs ------------------------
(***************************************************************************)
(* Proofs about module TopologyModify, for any nodes, links and files, any *)
(* requests, any number of replicas, and every fault unless a theorem says *)
(* otherwise.  Each invariant says what holds at each step of a request.   *)
(***************************************************************************)
EXTENDS TopologyModify, FiniteSetTheorems, TLAPS

-----------------------------------------------------------------------------
(* Pods, their nodes and their links.                                      *)

\* The ends of a link are at pods.
LEMMA OnPods == \A l \in Links : On(l) \subseteq Pods
  BY ModifyAssumption DEF On

\* A pod is its node and its ordinal.
LEMMA PodShape ==
  /\ \A p \in Pods : p[1] \in Nodes /\ p[2] \in 0 .. MaxReplicas - 1 /\ p = <<p[1], p[2]>>
  /\ \A n \in Nodes, i \in 0 .. MaxReplicas - 1 :
       <<n, i>> \in Pods /\ <<n, i>>[1] = n /\ <<n, i>>[2] = i
  BY DEF Pods

\* The replicas from i up to j of a node.
LEMMA PodsOfIs ==
  ASSUME NEW n \in Nodes, NEW i \in Nat, NEW j \in 0 .. MaxReplicas
  PROVE  PodsOf(n, i, j) = {p \in Pods : p[1] = n /\ i <= p[2] /\ p[2] < j}
  BY ModifyAssumption, PodShape DEF PodsOf

\* The pods of a vector of replicas: the ordinals below their node's count.
LEMMA WantedIs ==
  ASSUME NEW r \in [Nodes -> 0 .. MaxReplicas]
  PROVE  UNION {PodsOf(n, 0, r[n]) : n \in Nodes} = {p \in Pods : p[2] < r[p[1]]}
<1>1. \A n \in Nodes : PodsOf(n, 0, r[n]) = {p \in Pods : p[1] = n /\ 0 <= p[2] /\ p[2] < r[n]}
  BY PodsOfIs
<1> QED
  BY <1>1, PodShape, ModifyAssumption

\* The pods the StatefulSets want.
LEMMA WantedNow ==
  ASSUME replicas \in [Nodes -> 0 .. MaxReplicas]
  PROVE  Wanted = {p \in Pods : p[2] < replicas[p[1]]}
  BY WantedIs DEF Wanted

\* The same after a step.
LEMMA WantedNext ==
  ASSUME (replicas \in [Nodes -> 0 .. MaxReplicas])'
  PROVE  Wanted' = {p \in Pods : p[2] < replicas'[p[1]]}
  BY WantedIs DEF Wanted

\* What UpdateIfaceCountsConfigMap publishes is a number for each QEMU pod.
LEMMA CountsType ==
  ASSUME crds \subseteq Pods, spec \in [Pods -> SUBSET Links]
  PROVE  IfaceCounts \in [Pods -> Nat \cup {NoCount}]
<1>1. ASSUME NEW p \in Pods PROVE Cardinality(spec[p]) \in Nat
  BY StartAssumption, FS_Subset, FS_CardinalityType
<1> QED
  BY <1>1 DEF IfaceCounts

-----------------------------------------------------------------------------
(* Where a request is, and what it works on.                               *)

\* The steps of the delete, of the scale-downs, of the scale-ups, and after the
\* add until the attributes are saved.
DeleteSteps == {"delete", "unlink", "list", "detach", "delset", "deltopo", "delmount", "delrows"}

DownSteps   == {"down", "list", "detach", "orphans", "shrink", "forget"}

UpSteps     == {"up", "newcrds", "upsert", "counts", "grow"}

LateSteps   == {"plan", "restart", "wait", "replay", "heal", "healwait", "attributes"}

\* The request passed BuildScalePlans: the nodes it scales exist and stay, as long
\* as it runs and afterwards.  The links left to add are links of the request.
RequestOK ==
  /\ req \in Requests \cup {NoRequest}
  /\ \A n \in DOMAIN req.scale :
       /\ n \in Existing /\ n \notin req.delete \cup req.add /\ req.scale[n] \in 1 .. MaxReplicas
  /\ plans \subseteq DOMAIN req.scale
  /\ links \subseteq req.links
  /\ todo \subseteq Pods

\* A step that two phases have in common knows whose it is.
PhaseOK ==
  /\ pc \in {"delete", "unlink", "delset", "deltopo", "delmount", "delrows"} => phase = "delete"
  /\ pc \in {"list", "detach"} => phase \in {"delete", "down"}
  /\ pc \in {"orphans", "shrink", "forget"} => phase = "down"
  /\ pc \in {"newcrds", "upsert", "counts"} => phase \in {"up", "add"}
  /\ pc = "grow" => phase = "up"
  /\ pc \in {"addmounts", "addsets"} => phase = "add"

\* The plans that are left change what they scale, in the direction of the phase;
\* batch is what the current one removes or creates, until the StatefulSet changes.
PlanOK ==
  /\ pc \in DeleteSteps /\ phase = "delete" => plans = {}
  /\ pc \in DownSteps => \A n \in plans : req.scale[n] < replicas[n]
  /\ pc \in UpSteps /\ ~ (phase = "add" /\ pc # "up") => \A n \in plans : req.scale[n] > replicas[n]
  /\ phase \in {"down", "up"} => node \in DOMAIN req.scale
  /\ pc \in {"list", "detach", "orphans", "shrink"} /\ phase = "down" =>
       /\ node \notin plans /\ req.scale[node] < replicas[node]
       /\ batch = PodsOf(node, req.scale[node], replicas[node])
  /\ pc \in {"newcrds", "upsert", "counts", "grow"} /\ phase = "up" =>
       /\ node \notin plans /\ req.scale[node] > replicas[node]
       /\ batch = PodsOf(node, replicas[node], req.scale[node])

\* What every other invariant here rests on.
Control == TypeOK /\ RequestOK /\ PhaseOK /\ PlanOK

\* A request names nodes and links of the namespace.
LEMMA RequestType ==
  ASSUME req \in Requests \cup {NoRequest}
  PROVE  /\ req.delete \cup req.add \cup DOMAIN req.scale \subseteq Nodes
         /\ req.delLinks \cup req.links \cup req.attr \subseteq Links
<1>1. CASE req \in Requests
  BY <1>1, RequestAssumption
<1>2. CASE req = NoRequest
  BY <1>2 DEF NoRequest
<1> QED
  BY <1>1, <1>2

\* The types of what the handler computes from its request.
LEMMA Types ==
  ASSUME Control
  PROVE  /\ \A l \in Links : On(l) \subseteq Pods
         /\ req.delete \cup req.add \cup DOMAIN req.scale \subseteq Nodes
         /\ req.delLinks \cup req.links \cup req.attr \subseteq Links
         /\ replicas \in [Nodes -> 0 .. MaxReplicas]
         /\ \A n \in DOMAIN req.scale : req.scale[n] \in 1 .. MaxReplicas
         /\ \A n \in Nodes : /\ PodsOf(n, 0, replicas[n]) \subseteq Pods
                             /\ PodsOf(n, 0, 1) \subseteq Pods
         /\ \A n \in DOMAIN req.scale : /\ PodsOf(n, req.scale[n], replicas[n]) \subseteq Pods
                                        /\ PodsOf(n, replicas[n], req.scale[n]) \subseteq Pods
<1> USE DEF Control
<1>1. /\ req.delete \cup req.add \cup DOMAIN req.scale \subseteq Nodes
      /\ req.delLinks \cup req.links \cup req.attr \subseteq Links
  BY RequestType DEF RequestOK
<1>2. /\ replicas \in [Nodes -> 0 .. MaxReplicas]
      /\ \A n \in DOMAIN req.scale : req.scale[n] \in 1 .. MaxReplicas
  BY DEF TypeOK, RequestOK
<1>3. ASSUME NEW n \in Nodes
      PROVE  PodsOf(n, 0, replicas[n]) \subseteq Pods /\ PodsOf(n, 0, 1) \subseteq Pods
  BY <1>2, PodsOfIs, ModifyAssumption
<1>4. ASSUME NEW n \in DOMAIN req.scale
      PROVE  /\ PodsOf(n, req.scale[n], replicas[n]) \subseteq Pods
             /\ PodsOf(n, replicas[n], req.scale[n]) \subseteq Pods
  BY <1>1, <1>2, PodsOfIs, ModifyAssumption
<1> QED
  BY <1>1, <1>2, <1>3, <1>4, OnPods

\* A scale-down removes at least a pod, so its List never ends as the delete's
\* may, with no pod to detach.
LEMMA DownBatch ==
  ASSUME Control, pc \in {"list", "detach", "orphans", "shrink"}, phase = "down"
  PROVE  batch # {}
<1>1. /\ node \in Nodes /\ req.scale[node] \in Nat /\ replicas[node] \in 0 .. MaxReplicas
      /\ req.scale[node] < replicas[node] /\ batch = PodsOf(node, req.scale[node], replicas[node])
  BY ModifyAssumption, RequestType DEF Control, TypeOK, RequestOK, PlanOK
<1>2. req.scale[node] \in req.scale[node] .. replicas[node] - 1
  BY <1>1, ModifyAssumption
<1> QED
  BY <1>1, <1>2 DEF PodsOf

\* Steps keep PhaseOK.
LEMMA PhaseStep ==
  ASSUME Control, [Next]_vars
  PROVE  PhaseOK'
<1> USE DEF Control
<1>1. CASE Modify
  BY <1>1, DownBatch DEF Modify, Goto, cluster, tables, dataplane, PhaseOK
<1>2. CASE BeginDelete
  BY <1>2, DownBatch DEF BeginDelete, Fault, Goto, Proceed, cluster, tables, dataplane, PhaseOK
<1>3. CASE Unlink
  BY <1>3, DownBatch DEF Unlink, Proceed, ApiError, Logged, Abort, dataplane, PhaseOK
<1>4. CASE ListPeers
  BY <1>4, DownBatch DEF ListPeers, Proceed, ApiError, Abort, cluster, tables, dataplane, PhaseOK
<1>5. CASE Detach
  BY <1>5, DownBatch DEF Detach, Proceed, ApiError, Abort, tables, dataplane, Detached, PhaseOK
<1>6. CASE DeleteSet
  BY <1>6, DownBatch DEF DeleteSet, Proceed, ApiError, Abort, tables, PhaseOK
<1>7. CASE DeleteTopologies
  BY <1>7, DownBatch DEF DeleteTopologies, Proceed, ApiError, Abort, tables, dataplane, work,
         PhaseOK
<1>8. CASE DeleteMount
  BY <1>8, DownBatch DEF DeleteMount, Fault, Proceed, Logged, tables, dataplane, work, PhaseOK
<1>9. CASE DeleteRows
  BY <1>9, DownBatch DEF DeleteRows, Proceed, ApiError, Logged, Abort, cluster, dataplane, PhaseOK
<1>10. CASE BeginDown
  BY <1>10, DownBatch DEF BeginDown, Proceed, cluster, tables, dataplane, PhaseOK
<1>11. CASE DeleteOrphans
  BY <1>11, DownBatch DEF DeleteOrphans, Proceed, ApiError, Abort, tables, dataplane, work,
         PhaseOK
<1>12. CASE ShrinkSet
  BY <1>12, DownBatch DEF ShrinkSet, Proceed, ApiError, Abort, tables, dataplane, work, PhaseOK
<1>13. CASE ForgetOrphans
  BY <1>13, DownBatch DEF ForgetOrphans, Proceed, ApiError, Abort, cluster, dataplane, PhaseOK
<1>14. CASE BeginUp
  BY <1>14, DownBatch DEF BeginUp, Proceed, cluster, tables, dataplane, PhaseOK
<1>15. CASE CreateCRD
  BY <1>15, DownBatch DEF CreateCRD, Proceed, ApiError, Abort, tables, dataplane, PhaseOK
<1>16. CASE Upsert
  BY <1>16, DownBatch DEF Upsert, Proceed, ApiError, Abort, tables, dataplane, PhaseOK
<1>17. CASE PublishCounts
  BY <1>17, DownBatch DEF PublishCounts, Proceed, Logged, tables, dataplane, work, PhaseOK
<1>18. CASE GrowSet
  BY <1>18, DownBatch DEF GrowSet, Proceed, ApiError, Abort, tables, dataplane, PhaseOK
<1>19. CASE BeginAdd
  BY <1>19, DownBatch DEF BeginAdd, Fault, Proceed, Abort, cluster, tables, dataplane, PhaseOK
<1>20. CASE AddMounts
  BY <1>20, DownBatch DEF AddMounts, Proceed, ApiError, Abort, tables, dataplane, PhaseOK
<1>21. CASE AddSets
  BY <1>21, DownBatch DEF AddSets, Proceed, ApiError, Abort, tables, dataplane, PhaseOK
<1>22. CASE PlanRestarts
  BY <1>22, DownBatch DEF PlanRestarts, Proceed, Logged, tables, dataplane, PhaseOK
<1>23. CASE RestartPod \/ WaitReady \/ Replay \/ Heal \/ HealWait \/ SaveAttributes \/
       SyncRegistry \/ Answer
  BY <1>23, DownBatch DEF RestartPod, WaitReady, Replay, Heal, HealWait, SaveAttributes,
         SyncRegistry, Answer, Proceed, ApiError, Logged, Abort, cluster, tables, dataplane, work,
         PhaseOK
<1>24. CASE PodStart \/ Launch \/ PodStop \/ Configure
  <2>1. CASE PodStart \/ Launch
    BY <2>1, DownBatch DEF PodStart, Launch, Fault, cluster, tables, dataplane, work,
           PhaseOK
  <2>2. CASE PodStop \/ Configure
    BY <2>2, DownBatch DEF PodStop, Configure, Fault, cluster, tables, dataplane, work,
           PhaseOK
  <2> QED
    BY <1>24, <2>1, <2>2
<1>25. CASE UNCHANGED vars
  BY <1>25, DownBatch DEF vars, cluster, tables, dataplane, work, PhaseOK
<1> QED
  BY <1>1, <1>2, <1>3, <1>4, <1>5, <1>6, <1>7, <1>8, <1>9, <1>10, <1>11, <1>12, <1>13, <1>14,
         <1>15, <1>16, <1>17, <1>18, <1>19, <1>20, <1>21, <1>22, <1>23, <1>24, <1>25 DEF Next,
         Handler, World

\* Steps keep RequestOK: only a delete takes a StatefulSet away, and never one of
\* a node that scales.
LEMMA RequestStep ==
  ASSUME Control, [Next]_vars
  PROVE  RequestOK'
<1> USE DEF Control
<1>1. CASE Modify
  BY <1>1, Types DEF Modify, Goto, cluster, tables, dataplane, ScalePlansValid, RequestOK, TypeOK,
         PhaseOK, PlanOK, Existing
<1>2. CASE BeginDelete
  BY <1>2, Types DEF BeginDelete, Fault, Goto, Proceed, cluster, tables, dataplane, Downs,
         RequestOK, TypeOK, PhaseOK, PlanOK, Existing
<1>3. CASE Unlink
  BY <1>3, Types DEF Unlink, Proceed, ApiError, Logged, Abort, dataplane, RequestOK, TypeOK,
         PhaseOK, PlanOK, Existing
<1>4. CASE ListPeers
  BY <1>4, Types DEF ListPeers, Proceed, ApiError, Abort, cluster, tables, dataplane, RequestOK,
         TypeOK, PhaseOK, PlanOK, Existing
<1>5. CASE Detach
  BY <1>5, Types DEF Detach, Proceed, ApiError, Abort, tables, dataplane, RequestOK, TypeOK,
         PhaseOK, PlanOK, Existing
<1>6. CASE DeleteSet
  BY <1>6, Types DEF DeleteSet, Proceed, ApiError, Abort, tables, RequestOK, TypeOK, PhaseOK,
         PlanOK, Existing
<1>7. CASE DeleteTopologies
  BY <1>7, Types DEF DeleteTopologies, Proceed, ApiError, Abort, tables, dataplane, work,
         DropCRDs, RequestOK, TypeOK, PhaseOK, PlanOK, Existing
<1>8. CASE DeleteMount
  BY <1>8, Types DEF DeleteMount, Fault, Proceed, Logged, tables, dataplane, work, RequestOK,
         TypeOK, PhaseOK, PlanOK, Existing
<1>9. CASE DeleteRows
  BY <1>9, Types DEF DeleteRows, Proceed, ApiError, Logged, Abort, cluster, dataplane, Downs,
         RequestOK, TypeOK, PhaseOK, PlanOK, Existing
<1>10. CASE BeginDown
  BY <1>10, Types DEF BeginDown, Proceed, cluster, tables, dataplane, Ups, RequestOK, TypeOK,
         PhaseOK, PlanOK, Existing
<1>11. CASE DeleteOrphans
  BY <1>11, Types DEF DeleteOrphans, Proceed, ApiError, Abort, tables, dataplane, work, DropCRDs,
         RequestOK, TypeOK, PhaseOK, PlanOK, Existing
<1>12. CASE ShrinkSet
  BY <1>12, Types DEF ShrinkSet, Proceed, ApiError, Abort, tables, dataplane, work, RequestOK,
         TypeOK, PhaseOK, PlanOK, Existing
<1>13. CASE ForgetOrphans
  BY <1>13, Types DEF ForgetOrphans, Proceed, ApiError, Abort, cluster, dataplane, RequestOK,
         TypeOK, PhaseOK, PlanOK, Existing
<1>14. CASE BeginUp
  BY <1>14, Types DEF BeginUp, Proceed, cluster, tables, dataplane, RequestOK, TypeOK, PhaseOK,
         PlanOK, Existing
<1>15. CASE CreateCRD
  BY <1>15, Types DEF CreateCRD, Proceed, ApiError, Abort, tables, dataplane, RequestOK, TypeOK,
         PhaseOK, PlanOK, Existing
<1>16. CASE Upsert
  BY <1>16, Types DEF Upsert, Proceed, ApiError, Abort, tables, dataplane, RequestOK, TypeOK,
         PhaseOK, PlanOK, Existing
<1>17. CASE PublishCounts
  BY <1>17, Types DEF PublishCounts, Proceed, Logged, tables, dataplane, work, RequestOK, TypeOK,
         PhaseOK, PlanOK, Existing
<1>18. CASE GrowSet
  BY <1>18, Types DEF GrowSet, Proceed, ApiError, Abort, tables, dataplane, RequestOK, TypeOK,
         PhaseOK, PlanOK, Existing
<1>19. CASE BeginAdd
  BY <1>19, Types DEF BeginAdd, Fault, Proceed, Abort, cluster, tables, dataplane, RequestOK,
         TypeOK, PhaseOK, PlanOK, Existing
<1>20. CASE AddMounts
  BY <1>20, Types DEF AddMounts, Proceed, ApiError, Abort, tables, dataplane, RequestOK, TypeOK,
         PhaseOK, PlanOK, Existing
<1>21. CASE AddSets
  BY <1>21, Types DEF AddSets, Proceed, ApiError, Abort, tables, dataplane, RequestOK, TypeOK,
         PhaseOK, PlanOK, Existing
<1>22. CASE PlanRestarts
  BY <1>22, Types DEF PlanRestarts, Proceed, Logged, tables, dataplane, RestartSet, RequestOK,
         TypeOK, PhaseOK, PlanOK, Existing
<1>23. CASE RestartPod \/ WaitReady \/ Replay \/ Heal \/ HealWait \/ SaveAttributes \/
       SyncRegistry \/ Answer
  BY <1>23, Types DEF RestartPod, WaitReady, Replay, Heal, HealWait, SaveAttributes, SyncRegistry,
         Answer, Proceed, ApiError, Logged, Abort, cluster, tables, dataplane, work, RequestOK,
         TypeOK, PhaseOK, PlanOK, Existing
<1>24. CASE PodStart \/ Launch \/ PodStop \/ Configure
  <2>1. CASE PodStart \/ Launch
    BY <2>1, Types DEF PodStart, Launch, Fault, cluster, tables, dataplane, work,
           RequestOK, TypeOK, PhaseOK, PlanOK, Existing
  <2>2. CASE PodStop \/ Configure
    BY <2>2, Types DEF PodStop, Configure, Fault, cluster, tables, dataplane, work,
           RequestOK, TypeOK, PhaseOK, PlanOK, Existing
  <2> QED
    BY <1>24, <2>1, <2>2
<1>25. CASE UNCHANGED vars
  BY <1>25, Types DEF vars, cluster, tables, dataplane, work, RequestOK, TypeOK, PhaseOK, PlanOK,
         Existing
<1> QED
  BY <1>1, <1>2, <1>3, <1>4, <1>5, <1>6, <1>7, <1>8, <1>9, <1>10, <1>11, <1>12, <1>13, <1>14,
         <1>15, <1>16, <1>17, <1>18, <1>19, <1>20, <1>21, <1>22, <1>23, <1>24, <1>25 DEF Next,
         Handler, World

\* Steps keep PlanOK: one plan's StatefulSet changes at a time.
LEMMA PlanStep ==
  ASSUME Control, [Next]_vars
  PROVE  PlanOK'
<1> USE DEF Control
<1>1. CASE Modify
  BY <1>1, Types, DownBatch DEF Modify, Goto, cluster, tables, dataplane, PlanOK, TypeOK,
         RequestOK, PhaseOK, DeleteSteps, DownSteps, UpSteps, Existing
<1>2. CASE BeginDelete
  BY <1>2, Types, DownBatch DEF BeginDelete, Fault, Goto, Proceed, cluster, tables, dataplane,
         Downs, PlanOK, TypeOK, RequestOK, PhaseOK, DeleteSteps, DownSteps, UpSteps, Existing
<1>3. CASE Unlink
  BY <1>3, Types, DownBatch DEF Unlink, Proceed, ApiError, Logged, Abort, dataplane, PlanOK,
         TypeOK, RequestOK, PhaseOK, DeleteSteps, DownSteps, UpSteps, Existing
<1>4. CASE ListPeers
  BY <1>4, Types, DownBatch DEF ListPeers, Proceed, ApiError, Abort, cluster, tables, dataplane,
         PlanOK, TypeOK, RequestOK, PhaseOK, DeleteSteps, DownSteps, UpSteps, Existing
<1>5. CASE Detach
  BY <1>5, Types, DownBatch DEF Detach, Proceed, ApiError, Abort, tables, dataplane, Detached,
         PlanOK, TypeOK, RequestOK, PhaseOK, DeleteSteps, DownSteps, UpSteps, Existing
<1>6. CASE DeleteSet
  BY <1>6, Types, DownBatch DEF DeleteSet, Proceed, ApiError, Abort, tables, PlanOK, TypeOK,
         RequestOK, PhaseOK, DeleteSteps, DownSteps, UpSteps, Existing
<1>7. CASE DeleteTopologies
  BY <1>7, Types, DownBatch DEF DeleteTopologies, Proceed, ApiError, Abort, tables, dataplane,
         work, PlanOK, TypeOK, RequestOK, PhaseOK, DeleteSteps, DownSteps, UpSteps, Existing
<1>8. CASE DeleteMount
  BY <1>8, Types, DownBatch DEF DeleteMount, Fault, Proceed, Logged, tables, dataplane, work,
         PlanOK, TypeOK, RequestOK, PhaseOK, DeleteSteps, DownSteps, UpSteps, Existing
<1>9. CASE DeleteRows
  BY <1>9, Types, DownBatch DEF DeleteRows, Proceed, ApiError, Logged, Abort, cluster, dataplane,
         Downs, PlanOK, TypeOK, RequestOK, PhaseOK, DeleteSteps, DownSteps, UpSteps, Existing
<1>10. CASE BeginDown
  BY <1>10, Types, DownBatch DEF BeginDown, Proceed, cluster, tables, dataplane, Ups, PlanOK,
         TypeOK, RequestOK, PhaseOK, DeleteSteps, DownSteps, UpSteps, Existing
<1>11. CASE DeleteOrphans
  BY <1>11, Types, DownBatch DEF DeleteOrphans, Proceed, ApiError, Abort, tables, dataplane, work,
         PlanOK, TypeOK, RequestOK, PhaseOK, DeleteSteps, DownSteps, UpSteps, Existing
<1>12. CASE ShrinkSet
  BY <1>12, Types, DownBatch DEF ShrinkSet, Proceed, ApiError, Abort, tables, dataplane, work,
         PlanOK, TypeOK, RequestOK, PhaseOK, DeleteSteps, DownSteps, UpSteps, Existing
<1>13. CASE ForgetOrphans
  BY <1>13, Types, DownBatch DEF ForgetOrphans, Proceed, ApiError, Abort, cluster, dataplane,
         PlanOK, TypeOK, RequestOK, PhaseOK, DeleteSteps, DownSteps, UpSteps, Existing
<1>14. CASE BeginUp
  BY <1>14, Types, DownBatch DEF BeginUp, Proceed, cluster, tables, dataplane, PlanOK, TypeOK,
         RequestOK, PhaseOK, DeleteSteps, DownSteps, UpSteps, Existing
<1>15. CASE CreateCRD
  BY <1>15, Types, DownBatch DEF CreateCRD, Proceed, ApiError, Abort, tables, dataplane, PlanOK,
         TypeOK, RequestOK, PhaseOK, DeleteSteps, DownSteps, UpSteps, Existing
<1>16. CASE Upsert
  BY <1>16, Types, DownBatch DEF Upsert, Proceed, ApiError, Abort, tables, dataplane, PlanOK,
         TypeOK, RequestOK, PhaseOK, DeleteSteps, DownSteps, UpSteps, Existing
<1>17. CASE PublishCounts
  BY <1>17, Types, DownBatch DEF PublishCounts, Proceed, Logged, tables, dataplane, work, PlanOK,
         TypeOK, RequestOK, PhaseOK, DeleteSteps, DownSteps, UpSteps, Existing
<1>18. CASE GrowSet
  BY <1>18, Types, DownBatch DEF GrowSet, Proceed, ApiError, Abort, tables, dataplane, PlanOK,
         TypeOK, RequestOK, PhaseOK, DeleteSteps, DownSteps, UpSteps, Existing
<1>19. CASE BeginAdd
  BY <1>19, Types, DownBatch DEF BeginAdd, Fault, Proceed, Abort, cluster, tables, dataplane,
         PlanOK, TypeOK, RequestOK, PhaseOK, DeleteSteps, DownSteps, UpSteps, Existing
<1>20. CASE AddMounts
  BY <1>20, Types, DownBatch DEF AddMounts, Proceed, ApiError, Abort, tables, dataplane, PlanOK,
         TypeOK, RequestOK, PhaseOK, DeleteSteps, DownSteps, UpSteps, Existing
<1>21. CASE AddSets
  BY <1>21, Types, DownBatch DEF AddSets, Proceed, ApiError, Abort, tables, dataplane, PlanOK,
         TypeOK, RequestOK, PhaseOK, DeleteSteps, DownSteps, UpSteps, Existing
<1>22. CASE PlanRestarts
  BY <1>22, Types, DownBatch DEF PlanRestarts, Proceed, Logged, tables, dataplane, PlanOK, TypeOK,
         RequestOK, PhaseOK, DeleteSteps, DownSteps, UpSteps, Existing
<1>23. CASE RestartPod \/ WaitReady \/ Replay \/ Heal \/ HealWait \/ SaveAttributes \/
       SyncRegistry \/ Answer
  BY <1>23, Types, DownBatch DEF RestartPod, WaitReady, Replay, Heal, HealWait, SaveAttributes,
         SyncRegistry, Answer, Proceed, ApiError, Logged, Abort, cluster, tables, dataplane, work,
         PlanOK, TypeOK, RequestOK, PhaseOK, DeleteSteps, DownSteps, UpSteps, Existing
<1>24. CASE PodStart \/ Launch \/ PodStop \/ Configure
  <2>1. CASE PodStart \/ Launch
    BY <2>1, Types, DownBatch DEF PodStart, Launch, Fault, cluster, tables, dataplane,
           work, PlanOK, TypeOK, RequestOK, PhaseOK, DeleteSteps, DownSteps, UpSteps,
           Existing
  <2>2. CASE PodStop \/ Configure
    BY <2>2, Types, DownBatch DEF PodStop, Configure, Fault, cluster, tables, dataplane,
           work, PlanOK, TypeOK, RequestOK, PhaseOK, DeleteSteps, DownSteps, UpSteps,
           Existing
  <2> QED
    BY <1>24, <2>1, <2>2
<1>25. CASE UNCHANGED vars
  BY <1>25, Types, DownBatch DEF vars, cluster, tables, dataplane, work, PlanOK, TypeOK,
         RequestOK, PhaseOK, DeleteSteps, DownSteps, UpSteps, Existing
<1> QED
  BY <1>1, <1>2, <1>3, <1>4, <1>5, <1>6, <1>7, <1>8, <1>9, <1>10, <1>11, <1>12, <1>13, <1>14,
         <1>15, <1>16, <1>17, <1>18, <1>19, <1>20, <1>21, <1>22, <1>23, <1>24, <1>25 DEF Next,
         Handler, World

\* Steps keep the types.
LEMMA TypeStep ==
  ASSUME Control, [Next]_vars
  PROVE  TypeOK'
<1> USE DEF Control
<1>1. CASE Modify
  BY <1>1, Types, CountsType, RequestAssumption DEF Modify, Goto, cluster, tables, dataplane,
         TypeOK, RequestOK, PhaseOK, PlanOK, Steps, Existing, Declared, Wanted
<1>2. CASE BeginDelete
  BY <1>2, Types, CountsType, RequestAssumption DEF BeginDelete, Fault, Goto, Proceed, cluster,
         tables, dataplane, TypeOK, RequestOK, PhaseOK, PlanOK, Steps, Existing, Declared, Wanted
<1>3. CASE Unlink
  BY <1>3, Types, CountsType, RequestAssumption DEF Unlink, Proceed, ApiError, Logged, Abort,
         dataplane, TypeOK, RequestOK, PhaseOK, PlanOK, Steps, Existing, Declared, Wanted
<1>4. CASE ListPeers
  BY <1>4, Types, CountsType, RequestAssumption DEF ListPeers, Proceed, ApiError, Abort, cluster,
         tables, dataplane, TypeOK, RequestOK, PhaseOK, PlanOK, Steps, Existing, Declared, Wanted
<1>5. CASE Detach
  BY <1>5, Types, CountsType, RequestAssumption DEF Detach, Proceed, ApiError, Abort, tables,
         dataplane, Detached, TypeOK, RequestOK, PhaseOK, PlanOK, Steps, Existing, Declared,
         Wanted
<1>6. CASE DeleteSet
  <2>1. replicas' \in [Nodes -> 0 .. MaxReplicas]
    BY <1>6, Types, ModifyAssumption DEF DeleteSet
  <2>2. stale' \subseteq running' /\ running' = running
    BY <1>6 DEF DeleteSet, TypeOK
  <2> QED
    BY <1>6, <2>1, <2>2 DEF DeleteSet, Proceed, ApiError, Abort, tables, TypeOK, Steps
<1>7. CASE DeleteTopologies
  BY <1>7, Types, CountsType, RequestAssumption DEF DeleteTopologies, Proceed, ApiError, Abort,
         tables, dataplane, work, DropCRDs, TypeOK, RequestOK, PhaseOK, PlanOK, Steps, Existing,
         Declared, Wanted
<1>8. CASE DeleteMount
  BY <1>8, Types, CountsType, RequestAssumption DEF DeleteMount, Fault, Proceed, Logged, tables,
         dataplane, work, TypeOK, RequestOK, PhaseOK, PlanOK, Steps, Existing, Declared, Wanted
<1>9. CASE DeleteRows
  BY <1>9, Types, CountsType, RequestAssumption DEF DeleteRows, Proceed, ApiError, Logged, Abort,
         cluster, dataplane, TypeOK, RequestOK, PhaseOK, PlanOK, Steps, Existing, Declared, Wanted
<1>10. CASE BeginDown
  BY <1>10, Types, CountsType, RequestAssumption DEF BeginDown, Proceed, cluster, tables,
         dataplane, TypeOK, RequestOK, PhaseOK, PlanOK, Steps, Existing, Declared, Wanted
<1>11. CASE DeleteOrphans
  BY <1>11, Types, CountsType, RequestAssumption DEF DeleteOrphans, Proceed, ApiError, Abort,
         tables, dataplane, work, DropCRDs, TypeOK, RequestOK, PhaseOK, PlanOK, Steps, Existing,
         Declared, Wanted
<1>12. CASE ShrinkSet
  BY <1>12, Types, CountsType, RequestAssumption DEF ShrinkSet, Proceed, ApiError, Abort, tables,
         dataplane, work, TypeOK, RequestOK, PhaseOK, PlanOK, Steps, Existing, Declared, Wanted
<1>13. CASE ForgetOrphans
  BY <1>13, Types, CountsType, RequestAssumption DEF ForgetOrphans, Proceed, ApiError, Abort,
         cluster, dataplane, TypeOK, RequestOK, PhaseOK, PlanOK, Steps, Existing, Declared, Wanted
<1>14. CASE BeginUp
  BY <1>14, Types, CountsType, RequestAssumption DEF BeginUp, Proceed, cluster, tables, dataplane,
         TypeOK, RequestOK, PhaseOK, PlanOK, Steps, Existing, Declared, Wanted
<1>15. CASE CreateCRD
  BY <1>15, Types, CountsType, RequestAssumption DEF CreateCRD, Proceed, ApiError, Abort, tables,
         dataplane, LinksOf, TypeOK, RequestOK, PhaseOK, PlanOK, Steps, Existing, Declared, Wanted
<1>16. CASE Upsert
  BY <1>16, Types, CountsType, RequestAssumption DEF Upsert, Proceed, ApiError, Abort, tables,
         dataplane, LinksOf, TypeOK, RequestOK, PhaseOK, PlanOK, Steps, Existing, Declared, Wanted
<1>17. CASE PublishCounts
  BY <1>17, Types, CountsType, RequestAssumption DEF PublishCounts, Proceed, Logged, tables,
         dataplane, work, TypeOK, RequestOK, PhaseOK, PlanOK, Steps, Existing, Declared, Wanted
<1>18. CASE GrowSet
  BY <1>18, Types, CountsType, RequestAssumption DEF GrowSet, Proceed, ApiError, Abort, tables,
         dataplane, TypeOK, RequestOK, PhaseOK, PlanOK, Steps, Existing, Declared, Wanted
<1>19. CASE BeginAdd
  BY <1>19, Types, CountsType, RequestAssumption DEF BeginAdd, Fault, Proceed, Abort, cluster,
         tables, dataplane, TypeOK, RequestOK, PhaseOK, PlanOK, Steps, Existing, Declared, Wanted
<1>20. CASE AddMounts
  BY <1>20, Types, CountsType, RequestAssumption DEF AddMounts, Proceed, ApiError, Abort, tables,
         dataplane, TypeOK, RequestOK, PhaseOK, PlanOK, Steps, Existing, Declared, Wanted
<1>21. CASE AddSets
  <2>1. replicas' \in [Nodes -> 0 .. MaxReplicas]
    BY <1>21, Types, ModifyAssumption DEF AddSets
  <2> QED
    BY <1>21, <2>1 DEF AddSets, Proceed, ApiError, Abort, tables, dataplane, TypeOK, Steps
<1>22. CASE PlanRestarts
  BY <1>22, Types, CountsType, RequestAssumption DEF PlanRestarts, Proceed, Logged, tables,
         dataplane, RestartSet, TypeOK, RequestOK, PhaseOK, PlanOK, Steps, Existing, Declared,
         Wanted
<1>23. CASE RestartPod \/ WaitReady \/ Replay
  BY <1>23, Types, CountsType, RequestAssumption DEF RestartPod, WaitReady, Replay, Proceed,
         ApiError, Abort, cluster, tables, dataplane, work, Stop, TypeOK, RequestOK, PhaseOK,
         PlanOK, Steps, Existing, Declared, Wanted
<1>24. CASE Heal
  <2>1. CASE Missing # {} /\ rounds < 2
    <3>1. PICK C \in SUBSET UNION {On(l) : l \in Missing} : Stop(C) /\ restarts' = C
      BY <1>24, <2>1 DEF Heal
    <3>2. C \subseteq Pods
      BY <3>1, Types DEF Missing, TypeOK
    <3>3. /\ running' \subseteq Pods /\ stale' \subseteq running' /\ launched' \subseteq running'
          /\ guest' \in [Pods -> SUBSET Links] /\ ifs' \in [Pods -> SUBSET Links]
      BY <3>1, <3>2 DEF Stop, TypeOK
    <3> QED
      BY <1>24, <2>1, <3>1, <3>2, <3>3 DEF Heal, Proceed, cluster, tables, TypeOK, Steps
  <2>2. CASE ~ (Missing # {} /\ rounds < 2)
    BY <1>24, <2>2 DEF Heal, Proceed, cluster, tables, dataplane, TypeOK, Steps
  <2> QED
    BY <2>1, <2>2
<1>25. CASE HealWait \/ SaveAttributes \/ SyncRegistry \/ Answer
  BY <1>25, Types, CountsType, RequestAssumption DEF HealWait, SaveAttributes, SyncRegistry,
         Answer, Proceed, ApiError, Logged, Abort, cluster, tables, dataplane, work, TypeOK,
         RequestOK, PhaseOK, PlanOK, Steps, Existing, Declared, Wanted
<1>26. CASE PodStart \/ Launch \/ PodStop \/ Configure
  BY <1>26, Types, CountsType, RequestAssumption DEF PodStart, Launch, PodStop, Configure, Fault,
         cluster, tables, dataplane, work, Stop, LinksOf, TypeOK, RequestOK, PhaseOK, PlanOK,
         Steps, Existing, Declared, Wanted
<1>27. CASE UNCHANGED vars
  BY <1>27, Types, CountsType, RequestAssumption DEF vars, cluster, tables, dataplane, work,
         TypeOK, RequestOK, PhaseOK, PlanOK, Steps, Existing, Declared, Wanted
<1> QED
  BY <1>1, <1>2, <1>3, <1>4, <1>5, <1>6, <1>7, <1>8, <1>9, <1>10, <1>11, <1>12, <1>13, <1>14,
         <1>15, <1>16, <1>17, <1>18, <1>19, <1>20, <1>21, <1>22, <1>23, <1>24, <1>25, <1>26, <1>27
         DEF Next, Handler, World

\* The deployed topology satisfies Control.
LEMMA ControlInit ==
  ASSUME Init
  PROVE  Control
<1>1. TypeOK
  <2>1. Wanted = {p \in Pods : p[2] < replicas[p[1]]}
    BY WantedNow, StartAssumption DEF Init
  <2>2. spec \in [Pods -> SUBSET Links]
    BY StartAssumption DEF Init, LinksOf
  <2>3. IfaceCounts \in [Pods -> Nat \cup {NoCount}]
    BY <2>1, <2>2, CountsType DEF Init
  <2>4. \A p \in Pods \ crds : spec[p] = {}
    <3>1. ASSUME NEW p \in Pods, NEW l \in Start.links, p \in On(l) PROVE p[2] < replicas[p[1]]
      BY <3>1, StartAssumption DEF Init, On
    <3> QED
      BY <2>1, <3>1 DEF Init, LinksOf
  <2> QED
    BY <2>1, <2>2, <2>3, <2>4, StartAssumption DEF Init, TypeOK, Steps
<1>2. RequestOK
  BY DEF Init, RequestOK, NoRequest
<1> QED
  BY <1>1, <1>2 DEF Init, Control, PhaseOK, PlanOK, DeleteSteps, DownSteps, UpSteps

\* Steps keep Control.
LEMMA ControlStep ==
  ASSUME Control, [Next]_vars
  PROVE  Control'
  BY TypeStep, RequestStep, PhaseStep, PlanStep DEF Control

\* TypeOK is an invariant: in particular no scale takes a node beyond
\* types.MaxReplicas, no pod is launched that does not run, and a pod without a
\* Topology CRD has no link.
THEOREM ModifyTypes == Spec => []TypeOK
<1>1. Init => Control
  BY ControlInit
<1>2. Control /\ [Next]_vars => Control'
  BY ControlStep
<1>3. Control => TypeOK
  BY DEF Control
<1> QED
  BY <1>1, <1>2, <1>3, PTL DEF Spec

-----------------------------------------------------------------------------
(* Mounts: DeleteMountResourceForFile and CreateMountResourceForFile.      *)

\* What the StatefulSets mount is there, and what the new ones will mount is made
\* before them.
MountsOK ==
  /\ SharedMountsKept
  /\ pc \in {"newcrds", "upsert", "counts", "addsets"} /\ phase = "add" =>
       \A n \in req.add : File[n] \in mounts

\* Steps keep MountsOK, as long as the List of the StatefulSets that remain does not fail
\* unnoticed.
LEMMA MountsStep ==
  ASSUME Control, MountsOK, "list" \notin Faults, [Next]_vars
  PROVE  MountsOK'
<1> USE DEF Control
<1>1. CASE Modify
  BY <1>1, Types DEF Modify, Goto, cluster, tables, dataplane, MountsOK, SharedMountsKept, TypeOK,
         RequestOK, PhaseOK, PlanOK, Existing
<1>2. CASE BeginDelete
  BY <1>2, Types DEF BeginDelete, Fault, Goto, Proceed, cluster, tables, dataplane, MountsOK,
         SharedMountsKept, TypeOK, RequestOK, PhaseOK, PlanOK, Existing
<1>3. CASE Unlink
  BY <1>3, Types DEF Unlink, Proceed, ApiError, Logged, Abort, dataplane, MountsOK,
         SharedMountsKept, TypeOK, RequestOK, PhaseOK, PlanOK, Existing
<1>4. CASE ListPeers
  BY <1>4, Types DEF ListPeers, Proceed, ApiError, Abort, cluster, tables, dataplane, MountsOK,
         SharedMountsKept, TypeOK, RequestOK, PhaseOK, PlanOK, Existing
<1>5. CASE Detach
  BY <1>5, Types DEF Detach, Proceed, ApiError, Abort, tables, dataplane, Detached, MountsOK,
         SharedMountsKept, TypeOK, RequestOK, PhaseOK, PlanOK, Existing
<1>6. CASE DeleteSet
  BY <1>6, Types DEF DeleteSet, Proceed, ApiError, Abort, tables, MountsOK, SharedMountsKept,
         TypeOK, RequestOK, PhaseOK, PlanOK, Existing
<1>7. CASE DeleteTopologies
  BY <1>7, Types DEF DeleteTopologies, Proceed, ApiError, Abort, tables, dataplane, work,
         DropCRDs, MountsOK, SharedMountsKept, TypeOK, RequestOK, PhaseOK, PlanOK, Existing
<1>8. CASE DeleteMount
  BY <1>8, Types DEF DeleteMount, Fault, Proceed, Logged, tables, dataplane, work, MountsOK,
         SharedMountsKept, TypeOK, RequestOK, PhaseOK, PlanOK, Existing
<1>9. CASE DeleteRows
  BY <1>9, Types DEF DeleteRows, Proceed, ApiError, Logged, Abort, cluster, dataplane, MountsOK,
         SharedMountsKept, TypeOK, RequestOK, PhaseOK, PlanOK, Existing
<1>10. CASE BeginDown
  BY <1>10, Types DEF BeginDown, Proceed, cluster, tables, dataplane, MountsOK, SharedMountsKept,
         TypeOK, RequestOK, PhaseOK, PlanOK, Existing
<1>11. CASE DeleteOrphans
  BY <1>11, Types DEF DeleteOrphans, Proceed, ApiError, Abort, tables, dataplane, work, DropCRDs,
         MountsOK, SharedMountsKept, TypeOK, RequestOK, PhaseOK, PlanOK, Existing
<1>12. CASE ShrinkSet
  BY <1>12, Types DEF ShrinkSet, Proceed, ApiError, Abort, tables, dataplane, work, MountsOK,
         SharedMountsKept, TypeOK, RequestOK, PhaseOK, PlanOK, Existing
<1>13. CASE ForgetOrphans
  BY <1>13, Types DEF ForgetOrphans, Proceed, ApiError, Abort, cluster, dataplane, MountsOK,
         SharedMountsKept, TypeOK, RequestOK, PhaseOK, PlanOK, Existing
<1>14. CASE BeginUp
  BY <1>14, Types DEF BeginUp, Proceed, cluster, tables, dataplane, MountsOK, SharedMountsKept,
         TypeOK, RequestOK, PhaseOK, PlanOK, Existing
<1>15. CASE CreateCRD
  BY <1>15, Types DEF CreateCRD, Proceed, ApiError, Abort, tables, dataplane, MountsOK,
         SharedMountsKept, TypeOK, RequestOK, PhaseOK, PlanOK, Existing
<1>16. CASE Upsert
  BY <1>16, Types DEF Upsert, Proceed, ApiError, Abort, tables, dataplane, MountsOK,
         SharedMountsKept, TypeOK, RequestOK, PhaseOK, PlanOK, Existing
<1>17. CASE PublishCounts
  BY <1>17, Types DEF PublishCounts, Proceed, Logged, tables, dataplane, work, MountsOK,
         SharedMountsKept, TypeOK, RequestOK, PhaseOK, PlanOK, Existing
<1>18. CASE GrowSet
  BY <1>18, Types DEF GrowSet, Proceed, ApiError, Abort, tables, dataplane, MountsOK,
         SharedMountsKept, TypeOK, RequestOK, PhaseOK, PlanOK, Existing
<1>19. CASE BeginAdd
  BY <1>19, Types DEF BeginAdd, Fault, Proceed, Abort, cluster, tables, dataplane, MountsOK,
         SharedMountsKept, TypeOK, RequestOK, PhaseOK, PlanOK, Existing
<1>20. CASE AddMounts
  BY <1>20, Types DEF AddMounts, Proceed, ApiError, Abort, tables, dataplane, MountsOK,
         SharedMountsKept, TypeOK, RequestOK, PhaseOK, PlanOK, Existing
<1>21. CASE AddSets
  BY <1>21, Types DEF AddSets, Proceed, ApiError, Abort, tables, dataplane, MountsOK,
         SharedMountsKept, TypeOK, RequestOK, PhaseOK, PlanOK, Existing
<1>22. CASE PlanRestarts
  BY <1>22, Types DEF PlanRestarts, Proceed, Logged, tables, dataplane, MountsOK,
         SharedMountsKept, TypeOK, RequestOK, PhaseOK, PlanOK, Existing
<1>23. CASE RestartPod \/ WaitReady \/ Replay \/ Heal \/ HealWait \/ SaveAttributes \/
       SyncRegistry \/ Answer
  BY <1>23, Types DEF RestartPod, WaitReady, Replay, Heal, HealWait, SaveAttributes, SyncRegistry,
         Answer, Proceed, ApiError, Logged, Abort, cluster, tables, dataplane, work, MountsOK,
         SharedMountsKept, TypeOK, RequestOK, PhaseOK, PlanOK, Existing
<1>24. CASE PodStart \/ Launch \/ PodStop \/ Configure
  <2>1. CASE PodStart \/ Launch
    BY <2>1, Types DEF PodStart, Launch, Fault, cluster, tables, dataplane, work, MountsOK,
           SharedMountsKept, TypeOK, RequestOK, PhaseOK, PlanOK, Existing
  <2>2. CASE PodStop \/ Configure
    BY <2>2, Types DEF PodStop, Configure, Fault, cluster, tables, dataplane, work,
           MountsOK, SharedMountsKept, TypeOK, RequestOK, PhaseOK, PlanOK, Existing
  <2> QED
    BY <1>24, <2>1, <2>2
<1>25. CASE UNCHANGED vars
  BY <1>25, Types DEF vars, cluster, tables, dataplane, work, MountsOK, SharedMountsKept, TypeOK,
         RequestOK, PhaseOK, PlanOK, Existing
<1> QED
  BY <1>1, <1>2, <1>3, <1>4, <1>5, <1>6, <1>7, <1>8, <1>9, <1>10, <1>11, <1>12, <1>13, <1>14,
         <1>15, <1>16, <1>17, <1>18, <1>19, <1>20, <1>21, <1>22, <1>23, <1>24, <1>25 DEF Next,
         Handler, World

\* SharedMountsKept is an invariant: whatever nodes share a file and whatever fails,
\* the ConfigMap or Secret of a file outlives every node but the last that mounts it,
\* unless the List of the remaining StatefulSets (network_modify.go) fails: the
\* code then takes none to be in use.
THEOREM SharedMountsStay ==
  ASSUME "list" \notin Faults
  PROVE  Spec => []SharedMountsKept
<1>1. Init => Control /\ MountsOK
  <2> SUFFICES ASSUME Init PROVE MountsOK
    BY ControlInit
  <2> QED
    BY DEF Init, MountsOK, SharedMountsKept
<1>2. Control /\ MountsOK /\ [Next]_vars => (Control /\ MountsOK)'
  BY ControlStep, MountsStep
<1>3. MountsOK => SharedMountsKept
  BY DEF MountsOK
<1> QED
  BY <1>1, <1>2, <1>3, PTL DEF Spec

-----------------------------------------------------------------------------
(* History: what a pod that comes finds on record.                         *)

\* The links that are left to add end at pods that exist or that the add creates;
\* once it is over, at pods that exist.
LinksOK ==
  /\ phase = "add" /\ pc \in {"addmounts", "newcrds", "upsert", "counts", "addsets"} =>
       /\ \A n \in req.add : replicas[n] \in {0, 1}
       /\ \A l \in links : \A p \in On(l) :
            p[2] < (IF p[1] \in req.add THEN 1 ELSE replicas[p[1]])
       /\ batch = UNION {PodsOf(n, 0, 1) : n \in req.add}
  /\ pc \in LateSteps => \A l \in links : On(l) \subseteq Wanted

\* Steps keep LinksOK: ValidateLinksForModify holds until the last StatefulSet is there.
LEMMA LinksStep ==
  ASSUME Control, LinksOK, [Next]_vars
  PROVE  LinksOK'
<1> USE DEF Control
<1>a. UNCHANGED replicas => Wanted' = Wanted
  BY DEF Wanted
<1>b. /\ Wanted = {p \in Pods : p[2] < replicas[p[1]]}
      /\ Wanted' = {p \in Pods : p[2] < replicas'[p[1]]}
  BY WantedNow, WantedNext, TypeStep DEF TypeOK
<1>1. CASE Modify
  BY <1>1, Types, <1>a DEF Modify, Goto, cluster, tables, dataplane, LinksOK, RequestOK, PhaseOK,
         LateSteps
<1>2. CASE BeginDelete
  BY <1>2, Types, <1>a DEF BeginDelete, Fault, Goto, Proceed, cluster, tables, dataplane, LinksOK,
         RequestOK, PhaseOK, LateSteps
<1>3. CASE Unlink
  BY <1>3, Types, <1>a DEF Unlink, Proceed, ApiError, Logged, Abort, dataplane, LinksOK,
         RequestOK, PhaseOK, LateSteps
<1>4. CASE ListPeers
  BY <1>4, Types, <1>a DEF ListPeers, Proceed, ApiError, Abort, cluster, tables, dataplane,
         LinksOK, RequestOK, PhaseOK, LateSteps
<1>5. CASE Detach
  BY <1>5, Types, <1>a DEF Detach, Proceed, ApiError, Abort, tables, dataplane, Detached, LinksOK,
         RequestOK, PhaseOK, LateSteps
<1>6. CASE DeleteSet
  BY <1>6, Types, <1>a DEF DeleteSet, Proceed, ApiError, Abort, tables, LinksOK, RequestOK,
         PhaseOK, LateSteps
<1>7. CASE DeleteTopologies
  BY <1>7, Types, <1>a DEF DeleteTopologies, Proceed, ApiError, Abort, tables, dataplane, work,
         DropCRDs, LinksOK, RequestOK, PhaseOK, LateSteps
<1>8. CASE DeleteMount
  BY <1>8, Types, <1>a DEF DeleteMount, Fault, Proceed, Logged, tables, dataplane, work, LinksOK,
         RequestOK, PhaseOK, LateSteps
<1>9. CASE DeleteRows
  BY <1>9, Types, <1>a DEF DeleteRows, Proceed, ApiError, Logged, Abort, cluster, dataplane,
         LinksOK, RequestOK, PhaseOK, LateSteps
<1>10. CASE BeginDown
  BY <1>10, Types, <1>a DEF BeginDown, Proceed, cluster, tables, dataplane, LinksOK, RequestOK,
         PhaseOK, LateSteps
<1>11. CASE DeleteOrphans
  BY <1>11, Types, <1>a DEF DeleteOrphans, Proceed, ApiError, Abort, tables, dataplane, work,
         DropCRDs, LinksOK, RequestOK, PhaseOK, LateSteps
<1>12. CASE ShrinkSet
  BY <1>12, Types, <1>a DEF ShrinkSet, Proceed, ApiError, Abort, tables, dataplane, work, LinksOK,
         RequestOK, PhaseOK, LateSteps
<1>13. CASE ForgetOrphans
  BY <1>13, Types, <1>a DEF ForgetOrphans, Proceed, ApiError, Abort, cluster, dataplane, LinksOK,
         RequestOK, PhaseOK, LateSteps
<1>14. CASE BeginUp
  BY <1>14, Types, <1>a DEF BeginUp, Proceed, cluster, tables, dataplane, LinksOK, RequestOK,
         PhaseOK, LateSteps
<1>15. CASE CreateCRD
  BY <1>15, Types, <1>a DEF CreateCRD, Proceed, ApiError, Abort, tables, dataplane, LinksOK,
         RequestOK, PhaseOK, LateSteps
<1>16. CASE Upsert
  BY <1>16, Types, <1>a DEF Upsert, Proceed, ApiError, Abort, tables, dataplane, LinksOK,
         RequestOK, PhaseOK, LateSteps
<1>17. CASE PublishCounts
  BY <1>17, Types, <1>a DEF PublishCounts, Proceed, Logged, tables, dataplane, work, LinksOK,
         RequestOK, PhaseOK, LateSteps
<1>18. CASE GrowSet
  BY <1>18, Types, <1>a DEF GrowSet, Proceed, ApiError, Abort, tables, dataplane, LinksOK,
         RequestOK, PhaseOK, LateSteps
<1>19. CASE BeginAdd
  <2>1. CASE pc' = "plan"
    BY <1>19, <2>1, <1>a DEF BeginAdd, Proceed, Abort, RequestOK, LinksOK
  <2>2. CASE pc' = "addmounts"
    <3>1. /\ phase' = "add" /\ batch' = UNION {PodsOf(n, 0, 1) : n \in req.add} /\ AddValid
          /\ UNCHANGED <<replicas, req, links>>
      BY <1>19, <2>2 DEF BeginAdd, Proceed, Abort, cluster
    <3>2. \A n \in req.add : replicas[n] = 0
      BY <3>1, Types, ModifyAssumption DEF AddValid, Existing
    <3>3. \A l \in links : \A p \in On(l) :
            p[1] \in Nodes /\ p[2] < (IF p[1] \in req.add THEN 1 ELSE replicas[p[1]])
      BY <3>1, Types, PodShape DEF AddValid, ValidateLinksForModify, RequestOK
    <3> QED
      BY <2>2, <3>1, <3>2, <3>3 DEF LinksOK, LateSteps
  <2>3. CASE pc' = "idle"
    BY <1>19, <2>3 DEF BeginAdd, LinksOK, LateSteps
  <2> QED
    BY <1>19, <2>1, <2>2, <2>3 DEF BeginAdd, Proceed, Abort
<1>20. CASE AddMounts
  BY <1>20, Types, <1>a DEF AddMounts, Proceed, ApiError, Abort, tables, dataplane, LinksOK,
         RequestOK, PhaseOK, LateSteps
<1>21. CASE AddSets
  <2>1. CASE pc' = "plan"
    <3>1. /\ UNCHANGED <<replicas, links>> /\ \A n \in req.add : replicas[n] = 1
          /\ \A l \in links : \A p \in On(l) : p[2] < (IF p[1] \in req.add THEN 1 ELSE replicas[p[1]])
      BY <1>21, <2>1, Types DEF AddSets, LinksOK, PhaseOK, ApiError, Abort
    <3>2. \A l \in links : On(l) \subseteq Pods
      BY Types DEF RequestOK
    <3> QED
      BY <2>1, <3>1, <3>2, <1>b DEF LinksOK
  <2>2. CASE pc' = "addsets"
    <3>1. PICK n \in req.add : replicas' = [replicas EXCEPT ![n] = 1] /\ phase = "add"
      BY <1>21, <2>2 DEF AddSets, Proceed, Abort, ApiError, PhaseOK
    <3>2. \A l \in links : \A p \in On(l) : p[1] \in Nodes
      BY Types, PodShape DEF RequestOK
    <3> QED
      BY <1>21, <2>2, <3>1, <3>2, Types DEF AddSets, LinksOK, LateSteps
  <2>3. CASE pc' = "idle"
    BY <1>21, <2>3 DEF AddSets, LinksOK, LateSteps
  <2> QED
    BY <1>21, <2>1, <2>2, <2>3 DEF AddSets, Proceed, Abort, ApiError
<1>22. CASE PlanRestarts
  BY <1>22, Types, <1>a DEF PlanRestarts, Proceed, Logged, tables, dataplane, LinksOK, RequestOK,
         PhaseOK, LateSteps
<1>23. CASE RestartPod
  BY <1>23, Types, <1>a DEF RestartPod, Proceed, ApiError, Abort, cluster, tables, dataplane,
         LinksOK, RequestOK, PhaseOK, LateSteps
<1>24. CASE WaitReady
  BY <1>24, Types, <1>a DEF WaitReady, Proceed, ApiError, Abort, cluster, tables, dataplane, work,
         LinksOK, RequestOK, PhaseOK, LateSteps
<1>25. CASE Replay
  BY <1>25, Types, <1>a DEF Replay, Proceed, ApiError, Abort, cluster, tables, dataplane, work,
         LinksOK, RequestOK, PhaseOK, LateSteps
<1>26. CASE Heal
  BY <1>26, Types, <1>a DEF Heal, Proceed, cluster, tables, dataplane, LinksOK, RequestOK,
         PhaseOK, LateSteps
<1>27. CASE HealWait
  BY <1>27, Types, <1>a DEF HealWait, Proceed, Logged, cluster, tables, dataplane, work, LinksOK,
         RequestOK, PhaseOK, LateSteps
<1>28. CASE SaveAttributes
  BY <1>28, Types, <1>a DEF SaveAttributes, Proceed, Logged, cluster, dataplane, work, LinksOK,
         RequestOK, PhaseOK, LateSteps
<1>29. CASE SyncRegistry
  BY <1>29, Types, <1>a DEF SyncRegistry, Proceed, ApiError, Logged, Abort, cluster, dataplane,
         work, LinksOK, RequestOK, PhaseOK, LateSteps
<1>30. CASE Answer
  BY <1>30, Types, <1>a DEF Answer, Proceed, cluster, tables, dataplane, work, LinksOK, RequestOK,
         PhaseOK, LateSteps
<1>31. CASE PodStart
  BY <1>31, Types, <1>a DEF PodStart, cluster, tables, work, LinksOK, RequestOK, PhaseOK,
         LateSteps
<1>32. CASE Launch
  BY <1>32, Types, <1>a DEF Launch, cluster, tables, work, LinksOK, RequestOK, PhaseOK, LateSteps
<1>33. CASE PodStop
  BY <1>33, Types, <1>a DEF PodStop, Fault, cluster, tables, work, LinksOK, RequestOK, PhaseOK,
         LateSteps
<1>34. CASE Configure
  BY <1>34, Types, <1>a DEF Configure, cluster, dataplane, work, LinksOK, RequestOK, PhaseOK,
         LateSteps
<1>35. CASE UNCHANGED vars
  BY <1>35, Types, <1>a DEF vars, cluster, tables, dataplane, work, LinksOK, RequestOK, PhaseOK,
         LateSteps
<1> QED
  BY <1>1, <1>2, <1>3, <1>4, <1>5, <1>6, <1>7, <1>8, <1>9, <1>10, <1>11, <1>12, <1>13, <1>14,
         <1>15, <1>16, <1>17, <1>18, <1>19, <1>20, <1>21, <1>22, <1>23, <1>24, <1>25, <1>26,
         <1>27, <1>28, <1>29, <1>30, <1>31, <1>32, <1>33, <1>34, <1>35 DEF Next, Handler, World

\* Steps at which batch may have lost its pods and not yet its operations.
GoingSteps == {"delset", "deltopo", "delmount", "delrows", "forget"}

\* Until some call fails, only pods that are wanted, or whose removal has not come
\* to their rows, have operations on record; a delete's batch has all the pods of
\* its nodes.
HistoryOK ==
  /\ ~ dirty => history \subseteq Wanted \cup (IF pc \in GoingSteps THEN batch ELSE {})
  /\ pc \in DeleteSteps \ {"delete", "delrows"} /\ phase = "delete" =>
       \A n \in req.delete : PodsOf(n, 0, replicas[n]) \subseteq batch

\* Steps keep HistoryOK.
LEMMA HistoryStep ==
  ASSUME Control, LinksOK, HistoryOK, [Next]_vars
  PROVE  HistoryOK'
<1> USE DEF Control
<1>a. UNCHANGED replicas => Wanted' = Wanted
  BY DEF Wanted
<1>b. /\ Wanted = {p \in Pods : p[2] < replicas[p[1]]}
      /\ Wanted' = {p \in Pods : p[2] < replicas'[p[1]]}
  BY WantedNow, WantedNext, TypeStep DEF TypeOK
<1>1. CASE Modify
  BY <1>1, Types, <1>a DEF Modify, Goto, cluster, tables, dataplane, HistoryOK, GoingSteps,
         DeleteSteps, RequestOK, PhaseOK, LinksOK, LateSteps
<1>2. CASE BeginDelete
  BY <1>2, Types, <1>a DEF BeginDelete, Fault, Goto, Proceed, cluster, tables, dataplane,
         HistoryOK, GoingSteps, DeleteSteps, RequestOK, PhaseOK, LinksOK, LateSteps
<1>3. CASE Unlink
  BY <1>3, Types, <1>a DEF Unlink, Proceed, ApiError, Logged, Abort, dataplane, HistoryOK,
         GoingSteps, DeleteSteps, RequestOK, PhaseOK, LinksOK, LateSteps
<1>4. CASE ListPeers
  BY <1>4, Types, <1>a DEF ListPeers, Proceed, ApiError, Abort, cluster, tables, dataplane,
         HistoryOK, GoingSteps, DeleteSteps, RequestOK, PhaseOK, LinksOK, LateSteps
<1>5. CASE Detach
  BY <1>5, Types, <1>a DEF Detach, Proceed, ApiError, Abort, tables, dataplane, Detached,
         HistoryOK, GoingSteps, DeleteSteps, RequestOK, PhaseOK, LinksOK, LateSteps
<1>6. CASE DeleteSet
  <2>1. CASE pc' = "deltopo"
    <3>1. PICK n \in req.delete \cap Existing : replicas' = [replicas EXCEPT ![n] = 0]
      BY <1>6, <2>1 DEF DeleteSet, ApiError, Abort
    <3>2. n \in Nodes /\ PodsOf(n, 0, replicas[n]) \subseteq batch
      BY <1>6, <3>1, Types DEF DeleteSet, HistoryOK, DeleteSteps, PhaseOK
    <3>3. Wanted \subseteq Wanted' \cup batch
      BY <3>1, <3>2, <1>b, PodsOfIs, PodShape, Types, ModifyAssumption
    <3>4. \A m \in req.delete : PodsOf(m, 0, replicas'[m]) \subseteq batch
      <4>1. PodsOf(n, 0, 0) = {}
        BY <3>2, PodsOfIs, PodShape, ModifyAssumption
      <4> QED
        BY <1>6, <3>1, <3>2, <4>1, Types DEF DeleteSet, HistoryOK, DeleteSteps, PhaseOK
    <3> QED
      BY <1>6, <2>1, <3>3, <3>4 DEF DeleteSet, Proceed, ApiError, Abort, tables, HistoryOK,
             GoingSteps
  <2>2. CASE pc' = "idle"
    BY <1>6, <2>2 DEF DeleteSet, Proceed, ApiError, Abort, HistoryOK, DeleteSteps
  <2> QED
    BY <1>6, <2>1, <2>2 DEF DeleteSet, Proceed, ApiError, Abort
<1>7. CASE DeleteTopologies
  BY <1>7, Types, <1>a DEF DeleteTopologies, Proceed, ApiError, Abort, tables, dataplane, work,
         DropCRDs, HistoryOK, GoingSteps, DeleteSteps, RequestOK, PhaseOK, LinksOK, LateSteps
<1>8. CASE DeleteMount
  BY <1>8, Types, <1>a DEF DeleteMount, Fault, Proceed, Logged, tables, dataplane, work,
         HistoryOK, GoingSteps, DeleteSteps, RequestOK, PhaseOK, LinksOK, LateSteps
<1>9. CASE DeleteRows
  BY <1>9, Types, <1>a DEF DeleteRows, Proceed, ApiError, Logged, Abort, cluster, dataplane,
         HistoryOK, GoingSteps, DeleteSteps, RequestOK, PhaseOK, LinksOK, LateSteps
<1>10. CASE BeginDown
  BY <1>10, Types, <1>a DEF BeginDown, Proceed, cluster, tables, dataplane, HistoryOK, GoingSteps,
         DeleteSteps, RequestOK, PhaseOK, LinksOK, LateSteps
<1>11. CASE DeleteOrphans
  BY <1>11, Types, <1>a DEF DeleteOrphans, Proceed, ApiError, Abort, tables, dataplane, work,
         DropCRDs, HistoryOK, GoingSteps, DeleteSteps, RequestOK, PhaseOK, LinksOK, LateSteps
<1>12. CASE ShrinkSet
  <2>1. CASE pc' = "forget"
    <3>1. /\ replicas' = [replicas EXCEPT ![node] = req.scale[node]]
          /\ UNCHANGED <<dirty, history, batch>>
          /\ node \in DOMAIN req.scale /\ batch = PodsOf(node, req.scale[node], replicas[node])
      BY <1>12, <2>1 DEF ShrinkSet, Proceed, ApiError, Abort, tables, work, PlanOK, PhaseOK
    <3>2. Wanted \subseteq Wanted' \cup batch
      BY <3>1, <1>b, PodsOfIs, PodShape, Types, ModifyAssumption
    <3> QED
      BY <1>12, <2>1, <3>1, <3>2 DEF ShrinkSet, HistoryOK, GoingSteps, DeleteSteps
  <2>2. CASE pc' = "idle"
    BY <1>12, <2>2 DEF ShrinkSet, Proceed, ApiError, Abort, HistoryOK, DeleteSteps
  <2> QED
    BY <1>12, <2>1, <2>2 DEF ShrinkSet, Proceed, ApiError, Abort
<1>13. CASE ForgetOrphans
  BY <1>13, Types, <1>a DEF ForgetOrphans, Proceed, ApiError, Abort, cluster, dataplane,
         HistoryOK, GoingSteps, DeleteSteps, RequestOK, PhaseOK, LinksOK, LateSteps
<1>14. CASE BeginUp
  BY <1>14, Types, <1>a DEF BeginUp, Proceed, cluster, tables, dataplane, HistoryOK, GoingSteps,
         DeleteSteps, RequestOK, PhaseOK, LinksOK, LateSteps
<1>15. CASE CreateCRD
  BY <1>15, Types, <1>a DEF CreateCRD, Proceed, ApiError, Abort, tables, dataplane, HistoryOK,
         GoingSteps, DeleteSteps, RequestOK, PhaseOK, LinksOK, LateSteps
<1>16. CASE Upsert
  BY <1>16, Types, <1>a DEF Upsert, Proceed, ApiError, Abort, tables, dataplane, HistoryOK,
         GoingSteps, DeleteSteps, RequestOK, PhaseOK, LinksOK, LateSteps
<1>17. CASE PublishCounts
  BY <1>17, Types, <1>a DEF PublishCounts, Proceed, Logged, tables, dataplane, work, HistoryOK,
         GoingSteps, DeleteSteps, RequestOK, PhaseOK, LinksOK, LateSteps
<1>18. CASE GrowSet
  <2>1. CASE pc' = "up"
    <3>1. /\ replicas' = [replicas EXCEPT ![node] = req.scale[node]] /\ UNCHANGED <<dirty, history>>
          /\ node \in DOMAIN req.scale /\ req.scale[node] > replicas[node]
      BY <1>18, <2>1 DEF GrowSet, Proceed, ApiError, Abort, tables, work, PlanOK, PhaseOK
    <3>2. Wanted \subseteq Wanted'
      BY <3>1, <1>b, PodShape, Types, ModifyAssumption
    <3> QED
      BY <1>18, <2>1, <3>1, <3>2 DEF GrowSet, HistoryOK, GoingSteps, DeleteSteps
  <2>2. CASE pc' = "idle"
    BY <1>18, <2>2 DEF GrowSet, Proceed, ApiError, Abort, HistoryOK, DeleteSteps
  <2> QED
    BY <1>18, <2>1, <2>2 DEF GrowSet, Proceed, ApiError, Abort
<1>19. CASE BeginAdd
  BY <1>19, Types, <1>a DEF BeginAdd, Fault, Proceed, Abort, cluster, tables, dataplane,
         HistoryOK, GoingSteps, DeleteSteps, RequestOK, PhaseOK, LinksOK, LateSteps
<1>20. CASE AddMounts
  BY <1>20, Types, <1>a DEF AddMounts, Proceed, ApiError, Abort, tables, dataplane, HistoryOK,
         GoingSteps, DeleteSteps, RequestOK, PhaseOK, LinksOK, LateSteps
<1>21. CASE AddSets
  <2>1. Wanted \subseteq Wanted'
    <3>1. \A n \in Nodes : replicas[n] <= replicas'[n]
      BY <1>21, Types, ModifyAssumption DEF AddSets
    <3> QED
      BY <3>1, <1>b, PodShape, Types, TypeStep, ModifyAssumption DEF TypeOK
  <2> QED
    BY <1>21, <2>1 DEF AddSets, Proceed, ApiError, Abort, tables, HistoryOK, GoingSteps,
           DeleteSteps
<1>22. CASE PlanRestarts
  BY <1>22, Types, <1>a DEF PlanRestarts, Proceed, Logged, tables, dataplane, HistoryOK,
         GoingSteps, DeleteSteps, RequestOK, PhaseOK, LinksOK, LateSteps
<1>23. CASE RestartPod \/ WaitReady \/ Replay \/ Heal \/ HealWait
  BY <1>23, Types, <1>a DEF RestartPod, WaitReady, Replay, Heal, HealWait, Proceed, ApiError,
         Logged, Abort, cluster, tables, dataplane, work, HistoryOK, GoingSteps, DeleteSteps,
         RequestOK, PhaseOK, LinksOK, LateSteps
<1>24. CASE SaveAttributes
  <2>1. UNION {On(l) : l \in links \cap req.attr} \subseteq Wanted
    BY <1>24 DEF SaveAttributes, LinksOK, LateSteps
  <2> QED
    BY <1>24, <2>1, <1>a DEF SaveAttributes, Proceed, Logged, cluster, work, HistoryOK,
           GoingSteps, DeleteSteps
<1>25. CASE SyncRegistry \/ Answer
  BY <1>25, Types, <1>a DEF SyncRegistry, Answer, Proceed, ApiError, Logged, Abort, cluster,
         tables, dataplane, work, HistoryOK, GoingSteps, DeleteSteps, RequestOK, PhaseOK, LinksOK,
         LateSteps
<1>26. CASE PodStart \/ Launch \/ PodStop \/ Configure
  BY <1>26, Types, <1>a DEF PodStart, Launch, PodStop, Configure, Fault, cluster, tables,
         dataplane, work, HistoryOK, GoingSteps, DeleteSteps, RequestOK, PhaseOK, LinksOK,
         LateSteps
<1>27. CASE UNCHANGED vars
  BY <1>27, Types, <1>a DEF vars, cluster, tables, dataplane, work, HistoryOK, GoingSteps,
         DeleteSteps, RequestOK, PhaseOK, LinksOK, LateSteps
<1> QED
  BY <1>1, <1>2, <1>3, <1>4, <1>5, <1>6, <1>7, <1>8, <1>9, <1>10, <1>11, <1>12, <1>13, <1>14,
         <1>15, <1>16, <1>17, <1>18, <1>19, <1>20, <1>21, <1>22, <1>23, <1>24, <1>25, <1>26, <1>27
         DEF Next, Handler, World

\* What changes the replicas of a node.
LEMMA ReplicasStep ==
  ASSUME [Next]_vars
  PROVE  UNCHANGED replicas \/ DeleteSet \/ ShrinkSet \/ GrowSet \/ AddSets
  BY DEF Next, Handler, World, vars, cluster, tables, dataplane, work, Modify, BeginDelete,
         Unlink,
         ListPeers, Detach, DeleteTopologies, DeleteMount, DeleteRows, BeginDown, DeleteOrphans,
         ForgetOrphans, BeginUp, CreateCRD, Upsert, PublishCounts, BeginAdd, AddMounts,
         PlanRestarts, RestartPod, WaitReady, Replay, Heal, HealWait, SaveAttributes,
         SyncRegistry, Answer, PodStart, Launch, PodStop, Configure

\* What brings a new pod about: the batch of a scale-up or of the add.
LEMMA NewPods ==
  ASSUME Control, [Next]_vars
  PROVE  \/ Wanted' \subseteq Wanted
         \/ GrowSet /\ Wanted' \ Wanted \subseteq batch
         \/ AddSets /\ Wanted' \ Wanted \subseteq {<<n, 0>> : n \in req.add}
<1> USE DEF Control
<1>b. /\ Wanted = {p \in Pods : p[2] < replicas[p[1]]}
      /\ Wanted' = {p \in Pods : p[2] < replicas'[p[1]]}
  BY WantedNow, WantedNext, TypeStep DEF TypeOK
<1>1. CASE UNCHANGED replicas
  BY <1>1, <1>b
<1>2. CASE DeleteSet
  <2>1. \A n \in Nodes : replicas'[n] <= replicas[n]
    BY <1>2, Types, ModifyAssumption DEF DeleteSet
  <2> QED
    BY <2>1, <1>b, PodShape, Types, TypeStep, ModifyAssumption DEF TypeOK
<1>3. CASE ShrinkSet
  <2>1. \A n \in Nodes : replicas'[n] <= replicas[n]
    BY <1>3, Types, ModifyAssumption DEF ShrinkSet, PlanOK, PhaseOK
  <2> QED
    BY <2>1, <1>b, PodShape, Types, TypeStep, ModifyAssumption DEF TypeOK
<1>4. CASE GrowSet
  <2>1. /\ replicas' = [replicas EXCEPT ![node] = req.scale[node]] \/ UNCHANGED replicas
        /\ node \in DOMAIN req.scale /\ batch = PodsOf(node, replicas[node], req.scale[node])
    BY <1>4 DEF GrowSet, PlanOK, PhaseOK
  <2>2. batch = {p \in Pods : p[1] = node /\ replicas[node] <= p[2] /\ p[2] < req.scale[node]}
    BY <2>1, PodsOfIs, Types, ModifyAssumption
  <2> QED
    BY <1>4, <2>1, <2>2, <1>b, PodShape, Types, ModifyAssumption
<1>5. CASE AddSets
  <2>1. CASE UNCHANGED replicas
    BY <2>1, <1>b
  <2>2. CASE replicas' # replicas
    <3>1. PICK n \in req.add : replicas' = [replicas EXCEPT ![n] = 1]
      BY <1>5, <2>2 DEF AddSets
    <3>2. ASSUME NEW p \in Wanted', p \notin Wanted PROVE p = <<n, 0>>
      BY <3>1, <3>2, <1>b, PodShape, Types, ModifyAssumption
    <3> QED
      BY <1>5, <3>2
  <2> QED
    BY <2>1, <2>2
<1> QED
  BY <1>1, <1>2, <1>3, <1>4, <1>5, ReplicasStep

\* NoInheritedHistory holds of every step: until some call fails, a pod that a
\* scale-up or an add creates has no operations of an earlier pod of that name to replay,
\* though names return, in the same request and in later ones.
THEOREM NewPodsHaveNoHistory == Spec => NoInheritedHistory
<1>1. Init => Control /\ LinksOK /\ HistoryOK
  <2> SUFFICES ASSUME Init PROVE LinksOK /\ HistoryOK
    BY ControlInit
  <2> QED
    BY DEF Init, LinksOK, HistoryOK, LateSteps, DeleteSteps, GoingSteps
<1>2. Control /\ LinksOK /\ HistoryOK /\ [Next]_vars => (Control /\ LinksOK /\ HistoryOK)'
  BY ControlStep, LinksStep, HistoryStep
<1>3. Control /\ HistoryOK /\ [Next]_vars =>
        [~ dirty => (Wanted' \ Wanted) \cap history = {}]_vars
  <2> SUFFICES ASSUME Control, HistoryOK, [Next]_vars, ~ dirty
               PROVE  (Wanted' \ Wanted) \cap history = {}
    OBVIOUS
  <2>1. CASE Wanted' \subseteq Wanted
    BY <2>1
  <2>2. CASE GrowSet \/ AddSets
    BY <2>2 DEF HistoryOK, GoingSteps, GrowSet, AddSets
  <2> QED
    BY <2>1, <2>2, NewPods
<1> QED
  BY <1>1, <1>2, <1>3, PTL DEF Spec, NoInheritedHistory

-----------------------------------------------------------------------------
(* Links: declared at both ends before a pod comes.                        *)

\* The CRDs of the pods to come have links of this phase only; upsertAppendLinks
\* writes those at both ends, whatever the ends had before.
DeclaredOK ==
  /\ pc = "newcrds" => todo \subseteq batch /\ \A p \in batch \ todo : spec[p] \subseteq relevant
  /\ pc \in {"upsert", "counts", "grow", "addsets"} => \A p \in batch : spec[p] \subseteq relevant
  /\ pc = "upsert" => \A l \in relevant : \A q \in On(l) \ todo : l \in spec[q]
  /\ pc \in {"counts", "grow", "addsets"} => \A l \in relevant : \A q \in On(l) : l \in spec[q]

\* Steps keep DeclaredOK.
LEMMA DeclaredStep ==
  ASSUME Control, DeclaredOK, [Next]_vars
  PROVE  DeclaredOK'
<1> USE DEF Control
<1>1. CASE Modify
  BY <1>1, Types DEF Modify, Goto, cluster, tables, dataplane, DeclaredOK, RequestOK, PhaseOK,
         TypeOK
<1>2. CASE BeginDelete
  BY <1>2, Types DEF BeginDelete, Fault, Goto, Proceed, cluster, tables, dataplane, DeclaredOK,
         RequestOK, PhaseOK, TypeOK
<1>3. CASE Unlink
  BY <1>3, Types DEF Unlink, Proceed, ApiError, Logged, Abort, dataplane, DeclaredOK, RequestOK,
         PhaseOK, TypeOK
<1>4. CASE ListPeers
  BY <1>4, Types DEF ListPeers, Proceed, ApiError, Abort, cluster, tables, dataplane, DeclaredOK,
         RequestOK, PhaseOK, TypeOK
<1>5. CASE Detach
  BY <1>5, Types DEF Detach, Proceed, ApiError, Abort, tables, dataplane, Detached, DeclaredOK,
         RequestOK, PhaseOK, TypeOK
<1>6. CASE DeleteSet
  BY <1>6, Types DEF DeleteSet, Proceed, ApiError, Abort, tables, DeclaredOK, RequestOK, PhaseOK,
         TypeOK
<1>7. CASE DeleteTopologies
  BY <1>7, Types DEF DeleteTopologies, Proceed, ApiError, Abort, tables, dataplane, work,
         DropCRDs, DeclaredOK, RequestOK, PhaseOK, TypeOK
<1>8. CASE DeleteMount
  BY <1>8, Types DEF DeleteMount, Fault, Proceed, Logged, tables, dataplane, work, DeclaredOK,
         RequestOK, PhaseOK, TypeOK
<1>9. CASE DeleteRows
  BY <1>9, Types DEF DeleteRows, Proceed, ApiError, Logged, Abort, cluster, dataplane, DeclaredOK,
         RequestOK, PhaseOK, TypeOK
<1>10. CASE BeginDown
  BY <1>10, Types DEF BeginDown, Proceed, cluster, tables, dataplane, DeclaredOK, RequestOK,
         PhaseOK, TypeOK
<1>11. CASE DeleteOrphans
  BY <1>11, Types DEF DeleteOrphans, Proceed, ApiError, Abort, tables, dataplane, work, DropCRDs,
         DeclaredOK, RequestOK, PhaseOK, TypeOK
<1>12. CASE ShrinkSet
  BY <1>12, Types DEF ShrinkSet, Proceed, ApiError, Abort, tables, dataplane, work, DeclaredOK,
         RequestOK, PhaseOK, TypeOK
<1>13. CASE ForgetOrphans
  BY <1>13, Types DEF ForgetOrphans, Proceed, ApiError, Abort, cluster, dataplane, DeclaredOK,
         RequestOK, PhaseOK, TypeOK
<1>14. CASE BeginUp
  BY <1>14, Types DEF BeginUp, Proceed, cluster, tables, dataplane, DeclaredOK, RequestOK,
         PhaseOK, TypeOK
<1>15. CASE CreateCRD
  BY <1>15, Types DEF CreateCRD, Proceed, ApiError, Abort, tables, dataplane, LinksOf, DeclaredOK,
         RequestOK, PhaseOK, TypeOK
<1>16. CASE Upsert
  BY <1>16, Types DEF Upsert, Proceed, ApiError, Abort, tables, dataplane, LinksOf, DeclaredOK,
         RequestOK, PhaseOK, TypeOK
<1>17. CASE PublishCounts
  BY <1>17, Types DEF PublishCounts, Proceed, Logged, tables, dataplane, work, DeclaredOK,
         RequestOK, PhaseOK, TypeOK
<1>18. CASE GrowSet
  BY <1>18, Types DEF GrowSet, Proceed, ApiError, Abort, tables, dataplane, DeclaredOK, RequestOK,
         PhaseOK, TypeOK
<1>19. CASE BeginAdd
  BY <1>19, Types DEF BeginAdd, Fault, Proceed, Abort, cluster, tables, dataplane, DeclaredOK,
         RequestOK, PhaseOK, TypeOK
<1>20. CASE AddMounts
  BY <1>20, Types DEF AddMounts, Proceed, ApiError, Abort, tables, dataplane, DeclaredOK,
         RequestOK, PhaseOK, TypeOK
<1>21. CASE AddSets
  BY <1>21, Types DEF AddSets, Proceed, ApiError, Abort, tables, dataplane, DeclaredOK, RequestOK,
         PhaseOK, TypeOK
<1>22. CASE PlanRestarts
  BY <1>22, Types DEF PlanRestarts, Proceed, Logged, tables, dataplane, DeclaredOK, RequestOK,
         PhaseOK, TypeOK
<1>23. CASE RestartPod \/ WaitReady \/ Replay \/ Heal \/ HealWait \/ SaveAttributes \/
       SyncRegistry \/ Answer
  BY <1>23, Types DEF RestartPod, WaitReady, Replay, Heal, HealWait, SaveAttributes, SyncRegistry,
         Answer, Proceed, ApiError, Logged, Abort, cluster, tables, dataplane, work, DeclaredOK,
         RequestOK, PhaseOK, TypeOK
<1>24. CASE PodStart \/ Launch \/ PodStop \/ Configure
  <2>1. CASE PodStart \/ Launch
    BY <2>1, Types DEF PodStart, Launch, Fault, cluster, tables, dataplane, work, LinksOf,
           DeclaredOK, RequestOK, PhaseOK, TypeOK
  <2>2. CASE PodStop \/ Configure
    BY <2>2, Types DEF PodStop, Configure, Fault, cluster, tables, dataplane, work,
           LinksOf, DeclaredOK, RequestOK, PhaseOK, TypeOK
  <2> QED
    BY <1>24, <2>1, <2>2
<1>25. CASE UNCHANGED vars
  BY <1>25, Types DEF vars, cluster, tables, dataplane, work, DeclaredOK, RequestOK, PhaseOK,
         TypeOK
<1> QED
  BY <1>1, <1>2, <1>3, <1>4, <1>5, <1>6, <1>7, <1>8, <1>9, <1>10, <1>11, <1>12, <1>13, <1>14,
         <1>15, <1>16, <1>17, <1>18, <1>19, <1>20, <1>21, <1>22, <1>23, <1>24, <1>25 DEF Next,
         Handler, World

\* BothEndsBeforeStart holds of every step, whatever failed before: when a StatefulSet
\* grows or is created, the CRDs of both ends have every link of the new pod.
THEOREM BothEndsFirst == Spec => BothEndsBeforeStart
<1>1. Init => Control /\ LinksOK /\ DeclaredOK
  <2> SUFFICES ASSUME Init PROVE LinksOK /\ DeclaredOK
    BY ControlInit
  <2> QED
    BY DEF Init, LinksOK, DeclaredOK, LateSteps
<1>2. Control /\ LinksOK /\ DeclaredOK /\ [Next]_vars => (Control /\ LinksOK /\ DeclaredOK)'
  BY ControlStep, LinksStep, DeclaredStep
<1>3. Control /\ LinksOK /\ DeclaredOK /\ [Next]_vars =>
        [\A p \in Wanted' \ Wanted : \A l \in spec[p] : \A q \in Peers(l, p) : l \in spec[q]]_vars
  <2> SUFFICES ASSUME Control, LinksOK, DeclaredOK, [Next]_vars,
                      NEW p \in Wanted' \ Wanted, NEW l \in spec[p], NEW q \in Peers(l, p)
               PROVE  l \in spec[q]
    OBVIOUS
  <2>1. GrowSet \/ AddSets
    BY NewPods
  <2>2. p \in batch
    <3>1. CASE AddSets
      <4>1. batch = UNION {PodsOf(n, 0, 1) : n \in req.add}
        BY <3>1 DEF AddSets, LinksOK, Control, PhaseOK
      <4>2. PICK n \in req.add : p = <<n, 0>>
        BY <3>1, NewPods DEF AddSets, GrowSet
      <4>3. <<n, 0>> \in PodsOf(n, 0, 1)
        BY DEF PodsOf
      <4> QED
        BY <4>1, <4>2, <4>3
    <3>2. CASE GrowSet
      BY <3>2, NewPods DEF AddSets, GrowSet
    <3> QED
      BY <2>1, <3>1, <3>2
  <2>3. l \in relevant /\ q \in On(l)
    BY <2>1, <2>2 DEF DeclaredOK, GrowSet, AddSets, Peers
  <2> QED
    BY <2>1, <2>3 DEF DeclaredOK, GrowSet, AddSets
<1> QED
  BY <1>1, <1>2, <1>3, PTL DEF Spec, BothEndsBeforeStart

-----------------------------------------------------------------------------
(* CRDs: one for each pod, and both ends alike.                            *)

\* The nodes as they will be (allNodesAfter in the handler), and their pods.
After == [n \in Nodes |-> IF n \in req.add THEN 1
                          ELSE IF n \in DOMAIN req.scale THEN req.scale[n] ELSE replicas[n]]

Ahead == {p \in Pods : p[2] < After[p[1]]}

\* The links that a scale-up writes end at pods of allNodesAfter.  An add checks its
\* links (ValidateLinksForModify), a scale-up takes its own as they come: this is
\* up to the request.
ScaleLinksValid == pc = "upsert" /\ phase = "up" => ValidateLinksForModify(relevant, After)

\* The steps that write the CRDs of new pods.
MidUp == {"newcrds", "upsert", "counts", "grow"}

\* A scale that is done is done; a delete's batch is of its nodes; the add creates
\* what did not exist; and a CRD has only links of its pod.
ScaledOK ==
  /\ pc \in UpSteps \cup {"add"} /\ ~ (phase = "add" /\ pc \in MidUp) =>
       \A n \in DOMAIN req.scale :
         n \in plans \/ (n = node /\ pc \in MidUp) \/ req.scale[n] <= replicas[n]
  /\ pc \in DeleteSteps \ {"delete"} /\ phase = "delete" => \A p \in batch : p[1] \in req.delete
  /\ pc = "deltopo" => replicas[node] = 0 /\ node \in Nodes
  /\ phase = "add" /\ pc \in {"addmounts", "newcrds", "upsert", "counts", "addsets"} =>
       /\ relevant = links
       /\ pc # "addsets" => \A n \in req.add : replicas[n] = 0
  /\ \A p \in Pods : \A l \in spec[p] : p \in On(l)

\* Steps keep ScaledOK.
LEMMA ScaledStep ==
  ASSUME Control, ScaledOK, [Next]_vars
  PROVE  ScaledOK'
<1> USE DEF Control
<1>1. CASE Modify
  BY <1>1, Types DEF Modify, Goto, cluster, tables, dataplane, ScaledOK, RequestOK, PhaseOK,
         PlanOK, UpSteps, MidUp, DeleteSteps
<1>2. CASE BeginDelete
  <2>1. CASE pc' = "unlink"
    <3>1. \A p \in batch' : p[1] \in req.delete
      <4>1. \A n \in req.delete : \A p \in PodsOf(n, 0, replicas[n]) : p[1] = n
        BY DEF PodsOf
      <4>2. batch' = UNION {PodsOf(n, 0, replicas[n]) : n \in req.delete}
        BY <1>2, <2>1 DEF BeginDelete, Proceed, Goto
      <4> QED
        BY <4>1, <4>2
    <3> QED
      BY <1>2, <2>1, <3>1 DEF BeginDelete, cluster, ScaledOK, PhaseOK, UpSteps
  <2>2. CASE pc' \in {"down", "idle"}
    BY <1>2, <2>2 DEF BeginDelete, cluster, ScaledOK, PhaseOK, UpSteps, DeleteSteps
  <2> QED
    BY <1>2, <2>1, <2>2 DEF BeginDelete, Proceed, Goto
<1>3. CASE Unlink
  <2>1. \A p \in Pods : \A l \in spec'[p] : p \in On(l)
    BY <1>3, Types DEF Unlink, ScaledOK, TypeOK, LinksOf
  <2> QED
    BY <1>3, <2>1 DEF Unlink, Goto, Proceed, Abort, ApiError, Logged, tables, dataplane, ScaledOK,
           PhaseOK, DeleteSteps, UpSteps, MidUp, Detached
<1>4. CASE ListPeers
  BY <1>4, Types DEF ListPeers, Proceed, ApiError, Abort, cluster, tables, dataplane, ScaledOK,
         RequestOK, PhaseOK, PlanOK, UpSteps, MidUp, DeleteSteps
<1>5. CASE Detach
  <2>1. \A p \in Pods : \A l \in spec'[p] : p \in On(l)
    BY <1>5, Types DEF Detach, ScaledOK, TypeOK, LinksOf
  <2> QED
    BY <1>5, <2>1 DEF Detach, Goto, Proceed, Abort, ApiError, Logged, tables, dataplane, ScaledOK,
           PhaseOK, DeleteSteps, UpSteps, MidUp, Detached
<1>6. CASE DeleteSet
  BY <1>6, Types DEF DeleteSet, Proceed, ApiError, Abort, tables, ScaledOK, RequestOK, PhaseOK,
         PlanOK, UpSteps, MidUp, DeleteSteps
<1>7. CASE DeleteTopologies
  BY <1>7, Types DEF DeleteTopologies, Proceed, ApiError, Abort, tables, dataplane, work,
         DropCRDs, ScaledOK, RequestOK, PhaseOK, PlanOK, UpSteps, MidUp, DeleteSteps
<1>8. CASE DeleteMount
  BY <1>8, Types DEF DeleteMount, Fault, Proceed, Logged, tables, dataplane, work, ScaledOK,
         RequestOK, PhaseOK, PlanOK, UpSteps, MidUp, DeleteSteps
<1>9. CASE DeleteRows
  BY <1>9, Types DEF DeleteRows, Proceed, ApiError, Logged, Abort, cluster, dataplane, Downs,
         ScaledOK, RequestOK, PhaseOK, PlanOK, UpSteps, MidUp, DeleteSteps
<1>10. CASE BeginDown
  BY <1>10, Types DEF BeginDown, Proceed, cluster, tables, dataplane, Ups, ScaledOK, RequestOK,
         PhaseOK, PlanOK, UpSteps, MidUp, DeleteSteps
<1>11. CASE DeleteOrphans
  BY <1>11, Types DEF DeleteOrphans, Proceed, ApiError, Abort, tables, dataplane, work, DropCRDs,
         ScaledOK, RequestOK, PhaseOK, PlanOK, UpSteps, MidUp, DeleteSteps
<1>12. CASE ShrinkSet
  BY <1>12, Types DEF ShrinkSet, Proceed, ApiError, Abort, tables, dataplane, work, ScaledOK,
         RequestOK, PhaseOK, PlanOK, UpSteps, MidUp, DeleteSteps
<1>13. CASE ForgetOrphans
  BY <1>13, Types DEF ForgetOrphans, Proceed, ApiError, Abort, cluster, dataplane, ScaledOK,
         RequestOK, PhaseOK, PlanOK, UpSteps, MidUp, DeleteSteps
<1>14. CASE BeginUp
  BY <1>14, Types DEF BeginUp, Proceed, cluster, tables, dataplane, ScaledOK, RequestOK, PhaseOK,
         PlanOK, UpSteps, MidUp, DeleteSteps
<1>15. CASE CreateCRD
  <2>1. \A p \in Pods : \A l \in spec'[p] : p \in On(l)
    BY <1>15, Types DEF CreateCRD, ScaledOK, TypeOK, LinksOf
  <2> QED
    BY <1>15, <2>1 DEF CreateCRD, Goto, Proceed, Abort, ApiError, Logged, tables, dataplane,
           ScaledOK, PhaseOK, DeleteSteps, UpSteps, MidUp, Detached
<1>16. CASE Upsert
  <2>1. \A p \in Pods : \A l \in spec'[p] : p \in On(l)
    BY <1>16, Types DEF Upsert, ScaledOK, TypeOK, LinksOf
  <2> QED
    BY <1>16, <2>1 DEF Upsert, Goto, Proceed, Abort, ApiError, Logged, tables, dataplane,
           ScaledOK, PhaseOK, DeleteSteps, UpSteps, MidUp, Detached
<1>17. CASE PublishCounts
  BY <1>17, Types DEF PublishCounts, Proceed, Logged, tables, dataplane, work, ScaledOK,
         RequestOK, PhaseOK, PlanOK, UpSteps, MidUp, DeleteSteps
<1>18. CASE GrowSet
  BY <1>18, Types DEF GrowSet, Proceed, ApiError, Abort, tables, dataplane, ScaledOK, RequestOK,
         PhaseOK, PlanOK, UpSteps, MidUp, DeleteSteps
<1>19. CASE BeginAdd
  <2>1. CASE pc' = "addmounts"
    <3>1. /\ phase' = "add" /\ relevant' = links /\ AddValid
          /\ UNCHANGED <<replicas, req, links, spec>>
      BY <1>19, <2>1 DEF BeginAdd, Proceed, Abort, cluster
    <3>2. \A n \in req.add : replicas[n] = 0
      BY <3>1, Types, ModifyAssumption DEF AddValid, Existing
    <3> QED
      BY <2>1, <3>1, <3>2 DEF ScaledOK, UpSteps, DeleteSteps
  <2>2. CASE pc' \in {"plan", "idle"}
    BY <1>19, <2>2 DEF BeginAdd, cluster, ScaledOK, UpSteps, DeleteSteps
  <2> QED
    BY <1>19, <2>1, <2>2 DEF BeginAdd, Proceed, Abort
<1>20. CASE AddMounts
  BY <1>20, Types DEF AddMounts, Proceed, ApiError, Abort, tables, dataplane, ScaledOK, RequestOK,
         PhaseOK, PlanOK, UpSteps, MidUp, DeleteSteps
<1>21. CASE AddSets
  BY <1>21, Types DEF AddSets, Proceed, ApiError, Abort, tables, dataplane, ScaledOK, RequestOK,
         PhaseOK, PlanOK, UpSteps, MidUp, DeleteSteps
<1>22. CASE PlanRestarts
  BY <1>22, Types DEF PlanRestarts, Proceed, Logged, tables, dataplane, ScaledOK, RequestOK,
         PhaseOK, PlanOK, UpSteps, MidUp, DeleteSteps
<1>23. CASE RestartPod \/ WaitReady \/ Replay \/ Heal \/ HealWait \/ SaveAttributes \/
       SyncRegistry \/ Answer
  BY <1>23, Types DEF RestartPod, WaitReady, Replay, Heal, HealWait, SaveAttributes, SyncRegistry,
         Answer, Proceed, ApiError, Logged, Abort, cluster, tables, dataplane, work, ScaledOK,
         RequestOK, PhaseOK, PlanOK, UpSteps, MidUp, DeleteSteps
<1>24. CASE PodStart \/ Launch \/ PodStop \/ Configure
  <2>1. CASE PodStart \/ Launch
    BY <2>1, Types DEF PodStart, Launch, Fault, cluster, tables, dataplane, work, LinksOf,
           ScaledOK, RequestOK, PhaseOK, PlanOK, UpSteps, MidUp, DeleteSteps
  <2>2. CASE PodStop \/ Configure
    BY <2>2, Types DEF PodStop, Configure, Fault, cluster, tables, dataplane, work,
           LinksOf, ScaledOK, RequestOK, PhaseOK, PlanOK, UpSteps, MidUp, DeleteSteps
  <2> QED
    BY <1>24, <2>1, <2>2
<1>25. CASE UNCHANGED vars
  BY <1>25, Types DEF vars, cluster, tables, dataplane, work, ScaledOK, RequestOK, PhaseOK,
         PlanOK, UpSteps, MidUp, DeleteSteps
<1> QED
  BY <1>1, <1>2, <1>3, <1>4, <1>5, <1>6, <1>7, <1>8, <1>9, <1>10, <1>11, <1>12, <1>13, <1>14,
         <1>15, <1>16, <1>17, <1>18, <1>19, <1>20, <1>21, <1>22, <1>23, <1>24, <1>25 DEF Next,
         Handler, World

\* The upsert visits ends of the links it writes, and the add comes after all plans.
UpsertOK == pc = "upsert" => todo \subseteq UNION {On(l) : l \in relevant}

PlansDone == pc = "add" => plans = {}

\* Steps keep both.
LEMMA UpsertStep ==
  ASSUME Control, UpsertOK, PlansDone, [Next]_vars
  PROVE  (UpsertOK /\ PlansDone)'
<1> USE DEF Control
<1>1. CASE Modify
  BY <1>1 DEF Modify, Goto, cluster, tables, dataplane, UpsertOK, PlansDone
<1>2. CASE BeginDelete
  BY <1>2 DEF BeginDelete, Fault, Goto, Proceed, cluster, tables, dataplane, UpsertOK, PlansDone
<1>3. CASE Unlink
  BY <1>3 DEF Unlink, Proceed, ApiError, Logged, Abort, dataplane, UpsertOK, PlansDone
<1>4. CASE ListPeers
  BY <1>4 DEF ListPeers, Proceed, ApiError, Abort, cluster, tables, dataplane, UpsertOK, PlansDone
<1>5. CASE Detach
  BY <1>5 DEF Detach, Proceed, ApiError, Abort, tables, dataplane, Detached, UpsertOK, PlansDone
<1>6. CASE DeleteSet
  BY <1>6 DEF DeleteSet, Proceed, ApiError, Abort, tables, UpsertOK, PlansDone
<1>7. CASE DeleteTopologies
  BY <1>7 DEF DeleteTopologies, Proceed, ApiError, Abort, tables, dataplane, work, DropCRDs,
         UpsertOK, PlansDone
<1>8. CASE DeleteMount
  BY <1>8 DEF DeleteMount, Fault, Proceed, Logged, tables, dataplane, work, UpsertOK, PlansDone
<1>9. CASE DeleteRows
  BY <1>9 DEF DeleteRows, Proceed, ApiError, Logged, Abort, cluster, dataplane, UpsertOK,
         PlansDone
<1>10. CASE BeginDown
  BY <1>10 DEF BeginDown, Proceed, cluster, tables, dataplane, UpsertOK, PlansDone
<1>11. CASE DeleteOrphans
  BY <1>11 DEF DeleteOrphans, Proceed, ApiError, Abort, tables, dataplane, work, DropCRDs,
         UpsertOK, PlansDone
<1>12. CASE ShrinkSet
  BY <1>12 DEF ShrinkSet, Proceed, ApiError, Abort, tables, dataplane, work, UpsertOK, PlansDone
<1>13. CASE ForgetOrphans
  BY <1>13 DEF ForgetOrphans, Proceed, ApiError, Abort, cluster, dataplane, UpsertOK, PlansDone
<1>14. CASE BeginUp
  BY <1>14 DEF BeginUp, Proceed, cluster, tables, dataplane, UpsertOK, PlansDone
<1>15. CASE CreateCRD
  BY <1>15 DEF CreateCRD, Proceed, ApiError, Abort, tables, dataplane, UpsertOK, PlansDone
<1>16. CASE Upsert
  BY <1>16 DEF Upsert, Proceed, ApiError, Abort, tables, dataplane, UpsertOK, PlansDone
<1>17. CASE PublishCounts
  BY <1>17 DEF PublishCounts, Proceed, Logged, tables, dataplane, work, UpsertOK, PlansDone
<1>18. CASE GrowSet
  BY <1>18 DEF GrowSet, Proceed, ApiError, Abort, tables, dataplane, UpsertOK, PlansDone
<1>19. CASE BeginAdd
  BY <1>19 DEF BeginAdd, Fault, Proceed, Abort, cluster, tables, dataplane, UpsertOK, PlansDone
<1>20. CASE AddMounts
  BY <1>20 DEF AddMounts, Proceed, ApiError, Abort, tables, dataplane, UpsertOK, PlansDone
<1>21. CASE AddSets
  BY <1>21 DEF AddSets, Proceed, ApiError, Abort, tables, dataplane, UpsertOK, PlansDone
<1>22. CASE PlanRestarts
  BY <1>22 DEF PlanRestarts, Proceed, Logged, tables, dataplane, UpsertOK, PlansDone
<1>23. CASE RestartPod \/ WaitReady \/ Replay \/ Heal \/ HealWait \/ SaveAttributes \/
       SyncRegistry \/ Answer
  BY <1>23 DEF RestartPod, WaitReady, Replay, Heal, HealWait, SaveAttributes, SyncRegistry,
         Answer, Proceed, ApiError, Logged, Abort, cluster, tables, dataplane, work, UpsertOK,
         PlansDone
<1>24. CASE PodStart \/ Launch \/ PodStop \/ Configure
  BY <1>24 DEF PodStart, Launch, PodStop, Configure, Fault, cluster, tables, dataplane, work,
         UpsertOK, PlansDone
<1>25. CASE UNCHANGED vars
  BY <1>25 DEF vars, cluster, tables, dataplane, work, UpsertOK, PlansDone
<1> QED
  BY <1>1, <1>2, <1>3, <1>4, <1>5, <1>6, <1>7, <1>8, <1>9, <1>10, <1>11, <1>12, <1>13, <1>14,
         <1>15, <1>16, <1>17, <1>18, <1>19, <1>20, <1>21, <1>22, <1>23, <1>24, <1>25 DEF Next,
         Handler, World

\* Which pods have a CRD, step by step.  A scale-up may create the CRD of a pod that
\* a later plan or the add brings; their own POST is then refused (CreateCRD).
CRDsAsWanted ==
  /\ pc \in {"idle", "delete", "unlink", "list", "detach", "delset", "delmount", "delrows", "down",
             "orphans", "forget", "sync", "ok"} \cup LateSteps => crds = Wanted
  /\ pc = "deltopo" => /\ Wanted \subseteq crds
                       /\ crds \subseteq Wanted \cup {p \in batch : p[1] = node}
  /\ pc = "shrink" => crds = Wanted \ batch
  /\ pc \in {"up", "add"} \/ (pc \in MidUp /\ phase = "up") =>
       Wanted \subseteq crds /\ crds \subseteq Wanted \cup Ahead
  /\ pc = "addmounts" \/ (pc \in MidUp /\ phase = "add") =>
       Wanted \subseteq crds /\ crds \subseteq Wanted \cup batch
  /\ pc \in MidUp => batch \ (IF pc = "newcrds" THEN todo ELSE {}) \subseteq crds
  /\ pc = "addsets" => crds = Wanted \cup batch

\* A step in which no call fails keeps CRDsAsWanted.
LEMMA CRDsStep ==
  ASSUME Control, LinksOK, HistoryOK, DeclaredOK, UpsertOK, PlansDone, ScaledOK, ScaleLinksValid,
         CRDsAsWanted, ~ dirty, ~ dirty', [Next]_vars
  PROVE  CRDsAsWanted'
<1> USE DEF Control
<1>a. UNCHANGED replicas => Wanted' = Wanted
  BY DEF Wanted
<1>b. /\ Wanted = {p \in Pods : p[2] < replicas[p[1]]}
      /\ Wanted' = {p \in Pods : p[2] < replicas'[p[1]]}
  BY WantedNow, WantedNext, TypeStep DEF TypeOK
<1>1. CASE Modify
  BY <1>1, Types, <1>a DEF Modify, Goto, cluster, tables, dataplane, CRDsAsWanted, PhaseOK,
         LateSteps, MidUp, Ahead, After
<1>2. CASE BeginDelete
  BY <1>2, Types, <1>a DEF BeginDelete, Fault, Goto, Proceed, cluster, tables, dataplane,
         CRDsAsWanted, PhaseOK, LateSteps, MidUp, Ahead, After
<1>3. CASE Unlink
  BY <1>3, Types, <1>a DEF Unlink, Proceed, ApiError, Logged, Abort, dataplane, CRDsAsWanted,
         PhaseOK, LateSteps, MidUp, Ahead, After
<1>4. CASE ListPeers
  BY <1>4, Types, <1>a DEF ListPeers, Proceed, ApiError, Abort, cluster, tables, dataplane,
         CRDsAsWanted, PhaseOK, LateSteps, MidUp, Ahead, After
<1>5. CASE Detach
  BY <1>5, Types, <1>a DEF Detach, Proceed, ApiError, Abort, tables, dataplane, Detached,
         CRDsAsWanted, PhaseOK, LateSteps, MidUp, Ahead, After
<1>6. CASE DeleteSet
  <2>1. PICK n \in req.delete \cap Existing :
          replicas' = [replicas EXCEPT ![n] = 0] /\ node' = n /\ pc' = "deltopo"
    BY <1>6 DEF DeleteSet, Proceed, ApiError, Abort
  <2>2. n \in Nodes /\ PodsOf(n, 0, replicas[n]) \subseteq batch
    BY <1>6, <2>1, Types DEF DeleteSet, HistoryOK, DeleteSteps, PhaseOK
  <2>3. Wanted' \subseteq Wanted /\ \A p \in Wanted \ Wanted' : p \in batch /\ p[1] = n
    BY <2>1, <2>2, <1>b, PodsOfIs, PodShape, Types, ModifyAssumption
  <2> QED
    BY <1>6, <2>1, <2>3 DEF DeleteSet, CRDsAsWanted, LateSteps, MidUp
<1>7. CASE DeleteTopologies
  <2>1. /\ pc' = "delmount" /\ crds' = crds \ {p \in batch : p[1] = node} /\ UNCHANGED replicas
    BY <1>7 DEF DeleteTopologies, DropCRDs, Proceed, ApiError, Abort
  <2>2. \A p \in Wanted : p[1] # node
    BY <1>7, <1>b, PodShape, ModifyAssumption DEF DeleteTopologies, ScaledOK
  <2>3. crds' = Wanted
    BY <1>7, <2>1, <2>2 DEF DeleteTopologies, CRDsAsWanted
  <2> QED
    BY <2>1, <2>3, <1>a DEF CRDsAsWanted, LateSteps, MidUp
<1>8. CASE DeleteMount
  BY <1>8, Types, <1>a DEF DeleteMount, Fault, Proceed, Logged, tables, dataplane, work,
         CRDsAsWanted, PhaseOK, LateSteps, MidUp, Ahead, After
<1>9. CASE DeleteRows
  BY <1>9, Types, <1>a DEF DeleteRows, Proceed, ApiError, Logged, Abort, cluster, dataplane,
         CRDsAsWanted, PhaseOK, LateSteps, MidUp, Ahead, After
<1>10. CASE BeginDown
  BY <1>10, Types, <1>a DEF BeginDown, Proceed, cluster, tables, dataplane, CRDsAsWanted, PhaseOK,
         LateSteps, MidUp, Ahead, After
<1>11. CASE DeleteOrphans
  BY <1>11, Types, <1>a DEF DeleteOrphans, Proceed, ApiError, Abort, tables, dataplane, work,
         DropCRDs, CRDsAsWanted, PhaseOK, LateSteps, MidUp, Ahead, After
<1>12. CASE ShrinkSet
  <2>1. /\ replicas' = [replicas EXCEPT ![node] = req.scale[node]]
        /\ UNCHANGED crds /\ pc' = "forget"
        /\ node \in DOMAIN req.scale /\ batch = PodsOf(node, req.scale[node], replicas[node])
        /\ req.scale[node] < replicas[node]
    BY <1>12 DEF ShrinkSet, Proceed, ApiError, Abort, PlanOK, PhaseOK
  <2>2. Wanted' = Wanted \ batch
    BY <2>1, <1>b, PodsOfIs, PodShape, Types, ModifyAssumption
  <2> QED
    BY <1>12, <2>1, <2>2 DEF ShrinkSet, CRDsAsWanted, LateSteps, MidUp
<1>13. CASE ForgetOrphans
  BY <1>13, Types, <1>a DEF ForgetOrphans, Proceed, ApiError, Abort, cluster, dataplane,
         CRDsAsWanted, PhaseOK, LateSteps, MidUp, Ahead, After
<1>14. CASE BeginUp
  BY <1>14, Types, <1>a DEF BeginUp, Proceed, cluster, tables, dataplane, CRDsAsWanted, PhaseOK,
         LateSteps, MidUp, Ahead, After
<1>15. CASE CreateCRD
  <2>1. UNCHANGED <<replicas, req, batch, phase>> /\ pc' \in {"newcrds", "upsert"}
    BY <1>15 DEF CreateCRD, Proceed, ApiError, Abort
  <2>2. /\ batch \subseteq Pods /\ (phase = "up" => batch \subseteq Ahead)
    <3>1. CASE phase = "up"
      <4>1. node \in DOMAIN req.scale /\ batch = PodsOf(node, replicas[node], req.scale[node])
        BY <1>15, <3>1 DEF CreateCRD, PlanOK
      <4>2. \A p \in batch : p \in Pods /\ p[1] = node /\ p[2] < req.scale[node]
        BY <4>1, PodsOfIs, Types, ModifyAssumption
      <4> QED
        BY <4>1, <4>2, Types DEF Ahead, After, RequestOK
    <3> QED
      BY <3>1 DEF TypeOK
  <2>3. ASSUME NEW p \in todo, crds' = crds \cup {p}, todo' = todo \ {p}, pc' = pc
        PROVE  CRDsAsWanted'
    <3>1. p \in batch
      BY <1>15 DEF CreateCRD, DeclaredOK
    <3> QED
      BY <1>15, <1>a, <2>1, <2>2, <2>3, <3>1 DEF CreateCRD, CRDsAsWanted, PhaseOK, LateSteps,
             MidUp, Ahead, After
  <2>4. ASSUME todo = {}, UNCHANGED crds, pc' = "upsert"
        PROVE  CRDsAsWanted'
    BY <1>15, <1>a, <2>1, <2>4 DEF CreateCRD, CRDsAsWanted, PhaseOK, LateSteps, MidUp, Ahead,
           After
  <2> QED
    BY <1>15, <2>3, <2>4 DEF CreateCRD, Proceed, ApiError, Abort
<1>16. CASE Upsert
  <2>1. UNCHANGED <<replicas, req, batch, phase>> /\ pc' \in {"upsert", "counts"}
    BY <1>16 DEF Upsert, Proceed, ApiError, Abort, cluster
  <2>2. CASE phase = "up"
    <3>1. ASSUME NEW p \in Pods, NEW l \in relevant, p \in On(l) PROVE p \in Ahead
      BY <1>16, <2>2, <3>1 DEF Upsert, ScaleLinksValid, ValidateLinksForModify, Ahead
    <3>2. todo \subseteq Ahead
      BY <1>16, <3>1 DEF Upsert, UpsertOK, RequestOK
    <3> QED
      BY <1>16, <1>a, <2>1, <2>2, <3>2 DEF Upsert, CRDsAsWanted, LateSteps, MidUp, Ahead, After
  <2>3. CASE phase = "add"
    <3>1. ASSUME NEW p \in Pods, NEW l \in relevant, p \in On(l) PROVE p \in Wanted \cup batch
      <4>1. p[2] < (IF p[1] \in req.add THEN 1 ELSE replicas[p[1]])
        BY <1>16, <2>3, <3>1 DEF Upsert, LinksOK, ScaledOK, RequestOK
      <4>2. CASE p[1] \in req.add
        <5>1. p = <<p[1], 0>>
          BY <4>1, <4>2, PodShape, ModifyAssumption
        <5>2. <<p[1], 0>> \in PodsOf(p[1], 0, 1)
          BY DEF PodsOf
        <5>3. batch = UNION {PodsOf(n, 0, 1) : n \in req.add}
          BY <1>16, <2>3 DEF Upsert, LinksOK
        <5> QED
          BY <4>2, <5>1, <5>2, <5>3
      <4>3. CASE p[1] \notin req.add
        BY <4>1, <4>3, <1>b
      <4> QED
        BY <4>2, <4>3
    <3>2. todo \subseteq Wanted \cup batch
      BY <1>16, <3>1 DEF Upsert, UpsertOK, RequestOK
    <3> QED
      BY <1>16, <1>a, <2>1, <2>3, <3>2 DEF Upsert, CRDsAsWanted, LateSteps, MidUp
  <2> QED
    BY <1>16, <2>2, <2>3 DEF Upsert, PhaseOK
<1>17. CASE PublishCounts
  BY <1>17, Types, <1>a DEF PublishCounts, Proceed, Logged, tables, dataplane, work, CRDsAsWanted,
         PhaseOK, LateSteps, MidUp, Ahead, After
<1>18. CASE GrowSet
  <2>1. /\ replicas' = [replicas EXCEPT ![node] = req.scale[node]]
        /\ UNCHANGED <<crds, req>> /\ pc' = "up"
        /\ node \in DOMAIN req.scale /\ batch = PodsOf(node, replicas[node], req.scale[node])
        /\ req.scale[node] > replicas[node] /\ phase = "up"
    BY <1>18 DEF GrowSet, Proceed, ApiError, Abort, PlanOK, PhaseOK
  <2>2. Wanted' = Wanted \cup batch
    BY <2>1, <1>b, PodsOfIs, PodShape, Types, ModifyAssumption
  <2>3. Wanted \cup batch \subseteq crds /\ crds \subseteq Wanted \cup Ahead
    BY <1>18, <2>1 DEF GrowSet, CRDsAsWanted, MidUp
  <2>4. Ahead' = Ahead
    <3>1. After' = After
      BY <2>1, Types DEF After
    <3> QED
      BY <3>1 DEF Ahead
  <2> QED
    BY <2>1, <2>2, <2>3, <2>4 DEF CRDsAsWanted, LateSteps, MidUp
<1>19. CASE BeginAdd
  <2>1. /\ Wanted \subseteq crds /\ crds \subseteq Wanted \cup Ahead
        /\ UNCHANGED <<crds, req, replicas>>
        /\ Wanted' = Wanted /\ pc' \in {"plan", "addmounts"} /\ (pc' = "plan" => req.add = {})
    BY <1>19, <1>a DEF BeginAdd, CRDsAsWanted, Proceed, Abort, cluster
  <2>2. ASSUME NEW p \in Ahead, p \notin Wanted PROVE p[1] \in req.add /\ p[2] = 0
    <3>1. p \in Pods /\ p[2] < After[p[1]] /\ p[1] \in Nodes /\ ~ (p[2] < replicas[p[1]])
      BY <2>2, <1>b, PodShape DEF Ahead
    <3>2. plans = {} /\ \A n \in DOMAIN req.scale : req.scale[n] <= replicas[n]
      BY <1>19 DEF BeginAdd, ScaledOK, UpSteps, MidUp, PlansDone
    <3> QED
      BY <3>1, <3>2, Types, PodShape, ModifyAssumption DEF After
  <2>3. CASE pc' = "plan"
    BY <2>1, <2>2, <2>3 DEF CRDsAsWanted, LateSteps, MidUp
  <2>4. CASE pc' = "addmounts"
    <3>1. batch' = UNION {PodsOf(n, 0, 1) : n \in req.add}
      BY <1>19, <2>4 DEF BeginAdd, Proceed, Abort
    <3>2. ASSUME NEW p \in Ahead, p \notin Wanted PROVE p \in batch'
      <4>1. p = <<p[1], 0>> /\ p[1] \in req.add
        BY <2>2, <3>2, PodShape DEF Ahead
      <4>2. <<p[1], 0>> \in PodsOf(p[1], 0, 1)
        BY DEF PodsOf
      <4> QED
        BY <3>1, <4>1, <4>2
    <3> QED
      BY <2>1, <2>4, <3>2 DEF CRDsAsWanted, LateSteps, MidUp
  <2> QED
    BY <2>1, <2>3, <2>4
<1>20. CASE AddMounts
  BY <1>20, Types, <1>a DEF AddMounts, Proceed, ApiError, Abort, tables, dataplane, CRDsAsWanted,
         PhaseOK, LateSteps, MidUp, Ahead, After
<1>21. CASE AddSets
  <2>0. /\ batch = UNION {PodsOf(n, 0, 1) : n \in req.add} /\ crds = Wanted \cup batch
        /\ UNCHANGED <<crds, batch>>
    BY <1>21 DEF AddSets, LinksOK, CRDsAsWanted, PhaseOK
  <2>1. ASSUME NEW n \in req.add, replicas[n] = 0, replicas' = [replicas EXCEPT ![n] = 1]
        PROVE  Wanted \subseteq Wanted' /\ Wanted' \subseteq Wanted \cup batch
    <3>1. \A p \in Wanted' \ Wanted : p = <<n, 0>>
      BY <2>1, <1>b, PodShape, Types, ModifyAssumption
    <3>2. <<n, 0>> \in PodsOf(n, 0, 1)
      BY DEF PodsOf
    <3>3. Wanted \subseteq Wanted'
      BY <2>1, <1>b, PodShape, Types, ModifyAssumption
    <3> QED
      BY <2>0, <3>1, <3>2, <3>3
  <2>2. CASE pc' = "addsets"
    BY <1>21, <2>0, <2>1, <2>2 DEF AddSets, Proceed, ApiError, Abort, CRDsAsWanted, LateSteps,
           MidUp
  <2>3. CASE pc' = "plan"
    <3>1. UNCHANGED replicas /\ \A n \in req.add : replicas[n] = 1
      BY <1>21, <2>3, Types DEF AddSets, Proceed, ApiError, Abort, LinksOK, PhaseOK
    <3>2. \A n \in req.add : PodsOf(n, 0, 1) \subseteq Wanted
      BY <3>1, Types DEF Wanted
    <3> QED
      BY <2>0, <2>3, <3>1, <3>2, <1>a DEF CRDsAsWanted, LateSteps, MidUp
  <2> QED
    BY <1>21, <2>2, <2>3 DEF AddSets, Proceed, ApiError, Abort
<1>22. CASE PlanRestarts
  BY <1>22, Types, <1>a DEF PlanRestarts, Proceed, Logged, tables, dataplane, CRDsAsWanted,
         PhaseOK, LateSteps, MidUp, Ahead, After
<1>23. CASE RestartPod \/ WaitReady \/ Replay \/ Heal \/ HealWait \/ SaveAttributes \/
       SyncRegistry \/ Answer
  BY <1>23, Types, <1>a DEF RestartPod, WaitReady, Replay, Heal, HealWait, SaveAttributes,
         SyncRegistry, Answer, Proceed, ApiError, Logged, Abort, cluster, tables, dataplane, work,
         CRDsAsWanted, PhaseOK, LateSteps, MidUp, Ahead, After
<1>24. CASE PodStart \/ Launch \/ PodStop \/ Configure
  <2>1. CASE PodStart \/ Launch
    BY <2>1, Types, <1>a DEF PodStart, Launch, Fault, cluster, tables, dataplane, work,
           CRDsAsWanted, PhaseOK, LateSteps, MidUp, Ahead, After
  <2>2. CASE PodStop \/ Configure
    BY <2>2, Types, <1>a DEF PodStop, Configure, Fault, cluster, tables, dataplane, work,
           CRDsAsWanted, PhaseOK, LateSteps, MidUp, Ahead, After
  <2> QED
    BY <1>24, <2>1, <2>2
<1>25. CASE UNCHANGED vars
  BY <1>25, Types, <1>a DEF vars, cluster, tables, dataplane, work, CRDsAsWanted, PhaseOK,
         LateSteps, MidUp, Ahead, After
<1> QED
  BY <1>1, <1>2, <1>3, <1>4, <1>5, <1>6, <1>7, <1>8, <1>9, <1>10, <1>11, <1>12, <1>13, <1>14,
         <1>15, <1>16, <1>17, <1>18, <1>19, <1>20, <1>21, <1>22, <1>23, <1>24, <1>25 DEF Next,
         Handler, World

\* The links in L are declared at all their ends or at none.
Agreed(L) == \A p \in Pods : \A l \in spec[p] \cap L : \A q \in On(l) : l \in spec[q]

\* The links that no pod of the batch has.
Clear == {l \in Links : On(l) \cap batch = {}}

DetachSteps == {"detach", "delset", "deltopo", "delmount", "orphans"}

\* Where links are being removed or written, the others agree; a CRD that was visited
\* no longer has a link of the batch.
EndsAgree ==
  /\ pc \notin DetachSteps \cup {"unlink", "newcrds", "upsert"} => Agreed(Links)
  /\ pc = "unlink" => /\ Agreed(Links \ req.delLinks)
                      /\ \A p \in Pods \ todo : spec[p] \cap req.delLinks = {}
  /\ pc \in DetachSteps =>
       /\ Agreed(Clear)
       /\ \A p \in Pods \ (batch \cup (IF pc = "detach" THEN todo ELSE {})) :
            spec[p] \subseteq Clear
  /\ pc \in {"newcrds", "upsert"} => Agreed(Links \ relevant)

\* A step in which no call fails keeps EndsAgree.
LEMMA AgreeStep ==
  ASSUME Control, ScaledOK, DeclaredOK, CRDsAsWanted, EndsAgree, ~ dirty, ~ dirty', [Next]_vars
  PROVE  EndsAgree'
<1> USE DEF Control
<1>1. CASE Modify
  BY <1>1, Types DEF Modify, Goto, cluster, tables, dataplane, EndsAgree, Agreed, Clear,
         DetachSteps, PhaseOK
<1>2. CASE BeginDelete
  <2>1. UNCHANGED spec /\ Agreed(Links) /\ pc' \in {"down", "unlink", "idle"}
    BY <1>2 DEF BeginDelete, Proceed, Goto, cluster, EndsAgree, DetachSteps
  <2>2. CASE pc' = "unlink"
    <3>1. todo' = UNION {On(l) : l \in req.delLinks} /\ UNCHANGED req
      BY <1>2, <2>2 DEF BeginDelete, Proceed, Goto
    <3> QED
      BY <2>1, <2>2, <3>1 DEF EndsAgree, Agreed, DetachSteps, ScaledOK
  <2>3. CASE pc' \in {"down", "idle"}
    BY <2>1, <2>3 DEF EndsAgree, Agreed, DetachSteps
  <2> QED
    BY <2>1, <2>2, <2>3
<1>3. CASE Unlink
  <2>1. /\ UNCHANGED req /\ Agreed(Links \ req.delLinks)
        /\ \A p \in Pods \ todo : spec[p] \cap req.delLinks = {}
    BY <1>3 DEF Unlink, EndsAgree
  <2>2. ASSUME NEW p \in todo, todo' = todo \ {p}, pc' = pc,
               spec' = [spec EXCEPT ![p] = @ \ req.delLinks]
        PROVE  EndsAgree'
    <3>1. p \in Pods /\ spec \in [Pods -> SUBSET Links]
      BY DEF RequestOK, TypeOK
    <3>2. \A q \in Pods : spec'[q] = IF q = p THEN spec[q] \ req.delLinks ELSE spec[q]
      BY <2>2, <3>1
    <3>3. \A q \in Pods, l \in Links \ req.delLinks : l \in spec'[q] <=> l \in spec[q]
      BY <3>2
    <3>4. ASSUME NEW q \in Pods, NEW l \in spec'[q] \cap (Links \ req.delLinks), NEW o \in On(l)
          PROVE  l \in spec'[o]
      <4>1. o \in Pods
        BY Types
      <4> QED
        BY <2>1, <3>3, <3>4, <4>1 DEF Agreed
    <3>5. \A q \in Pods \ todo' : spec'[q] \cap req.delLinks = {}
      BY <2>1, <2>2, <3>2
    <3> QED
      BY <1>3, <2>1, <2>2, <3>4, <3>5 DEF Unlink, EndsAgree, Agreed, DetachSteps
  <2>3. ASSUME todo = {}, UNCHANGED spec, pc' = "list"
        PROVE  EndsAgree'
    BY <2>1, <2>3 DEF EndsAgree, Agreed, DetachSteps, TypeOK
  <2> QED
    BY <1>3, <2>2, <2>3 DEF Unlink, Proceed, ApiError, Abort, Logged
<1>4. CASE ListPeers
  <2>1. UNCHANGED <<spec, batch>> /\ Agreed(Links)
    BY <1>4 DEF ListPeers, cluster, EndsAgree, DetachSteps
  <2>2. CASE pc' = "detach"
    <3>1. todo' = {p \in crds \ batch : \E l \in spec[p] : Peers(l, p) \cap batch # {}}
      BY <1>4, <2>2 DEF ListPeers, ApiError, Abort
    <3>2. ASSUME NEW p \in Pods \ (batch \cup todo') PROVE spec[p] \subseteq Clear
      <4>1. \A l \in spec[p] : Peers(l, p) \cap batch = {}
        BY <3>1, <3>2 DEF TypeOK
      <4> QED
        BY <4>1 DEF Peers, Clear, TypeOK
    <3> QED
      BY <2>1, <2>2, <3>2 DEF EndsAgree, Agreed, DetachSteps, Clear
  <2>3. CASE pc' = "delrows"
    BY <2>1, <2>3 DEF EndsAgree, Agreed, DetachSteps
  <2> QED
    BY <1>4, <2>2, <2>3 DEF ListPeers, Proceed, ApiError, Abort
<1>5. CASE Detach
  <2>1. /\ UNCHANGED batch /\ Agreed(Clear)
        /\ \A p \in Pods \ (batch \cup todo) : spec[p] \subseteq Clear
    BY <1>5 DEF Detach, EndsAgree, DetachSteps
  <2>2. ASSUME NEW p \in todo, todo' = todo \ {p}, pc' = pc,
               spec' = [spec EXCEPT ![p] = {l \in @ : Peers(l, p) \cap batch = {}}]
        PROVE  EndsAgree'
    <3>1. p \in Pods /\ spec \in [Pods -> SUBSET Links]
      BY DEF RequestOK, TypeOK
    <3>2. \A q \in Pods :
            spec'[q] = IF q = p THEN {l \in spec[q] : Peers(l, p) \cap batch = {}} ELSE spec[q]
      BY <2>2, <3>1
    <3>3. \A q \in Pods, l \in Clear : l \in spec'[q] <=> l \in spec[q]
      BY <3>2 DEF Clear, Peers
    <3>4. ASSUME NEW q \in Pods, NEW l \in spec'[q] \cap Clear, NEW o \in On(l)
          PROVE  l \in spec'[o]
      <4>1. o \in Pods
        BY Types DEF Clear
      <4> QED
        BY <2>1, <3>3, <3>4, <4>1 DEF Agreed
    <3>5. ASSUME NEW q \in Pods \ (batch \cup todo') PROVE spec'[q] \subseteq Clear
      <4>1. CASE q = p
        BY <3>1, <3>2, <4>1, <3>5 DEF Clear, Peers
      <4>2. CASE q # p
        BY <2>1, <2>2, <3>2, <3>5, <4>2
      <4> QED
        BY <4>1, <4>2
    <3>6. Clear' = Clear
      BY <2>1 DEF Clear
    <3> QED
      BY <1>5, <2>2, <3>4, <3>5, <3>6, <2>1 DEF Detach, EndsAgree, Agreed, DetachSteps
  <2>3. ASSUME todo = {}, UNCHANGED spec, pc' = Detached
        PROVE  EndsAgree'
    BY <2>1, <2>3 DEF EndsAgree, Agreed, DetachSteps, Detached, Clear
  <2> QED
    BY <1>5, <2>2, <2>3 DEF Detach, Proceed, ApiError, Abort
<1>6. CASE DeleteSet
  BY <1>6, Types DEF DeleteSet, Proceed, ApiError, Abort, tables, EndsAgree, Agreed, Clear,
         DetachSteps, PhaseOK
<1>7. CASE DeleteTopologies
  BY <1>7, Types DEF DeleteTopologies, Proceed, ApiError, Abort, tables, dataplane, work,
         DropCRDs, EndsAgree, Agreed, Clear, DetachSteps, PhaseOK
<1>8. CASE DeleteMount
  <2>1. /\ UNCHANGED <<spec, batch>> /\ Agreed(Clear) /\ pc' \in {"delset", "delrows"}
        /\ \A p \in Pods \ batch : spec[p] \subseteq Clear
    BY <1>8 DEF DeleteMount, Proceed, Logged, EndsAgree, DetachSteps, work
  <2>2. CASE pc' = "delset"
    BY <2>1, <2>2 DEF EndsAgree, Agreed, DetachSteps, Clear
  <2>3. CASE pc' = "delrows"
    <3>1. req.delete \cap Existing = {} /\ crds = Wanted /\ \A p \in batch : p[1] \in req.delete
      BY <1>8, <2>3 DEF DeleteMount, Proceed, Logged, CRDsAsWanted, ScaledOK, PhaseOK, DeleteSteps
    <3>2. \A p \in batch : p \notin Wanted
      BY <3>1, WantedNow, PodShape, Types, ModifyAssumption DEF Existing
    <3>3. \A p \in Pods : spec[p] \subseteq Clear
      BY <2>1, <3>1, <3>2 DEF TypeOK
    <3> QED
      BY <2>1, <2>3, <3>3 DEF EndsAgree, Agreed, DetachSteps
  <2> QED
    BY <2>1, <2>2, <2>3
<1>9. CASE DeleteRows
  BY <1>9, Types DEF DeleteRows, Proceed, ApiError, Logged, Abort, cluster, dataplane, EndsAgree,
         Agreed, Clear, DetachSteps, PhaseOK
<1>10. CASE BeginDown
  BY <1>10, Types DEF BeginDown, Proceed, cluster, tables, dataplane, EndsAgree, Agreed, Clear,
         DetachSteps, PhaseOK
<1>11. CASE DeleteOrphans
  BY <1>11, Types DEF DeleteOrphans, Proceed, ApiError, Abort, tables, dataplane, work, DropCRDs,
         EndsAgree, Agreed, Clear, DetachSteps, PhaseOK
<1>12. CASE ShrinkSet
  BY <1>12, Types DEF ShrinkSet, Proceed, ApiError, Abort, tables, dataplane, work, EndsAgree,
         Agreed, Clear, DetachSteps, PhaseOK
<1>13. CASE ForgetOrphans
  BY <1>13, Types DEF ForgetOrphans, Proceed, ApiError, Abort, cluster, dataplane, EndsAgree,
         Agreed, Clear, DetachSteps, PhaseOK
<1>14. CASE BeginUp
  BY <1>14, Types DEF BeginUp, Proceed, cluster, tables, dataplane, EndsAgree, Agreed, Clear,
         DetachSteps, PhaseOK
<1>15. CASE CreateCRD
  <2>1. UNCHANGED relevant /\ Agreed(Links \ relevant)
    BY <1>15 DEF CreateCRD, EndsAgree
  <2>2. ASSUME NEW p \in todo \ crds, spec' = [spec EXCEPT ![p] = LinksOf(p, relevant)], pc' = pc
        PROVE  EndsAgree'
    <3>1. p \in Pods /\ spec \in [Pods -> SUBSET Links] /\ spec[p] = {}
      BY <2>2 DEF RequestOK, TypeOK
    <3>2. \A q \in Pods, l \in Links \ relevant : l \in spec'[q] <=> l \in spec[q]
      BY <2>2, <3>1 DEF LinksOf
    <3>3. ASSUME NEW q \in Pods, NEW l \in spec'[q] \cap (Links \ relevant), NEW o \in On(l)
          PROVE  l \in spec'[o]
      <4>1. o \in Pods
        BY Types
      <4> QED
        BY <2>1, <3>2, <3>3, <4>1 DEF Agreed
    <3> QED
      BY <1>15, <2>1, <2>2, <3>3 DEF CreateCRD, EndsAgree, Agreed, DetachSteps
  <2>3. ASSUME UNCHANGED spec, pc' = "upsert"
        PROVE  EndsAgree'
    BY <2>1, <2>3 DEF EndsAgree, Agreed, DetachSteps
  <2> QED
    BY <1>15, <2>2, <2>3 DEF CreateCRD, Proceed, ApiError, Abort
<1>16. CASE Upsert
  <2>1. UNCHANGED relevant /\ Agreed(Links \ relevant)
    BY <1>16 DEF Upsert, EndsAgree
  <2>2. ASSUME NEW p \in todo, spec' = [spec EXCEPT ![p] = @ \cup LinksOf(p, relevant)], pc' = pc
        PROVE  EndsAgree'
    <3>1. p \in Pods /\ spec \in [Pods -> SUBSET Links]
      BY DEF RequestOK, TypeOK
    <3>2. \A q \in Pods, l \in Links \ relevant : l \in spec'[q] <=> l \in spec[q]
      BY <2>2, <3>1 DEF LinksOf
    <3>3. ASSUME NEW q \in Pods, NEW l \in spec'[q] \cap (Links \ relevant), NEW o \in On(l)
          PROVE  l \in spec'[o]
      <4>1. o \in Pods
        BY Types
      <4> QED
        BY <2>1, <3>2, <3>3, <4>1 DEF Agreed
    <3> QED
      BY <1>16, <2>1, <2>2, <3>3 DEF Upsert, EndsAgree, Agreed, DetachSteps
  <2>3. ASSUME todo = {}, UNCHANGED spec, pc' = "counts"
        PROVE  EndsAgree'
    <3>1. \A l \in relevant : \A q \in On(l) : l \in spec[q]
      BY <1>16, <2>3 DEF Upsert, DeclaredOK
    <3> QED
      BY <2>1, <2>3, <3>1 DEF EndsAgree, Agreed, DetachSteps
  <2> QED
    BY <1>16, <2>2, <2>3 DEF Upsert, Proceed, ApiError, Abort
<1>17. CASE PublishCounts
  BY <1>17, Types DEF PublishCounts, Proceed, Logged, tables, dataplane, work, EndsAgree, Agreed,
         Clear, DetachSteps, PhaseOK
<1>18. CASE GrowSet
  BY <1>18, Types DEF GrowSet, Proceed, ApiError, Abort, tables, dataplane, EndsAgree, Agreed,
         Clear, DetachSteps, PhaseOK
<1>19. CASE BeginAdd
  BY <1>19, Types DEF BeginAdd, Fault, Proceed, Abort, cluster, tables, dataplane, EndsAgree,
         Agreed, Clear, DetachSteps, PhaseOK
<1>20. CASE AddMounts
  BY <1>20, Types DEF AddMounts, Proceed, ApiError, Abort, tables, dataplane, EndsAgree, Agreed,
         Clear, DetachSteps, PhaseOK
<1>21. CASE AddSets
  BY <1>21, Types DEF AddSets, Proceed, ApiError, Abort, tables, dataplane, EndsAgree, Agreed,
         Clear, DetachSteps, PhaseOK
<1>22. CASE PlanRestarts
  BY <1>22, Types DEF PlanRestarts, Proceed, Logged, tables, dataplane, EndsAgree, Agreed, Clear,
         DetachSteps, PhaseOK
<1>23. CASE RestartPod \/ WaitReady \/ Replay \/ Heal \/ HealWait \/ SaveAttributes \/
       SyncRegistry \/ Answer
  BY <1>23, Types DEF RestartPod, WaitReady, Replay, Heal, HealWait, SaveAttributes, SyncRegistry,
         Answer, Proceed, ApiError, Logged, Abort, cluster, tables, dataplane, work, EndsAgree,
         Agreed, Clear, DetachSteps, PhaseOK
<1>24. CASE PodStart \/ Launch \/ PodStop \/ Configure
  <2>1. CASE PodStart \/ Launch
    BY <2>1, Types DEF PodStart, Launch, Fault, cluster, tables, dataplane, work, LinksOf,
           EndsAgree, Agreed, Clear, DetachSteps, PhaseOK
  <2>2. CASE PodStop \/ Configure
    BY <2>2, Types DEF PodStop, Configure, Fault, cluster, tables, dataplane, work,
           LinksOf, EndsAgree, Agreed, Clear, DetachSteps, PhaseOK
  <2> QED
    BY <1>24, <2>1, <2>2
<1>25. CASE UNCHANGED vars
  BY <1>25, Types DEF vars, cluster, tables, dataplane, work, EndsAgree, Agreed, Clear,
         DetachSteps, PhaseOK
<1> QED
  BY <1>1, <1>2, <1>3, <1>4, <1>5, <1>6, <1>7, <1>8, <1>9, <1>10, <1>11, <1>12, <1>13, <1>14,
         <1>15, <1>16, <1>17, <1>18, <1>19, <1>20, <1>21, <1>22, <1>23, <1>24, <1>25 DEF Next,
         Handler, World

\* No request forgets that a call failed.
LEMMA DirtyStays ==
  ASSUME [Next]_vars, ~ dirty'
  PROVE  ~ dirty
  BY DEF Next, Handler, World, vars, cluster, tables, dataplane, work, Goto, Proceed, Abort,
         ApiError, Logged, Fault, Modify, BeginDelete, Unlink, ListPeers, Detach, DeleteSet,
         DeleteTopologies, DeleteMount, DeleteRows, BeginDown, DeleteOrphans, ShrinkSet,
         ForgetOrphans, BeginUp, CreateCRD, Upsert, PublishCounts, GrowSet, BeginAdd,
         AddMounts, AddSets, PlanRestarts, RestartPod, WaitReady, Replay, Heal, HealWait,
         SaveAttributes, SyncRegistry, Answer, PodStart, Launch, PodStop, Configure

\* What the theorem below needs, together.
CRDsOK ==
  /\ Control /\ LinksOK /\ HistoryOK /\ DeclaredOK /\ UpsertOK /\ PlansDone /\ ScaledOK
  /\ ~ dirty => CRDsAsWanted /\ EndsAgree

\* The deployed topology satisfies it.
LEMMA CRDsInit ==
  ASSUME Init
  PROVE  CRDsOK
<1>1. Control
  BY ControlInit
<1>2. \A p \in Pods : spec[p] = {l \in Start.links : p \in On(l)}
  BY DEF Init, LinksOf
<1>3. ScaledOK
  BY <1>2 DEF Init, ScaledOK, UpSteps, DeleteSteps, MidUp
<1>4. EndsAgree
  BY <1>2, OnPods, StartAssumption DEF Init, EndsAgree, Agreed, DetachSteps
<1> QED
  BY <1>1, <1>3, <1>4 DEF CRDsOK, Init, LinksOK, HistoryOK, DeclaredOK, UpsertOK, PlansDone,
     CRDsAsWanted, LateSteps, MidUp, DeleteSteps, GoingSteps

\* Steps keep it.
LEMMA CRDsOKStep ==
  ASSUME CRDsOK, ScaleLinksValid, [Next]_vars
  PROVE  CRDsOK'
<1>1. (Control /\ LinksOK /\ HistoryOK /\ DeclaredOK /\ UpsertOK /\ PlansDone /\ ScaledOK)'
  BY ControlStep, LinksStep, HistoryStep, DeclaredStep, UpsertStep, ScaledStep DEF CRDsOK
<1>2. ASSUME ~ dirty'
      PROVE  CRDsAsWanted' /\ EndsAgree'
  <2>1. ~ dirty
    BY <1>2, DirtyStays
  <2> QED
    BY <1>2, <2>1, CRDsStep, AgreeStep DEF CRDsOK
<1> QED
  BY <1>1, <1>2 DEF CRDsOK

\* CRDsAgree is an invariant, for requests whose scale-ups name pods that exist or will: a
\* modify that no failure interrupted leaves a Topology CRD at each pod and at no other, and
\* the two ends of every link declare it, whatever it deleted, scaled, added and replaced.
THEOREM ModifyLeavesCRDsAgreed == Spec /\ []ScaleLinksValid => []CRDsAgree
<1>1. Init => CRDsOK
  BY CRDsInit
<1>2. CRDsOK /\ ScaleLinksValid /\ [Next]_vars => CRDsOK'
  BY CRDsOKStep
<1>3. CRDsOK => CRDsAgree
  <2> SUFFICES ASSUME CRDsOK, pc = "ok", ~ dirty
               PROVE  crds = Wanted /\ \A l \in Declared : \A p \in On(l) : l \in spec[p]
    BY DEF CRDsAgree
  <2>1. crds = Wanted /\ Agreed(Links)
    BY DEF CRDsOK, CRDsAsWanted, EndsAgree, DetachSteps
  <2>2. crds \subseteq Pods /\ spec \in [Pods -> SUBSET Links]
    BY DEF CRDsOK, Control, TypeOK
  <2> QED
    BY <2>1, <2>2 DEF Declared, Agreed
<1> QED
  BY <1>1, <1>2, <1>3, PTL DEF Spec

-----------------------------------------------------------------------------
(* Pods: wired as the CRDs declare.                                        *)

\* The pods that are owed a restart for what the request changed in their CRDs, and
\* those whose counts are not published yet.
Behind == IF pc \in {"idle", "restart", "wait", "replay", "heal", "healwait", "attributes", "sync",
                     "ok"}
          THEN {} ELSE RestartSet \ (IF phase = "add" THEN batch ELSE {})

Due == IF pc = "restart" THEN todo ELSE Behind

\* The orphans of a scale-down, from the loss of their CRDs until they are not wanted.
Leaving == IF pc = "shrink" THEN batch ELSE {}

\* A link of the add section between pods that run already.
Pending(l) ==
  /\ l \in links /\ On(l) \cap batch = {}
  /\ pc = "plan" \/ (phase = "add" /\ pc \in {"upsert", "counts", "addsets"})

\* A plan and what is left to add keep apart: no pod is new before the scale-ups; what a
\* removal drops is not wanted; the links of pods a scale-up has created are declared, none
\* of another plan's links ends at them, and none is left to add.
ApartOK ==
  /\ pc = "delete" => always \cup ifQemu = {}
  /\ pc \in DeleteSteps \cup DownSteps => fresh = {}
  /\ pc \in {"delrows", "forget"} => batch \cap Wanted = {}
  /\ pc \in UpSteps \cup {"add", "addmounts", "addsets"} => \A l \in links : On(l) \cap fresh = {}
  /\ pc = "up" \/ (pc \in MidUp /\ phase = "up") =>
       \A l \in req.links : On(l) \cap fresh # {} => On(l) \subseteq crds
  /\ pc \in MidUp /\ phase = "up" => relevant = {l \in req.links : On(l) \cap batch # {}}
  /\ pc = "newcrds" /\ phase = "up" =>
       \A l \in relevant : On(l) \cap (batch \ todo) # {} => On(l) \cap fresh = {}
  /\ pc = "upsert" => \A l \in relevant : On(l) \cap fresh = {}
  /\ pc = "plan" => \A l \in links : On(l) \cap fresh \subseteq batch

\* An interface is of a link that the pod has.
IfsOK == \A p \in Pods : ifs[p] \subseteq {l \in Links : p \in On(l)}

CountRight(p) == IsQemu(p) => counts[p] = Cardinality(spec[p])
PodRight(p)   == ifs[p] \subseteq spec[p] /\ (IsQemu(p) /\ p \in launched => guest[p] = spec[p])
LinkRight(l)  == \A q \in On(l) : l \in ifs[q]
Declares(l)   == \A q \in On(l) : l \in spec[q]

\* Whoever runs and is not wanted is on his way out; a pod's count is that of its CRD, its
\* interfaces and its guest's NICs are those of its CRD, unless it is going or owed a restart;
\* and a link that all its ends declare and none of whose ends is down, going or owed a
\* restart has all its interfaces.
WiredOK ==
  /\ running \ Wanted \subseteq stale
  /\ \A p \in Wanted \ (Behind \cup Leaving) : CountRight(p)
  /\ pc \in {"grow", "addsets"} => \A p \in batch : CountRight(p)
  /\ \A p \in (running \cap Wanted) \ (stale \cup Due \cup Leaving) : PodRight(p)
  /\ \A l \in Links : On(l) \subseteq running \ (stale \cup Due) /\ Declares(l) /\ ~ Pending(l) =>
       LinkRight(l)

\* Steps keep ApartOK.
LEMMA ApartStep ==
  ASSUME Control, DeclaredOK, ScaledOK, ApartOK, [Next]_vars
  PROVE  ApartOK'
<1> USE DEF Control
<1>a. UNCHANGED replicas => Wanted' = Wanted
  BY DEF Wanted
<1>b. /\ Wanted = {p \in Pods : p[2] < replicas[p[1]]}
      /\ Wanted' = {p \in Pods : p[2] < replicas'[p[1]]}
  BY WantedNow, WantedNext, TypeStep DEF TypeOK
<1>1. CASE Modify
  BY <1>1, <1>a DEF Modify, Goto, cluster, tables, dataplane, ApartOK, DeleteSteps, DownSteps,
         UpSteps, MidUp, PhaseOK, RequestOK
<1>2. CASE BeginDelete
  BY <1>2, <1>a DEF BeginDelete, Fault, Goto, Proceed, cluster, tables, dataplane, ApartOK,
         DeleteSteps, DownSteps, UpSteps, MidUp, PhaseOK, RequestOK
<1>3. CASE Unlink
  BY <1>3, <1>a DEF Unlink, Proceed, ApiError, Logged, Abort, dataplane, ApartOK, DeleteSteps,
         DownSteps, UpSteps, MidUp, PhaseOK, RequestOK
<1>4. CASE ListPeers
  BY <1>4, <1>a, Types DEF ListPeers, Proceed, ApiError, Abort, cluster, tables, dataplane,
         ApartOK, DeleteSteps, DownSteps, UpSteps, MidUp, PhaseOK, RequestOK
<1>5. CASE Detach
  BY <1>5, <1>a DEF Detach, Proceed, ApiError, Abort, tables, dataplane, Detached, ApartOK,
         DeleteSteps, DownSteps, UpSteps, MidUp, PhaseOK, RequestOK
<1>6. CASE DeleteSet
  BY <1>6, <1>a DEF DeleteSet, Proceed, ApiError, Abort, tables, ApartOK, DeleteSteps,
         DownSteps, UpSteps, MidUp, PhaseOK, RequestOK
<1>7. CASE DeleteTopologies
  BY <1>7, <1>a DEF DeleteTopologies, Proceed, ApiError, Abort, tables, dataplane, work,
         DropCRDs, ApartOK, DeleteSteps, DownSteps, UpSteps, MidUp, PhaseOK, RequestOK
<1>8. CASE DeleteMount
  <2>1. /\ UNCHANGED <<replicas, batch, fresh, links, phase, req>> /\ pc' \in {"delset", "delrows"}
        /\ fresh = {}
    BY <1>8 DEF DeleteMount, Proceed, Logged, work, ApartOK, DeleteSteps
  <2>2. ASSUME pc' = "delrows"
        PROVE  batch \cap Wanted = {}
    <3>1. req.delete \cap Existing = {} /\ \A p \in batch : p[1] \in req.delete
      BY <1>8, <2>2 DEF DeleteMount, Proceed, Logged, ScaledOK, PhaseOK, DeleteSteps
    <3> QED
      BY <3>1, <1>b, PodShape, Types, ModifyAssumption DEF Existing
  <2> QED
    BY <2>1, <2>2, <1>a DEF ApartOK, DeleteSteps, DownSteps, UpSteps, MidUp
<1>9. CASE DeleteRows
  BY <1>9, <1>a DEF DeleteRows, Proceed, ApiError, Logged, Abort, cluster, dataplane, ApartOK,
         DeleteSteps, DownSteps, UpSteps, MidUp, PhaseOK, RequestOK
<1>10. CASE BeginDown
  BY <1>10, <1>a DEF BeginDown, Proceed, cluster, tables, dataplane, ApartOK, DeleteSteps,
         DownSteps, UpSteps, MidUp, PhaseOK, RequestOK
<1>11. CASE DeleteOrphans
  BY <1>11, <1>a DEF DeleteOrphans, Proceed, ApiError, Abort, tables, dataplane, work, DropCRDs,
         ApartOK, DeleteSteps, DownSteps, UpSteps, MidUp, PhaseOK, RequestOK
<1>12. CASE ShrinkSet
  <2>1. CASE pc' = "forget"
    <3>1. /\ replicas' = [replicas EXCEPT ![node] = req.scale[node]]
          /\ UNCHANGED <<batch, fresh, links, phase, req>> /\ fresh = {}
          /\ node \in DOMAIN req.scale /\ batch = PodsOf(node, req.scale[node], replicas[node])
          /\ req.scale[node] < replicas[node]
      BY <1>12, <2>1 DEF ShrinkSet, Proceed, ApiError, Abort, PlanOK, PhaseOK, work, ApartOK,
             DownSteps
    <3>2. batch \cap Wanted' = {}
      BY <3>1, <1>b, PodsOfIs, PodShape, Types, ModifyAssumption
    <3> QED
      BY <2>1, <3>1, <3>2 DEF ApartOK, DeleteSteps, DownSteps, UpSteps, MidUp
  <2> QED
    BY <1>12, <2>1 DEF ShrinkSet, Proceed, ApiError, Abort, ApartOK, DeleteSteps, DownSteps,
           UpSteps, MidUp
<1>13. CASE ForgetOrphans
  BY <1>13, <1>a DEF ForgetOrphans, Proceed, ApiError, Abort, cluster, dataplane, ApartOK,
         DeleteSteps, DownSteps, UpSteps, MidUp, PhaseOK, RequestOK
<1>14. CASE BeginUp
  BY <1>14, <1>a DEF BeginUp, Proceed, cluster, tables, dataplane, ApartOK, DeleteSteps,
         DownSteps, UpSteps, MidUp, PhaseOK, RequestOK
<1>15. CASE CreateCRD
  <2>1. /\ UNCHANGED <<batch, fresh, links, phase, req, relevant>> /\ crds \subseteq crds'
        /\ pc' \in {"idle", "newcrds", "upsert"}
    BY <1>15 DEF CreateCRD, Proceed, ApiError, Abort
  <2>2. pc = "newcrds" /\ \A l \in links : On(l) \cap fresh = {}
    BY <1>15 DEF CreateCRD, ApartOK, UpSteps
  <2>3. ASSUME phase = "up"
        PROVE  /\ \A l \in req.links : On(l) \cap fresh # {} => On(l) \subseteq crds
               /\ relevant = {l \in req.links : On(l) \cap batch # {}}
               /\ \A l \in relevant : On(l) \cap (batch \ todo) # {} => On(l) \cap fresh = {}
    BY <2>2, <2>3 DEF ApartOK, MidUp
  <2>4. ASSUME phase = "up", pc' = "newcrds", NEW l \in relevant,
               On(l) \cap (batch \ todo') # {}
        PROVE  On(l) \cap fresh = {}
    <3>1. CASE \E p \in todo : p \notin crds /\ todo' = todo \ {p}
      BY <2>3, <2>4, <3>1
    <3>2. CASE todo' = todo
      BY <2>3, <2>4, <3>2
    <3> QED
      BY <1>15, <2>4, <3>1, <3>2 DEF CreateCRD, Proceed, ApiError, Abort
  <2>5. ASSUME pc' = "upsert", NEW l \in relevant
        PROVE  On(l) \cap fresh = {}
    <3>1. todo = {}
      BY <1>15, <2>5 DEF CreateCRD, Proceed, ApiError, Abort
    <3>2. CASE phase = "up"
      BY <2>3, <2>5, <3>1, <3>2
    <3>3. CASE phase = "add"
      BY <2>2, <2>5, <3>3 DEF ScaledOK
    <3> QED
      BY <2>2, <3>2, <3>3 DEF PhaseOK
  <2> QED
    BY <2>1, <2>2, <2>3, <2>4, <2>5 DEF ApartOK, DeleteSteps, DownSteps, UpSteps, MidUp
<1>16. CASE Upsert
  BY <1>16, <1>a DEF Upsert, Proceed, ApiError, Abort, tables, dataplane, ApartOK, DeleteSteps,
         DownSteps, UpSteps, MidUp, PhaseOK, RequestOK
<1>17. CASE PublishCounts
  BY <1>17, <1>a DEF PublishCounts, Proceed, Logged, tables, dataplane, work, ApartOK,
         DeleteSteps, DownSteps, UpSteps, MidUp, PhaseOK, RequestOK
<1>18. CASE GrowSet
  <2>1. CASE pc' = "up"
    <3>1. /\ fresh' = fresh \cup batch /\ links' = links \ relevant
          /\ UNCHANGED <<batch, phase, req, relevant, crds, spec>> /\ pc = "grow" /\ phase = "up"
      BY <1>18, <2>1 DEF GrowSet, Proceed, ApiError, Abort, PhaseOK
    <3>2. /\ \A l \in links : On(l) \cap fresh = {}
          /\ \A l \in req.links : On(l) \cap fresh # {} => On(l) \subseteq crds
          /\ relevant = {l \in req.links : On(l) \cap batch # {}}
      BY <3>1 DEF ApartOK, UpSteps, MidUp
    <3>3. \A l \in relevant : On(l) \subseteq crds
      <4>1. \A l \in relevant : On(l) \subseteq Pods
        BY Types DEF TypeOK
      <4> QED
        BY <3>1, <4>1 DEF DeclaredOK, TypeOK
    <3>4. links \subseteq req.links
      BY DEF RequestOK
    <3> QED
      BY <2>1, <3>1, <3>2, <3>3, <3>4 DEF ApartOK, DeleteSteps, DownSteps, UpSteps, MidUp
  <2> QED
    BY <1>18, <2>1 DEF GrowSet, Proceed, ApiError, Abort, ApartOK, DeleteSteps, DownSteps, UpSteps,
           MidUp
<1>19. CASE BeginAdd
  BY <1>19, <1>a DEF BeginAdd, Fault, Proceed, Abort, cluster, tables, dataplane, ApartOK,
         DeleteSteps, DownSteps, UpSteps, MidUp, PhaseOK, RequestOK
<1>20. CASE AddMounts
  BY <1>20, <1>a DEF AddMounts, Proceed, ApiError, Abort, tables, dataplane, ApartOK,
         DeleteSteps, DownSteps, UpSteps, MidUp, PhaseOK, RequestOK
<1>21. CASE AddSets
  BY <1>21, <1>a DEF AddSets, Proceed, ApiError, Abort, tables, dataplane, ApartOK, DeleteSteps,
         DownSteps, UpSteps, MidUp, PhaseOK, RequestOK
<1>22. CASE PlanRestarts
  BY <1>22, <1>a DEF PlanRestarts, Proceed, Logged, tables, dataplane, ApartOK, DeleteSteps,
         DownSteps, UpSteps, MidUp, PhaseOK, RequestOK
<1>23. CASE RestartPod \/ WaitReady \/ Replay \/ Heal \/ HealWait \/ SaveAttributes \/
       SyncRegistry \/ Answer
  <2>1. CASE RestartPod \/ WaitReady \/ Replay
    BY <2>1, <1>a DEF RestartPod, WaitReady, Replay, Proceed, ApiError, Logged, Abort, cluster,
           tables, dataplane, work, ApartOK, DeleteSteps, DownSteps, UpSteps, MidUp, PhaseOK,
           RequestOK
  <2>2. CASE Heal \/ HealWait \/ SaveAttributes
    BY <2>2, <1>a DEF Heal, HealWait, SaveAttributes, Proceed, ApiError, Logged, Abort, cluster,
           tables, dataplane, work, ApartOK, DeleteSteps, DownSteps, UpSteps, MidUp, PhaseOK,
           RequestOK
  <2>3. CASE SyncRegistry \/ Answer
    BY <2>3, <1>a DEF SyncRegistry, Answer, Proceed, ApiError, Logged, Abort, cluster, tables,
           dataplane, work, ApartOK, DeleteSteps, DownSteps, UpSteps, MidUp, PhaseOK, RequestOK
  <2> QED
    BY <1>23, <2>1, <2>2, <2>3
<1>24. CASE PodStart \/ Launch \/ PodStop \/ Configure
  <2>1. CASE PodStart \/ Launch
    BY <2>1, <1>a DEF PodStart, Launch, Fault, cluster, tables, dataplane, work, ApartOK,
           DeleteSteps, DownSteps, UpSteps, MidUp, PhaseOK, RequestOK
  <2>2. CASE PodStop \/ Configure
    BY <2>2, <1>a DEF PodStop, Configure, Fault, cluster, tables, dataplane, work, ApartOK,
           DeleteSteps, DownSteps, UpSteps, MidUp, PhaseOK, RequestOK
  <2> QED
    BY <1>24, <2>1, <2>2
<1>25. CASE UNCHANGED vars
  BY <1>25, <1>a DEF vars, cluster, tables, dataplane, work, ApartOK, DeleteSteps, DownSteps,
         UpSteps, MidUp, PhaseOK, RequestOK
<1> QED
  BY <1>1, <1>2, <1>3, <1>4, <1>5, <1>6, <1>7, <1>8, <1>9, <1>10, <1>11, <1>12, <1>13,
     <1>14, <1>15, <1>16, <1>17, <1>18, <1>19, <1>20, <1>21, <1>22, <1>23, <1>24, <1>25 DEF
     Next, Handler, World

\* Only a pod that comes or goes changes interfaces.
LEMMA IfsChange ==
  ASSUME [Next]_vars
  PROVE  UNCHANGED ifs \/ (\E P : Stop(P)) \/ PodStart
  BY DEF Next, Handler, World, vars, cluster, tables, dataplane, work, Modify, BeginDelete,
         Unlink, ListPeers, Detach, DeleteSet, DeleteTopologies, DeleteMount, DeleteRows,
         BeginDown, DeleteOrphans, ShrinkSet, ForgetOrphans, BeginUp, CreateCRD, Upsert,
         PublishCounts, GrowSet, BeginAdd, AddMounts, AddSets, PlanRestarts, RestartPod, WaitReady,
         Replay, Heal, HealWait, SaveAttributes, SyncRegistry, Answer, Launch, PodStop, Configure

\* Steps keep IfsOK.
LEMMA IfsStep ==
  ASSUME Control, ScaledOK, IfsOK, [Next]_vars
  PROVE  IfsOK'
<1>1. CASE UNCHANGED ifs
  BY <1>1 DEF IfsOK
<1>2. ASSUME NEW P, Stop(P)
      PROVE  IfsOK'
  BY <1>2 DEF Stop, IfsOK
<1>3. CASE PodStart
  <2>1. PICK p \in Wanted \ running :
          ifs' = [q \in Pods |->
                    LET wires == {l \in spec[p] :
                                    \A o \in Peers(l, p) : o \in running /\ l \in spec[o]}
                    IN  IF q = p THEN wires ELSE ifs[q] \cup LinksOf(q, wires)]
    BY <1>3 DEF PodStart
  <2>2. p \in Pods /\ spec[p] \subseteq Links /\ \A l \in spec[p] : p \in On(l)
    BY WantedNow DEF Control, TypeOK, ScaledOK
  <2> QED
    BY <2>1, <2>2 DEF IfsOK, LinksOf
<1> QED
  BY <1>1, <1>2, <1>3, IfsChange

\* The pods that a scale-up or the add creates are not wanted yet.
LEMMA BatchIsNew ==
  ASSUME Control, ScaledOK, LinksOK, pc \in MidUp \/ pc = "addmounts"
  PROVE  batch \cap Wanted = {}
<1> USE DEF Control
<1>1. CASE phase = "up" /\ pc \in MidUp
  <2>1. node \in DOMAIN req.scale /\ batch = PodsOf(node, replicas[node], req.scale[node])
    BY <1>1 DEF PlanOK, MidUp
  <2>2. node \in Nodes /\ replicas[node] \in Nat /\ req.scale[node] \in 0 .. MaxReplicas
    BY <2>1, Types, ModifyAssumption
  <2>3. \A p \in batch : ~ (p[2] < replicas[p[1]])
    BY <2>1, <2>2, PodsOfIs, PodShape, ModifyAssumption
  <2> QED
    BY <2>3, WantedNow DEF TypeOK
<1>2. CASE phase = "add"
  <2>1. /\ batch = UNION {PodsOf(n, 0, 1) : n \in req.add} /\ \A n \in req.add : replicas[n] = 0
        /\ req.add \subseteq Nodes
    BY <1>2, Types DEF LinksOK, ScaledOK, MidUp, PhaseOK
  <2>2. \A n \in req.add : \A p \in PodsOf(n, 0, 1) : ~ (p[2] < replicas[p[1]])
    BY <2>1 DEF PodsOf
  <2> QED
    BY <2>1, <2>2, WantedNow DEF TypeOK
<1> QED
  BY <1>1, <1>2 DEF PhaseOK, MidUp

\* A step of the request by itself: neither pods nor counts change, nor CRDs but those
\* of P, whose pods are owed a restart, or leave with no link, or are not wanted; and
\* whoever is owed a restart still is, unless it goes.
QuietBut(P) ==
  /\ UNCHANGED <<replicas, counts, dataplane>>
  /\ \A p \in Pods \ P : spec'[p] = spec[p]
  /\ \A p \in P \cap Wanted : p \in Behind' \cap Due' \/ (p \in Leaving' /\ spec'[p] = {})
  /\ (Behind \cup Leaving) \cap Wanted \subseteq Behind' \cup Leaving'
  /\ Due \cap Wanted \subseteq Due'
  /\ (Due \cup Leaving) \cap Wanted \subseteq Due' \cup Leaving'
  /\ \A l \in Links : Pending(l) => Pending(l)'
  /\ pc' \in {"grow", "addsets"} => P = {} /\ \A p \in batch' : CountRight(p)

\* Such a step keeps WiredOK.
LEMMA WiredQuiet ==
  ASSUME NEW P, Control, TypeOK', WiredOK, QuietBut(P)
  PROVE  WiredOK'
<1> USE DEF QuietBut
<1>1. /\ Wanted' = Wanted /\ Wanted \subseteq Pods /\ running \subseteq Pods
      /\ batch' \subseteq Pods
      /\ UNCHANGED <<counts, running, stale, ifs, guest, launched>>
      /\ \A l \in Links : On(l) \subseteq Pods
  BY WantedNow, OnPods DEF Wanted, dataplane, Control, TypeOK
<1>2. \A p \in Pods \ P : CountRight(p)' = CountRight(p) /\ PodRight(p)' = PodRight(p)
  BY <1>1 DEF CountRight, PodRight
<1>3. (running \ Wanted \subseteq stale)'
  BY <1>1 DEF WiredOK
<1>4. \A p \in Wanted' \ (Behind' \cup Leaving') : CountRight(p)'
  BY <1>1, <1>2 DEF WiredOK
<1>5. \A p \in (running' \cap Wanted') \ (stale' \cup Due' \cup Leaving') : PodRight(p)'
  BY <1>1, <1>2 DEF WiredOK
<1>6. ASSUME NEW l \in Links, On(l) \subseteq running' \ (stale' \cup Due'), Declares(l)',
             ~ Pending(l)'
      PROVE  LinkRight(l)'
  <2>1. On(l) \subseteq Wanted
    BY <1>1, <1>6 DEF WiredOK
  <2>2. On(l) \cap P = {}
    BY <1>6, <2>1 DEF Declares
  <2>3. Declares(l)
    BY <1>1, <1>6, <2>2 DEF Declares
  <2>4. On(l) \subseteq running \ (stale \cup Due) /\ ~ Pending(l)
    BY <1>1, <1>6, <2>1
  <2>5. LinkRight(l)
    BY <2>3, <2>4 DEF WiredOK
  <2> QED
    BY <1>1, <2>5 DEF LinkRight
<1>7. (pc \in {"grow", "addsets"} => \A p \in batch : CountRight(p))'
  BY <1>1, <1>2
<1> QED
  BY <1>3, <1>4, <1>5, <1>6, <1>7 DEF WiredOK

\* Pods that go take along interfaces of their own links only.
LEMMA WiredStop ==
  ASSUME NEW P \in SUBSET Pods, Stop(P), WiredOK, IfsOK, Control, ScaledOK,
         UNCHANGED <<replicas, spec, counts>>,
         (Behind \cup Leaving) \cap Wanted \subseteq Behind' \cup Leaving',
         Due \ P \subseteq Due',
         (Due \cup Leaving) \ P \subseteq Due' \cup Leaving',
         \A l \in Links : Pending(l) => Pending(l)',
         pc' \in {"grow", "addsets"} => pc = pc' /\ UNCHANGED batch
  PROVE  WiredOK'
<1>1. /\ Wanted' = Wanted /\ \A p : CountRight(p)' = CountRight(p)
      /\ \A l : Declares(l)' = Declares(l)
  BY DEF Wanted, CountRight, Declares
<1>2. running' = running \ P /\ stale' = stale \ P /\ launched' = launched \ P
  BY DEF Stop
<1>3. \A q \in Pods \ P : /\ guest'[q] = guest[q] /\ ifs'[q] \subseteq ifs[q]
                          /\ \A l \in ifs[q] \ ifs'[q] : On(l) \cap P # {}
  <2>1. PICK lost \in {{}, UNION {ifs[p] : p \in P}} :
          ifs' = [p \in Pods |-> IF p \in P THEN {} ELSE ifs[p] \ lost]
    BY DEF Stop
  <2>2. \A l \in lost : On(l) \cap P # {}
    BY DEF IfsOK
  <2> QED
    BY <2>1, <2>2 DEF Stop
<1>4. running \subseteq Pods
  BY DEF Control, TypeOK
<1>5. (running \ Wanted \subseteq stale)'
  BY <1>1, <1>2 DEF WiredOK
<1>6. \A p \in Wanted' \ (Behind' \cup Leaving') : CountRight(p)'
  BY <1>1 DEF WiredOK
<1>7. ASSUME NEW p \in (running' \cap Wanted') \ (stale' \cup Due' \cup Leaving')
      PROVE  PodRight(p)'
  <2>1. p \in Pods \ P /\ p \in (running \cap Wanted) \ (stale \cup Due \cup Leaving)
    BY <1>1, <1>2, <1>4
  <2>2. PodRight(p)
    BY <2>1 DEF WiredOK
  <2> QED
    BY <1>2, <1>3, <2>1, <2>2 DEF PodRight
<1>8. ASSUME NEW l \in Links, On(l) \subseteq running' \ (stale' \cup Due'), Declares(l),
             ~ Pending(l)'
      PROVE  LinkRight(l)'
  <2>1. On(l) \subseteq running \ (stale \cup Due) /\ On(l) \cap P = {}
    BY <1>2, <1>8
  <2>2. LinkRight(l)
    BY <1>8, <2>1 DEF WiredOK
  <2> QED
    BY <1>3, <1>4, <2>1, <2>2 DEF LinkRight
<1>9. (pc \in {"grow", "addsets"} => \A p \in batch : CountRight(p))'
  BY <1>1 DEF WiredOK
<1> QED
  BY <1>1, <1>5, <1>6, <1>7, <1>8, <1>9 DEF WiredOK

\* A pod that starts is given every link that all its ends declare.
LEMMA WiredStart ==
  ASSUME Control, ScaledOK, IfsOK, WiredOK, PodStart
  PROVE  WiredOK'
<1> USE DEF Control
<1>1. PICK p \in Wanted \ running :
        LET wires == {l \in spec[p] : \A q \in Peers(l, p) : q \in running /\ l \in spec[q]}
        IN  /\ running' = running \cup {p}
            /\ ifs' = [q \in Pods |-> IF q = p THEN wires ELSE ifs[q] \cup LinksOf(q, wires)]
            /\ UNCHANGED <<stale, guest, launched, cluster, tables, pc, req, work, dirty, left>>
  BY DEF PodStart
<1> DEFINE wires == {l \in spec[p] : \A q \in Peers(l, p) : q \in running /\ l \in spec[q]}
<1>2. /\ running' = running \cup {p} /\ p \in Pods /\ p \notin stale \cup launched
      /\ ifs' = [q \in Pods |-> IF q = p THEN wires ELSE ifs[q] \cup LinksOf(q, wires)]
      /\ UNCHANGED <<replicas, spec, counts, stale, guest, launched, pc, work>>
      /\ running \subseteq Pods /\ Wanted \subseteq Pods
  BY <1>1, WantedNow DEF TypeOK, cluster
<1>3. \A l \in wires : \A q \in On(l) : l \in spec[q]
  BY DEF Peers
<1>4. /\ Wanted' = Wanted /\ \A q : CountRight(q)' = CountRight(q)
      /\ \A l : Declares(l)' = Declares(l)
  BY <1>2 DEF Wanted, CountRight, Declares
<1>5. /\ Behind' = Behind /\ Leaving' = Leaving /\ Due' = Due
      /\ \A l : Pending(l)' = Pending(l) /\ UNCHANGED batch
  BY <1>2 DEF work, Behind, Leaving, Due, Pending, RestartSet
<1>6. ASSUME NEW q \in (running' \cap Wanted') \ (stale' \cup Due' \cup Leaving')
      PROVE  PodRight(q)'
  <2>1. CASE q = p
    BY <1>2, <2>1 DEF PodRight
  <2>2. CASE q # p
    <3>1. PodRight(q) /\ q \in Pods
      BY <1>2, <1>4, <1>5, <1>6, <2>2 DEF WiredOK
    <3>2. ifs'[q] = ifs[q] \cup LinksOf(q, wires) /\ LinksOf(q, wires) \subseteq spec[q]
      BY <1>2, <1>3, <2>2, <3>1 DEF LinksOf
    <3> QED
      BY <1>2, <3>1, <3>2 DEF PodRight
  <2> QED
    BY <2>1, <2>2
<1>7. ASSUME NEW l \in Links, On(l) \subseteq running' \ (stale' \cup Due'), Declares(l),
             ~ Pending(l)
      PROVE  LinkRight(l)'
  <2>1. On(l) \subseteq Pods
    BY OnPods
  <2>2. CASE p \in On(l)
    <3>1. l \in wires
      BY <1>2, <1>7, <2>2 DEF Declares, Peers
    <3> HIDE DEF wires
    <3> QED
      BY <1>2, <2>1, <3>1 DEF LinkRight, LinksOf
  <2>3. CASE p \notin On(l)
    <3>1. LinkRight(l)
      BY <1>2, <1>5, <1>7, <2>3 DEF WiredOK
    <3> HIDE DEF wires
    <3> QED
      BY <1>2, <2>1, <2>3, <3>1 DEF LinkRight
  <2> QED
    BY <2>2, <2>3
<1>8. (running \ Wanted \subseteq stale)'
  BY <1>1, <1>2, <1>4 DEF WiredOK
<1>9. \A q \in Wanted' \ (Behind' \cup Leaving') : CountRight(q)'
  BY <1>4, <1>5 DEF WiredOK
<1>10. (pc \in {"grow", "addsets"} => \A q \in batch : CountRight(q))'
  BY <1>2, <1>4, <1>5 DEF WiredOK
<1> QED
  BY <1>4, <1>5, <1>6, <1>7, <1>8, <1>9, <1>10 DEF WiredOK

\* A guest that starts with as many interfaces as its pod has links has those of its links.
LEMMA WiredLaunch ==
  ASSUME Control, WiredOK, Launch
  PROVE  WiredOK'
<1> USE DEF Control
<1>1. PICK p \in running \ launched :
        /\ IsQemu(p) /\ (counts[p] # NoCount => Cardinality(ifs[p]) >= counts[p])
        /\ launched' = launched \cup {p} /\ guest' = [guest EXCEPT ![p] = ifs[p]]
        /\ UNCHANGED <<running, stale, ifs, cluster, tables, pc, req, work, dirty, left>>
  BY DEF Launch
<1>2. /\ UNCHANGED <<replicas, spec, counts, running, stale, ifs, pc, work>>
      /\ guest \in [Pods -> SUBSET Links] /\ running \subseteq Pods
  BY <1>1 DEF cluster, TypeOK
<1>3. /\ Wanted' = Wanted /\ \A q : CountRight(q)' = CountRight(q)
      /\ \A l : LinkRight(l)' = LinkRight(l) /\ Declares(l)' = Declares(l)
  BY <1>2 DEF Wanted, CountRight, LinkRight, Declares
<1>4. /\ Behind' = Behind /\ Leaving' = Leaving /\ Due' = Due /\ (Behind \subseteq Due)
      /\ \A l : Pending(l)' = Pending(l) /\ UNCHANGED batch
  BY <1>2 DEF work, Behind, Leaving, Due, Pending, RestartSet
<1>5. ASSUME NEW q \in (running' \cap Wanted') \ (stale' \cup Due' \cup Leaving')
      PROVE  PodRight(q)'
  <2>1. q \in Pods /\ PodRight(q) /\ CountRight(q)
    BY <1>2, <1>3, <1>4, <1>5 DEF WiredOK
  <2>2. CASE q # p
    BY <1>1, <1>2, <2>1, <2>2 DEF PodRight
  <2>3. CASE q = p
    <3>1. spec[q] \subseteq Links /\ ifs[q] \subseteq spec[q] /\ counts[q] = Cardinality(spec[q])
      BY <1>1, <2>1, <2>3 DEF PodRight, CountRight, TypeOK
    <3>2. IsFiniteSet(spec[q]) /\ Cardinality(spec[q]) \in Nat
      BY <3>1, StartAssumption, FS_Subset, FS_CardinalityType
    <3>3. Cardinality(ifs[q]) >= Cardinality(spec[q])
      BY <1>1, <2>3, <3>1, <3>2, ModifyAssumption
    <3>4. ifs[q] = spec[q]
      <4>1. /\ IsFiniteSet(ifs[q]) /\ Cardinality(ifs[q]) <= Cardinality(spec[q])
            /\ Cardinality(spec[q]) = Cardinality(ifs[q]) => spec[q] = ifs[q]
        BY <3>1, <3>2, FS_Subset
      <4>2. Cardinality(ifs[q]) \in Nat
        BY <4>1, FS_CardinalityType
      <4> QED
        BY <3>2, <3>3, <4>1, <4>2
    <3> QED
      BY <1>1, <1>2, <2>1, <2>3, <3>4 DEF PodRight
  <2> QED
    BY <2>2, <2>3
<1>6. (running \ Wanted \subseteq stale)'
  BY <1>2, <1>3 DEF WiredOK
<1>7. \A q \in Wanted' \ (Behind' \cup Leaving') : CountRight(q)'
  BY <1>3, <1>4 DEF WiredOK
<1>8. (pc \in {"grow", "addsets"} => \A q \in batch : CountRight(q))'
  BY <1>2, <1>3, <1>4 DEF WiredOK
<1>9. \A l \in Links :
        On(l) \subseteq running' \ (stale' \cup Due') /\ Declares(l)' /\ ~ Pending(l)' =>
          LinkRight(l)'
  BY <1>2, <1>3, <1>4 DEF WiredOK
<1> QED
  BY <1>5, <1>6, <1>7, <1>8, <1>9 DEF WiredOK

\* A step in which no call fails keeps WiredOK.
LEMMA WiredStep ==
  ASSUME Control, LinksOK, HistoryOK, DeclaredOK, ScaledOK, ApartOK, IfsOK, CRDsAsWanted, WiredOK,
         "lag" \notin Faults, ~ dirty, ~ dirty', [Next]_vars
  PROVE  WiredOK'
<1> USE DEF Control
<1>a. UNCHANGED replicas => Wanted' = Wanted
  BY DEF Wanted
<1>b. /\ Wanted = {p \in Pods : p[2] < replicas[p[1]]}
      /\ Wanted' = {p \in Pods : p[2] < replicas'[p[1]]}
  BY WantedNow, WantedNext, TypeStep DEF TypeOK
<1>c. TypeOK'
  BY TypeStep
<1>1. CASE Modify
  <2>1. QuietBut({})
    BY <1>1, <1>a DEF Modify, Goto, cluster, tables, QuietBut, Behind, Leaving, Due, Pending,
           RestartSet, PhaseOK, ApartOK
  <2> QED
    BY <2>1, <1>c, WiredQuiet
<1>2. CASE BeginDelete
  <2>1. QuietBut({})
    BY <1>2, <1>a DEF BeginDelete, Fault, Goto, Proceed, cluster, tables, QuietBut, Behind,
           Leaving, Due, Pending, RestartSet, PhaseOK, ApartOK
  <2> QED
    BY <2>1, <1>c, WiredQuiet
<1>3. CASE Unlink
  <2>1. /\ UNCHANGED <<replicas, counts, dataplane, ifQemu, fresh, batch, phase>> /\ fresh = {}
        /\ phase = "delete" /\ pc = "unlink"
    BY <1>3 DEF Unlink, PhaseOK, ApartOK, DeleteSteps
  <2>2. ASSUME NEW p \in todo, pc' = pc, spec' = [spec EXCEPT ![p] = @ \ req.delLinks],
               always' = always \cup (IF spec[p] \cap req.delLinks # {} THEN {p} ELSE {})
        PROVE  WiredOK'
    <3>1. \A q \in Pods : spec'[q] = IF q = p THEN spec[q] \ req.delLinks ELSE spec[q]
      BY <2>2 DEF RequestOK, TypeOK
    <3>2. CASE spec[p] \cap req.delLinks = {}
      <4>1. QuietBut({})
        BY <2>1, <2>2, <3>1, <3>2 DEF QuietBut, Behind, Leaving, Due, Pending, RestartSet
      <4> QED
        BY <4>1, <1>c, WiredQuiet
    <3>3. CASE spec[p] \cap req.delLinks # {}
      <4>1. QuietBut({p})
        BY <2>1, <2>2, <3>1, <3>3 DEF QuietBut, Behind, Leaving, Due, Pending, RestartSet
      <4> QED
        BY <4>1, <1>c, WiredQuiet
    <3> QED
      BY <3>2, <3>3
  <2>3. ASSUME UNCHANGED <<spec, always>>, pc' = "list"
        PROVE  WiredOK'
    <3>1. QuietBut({})
      BY <2>1, <2>3 DEF QuietBut, Behind, Leaving, Due, Pending, RestartSet
    <3> QED
      BY <3>1, <1>c, WiredQuiet
  <2> QED
    BY <1>3, <2>2, <2>3 DEF Unlink, Proceed, ApiError, Abort, Logged
<1>4. CASE ListPeers
  <2>1. QuietBut({})
    BY <1>4, <1>a DEF ListPeers, Proceed, ApiError, Abort, cluster, tables, QuietBut, Behind,
           Leaving, Due, Pending, RestartSet, PhaseOK
  <2> QED
    BY <2>1, <1>c, WiredQuiet
<1>5. CASE Detach
  <2>1. /\ UNCHANGED <<replicas, counts, dataplane, ifQemu, fresh, batch, phase>> /\ fresh = {}
        /\ phase \in {"delete", "down"} /\ pc = "detach"
    BY <1>5 DEF Detach, PhaseOK, ApartOK, DeleteSteps
  <2>2. ASSUME NEW p \in todo, pc' = pc, always' = always \cup {p},
               spec' = [spec EXCEPT ![p] = {l \in @ : Peers(l, p) \cap batch = {}}]
        PROVE  WiredOK'
    <3>1. \A q \in Pods \ {p} : spec'[q] = spec[q]
      BY <2>2 DEF TypeOK
    <3>2. QuietBut({p})
      BY <2>1, <2>2, <3>1 DEF QuietBut, Behind, Leaving, Due, Pending, RestartSet
    <3> QED
      BY <3>2, <1>c, WiredQuiet
  <2>3. ASSUME UNCHANGED <<spec, always>>, pc' = Detached
        PROVE  WiredOK'
    <3>1. QuietBut({})
      BY <2>1, <2>3 DEF QuietBut, Behind, Leaving, Due, Pending, RestartSet, Detached
    <3> QED
      BY <3>1, <1>c, WiredQuiet
  <2> QED
    BY <1>5, <2>2, <2>3 DEF Detach, Proceed, ApiError, Abort
<1>6. CASE DeleteSet
  <2>1. PICK n \in req.delete \cap Existing :
          replicas' = [replicas EXCEPT ![n] = 0] /\ stale' = stale \cup {p \in running : p[1] = n}
    BY <1>6 DEF DeleteSet, Proceed, ApiError, Abort
  <2>2. /\ UNCHANGED <<spec, counts, running, ifs, guest, launched, batch, phase, always, ifQemu,
                        fresh>>
        /\ pc = "delset" /\ pc' = "deltopo"
    BY <1>6 DEF DeleteSet, Proceed, ApiError, Abort
  <2>3. n \in Nodes /\ replicas \in [Nodes -> 0 .. MaxReplicas]
    BY <2>1, Types
  <2>4. Wanted' \subseteq Wanted /\ \A p \in Wanted \ Wanted' : p[1] = n
    BY <2>1, <2>3, <1>b, PodShape, ModifyAssumption
  <2>5. Behind' = Behind /\ Due' = Due /\ Leaving' = {} /\ Leaving = {} /\ \A l : ~ Pending(l)
    BY <1>6, <2>2 DEF Behind, Leaving, Due, Pending, RestartSet, DeleteSet, PhaseOK
  <2>6. \A p : CountRight(p)' = CountRight(p) /\ PodRight(p)' = PodRight(p)
    BY <2>2 DEF CountRight, PodRight
  <2>7. \A l : LinkRight(l)' = LinkRight(l) /\ Declares(l)' = Declares(l)
    BY <2>2 DEF LinkRight, Declares
  <2> QED
    BY <2>1, <2>2, <2>4, <2>5, <2>6, <2>7 DEF WiredOK
<1>7. CASE DeleteTopologies
  <2>1. PICK mine \in SUBSET batch : mine = {p \in batch : p[1] = node} /\ DropCRDs(mine)
    BY <1>7 DEF DeleteTopologies, Proceed, ApiError, Abort
  <2>2. \A p \in Wanted : p[1] # node
    BY <1>7, <1>b, PodShape, ModifyAssumption DEF DeleteTopologies, ScaledOK
  <2>3. UNCHANGED <<replicas, counts, dataplane, work>> /\ pc = "deltopo" /\ pc' = "delmount"
    BY <1>7 DEF DeleteTopologies, Proceed, ApiError, Abort
  <2>4. QuietBut(mine)
    BY <2>1, <2>2, <2>3 DEF DropCRDs, work, QuietBut, Behind, Leaving, Due, Pending, RestartSet
  <2> QED
    BY <2>4, <1>c, WiredQuiet
<1>8. CASE DeleteMount
  <2>1. QuietBut({})
    BY <1>8, <1>a DEF DeleteMount, Fault, Proceed, Logged, tables, work, QuietBut, Behind,
           Leaving, Due, Pending, RestartSet, PhaseOK
  <2> QED
    BY <2>1, <1>c, WiredQuiet
<1>9. CASE DeleteRows
  <2>1. QuietBut({})
    BY <1>9, <1>a DEF DeleteRows, Proceed, ApiError, Logged, Abort, cluster, QuietBut, Behind,
           Leaving, Due, Pending, RestartSet, PhaseOK, ApartOK
  <2> QED
    BY <2>1, <1>c, WiredQuiet
<1>10. CASE BeginDown
  <2>1. QuietBut({})
    BY <1>10, <1>a DEF BeginDown, Proceed, cluster, tables, QuietBut, Behind, Leaving, Due,
           Pending, RestartSet, PhaseOK
  <2> QED
    BY <2>1, <1>c, WiredQuiet
<1>11. CASE DeleteOrphans
  <2>1. /\ DropCRDs(batch) /\ UNCHANGED <<replicas, counts, dataplane, work>>
        /\ pc = "orphans" /\ pc' = "shrink"
    BY <1>11 DEF DeleteOrphans, Proceed, ApiError, Abort
  <2>2. batch \subseteq Pods
    BY DEF TypeOK
  <2>3. QuietBut(batch)
    BY <2>1, <2>2 DEF DropCRDs, work, QuietBut, Behind, Leaving, Due, Pending, RestartSet
  <2> QED
    BY <2>3, <1>c, WiredQuiet
<1>12. CASE ShrinkSet
  <2>1. /\ replicas' = [replicas EXCEPT ![node] = req.scale[node]]
        /\ stale' = stale \cup (running \cap batch) /\ pc = "shrink" /\ pc' = "forget"
        /\ UNCHANGED <<spec, counts, running, ifs, guest, launched, batch, phase, always, ifQemu,
                        fresh>>
    BY <1>12 DEF ShrinkSet, Proceed, ApiError, Abort, Fault, work
  <2>2. /\ node \in DOMAIN req.scale /\ req.scale[node] < replicas[node] /\ phase = "down"
        /\ batch = PodsOf(node, req.scale[node], replicas[node])
    BY <2>1 DEF PlanOK, PhaseOK
  <2>3. Wanted' = Wanted \ batch
    BY <2>1, <2>2, <1>b, PodsOfIs, PodShape, Types, ModifyAssumption
  <2>4. /\ Behind' = Behind /\ Due' = Due /\ Due = Behind /\ Leaving' = {} /\ Leaving = batch
        /\ \A l : ~ Pending(l)
    BY <2>1, <2>2 DEF Behind, Leaving, Due, Pending, RestartSet
  <2>5. \A p : CountRight(p)' = CountRight(p) /\ PodRight(p)' = PodRight(p)
    BY <2>1 DEF CountRight, PodRight
  <2>6. \A l : LinkRight(l)' = LinkRight(l) /\ Declares(l)' = Declares(l)
    BY <2>1 DEF LinkRight, Declares
  <2> QED
    BY <2>1, <2>3, <2>4, <2>5, <2>6 DEF WiredOK
<1>13. CASE ForgetOrphans
  <2>1. QuietBut({})
    BY <1>13, <1>a DEF ForgetOrphans, Proceed, ApiError, Abort, cluster, QuietBut, Behind,
           Leaving, Due, Pending, RestartSet, PhaseOK, ApartOK
  <2> QED
    BY <2>1, <1>c, WiredQuiet
<1>14. CASE BeginUp
  <2>1. QuietBut({})
    BY <1>14, <1>a DEF BeginUp, Proceed, cluster, tables, QuietBut, Behind, Leaving, Due,
           Pending, RestartSet, PhaseOK
  <2> QED
    BY <2>1, <1>c, WiredQuiet
<1>15. CASE CreateCRD
  <2>1. /\ UNCHANGED <<replicas, counts, dataplane, batch, phase, always, ifQemu, fresh, links>>
        /\ pc = "newcrds"
    BY <1>15 DEF CreateCRD
  <2>2. Wanted \subseteq crds
    BY <2>1 DEF CRDsAsWanted, MidUp, PhaseOK
  <2>3. ASSUME NEW p \in todo \ crds, pc' = pc, spec' = [spec EXCEPT ![p] = LinksOf(p, relevant)]
        PROVE  WiredOK'
    <3>1. \A q \in Pods \ {p} : spec'[q] = spec[q]
      BY <2>3 DEF TypeOK
    <3>2. p \notin Wanted
      BY <2>2
    <3>3. QuietBut({p})
      BY <2>1, <2>3, <3>1, <3>2 DEF QuietBut, Behind, Leaving, Due, Pending, RestartSet
    <3> QED
      BY <3>3, <1>c, WiredQuiet
  <2>4. ASSUME pc' = "upsert", UNCHANGED spec
        PROVE  WiredOK'
    <3>1. QuietBut({})
      BY <2>1, <2>4 DEF QuietBut, Behind, Leaving, Due, Pending, RestartSet
    <3> QED
      BY <3>1, <1>c, WiredQuiet
  <2> QED
    BY <1>15, <2>3, <2>4 DEF CreateCRD, Proceed, ApiError, Abort
<1>16. CASE Upsert
  <2>1. /\ UNCHANGED <<replicas, counts, dataplane, batch, phase, always, fresh, links>>
        /\ pc = "upsert"
    BY <1>16 DEF Upsert
  <2>2. batch \cap Wanted = {}
    BY <2>1, BatchIsNew DEF MidUp
  <2>3. ASSUME NEW p \in todo, pc' = pc, spec' = [spec EXCEPT ![p] = @ \cup LinksOf(p, relevant)],
               ifQemu' = ifQemu \cup (IF LinksOf(p, relevant) \subseteq spec[p] THEN {}
                                      ELSE {p} \ batch)
        PROVE  WiredOK'
    <3>1. p \in Pods /\ \A q \in Pods : spec'[q] = IF q = p THEN spec[q] \cup LinksOf(p, relevant)
                                                   ELSE spec[q]
      BY <2>3 DEF TypeOK, RequestOK
    <3>2. CASE LinksOf(p, relevant) \subseteq spec[p]
      <4>1. QuietBut({})
        BY <2>1, <2>3, <3>1, <3>2 DEF QuietBut, Behind, Leaving, Due, Pending, RestartSet
      <4> QED
        BY <4>1, <1>c, WiredQuiet
    <3>3. CASE p \in batch
      <4>1. QuietBut({p})
        BY <2>1, <2>2, <2>3, <3>1, <3>3 DEF QuietBut, Behind, Leaving, Due, Pending, RestartSet
      <4> QED
        BY <4>1, <1>c, WiredQuiet
    <3>4. CASE ~ (LinksOf(p, relevant) \subseteq spec[p]) /\ p \notin batch /\ IsQemu(p)
      <4>1. p \in ifQemu' /\ p \notin fresh
        BY <2>1, <2>3, <3>4 DEF ApartOK, LinksOf
      <4>2. QuietBut({p})
        BY <2>1, <2>3, <3>1, <3>4, <4>1 DEF QuietBut, Behind, Leaving, Due, Pending, RestartSet
      <4> QED
        BY <4>2, <1>c, WiredQuiet
    <3>5. CASE p \notin batch /\ ~ IsQemu(p)
      <4>1. Behind' = Behind /\ Due' = Due /\ Due = Behind /\ Leaving = {} /\ Leaving' = {}
        BY <2>1, <2>3, <3>5 DEF Behind, Leaving, Due, RestartSet
      <4>2. /\ Wanted' = Wanted /\ Wanted \subseteq Pods
            /\ UNCHANGED <<counts, running, stale, ifs, guest, launched>>
        BY <2>1, <1>a, <1>b DEF dataplane
      <4>3. \A q \in Pods : CountRight(q) => CountRight(q)'
        BY <3>1, <3>5, <4>2 DEF CountRight
      <4>4. \A q \in Pods : PodRight(q) => PodRight(q)'
        BY <3>1, <3>5, <4>2 DEF PodRight
      <4>5. ASSUME NEW l \in Links, On(l) \subseteq running' \ (stale' \cup Due'), Declares(l)',
                   ~ Pending(l)'
            PROVE  LinkRight(l)'
        <5>1. On(l) \subseteq Wanted /\ On(l) \cap batch = {}
          BY <2>2, <4>2, <4>5 DEF WiredOK
        <5>2. l \notin relevant
          <6>1. CASE phase = "up"
            BY <2>1, <4>5, <5>1, <6>1 DEF ApartOK, MidUp, RequestOK
          <6>2. CASE phase = "add"
            BY <2>1, <2>3, <4>5, <5>1, <6>2 DEF ScaledOK, Pending
          <6> QED
            BY <2>1, <6>1, <6>2 DEF PhaseOK
        <5>3. Declares(l)
          BY <3>1, <4>2, <4>5, <5>1, <5>2 DEF Declares, LinksOf
        <5>4. On(l) \subseteq running \ (stale \cup Due) /\ ~ Pending(l)
          BY <2>1, <2>3, <4>1, <4>2, <4>5 DEF Pending
        <5>5. LinkRight(l)
          BY <5>3, <5>4 DEF WiredOK
        <5> QED
          BY <4>2, <5>5 DEF LinkRight
      <4>6. pc' \notin {"grow", "addsets"}
        BY <2>1, <2>3
      <4>7. \A q \in Wanted' \ (Behind' \cup Leaving') : CountRight(q)'
        BY <4>1, <4>2, <4>3 DEF WiredOK
      <4>8. \A q \in (running' \cap Wanted') \ (stale' \cup Due' \cup Leaving') : PodRight(q)'
        BY <4>1, <4>2, <4>4 DEF WiredOK
      <4>9. (running \ Wanted \subseteq stale)'
        BY <4>2 DEF WiredOK
      <4> QED
        BY <4>5, <4>6, <4>7, <4>8, <4>9 DEF WiredOK
    <3> QED
      BY <3>2, <3>3, <3>4, <3>5
  <2>4. ASSUME pc' = "counts", UNCHANGED <<spec, ifQemu>>
        PROVE  WiredOK'
    <3>1. QuietBut({})
      BY <2>1, <2>4 DEF QuietBut, Behind, Leaving, Due, Pending, RestartSet
    <3> QED
      BY <3>1, <1>c, WiredQuiet
  <2> QED
    BY <1>16, <2>3, <2>4 DEF Upsert, Proceed, ApiError, Abort
<1>17. CASE PublishCounts
  <2>1. /\ UNCHANGED <<replicas, crds, spec, dataplane, work>> /\ pc = "counts"
        /\ pc' = IF phase = "up" THEN "grow" ELSE "addsets"
        /\ counts' = IF phase = "up" \/ req.add # {} THEN IfaceCounts ELSE counts
    BY <1>17 DEF PublishCounts, Proceed, Logged
  <2>2. phase \in {"up", "add"} /\ Wanted \cup batch \subseteq crds /\ batch \subseteq Pods
    BY <2>1 DEF CRDsAsWanted, MidUp, PhaseOK, TypeOK
  <2>3. CASE phase = "up" \/ req.add # {}
    <3>1. \A p \in crds : CountRight(p)'
      BY <2>1, <2>3 DEF CountRight, IfaceCounts, TypeOK
    <3>2. /\ Wanted' = Wanted /\ UNCHANGED <<running, stale, batch>>
          /\ \A p : PodRight(p)' = PodRight(p)
          /\ \A l : LinkRight(l)' = LinkRight(l) /\ Declares(l)' = Declares(l)
      BY <2>1, <1>a DEF dataplane, work, PodRight, LinkRight, Declares
    <3>3. /\ Due' = Due /\ Leaving = {} /\ Leaving' = {}
          /\ \A l : Pending(l) => Pending(l)'
      BY <2>1, <2>2 DEF work, Behind, Leaving, Due, Pending, RestartSet
    <3> QED
      BY <2>2, <3>1, <3>2, <3>3 DEF WiredOK
  <2>4. CASE phase = "add" /\ req.add = {}
    <3>1. batch = {}
      BY <2>1, <2>4 DEF LinksOK
    <3>2. QuietBut({})
      BY <2>1, <2>4, <3>1 DEF work, QuietBut, Behind, Leaving, Due, Pending, RestartSet
    <3> QED
      BY <3>2, <1>c, WiredQuiet
  <2> QED
    BY <2>2, <2>3, <2>4
<1>18. CASE GrowSet
  <2>1. /\ replicas' = [replicas EXCEPT ![node] = req.scale[node]]
        /\ fresh' = fresh \cup batch /\ pc = "grow" /\ pc' = "up" /\ phase = "up"
        /\ UNCHANGED <<spec, counts, dataplane, batch, phase, always, ifQemu>>
    BY <1>18 DEF GrowSet, Proceed, ApiError, Abort, PhaseOK
  <2>2. /\ node \in DOMAIN req.scale /\ req.scale[node] > replicas[node]
        /\ batch = PodsOf(node, replicas[node], req.scale[node])
    BY <2>1 DEF PlanOK
  <2>3. Wanted' = Wanted \cup batch
    BY <2>1, <2>2, <1>b, PodsOfIs, PodShape, Types, ModifyAssumption
  <2>4. batch \cap Wanted = {}
    BY <2>1, BatchIsNew DEF MidUp
  <2>5. /\ Behind \subseteq Behind' \cup batch /\ Due \subseteq Due' \cup batch
        /\ Leaving = {} /\ Leaving' = {} /\ \A l : ~ Pending(l)
    BY <2>1 DEF Behind, Leaving, Due, Pending, RestartSet
  <2>6. /\ \A p : CountRight(p)' = CountRight(p) /\ PodRight(p)' = PodRight(p)
        /\ UNCHANGED <<running, stale>>
    BY <2>1 DEF CountRight, PodRight, dataplane
  <2>7. \A l : LinkRight(l)' = LinkRight(l) /\ Declares(l)' = Declares(l)
    BY <2>1 DEF LinkRight, Declares, dataplane
  <2>8. \A p \in batch : CountRight(p)
    BY <2>1 DEF WiredOK
  <2>9. \A p \in running \ stale : p \in Wanted /\ p \notin batch
    BY <2>4 DEF WiredOK
  <2>10. \A p \in (running' \cap Wanted') \ (stale' \cup Due' \cup Leaving') : PodRight(p)'
    BY <2>5, <2>6, <2>9 DEF WiredOK
  <2>11. ASSUME NEW l \in Links, On(l) \subseteq running' \ (stale' \cup Due'), Declares(l)'
         PROVE  LinkRight(l)'
    <3>1. On(l) \subseteq running \ (stale \cup Due)
      BY <2>5, <2>6, <2>9, <2>11
    <3> QED
      BY <2>5, <2>7, <2>11, <3>1 DEF WiredOK
  <2>12. \A p \in Wanted' \ (Behind' \cup Leaving') : CountRight(p)'
    BY <2>3, <2>5, <2>6, <2>8 DEF WiredOK
  <2> QED
    BY <2>1, <2>3, <2>6, <2>10, <2>11, <2>12 DEF WiredOK
<1>19. CASE BeginAdd
  <2>1. /\ UNCHANGED <<replicas, spec, counts, dataplane, always, ifQemu, fresh, links>>
        /\ pc = "add"
        /\ \/ pc' = "plan" /\ UNCHANGED <<phase, batch>>
           \/ pc' = "addmounts" /\ AddValid /\ batch' = UNION {PodsOf(n, 0, 1) : n \in req.add}
    BY <1>19 DEF BeginAdd, Proceed, Abort, cluster
  <2>2. ASSUME pc' = "addmounts"
        PROVE  batch' \cap Wanted = {}
    <3>1. \A n \in req.add : replicas[n] = 0
      BY <2>1, <2>2, Types, ModifyAssumption DEF AddValid, Existing
    <3>2. \A n \in req.add : \A p \in PodsOf(n, 0, 1) : ~ (p[2] < replicas[p[1]])
      BY <3>1 DEF PodsOf
    <3> QED
      BY <2>1, <2>2, <3>2, <1>b
  <2>3. QuietBut({})
    BY <2>1, <2>2 DEF QuietBut, Behind, Leaving, Due, Pending, RestartSet
  <2> QED
    BY <2>3, <1>c, WiredQuiet
<1>20. CASE AddMounts
  <2>1. QuietBut({})
    BY <1>20, <1>a DEF AddMounts, Proceed, ApiError, Abort, tables, QuietBut, Behind, Leaving,
           Due, Pending, RestartSet, PhaseOK
  <2> QED
    BY <2>1, <1>c, WiredQuiet
<1>21. CASE AddSets
  <2>1. /\ UNCHANGED <<spec, counts, dataplane, batch, phase, always, ifQemu, links>>
        /\ pc = "addsets"
        /\ phase = "add" /\ batch = UNION {PodsOf(n, 0, 1) : n \in req.add}
        /\ \A p \in batch : CountRight(p)
    BY <1>21 DEF AddSets, LinksOK, PhaseOK, WiredOK
  <2>2. ASSUME NEW n \in req.add, replicas[n] = 0, replicas' = [replicas EXCEPT ![n] = 1],
               UNCHANGED <<fresh, pc>>
        PROVE  WiredOK'
    <3>1. Wanted \subseteq Wanted' /\ Wanted' \subseteq Wanted \cup batch
      <4>1. \A p \in Wanted' \ Wanted : p = <<n, 0>>
        BY <2>2, <1>b, PodShape, Types, ModifyAssumption
      <4>2. <<n, 0>> \in PodsOf(n, 0, 1)
        BY DEF PodsOf
      <4>3. Wanted \subseteq Wanted'
        BY <2>2, <1>b, PodShape, Types, ModifyAssumption
      <4> QED
        BY <2>1, <4>1, <4>2, <4>3
    <3>2. Behind' = Behind /\ Due' = Due /\ Leaving' = Leaving /\ \A l : Pending(l)' = Pending(l)
      BY <2>1, <2>2 DEF Behind, Leaving, Due, Pending, RestartSet
    <3>3. /\ \A p : CountRight(p)' = CountRight(p) /\ PodRight(p)' = PodRight(p)
          /\ UNCHANGED <<running, stale>>
      BY <2>1 DEF CountRight, PodRight, dataplane
    <3>4. \A l : LinkRight(l)' = LinkRight(l) /\ Declares(l)' = Declares(l)
      BY <2>1 DEF LinkRight, Declares, dataplane
    <3>5. \A p \in running \ stale : p \in Wanted
      BY DEF WiredOK
    <3>6. \A p \in (running' \cap Wanted') \ (stale' \cup Due' \cup Leaving') : PodRight(p)'
      BY <3>2, <3>3, <3>5 DEF WiredOK
    <3>7. \A p \in Wanted' \ (Behind' \cup Leaving') : CountRight(p)'
      BY <2>1, <3>1, <3>2, <3>3 DEF WiredOK
    <3> QED
      BY <2>1, <2>2, <3>1, <3>2, <3>3, <3>4, <3>6, <3>7 DEF WiredOK
  <2>3. ASSUME UNCHANGED replicas, fresh' = fresh \cup batch, pc' = "plan"
        PROVE  WiredOK'
    <3>1. QuietBut({})
      BY <2>1, <2>3 DEF QuietBut, Behind, Leaving, Due, Pending, RestartSet
    <3> QED
      BY <3>1, <1>c, WiredQuiet
  <2> QED
    BY <1>21, <2>2, <2>3 DEF AddSets, Proceed, ApiError, Abort
<1>22. CASE PlanRestarts
  <2>1. PICK C : EndpointsToRestart(RestartSet, C) /\ todo' = RestartSet \cup C
    BY <1>22 DEF PlanRestarts
  <2>2. /\ UNCHANGED <<replicas, crds, spec, dataplane>> /\ pc = "plan" /\ pc' = "restart"
        /\ counts' = IfaceCounts
    BY <1>22 DEF PlanRestarts, Proceed, Logged
  <2>3. /\ Wanted' = Wanted /\ UNCHANGED <<running, stale>>
        /\ \A p : PodRight(p)' = PodRight(p)
        /\ \A l : LinkRight(l)' = LinkRight(l) /\ Declares(l)' = Declares(l)
    BY <2>2, <1>a DEF dataplane, PodRight, LinkRight, Declares
  <2>4. Due \subseteq RestartSet /\ Due' = RestartSet \cup C /\ Leaving = {} /\ Leaving' = {}
    BY <2>1, <2>2 DEF Due, Behind, Leaving
  <2>5. \A p \in Wanted' : CountRight(p)'
    <3>1. Wanted = crds /\ crds \subseteq Pods
      BY <2>2 DEF CRDsAsWanted, LateSteps, TypeOK
    <3> QED
      BY <2>2, <2>3, <3>1 DEF CountRight, IfaceCounts
  <2>6. \A p \in (running' \cap Wanted') \ (stale' \cup Due' \cup Leaving') : PodRight(p)'
    BY <2>3, <2>4 DEF WiredOK
  <2>7. ASSUME NEW l \in Links, On(l) \subseteq running' \ (stale' \cup Due'), Declares(l)'
        PROVE  LinkRight(l)'
    <3>1. On(l) \subseteq running \ (stale \cup Due) /\ Declares(l)
      BY <2>3, <2>4, <2>7
    <3>2. CASE ~ Pending(l)
      BY <2>3, <3>1, <3>2 DEF WiredOK
    <3>3. CASE Pending(l)
      <4>1. l \in links /\ On(l) \cap fresh = {} /\ On(l) \cap RestartSet = {}
        BY <2>2, <2>4, <2>7, <3>3 DEF Pending, ApartOK
      <4>2. On(l) \cap C # {}
        BY <2>1, <4>1 DEF EndpointsToRestart
      <4> QED
        BY <2>4, <2>7, <4>2
    <3> QED
      BY <3>2, <3>3
  <2>8. (running \ Wanted \subseteq stale)' /\ pc' \notin {"grow", "addsets"}
    BY <2>2, <2>3 DEF WiredOK
  <2> QED
    BY <2>5, <2>6, <2>7, <2>8 DEF WiredOK
<1>23. CASE RestartPod \/ WaitReady \/ Replay \/ Heal \/ HealWait \/ SaveAttributes \/
       SyncRegistry \/ Answer
  <2>1. ASSUME NEW p \in todo, RestartPod, Stop({p}), todo' = todo \ {p}, UNCHANGED pc
        PROVE  WiredOK'
    <3>1. {p} \in SUBSET Pods
      BY DEF RequestOK
    <3>2. UNCHANGED <<replicas, spec, counts, batch>> /\ pc = "restart"
      BY <2>1 DEF RestartPod, cluster
    <3>3. /\ Behind = {} /\ Behind' = {} /\ Leaving = {} /\ Leaving' = {}
          /\ Due \ {p} \subseteq Due' /\ \A l : ~ Pending(l)
      BY <2>1, <3>2 DEF Behind, Leaving, Due, Pending
    <3> QED
      BY <2>1, <3>1, <3>2, <3>3, WiredStop
  <2>2. ASSUME NEW C \in SUBSET UNION {On(l) : l \in Missing}, Heal, Stop(C), pc' = "healwait"
        PROVE  WiredOK'
    <3>1. C \in SUBSET Pods
      BY OnPods DEF Missing, TypeOK
    <3>2. UNCHANGED <<replicas, spec, counts>> /\ pc = "heal"
      BY <2>2 DEF Heal, cluster
    <3>3. Due = {} /\ Leaving = {} /\ Behind = {} /\ \A l : ~ Pending(l)
      BY <3>2 DEF Behind, Leaving, Due, Pending
    <3> QED
      BY <2>2, <3>1, <3>2, <3>3, WiredStop
  <2>3. CASE /\ UNCHANGED <<replicas, spec, counts, dataplane>>
             /\ \/ pc \in {"wait", "replay", "heal", "healwait", "attributes", "sync", "ok"}
                \/ pc = "restart" /\ todo = {}
             /\ pc' \in {"idle", "wait", "replay", "heal", "healwait", "attributes", "sync", "ok"}
    <3>1. QuietBut({})
      BY <2>3 DEF QuietBut, Behind, Leaving, Due, Pending
    <3> QED
      BY <3>1, <1>c, WiredQuiet
  <2> QED
    BY <1>23, <2>1, <2>2, <2>3 DEF RestartPod, WaitReady, Replay, Heal, HealWait, SaveAttributes,
       SyncRegistry, Answer, Proceed, ApiError, Logged, Abort, cluster
<1>24. CASE PodStart \/ Launch \/ PodStop \/ Configure
  <2>1. CASE PodStart
    BY <2>1, WiredStart
  <2>2. CASE Launch
    BY <2>2, WiredLaunch
  <2>3. CASE PodStop
    <3>1. PICK p \in running : Stop({p})
      BY <2>3 DEF PodStop
    <3>2. UNCHANGED <<replicas, spec, counts, pc, work>>
      BY <2>3 DEF PodStop, cluster
    <3>3. /\ Behind' = Behind /\ Leaving' = Leaving /\ Due' = Due
          /\ \A l : Pending(l)' = Pending(l) /\ UNCHANGED batch
      BY <3>2 DEF work, Behind, Leaving, Due, Pending, RestartSet
    <3>4. {p} \in SUBSET Pods
      BY DEF TypeOK
    <3> QED
      BY <3>1, <3>2, <3>3, <3>4, WiredStop
  <2>4. CASE Configure
    <3>1. QuietBut({})
      BY <2>4 DEF Configure, cluster, work, QuietBut, Behind, Leaving, Due, Pending, RestartSet
    <3> QED
      BY <3>1, <1>c, WiredQuiet
  <2> QED
    BY <1>24, <2>1, <2>2, <2>3, <2>4
<1>25. CASE UNCHANGED vars
  <2>1. QuietBut({})
    BY <1>25 DEF vars, cluster, work, WiredOK, QuietBut, Behind, Leaving, Due, Pending, RestartSet
  <2> QED
    BY <2>1, <1>c, WiredQuiet
<1> QED
  BY <1>1, <1>2, <1>3, <1>4, <1>5, <1>6, <1>7, <1>8, <1>9, <1>10, <1>11, <1>12, <1>13,
     <1>14, <1>15, <1>16, <1>17, <1>18, <1>19, <1>20, <1>21, <1>22, <1>23, <1>24, <1>25 DEF
     Next, Handler, World

\* What the theorems below need, together.
WireOK == CRDsOK /\ ApartOK /\ IfsOK /\ (~ dirty => WiredOK)

\* The deployed topology satisfies it.
LEMMA WireInit ==
  ASSUME Init
  PROVE  WireOK
<1>1. CRDsOK
  BY CRDsInit
<1>2. /\ running = Wanted /\ ifs = spec /\ counts = IfaceCounts /\ crds = Wanted
      /\ \A p \in Pods : spec[p] = LinksOf(p, Start.links) /\ (IsQemu(p) => guest[p] = spec[p])
      /\ pc = "idle" /\ links = {} /\ fresh = {}
  BY DEF Init
<1>3. Wanted \subseteq Pods
  BY <1>1, WantedNow DEF CRDsOK, Control, TypeOK
<1>4. IfsOK
  BY <1>2, StartAssumption DEF IfsOK, LinksOf
<1>5. ApartOK
  BY <1>2 DEF ApartOK, DeleteSteps, DownSteps, UpSteps, MidUp
<1>6. \A p \in Wanted : CountRight(p) /\ PodRight(p)
  BY <1>2, <1>3 DEF CountRight, PodRight, IfaceCounts
<1>7. ASSUME NEW l \in Links, Declares(l)
      PROVE  LinkRight(l)
  BY <1>2, <1>7 DEF Declares, LinkRight
<1> QED
  BY <1>1, <1>2, <1>4, <1>5, <1>6, <1>7 DEF WireOK, WiredOK

\* Steps keep it, with the hypotheses of the theorems.
LEMMA WireStep ==
  ASSUME WireOK, ScaleLinksValid, "lag" \notin Faults, [Next]_vars
  PROVE  WireOK'
<1>1. CRDsOK'
  BY CRDsOKStep DEF WireOK
<1>2. ApartOK' /\ IfsOK'
  BY ApartStep, IfsStep DEF WireOK, CRDsOK
<1>3. ASSUME ~ dirty'
      PROVE  WiredOK'
  <2>1. ~ dirty
    BY <1>3, DirtyStays
  <2> QED
    BY <1>3, <2>1, WiredStep DEF WireOK, CRDsOK
<1> QED
  BY <1>1, <1>2, <1>3 DEF WireOK

\* When the modify answers, nobody is owed a restart.
LEMMA WiredAtAnswer ==
  ASSUME WireOK
  PROVE  WiredAsDeclared
<1> SUFFICES ASSUME pc = "ok", ~ dirty, running = Wanted, stale = {}, \A p \in Wanted : Ready(p),
                    NEW p \in Wanted
             PROVE  ifs[p] = spec[p] /\ (IsQemu(p) => guest[p] = spec[p])
  BY DEF WiredAsDeclared
<1>1. /\ crds = Wanted /\ Agreed(Links) /\ TypeOK /\ ScaledOK /\ WiredOK
      /\ Due = {} /\ Leaving = {} /\ \A l : ~ Pending(l)
  BY DEF WireOK, CRDsOK, Control, CRDsAsWanted, EndsAgree, DetachSteps, Due, Behind, Leaving,
         Pending
<1>2. p \in Pods /\ PodRight(p)
  BY <1>1, WantedNow DEF WiredOK, TypeOK
<1>3. ASSUME NEW l \in spec[p]
      PROVE  l \in ifs[p]
  <2>1. l \in Links /\ On(l) \subseteq Pods /\ p \in On(l)
    BY <1>1, <1>2, OnPods DEF TypeOK, ScaledOK
  <2>2. Declares(l)
    BY <1>1, <1>2, <2>1 DEF Agreed, Declares
  <2>3. On(l) \subseteq crds
    BY <1>1, <2>1, <2>2 DEF Declares, TypeOK
  <2>4. LinkRight(l)
    BY <1>1, <2>1, <2>2, <2>3 DEF WiredOK
  <2> QED
    BY <2>1, <2>4 DEF LinkRight
<1>4. IsQemu(p) => p \in launched
  BY DEF Ready
<1> QED
  BY <1>2, <1>3, <1>4 DEF PodRight

\* WiredAsDeclared is an invariant, under the hypothesis of ModifyLeavesCRDsAgreed and where
\* the controller ends the pods of a scale-down before their node grows again: once the pods
\* are up after a modify that no failure interrupted, each has the interfaces of its CRD's
\* links and no other, and a guest has a NIC for each, whichever pods were restarted, created,
\* replaced or died meanwhile.
THEOREM ModifyWires == ("lag" \notin Faults) => (Spec /\ []ScaleLinksValid => []WiredAsDeclared)
<1> SUFFICES ASSUME "lag" \notin Faults
             PROVE  Spec /\ []ScaleLinksValid => []WiredAsDeclared
  OBVIOUS
<1>1. Init => WireOK
  BY WireInit
<1>2. WireOK /\ ScaleLinksValid /\ [Next]_vars => WireOK'
  BY WireStep
<1>3. WireOK => WiredAsDeclared
  BY WiredAtAnswer
<1> QED
  BY <1>1, <1>2, <1>3, PTL DEF Spec

\* ModifyTakesEffect, all of it, under the same hypotheses: a modify that answers 200 with no
\* failure on the way has done what it was asked to, in the CRDs and in the pods.
THEOREM ModifyDoesAll == ("lag" \notin Faults) => (Spec /\ []ScaleLinksValid => []ModifyTakesEffect)
<1> SUFFICES ASSUME "lag" \notin Faults
             PROVE  Spec /\ []ScaleLinksValid => []ModifyTakesEffect
  OBVIOUS
<1>1. TypeOK /\ CRDsAgree /\ WiredAsDeclared => ModifyTakesEffect
  BY DEF ModifyTakesEffect
<1> QED
  BY <1>1, ModifyTypes, ModifyLeavesCRDsAgreed, ModifyWires, PTL

=============================================================================
