--------------------------- MODULE TopologyModify ---------------------------
(***************************************************************************)
(* ModifyNetwork on a deployed topology: delete, scale-down, scale-up and  *)
(* add, in that order, each of them a sequence of Kubernetes calls and SQL *)
(* statements that may stop half-way, then one phase that restarts pods,   *)
(* waits for them and wires the rest.  The request holds the operation     *)
(* lock (TopologyLifecycle), so requests come one at a time; the           *)
(* StatefulSet controller, Meshnet and pods that die interleave with it.   *)
(*                                                                         *)
(* A pod is <<node, ordinal>>.  A link is known by its name; Ends gives    *)
(* the interfaces <<pod, interface>> it joins, one for an external link.   *)
(***************************************************************************)
EXTENDS Integers, FiniteSets

CONSTANTS
  Nodes,        \* node names
  Qemu,         \* the nodes that run a guest under QEMU
  Links,        \* links of the namespace and of requests
  Ends,         \* Ends[l]: the interfaces of link l
  File,         \* File[n]: the file node n mounts
  NoCount,      \* the interface counts ConfigMap has no entry for a pod
  Start,        \* [replicas, links]: the topology as deployed
  Requests,     \* the requests that come
  Faults,       \* which of {"api", "loss", "list", "lag"} occur
  MaxReplicas,  \* types.MaxReplicas
  MaxRequests   \* bound: requests in a behaviour

Pods == Nodes \X (0 .. MaxReplicas - 1)

ASSUME ModifyAssumption ==
  /\ Qemu \subseteq Nodes /\ MaxReplicas \in Nat \ {0} /\ MaxRequests \in Nat
  /\ \A l \in Links : \A e \in Ends[l] : e[1] \in Pods
  /\ Faults \subseteq {"api", "loss", "list", "lag"} /\ NoCount \notin Nat

\* A request names nodes and links of the namespace.
ASSUME RequestAssumption ==
  \A r \in Requests :
    /\ r.delete \cup r.add \cup DOMAIN r.scale \subseteq Nodes
    /\ r.delLinks \cup r.links \cup r.attr \subseteq Links

\* The deployed topology: its links end at its pods (ValidateLinks of the deploy).
ASSUME StartAssumption ==
  /\ IsFiniteSet(Links) /\ Start.links \subseteq Links
  /\ Start.replicas \in [Nodes -> 0 .. MaxReplicas]
  /\ \A l \in Start.links : \A e \in Ends[l] : e[1][2] < Start.replicas[e[1][1]]

VARIABLES
  replicas,   \* each node's StatefulSet replicas, 0 when it has none
  crds,       \* pods that have a Topology CRD
  spec,       \* spec[p]: the links in it
  mounts,     \* files whose ConfigMap or Secret exists
  counts,     \* the interface counts ConfigMap: a number for each QEMU pod
  history,    \* pods with operations on record
  attrs,      \* links with a row in link_attributes
  registry,   \* links whose UID is in link_uid_registry
  running,    \* pods that run
  stale,      \* of these, pods on their way out: their StatefulSet was deleted or shrank
  ifs,        \* ifs[p]: links with an interface in pod p's network namespace
  guest,      \* guest[p]: links the guest of a QEMU pod has a NIC for
  launched,   \* QEMU pods whose guest runs
  pc,         \* where the request is
  req,        \* the request: delete, delLinks, scale, add, links, attr
  plans,      \* scale plans still to carry out in this direction
  node,       \* the node being scaled or deleted
  phase,      \* "delete", "down", "up" or "add"
  batch,      \* the pods this part of the phase removes or creates
  todo,       \* what the current loop still has to visit
  links,      \* request.Add.Links: the links that are left to add
  relevant,   \* links the current upsert writes
  always,     \* peersToRestartAlways
  ifQemu,     \* peersToRestartIfQemu
  fresh,      \* newPodsToWait
  restarts,   \* restartSet, then what the heal pass restarts
  rounds,     \* rounds of the heal pass so far
  dirty,      \* some call of a request failed, or a request was refused half-way
  left        \* requests still to come

cluster == <<replicas, crds, spec, mounts, counts>>
tables  == <<history, attrs, registry>>
dataplane == <<running, stale, ifs, guest, launched>>
work    == <<plans, node, phase, batch, todo, links, relevant, always, ifQemu, fresh, restarts,
             rounds>>
vars    == <<cluster, tables, dataplane, pc, req, work, dirty, left>>

PodsOf(n, from, to) == {<<n, i>> : i \in from .. to - 1}
On(l)          == {e[1] : e \in Ends[l]}
Peers(l, p)    == On(l) \ {p}
LinksOf(p, L)  == {l \in L : p \in On(l)}
\* GetExistingNodes: one node for each StatefulSet.
Existing       == {n \in Nodes : replicas[n] > 0}
Wanted         == UNION {PodsOf(n, 0, replicas[n]) : n \in Nodes}
IsQemu(p)      == p[1] \in Qemu
Ready(p)       == p \in running /\ (IsQemu(p) => p \in launched)
\* BuildLinksFromTopologyCRDs: what the CRDs of either end declare.
Declared       == UNION {spec[p] : p \in crds}
Claimed(p)     == {e \in UNION {Ends[l] : l \in spec[p]} : e[1] = p}

NoRequest == [delete |-> {}, delLinks |-> {}, scale |-> <<>>, add |-> {}, links |-> {},
              attr |-> {}]

\* What UpdateIfaceCountsConfigMap publishes: the links of each QEMU node's CRDs.
IfaceCounts == [p \in Pods |-> IF p \in crds /\ IsQemu(p) THEN Cardinality(spec[p]) ELSE NoCount]

Init ==
  /\ replicas = Start.replicas
  /\ crds = Wanted
  /\ spec = [p \in Pods |-> LinksOf(p, Start.links)]
  /\ mounts = {File[n] : n \in Existing}
  /\ counts = IfaceCounts
  /\ history = {} /\ attrs = Start.links /\ registry = Start.links
  /\ running = Wanted /\ stale = {} /\ launched = {p \in Wanted : IsQemu(p)}
  /\ ifs = spec /\ guest = [p \in Pods |-> IF IsQemu(p) THEN spec[p] ELSE {}]
  /\ pc = "idle" /\ req = NoRequest
  /\ plans = {} /\ node = (CHOOSE n \in Nodes : TRUE) /\ phase = "delete" /\ batch = {}
  /\ todo = {} /\ links = {} /\ relevant = {}
  /\ always = {} /\ ifQemu = {} /\ fresh = {} /\ restarts = {} /\ rounds = 0
  /\ dirty = FALSE /\ left = MaxRequests

Goto(c)     == pc' = c
Fault(f)    == f \in Faults
\* An error return: the deferred release, and what was done stays done.
Abort       == pc' = "idle" /\ dirty' = TRUE
Proceed(c)  == pc' = c /\ UNCHANGED dirty
\* A call of which nothing came and that ends the request.
ApiError    == Fault("api") /\ Abort
\* An error that is only logged.
Logged(c)   == Fault("api") /\ pc' = c /\ dirty' = TRUE

-----------------------------------------------------------------------------
(* The request and its validation.                                         *)

\* ValidateLinksForModify: both ends are pods of nodes that exist, within
\* their replicas.
ValidateLinksForModify(L, reps) ==
  \A l \in L : \A p \in On(l) : p[2] < reps[p[1]]

\* ValidateInterfaceConflicts: no end is claimed by a CRD or by another link
\* of the request.
ValidateInterfaceConflicts(L) ==
  /\ \A l \in L : \A e \in Ends[l] : e[1] \in crds => e \notin Claimed(e[1])
  /\ \A l, m \in L : l # m => Ends[l] \cap Ends[m] = {}

\* ValidateDeleteLinksExist: the CRD of each end has the link.
ValidateDeleteLinksExist(L) == \A l \in L : \A p \in On(l) : p \in crds /\ l \in spec[p]

\* BuildScalePlans accepts the scale section: every node exists, is in no
\* other section, and stays within 1..MaxReplicas.
ScalePlansValid(r) ==
  \A n \in DOMAIN r.scale :
    n \in Existing /\ n \notin r.delete \cup r.add /\ r.scale[n] \in 1 .. MaxReplicas

\* SplitScalePlans; a plan that changes nothing is dropped.
Downs(r) == {n \in DOMAIN r.scale : r.scale[n] < replicas[n]}
Ups(r)   == {n \in DOMAIN r.scale : r.scale[n] > replicas[n]}

\* ModifyNetwork up to its first phase.  A request the checks on its own text
\* refuse changes nothing and is left out; so is one the lock refuses.
Modify ==
  /\ pc = "idle" /\ left > 0
  /\ left' = left - 1
  /\ \E r \in Requests :
       /\ crds # {} /\ Existing # {} /\ ScalePlansValid(r)
       /\ req' = r /\ links' = r.links
  /\ plans' = {} /\ phase' = "delete" /\ batch' = {} /\ todo' = {} /\ relevant' = {}
  /\ always' = {} /\ ifQemu' = {} /\ fresh' = {} /\ restarts' = {} /\ rounds' = 0
  /\ Goto("delete")
  /\ UNCHANGED <<cluster, tables, dataplane, node, dirty>>

-----------------------------------------------------------------------------
(* Phase 1, ApplyDeleteOnExistingTopology.                                 *)

BeginDelete ==
  /\ pc = "delete"
  /\ \/ /\ req.delete = {} /\ req.delLinks = {}
        /\ plans' = Downs(req) /\ Proceed("down") /\ UNCHANGED <<todo, batch>>
     \/ /\ req.delete \cup req.delLinks # {}
        /\ req.delete \subseteq Existing
        /\ ValidateLinksForModify(req.delLinks, replicas) /\ ValidateDeleteLinksExist(req.delLinks)
        /\ todo' = UNION {On(l) : l \in req.delLinks}
        /\ batch' = UNION {PodsOf(n, 0, replicas[n]) : n \in req.delete}
        /\ Proceed("unlink") /\ UNCHANGED plans
     \/ /\ req.delete \cup req.delLinks # {}
        /\ \/ Fault("api")
           \/ ~ (req.delete \subseteq Existing)
           \/ ~ ValidateLinksForModify(req.delLinks, replicas)
           \/ ~ ValidateDeleteLinksExist(req.delLinks)
        /\ Goto("idle") /\ UNCHANGED <<todo, batch, plans, dirty>>
  /\ UNCHANGED <<cluster, tables, dataplane, req, node, phase, links, relevant, always, ifQemu,
                 fresh, restarts, rounds, left>>

\* RemoveSpecificLinksFromTopologies, one CRD read and written back; then
\* DeleteLinkAttributesForLinks, whose error is logged.
Unlink ==
  /\ pc = "unlink"
  /\ \/ \E p \in todo :
          /\ spec' = [spec EXCEPT ![p] = @ \ req.delLinks]
          /\ always' = always \cup (IF spec[p] \cap req.delLinks # {} THEN {p} ELSE {})
          /\ todo' = todo \ {p}
          /\ UNCHANGED <<attrs, pc, dirty>>
     \/ /\ todo = {}
        /\ \/ attrs' = attrs \ req.delLinks /\ Proceed("list")
           \/ Logged("list") /\ UNCHANGED attrs
        /\ UNCHANGED <<spec, always, todo>>
     \/ todo # {} /\ ApiError /\ UNCHANGED <<spec, always, todo, attrs>>
  /\ UNCHANGED <<replicas, crds, mounts, counts, history, registry, dataplane, req, plans, node,
                 phase, batch, links, relevant, ifQemu, fresh, restarts, rounds, left>>

\* Where a removal goes once no CRD names its pods: the delete to its nodes,
\* a scale-down to the orphans' CRDs.
Detached == IF phase = "delete" THEN "delset" ELSE "orphans"

\* RemoveLinksReferencingDeletedPods: one List, then an Update of every CRD
\* that still names a pod that goes.
ListPeers ==
  /\ pc = "list"
  /\ \/ /\ todo' = {p \in crds \ batch : \E l \in spec[p] : Peers(l, p) \cap batch # {}}
        /\ Proceed(IF batch = {} THEN "delrows" ELSE "detach")
     \/ batch # {} /\ ApiError /\ UNCHANGED todo
  /\ UNCHANGED <<cluster, tables, dataplane, req, plans, node, phase, batch, links, relevant, always,
                 ifQemu, fresh, restarts, rounds, left>>

\* Variant for the mutants: the CRDs are rewritten, their pods left running.
DetachQuietly ==
  /\ pc = "detach"
  /\ \/ \E p \in todo :
          /\ spec' = [spec EXCEPT ![p] = {l \in @ : Peers(l, p) \cap batch = {}}]
          /\ todo' = todo \ {p} /\ UNCHANGED <<always, pc, dirty>>
     \/ todo = {} /\ Proceed(Detached) /\ UNCHANGED <<spec, always, todo>>
  /\ UNCHANGED <<replicas, crds, mounts, counts, tables, dataplane, req, plans, node, phase, batch,
                 links, relevant, ifQemu, fresh, restarts, rounds, left>>

Detach ==
  /\ pc = "detach"
  /\ \/ \E p \in todo :
          /\ spec' = [spec EXCEPT ![p] = {l \in @ : Peers(l, p) \cap batch = {}}]
          /\ always' = always \cup {p}
          /\ todo' = todo \ {p} /\ UNCHANGED <<pc, dirty>>
     \/ todo = {} /\ Proceed(Detached) /\ UNCHANGED <<spec, always, todo>>
     \/ todo # {} /\ ApiError /\ UNCHANGED <<spec, always, todo>>
  /\ UNCHANGED <<replicas, crds, mounts, counts, tables, dataplane, req, plans, node, phase, batch,
                 links, relevant, ifQemu, fresh, restarts, rounds, left>>

\* DeleteNodeStatefulSetAndTopologies: the StatefulSet, then the CRDs of its
\* replicas, then the mount resource unless another StatefulSet has it.
DeleteSet ==
  /\ pc = "delset"
  /\ \/ \E n \in req.delete \cap Existing :
          /\ replicas' = [replicas EXCEPT ![n] = 0] /\ node' = n
          /\ stale' = stale \cup {p \in running : p[1] = n}
          /\ Proceed("deltopo")
     \/ ApiError /\ UNCHANGED <<replicas, node, stale>>
  /\ UNCHANGED <<crds, spec, mounts, counts, tables, running, ifs, guest, launched, req, plans,
                 phase, batch, todo, links, relevant, always, ifQemu, fresh, restarts, rounds, left>>

DropCRDs(K) == crds' = crds \ K /\ spec' = [p \in Pods |-> IF p \in K THEN {} ELSE spec[p]]

DeleteTopologies ==
  /\ pc = "deltopo"
  /\ LET mine == {p \in batch : p[1] = node}
     IN  \/ DropCRDs(mine) /\ Proceed("delmount")
         \/ \E K \in SUBSET mine : K # mine /\ DropCRDs(K) /\ ApiError
  /\ UNCHANGED <<replicas, mounts, counts, tables, dataplane, req, work, left>>

\* Variant for the mutants: the resource goes with the node that mounted it.
DeleteMountAlways ==
  /\ pc = "delmount"
  /\ mounts' = mounts \ {File[node]}
  /\ Proceed(IF req.delete \cap Existing # {} THEN "delset" ELSE "delrows")
  /\ UNCHANGED <<replicas, crds, spec, counts, tables, dataplane, req, work, left>>

\* When the List of the remaining StatefulSets fails nothing counts as in use.
DeleteMount ==
  /\ pc = "delmount"
  /\ LET next == IF req.delete \cap Existing # {} THEN "delset" ELSE "delrows"
     IN  \/ mounts' = mounts \ ({File[node]} \ {File[n] : n \in Existing}) /\ Proceed(next)
         \/ Fault("list") /\ mounts' = mounts \ {File[node]} /\ Proceed(next)
         \/ Logged(next) /\ UNCHANGED mounts
  /\ UNCHANGED <<replicas, crds, spec, counts, tables, dataplane, req, work, left>>

\* Variant for the mutants: the history of a deleted node stays.
DeleteNoRows ==
  /\ pc = "delrows" /\ plans' = Downs(req) /\ always' = always \ batch /\ Proceed("down")
  /\ UNCHANGED <<cluster, tables, dataplane, req, node, phase, batch, todo, links, relevant,
                 ifQemu, fresh, restarts, rounds, left>>

\* DeleteDriverOperationHistoryForPod for each pod, whose error ends the
\* request, and DeleteLinkAttributesForPods, whose error is logged.
DeleteRows ==
  /\ pc = "delrows"
  /\ \/ /\ history' = history \ batch
        /\ \/ attrs' = {l \in attrs : On(l) \cap batch = {}} /\ Proceed("down")
           \/ Logged("down") /\ UNCHANGED attrs
        /\ plans' = Downs(req) /\ always' = always \ batch
     \/ /\ \E K \in SUBSET batch : K # batch /\ history' = history \ K
        /\ ApiError /\ UNCHANGED <<attrs, plans, always>>
  /\ UNCHANGED <<cluster, registry, dataplane, req, node, phase, batch, todo, links, relevant,
                 ifQemu, fresh, restarts, rounds, left>>

-----------------------------------------------------------------------------
(* Phase 2a, ApplyScaleDowns: one plan after the other.                    *)

BeginDown ==
  /\ pc = "down"
  /\ \/ \E n \in plans :
          /\ node' = n /\ phase' = "down" /\ batch' = PodsOf(n, req.scale[n], replicas[n])
          /\ plans' = plans \ {n} /\ Proceed("list")
     \/ /\ plans = {} /\ plans' = Ups(req) /\ Proceed("up") /\ UNCHANGED <<node, phase, batch>>
  /\ UNCHANGED <<cluster, tables, dataplane, req, todo, links, relevant, always, ifQemu, fresh,
                 restarts, rounds, left>>

DeleteOrphans ==
  /\ pc = "orphans"
  /\ \/ DropCRDs(batch) /\ Proceed("shrink")
     \/ \E K \in SUBSET batch : K # batch /\ DropCRDs(K) /\ ApiError
  /\ UNCHANGED <<replicas, mounts, counts, tables, dataplane, req, work, left>>

\* patchStatefulSetReplicas, then the orphans' history.  The controller ends the
\* orphans, unless it lags until their node is scaled up again.
ShrinkSet ==
  /\ pc = "shrink"
  /\ \/ /\ replicas' = [replicas EXCEPT ![node] = req.scale[node]]
        /\ \E gone \in {{}, batch} :
             (gone # batch => Fault("lag")) /\ stale' = stale \cup (running \cap gone)
        /\ Proceed("forget")
     \/ ApiError /\ UNCHANGED <<replicas, stale>>
  /\ UNCHANGED <<crds, spec, mounts, counts, tables, running, ifs, guest, launched, req, work, left>>

ForgetOrphans ==
  /\ pc = "forget"
  /\ \/ history' = history \ batch /\ always' = always \ batch /\ Proceed("down")
     \/ /\ \E K \in SUBSET batch : K # batch /\ history' = history \ K
        /\ ApiError /\ UNCHANGED always
  /\ UNCHANGED <<cluster, attrs, registry, dataplane, req, plans, node, phase, batch, todo, links,
                 relevant, ifQemu, fresh, restarts, rounds, left>>

-----------------------------------------------------------------------------
(* Phase 2b, ApplyScaleUps, and phase 3, ApplyAddToExistingTopology.  Both *)
(* declare the links on the new pods' CRDs and on their peers' before any  *)
(* new pod can start.                                                      *)

\* The links of the request that touch a new replica are this plan's.
BeginUp ==
  /\ pc = "up"
  /\ \/ \E n \in plans :
          LET new == PodsOf(n, replicas[n], req.scale[n])
          IN  /\ node' = n /\ phase' = "up" /\ batch' = new /\ plans' = plans \ {n}
              /\ relevant' = {l \in req.links : On(l) \cap new # {}}
              /\ todo' = new /\ Proceed("newcrds")
     \/ /\ plans = {} /\ Proceed("add")
        /\ UNCHANGED <<plans, node, phase, batch, relevant, todo>>
  /\ UNCHANGED <<cluster, tables, dataplane, req, links, always, ifQemu, fresh, restarts, rounds,
                 left>>

\* CreateTopologyForPod, CreateTopologyObject: a POST, refused when the CRD is
\* there already.
CreateCRD ==
  /\ pc = "newcrds"
  /\ \/ \E p \in todo :
          \/ /\ p \notin crds
             /\ crds' = crds \cup {p}
             /\ spec' = [spec EXCEPT ![p] = LinksOf(p, relevant)]
             /\ todo' = todo \ {p} /\ UNCHANGED <<pc, dirty>>
          \/ p \in crds /\ Abort /\ UNCHANGED <<crds, spec, todo>>
     \/ todo # {} /\ ApiError /\ UNCHANGED <<crds, spec, todo>>
     \/ todo = {} /\ todo' = UNION {On(l) : l \in relevant} /\ Proceed("upsert")
        /\ UNCHANGED <<crds, spec>>
  /\ UNCHANGED <<replicas, mounts, counts, tables, dataplane, req, plans, node, phase, batch, links,
                 relevant, always, ifQemu, fresh, restarts, rounds, left>>

\* Variant for the mutants: the peers of a new pod are not told.
UpsertNothing ==
  /\ pc = "upsert" /\ todo' = {} /\ Proceed("counts")
  /\ UNCHANGED <<cluster, tables, dataplane, req, plans, node, phase, batch, links, relevant, always,
                 ifQemu, fresh, restarts, rounds, left>>

\* upsertAppendLinksInTopologies: appended to the CRD, which is created when
\* missing; a CRD that has them all is not touched.
Upsert ==
  /\ pc = "upsert"
  /\ \/ \E p \in todo :
          /\ crds' = crds \cup {p}
          /\ spec' = [spec EXCEPT ![p] = @ \cup LinksOf(p, relevant)]
          /\ ifQemu' = ifQemu \cup (IF LinksOf(p, relevant) \subseteq spec[p] THEN {} ELSE {p} \ batch)
          /\ todo' = todo \ {p} /\ UNCHANGED <<pc, dirty>>
     \/ todo # {} /\ ApiError /\ UNCHANGED <<crds, spec, ifQemu, todo>>
     \/ todo = {} /\ Proceed("counts") /\ UNCHANGED <<crds, spec, ifQemu, todo>>
  /\ UNCHANGED <<replicas, mounts, counts, tables, dataplane, req, plans, node, phase, batch, links,
                 relevant, always, fresh, restarts, rounds, left>>

\* UpdateIfaceCountsConfigMap before the new pods exist; an error is logged.
\* A scale-up goes on to its StatefulSet, the add to the new ones, and an add
\* of links alone publishes nothing here.
PublishCounts ==
  /\ pc = "counts"
  /\ LET next == IF phase = "up" THEN "grow" ELSE "addsets"
     IN  \/ /\ counts' = IF phase = "up" \/ req.add # {} THEN IfaceCounts ELSE counts
            /\ Proceed(next)
         \/ (phase = "up" \/ req.add # {}) /\ Logged(next) /\ UNCHANGED counts
  /\ UNCHANGED <<replicas, crds, spec, mounts, tables, dataplane, req, work, left>>

\* The StatefulSet grows; what the plan wrote is dropped from the add section.
GrowSet ==
  /\ pc = "grow"
  /\ \/ /\ replicas' = [replicas EXCEPT ![node] = req.scale[node]]
        /\ fresh' = fresh \cup batch /\ links' = links \ relevant
        /\ Proceed("up")
     \/ ApiError /\ UNCHANGED <<replicas, fresh, links>>
  /\ UNCHANGED <<crds, spec, mounts, counts, tables, dataplane, req, plans, node, phase, batch, todo,
                 relevant, always, ifQemu, restarts, rounds, left>>

\* The validations of ApplyAddToExistingTopology against the nodes and CRDs as
\* the phases before left them.
AddValid ==
  LET reps == [n \in Nodes |-> IF n \in req.add THEN 1 ELSE replicas[n]]
  IN  /\ req.add \cap Existing = {}
      /\ ValidateLinksForModify(links, reps) /\ ValidateInterfaceConflicts(links)

\* A request refused here keeps what its earlier phases did.
BeginAdd ==
  /\ pc = "add"
  /\ \/ /\ req.add = {} /\ req.links = {} /\ Proceed("plan")
        /\ UNCHANGED <<phase, batch, relevant>>
     \/ /\ req.add # {} \/ req.links # {}
        /\ AddValid
        /\ phase' = "add" /\ batch' = UNION {PodsOf(n, 0, 1) : n \in req.add}
        /\ relevant' = links
        /\ Proceed("addmounts")
     \/ /\ req.add # {} \/ req.links # {}
        /\ ~ AddValid \/ Fault("api")
        /\ Abort /\ UNCHANGED <<phase, batch, relevant>>
  /\ UNCHANGED <<cluster, tables, dataplane, req, plans, node, todo, links, always, ifQemu,
                 fresh, restarts, rounds, left>>

\* CreateMountResourceForFile for the new nodes' files.
AddMounts ==
  /\ pc = "addmounts"
  /\ \/ mounts' = mounts \cup {File[n] : n \in req.add} /\ todo' = batch /\ Proceed("newcrds")
     \/ /\ \E F \in SUBSET {File[n] : n \in req.add} : mounts' = mounts \cup F
        /\ ApiError /\ UNCHANGED todo
  /\ UNCHANGED <<replicas, crds, spec, counts, tables, dataplane, req, plans, node, phase, batch,
                 links, relevant, always, ifQemu, fresh, restarts, rounds, left>>

\* CreateNetworkStatefulSet for each new node; a StatefulSet left by a failed
\* delete is an error.
AddSets ==
  /\ pc = "addsets"
  /\ LET new == {n \in req.add : replicas[n] = 0}
     IN  \/ \E n \in new :
              /\ replicas' = [replicas EXCEPT ![n] = 1]
              /\ UNCHANGED <<fresh, pc, dirty>>
         \/ new = {} /\ fresh' = fresh \cup batch /\ Proceed("plan") /\ UNCHANGED replicas
         \/ new # {} /\ ApiError /\ UNCHANGED <<replicas, fresh>>
  /\ UNCHANGED <<crds, spec, mounts, counts, tables, dataplane, req, plans, node, phase, batch,
                 todo, links, relevant, always, ifQemu, restarts, rounds, left>>

-----------------------------------------------------------------------------
(* The unified phase: restart, wait, replay, heal, sync.                   *)

\* Delete and scale-down restart every peer they touched, scale-up and add the
\* ones that run a guest; a pod this request created is not restarted.
RestartSet == (always \cup {p \in ifQemu : IsQemu(p)}) \ fresh

\* EndpointsToRestartForNewLinks: a link between two pods that are neither new
\* nor restarted needs one of them, whichever the rule prefers (PodRestart).
EndpointsToRestart(R, C) ==
  LET old == {l \in links : On(l) \cap fresh = {} /\ On(l) \cap R = {}}
  IN  /\ C \subseteq UNION {On(l) : l \in old}
      /\ \A l \in old : On(l) \cap C # {}
      /\ \A p \in C : \E l \in old : On(l) \cap C = {p}

\* The counts are published before the first pod goes; an error is logged.
PlanRestarts ==
  /\ pc = "plan"
  /\ \E C \in SUBSET UNION {On(l) : l \in links} :
       /\ EndpointsToRestart(RestartSet, C)
       /\ restarts' = RestartSet \cup C /\ todo' = RestartSet \cup C
  /\ \/ counts' = IfaceCounts /\ Proceed("restart")
     \/ Logged("restart") /\ UNCHANGED counts
  /\ UNCHANGED <<replicas, crds, spec, mounts, tables, dataplane, req, plans, node, phase, batch,
                 links, relevant, always, ifQemu, fresh, rounds, left>>

\* Pods go and with them their ends; a veth takes the peer's end along, a
\* VXLAN end stays behind on the peer.
Stop(P) ==
  /\ running' = running \ P /\ launched' = launched \ P /\ stale' = stale \ P
  /\ guest' = [p \in Pods |-> IF p \in P THEN {} ELSE guest[p]]
  /\ \E lost \in {{}, UNION {ifs[p] : p \in P}} :
       ifs' = [p \in Pods |-> IF p \in P THEN {} ELSE ifs[p] \ lost]

\* RestartPod disposes of the pod; the controller starts it again.
RestartPod ==
  /\ pc = "restart"
  /\ \/ \E p \in todo : Stop({p}) /\ todo' = todo \ {p} /\ UNCHANGED <<pc, dirty>>
     \/ todo # {} /\ ApiError /\ UNCHANGED <<dataplane, todo>>
     \/ todo = {} /\ Proceed("wait") /\ UNCHANGED <<dataplane, todo>>
  /\ UNCHANGED <<cluster, tables, req, plans, node, phase, batch, links, relevant, always, ifQemu,
                 fresh, restarts, rounds, left>>

\* WaitForPodsReadyTimeline on everything created or restarted.
WaitReady ==
  /\ pc = "wait"
  /\ \/ (\A p \in fresh \cup restarts : Ready(p)) /\ Proceed("replay")
     \/ ApiError
  /\ UNCHANGED <<cluster, tables, dataplane, req, work, left>>

\* The MTU pass on the restarted pods, their replay and their neighbours'
\* (LinkMTU, PodRestart): each may end the request; replay keeps or prunes rows.
Replay ==
  /\ pc = "replay"
  /\ \/ Proceed("heal")
     \/ restarts # {} /\ ApiError
  /\ UNCHANGED <<cluster, tables, dataplane, req, work, left>>

\* The links still in the add section with an end that its pod does not show.
Missing == {l \in links : \E p \in On(l) \cap running : l \notin ifs[p]}

\* HealMissingInterfaces(..., 2) over those links (PodRestart has its rule):
\* each broken link gets an end restarted, in at most two rounds; then
\* whatever it found is logged.
Heal ==
  /\ pc = "heal"
  /\ \/ /\ Missing # {} /\ rounds < 2
        /\ \E C \in SUBSET UNION {On(l) : l \in Missing} :
             /\ \A l \in Missing : On(l) \cap C # {}
             /\ Stop(C) /\ restarts' = C
        /\ rounds' = rounds + 1 /\ Proceed("healwait")
     \/ /\ Missing = {} \/ rounds = 2
        /\ Proceed("attributes") /\ UNCHANGED <<dataplane, restarts, rounds>>
  /\ UNCHANGED <<cluster, tables, req, plans, node, phase, batch, todo, links, relevant, always,
                 ifQemu, fresh, left>>

\* Its wait for the pods of the round, whose error is logged.
HealWait ==
  /\ pc = "healwait"
  /\ \/ (\A p \in restarts : Ready(p)) /\ Proceed("heal")
     \/ Logged("heal")
  /\ UNCHANGED <<cluster, tables, dataplane, req, work, left>>

\* SaveLinkAttributes, and ApplyLinkAttributes, which saves the operations
\* that it ran; errors are logged.
SaveAttributes ==
  /\ pc = "attributes"
  /\ \/ attrs' = (attrs \ links) \cup (links \cap req.attr) /\ Proceed("sync")
     \/ Logged("sync") /\ UNCHANGED attrs
  /\ \E K \in {{}, UNION {On(l) : l \in links \cap req.attr}} : history' = history \cup K
  /\ UNCHANGED <<cluster, registry, dataplane, req, work, left>>

\* The MTU pass over the namespace and ExitedPods end the request or let it
\* go on; SyncNamespaceLinkUIDRegistry's error is logged.
SyncRegistry ==
  /\ pc = "sync"
  /\ \/ registry' = Declared /\ Proceed("ok")
     \/ Logged("ok") /\ UNCHANGED registry
     \/ ApiError /\ UNCHANGED registry
  /\ UNCHANGED <<cluster, history, attrs, dataplane, req, work, left>>

\* The answer, and the deferred release.
Answer ==
  /\ pc = "ok" /\ Proceed("idle")
  /\ UNCHANGED <<cluster, tables, dataplane, req, work, left>>

-----------------------------------------------------------------------------
(* Kubernetes, Meshnet and the guests.                                     *)

\* The controller starts a pod; its CNI ADD creates both ends of every link
\* that its CRD and the CRD of a running peer declare.
PodStart == \E p \in Wanted \ running :
  LET wires == {l \in spec[p] : \A q \in Peers(l, p) : q \in running /\ l \in spec[q]}
  IN  /\ running' = running \cup {p}
      /\ ifs' = [q \in Pods |-> IF q = p THEN wires ELSE ifs[q] \cup LinksOf(q, wires)]
      /\ UNCHANGED <<stale, guest, launched, cluster, tables, pc, req, work, dirty, left>>

\* The entrypoint starts the guest once it sees as many interfaces as the
\* ConfigMap says, at any time when that does not name the pod.
Launch == \E p \in running \ launched :
  /\ IsQemu(p) /\ (counts[p] # NoCount => Cardinality(ifs[p]) >= counts[p])
  /\ launched' = launched \cup {p} /\ guest' = [guest EXCEPT ![p] = ifs[p]]
  /\ UNCHANGED <<running, stale, ifs, cluster, tables, pc, req, work, dirty, left>>

\* A pod no StatefulSet owns ends; a pod may die at any time.
PodStop == \E p \in running :
  /\ p \notin Wanted \/ p \in stale \/ Fault("loss")
  /\ Stop({p})
  /\ UNCHANGED <<cluster, tables, pc, req, work, dirty, left>>

\* Configure saves operations of the running pods between requests.
Configure ==
  /\ pc = "idle" /\ history' = history \cup (running \cap Wanted)
  /\ UNCHANGED <<cluster, attrs, registry, dataplane, pc, req, work, dirty, left>>

-----------------------------------------------------------------------------
Handler == \/ BeginDelete \/ Unlink \/ ListPeers \/ Detach \/ DeleteSet \/ DeleteTopologies
           \/ DeleteMount \/ DeleteRows \/ BeginDown \/ DeleteOrphans \/ ShrinkSet
           \/ ForgetOrphans \/ BeginUp \/ CreateCRD \/ Upsert \/ PublishCounts \/ GrowSet
           \/ BeginAdd \/ AddMounts \/ AddSets \/ PlanRestarts \/ RestartPod \/ WaitReady
           \/ Replay \/ Heal \/ HealWait \/ SaveAttributes \/ SyncRegistry \/ Answer
World   == PodStart \/ Launch \/ PodStop \/ Configure
Next    == Modify \/ Handler \/ World

Spec == Init /\ [][Next]_vars

-----------------------------------------------------------------------------
(* Properties.                                                             *)

Steps == {"idle", "delete", "unlink", "list", "detach", "delset", "deltopo", "delmount",
          "delrows", "down", "orphans", "shrink", "forget", "up", "newcrds", "upsert", "counts",
          "grow", "add", "addmounts", "addsets", "plan", "restart", "wait", "replay",
          "heal", "healwait", "attributes", "sync", "ok"}

\* The variables have the types of the cluster, the tables and the request.
TypeOK ==
  /\ replicas \in [Nodes -> 0 .. MaxReplicas] /\ crds \subseteq Pods
  /\ spec \in [Pods -> SUBSET Links] /\ history \subseteq Pods
  /\ counts \in [Pods -> Nat \cup {NoCount}]
  /\ attrs \subseteq Links /\ registry \subseteq Links
  /\ running \subseteq Pods /\ stale \subseteq running /\ launched \subseteq running
  /\ rounds \in 0 .. 2
  /\ ifs \in [Pods -> SUBSET Links] /\ guest \in [Pods -> SUBSET Links]
  /\ pc \in Steps /\ batch \subseteq Pods /\ links \subseteq Links /\ relevant \subseteq Links
  /\ always \cup ifQemu \cup fresh \cup restarts \subseteq Pods
  /\ \A p \in Pods \ crds : spec[p] = {}

\* When a modify that no fault interrupted answers 200, every pod has its CRD,
\* no other pod has one, and the two ends of every link declare it.
CRDsAgree ==
  pc = "ok" /\ ~ dirty =>
    /\ crds = Wanted
    /\ \A l \in Declared : \A p \in On(l) : l \in spec[p]

\* When the modify answers 200 and every pod is up, the network is the one the
\* CRDs declare: each pod has the interfaces of its links and no other, and a
\* guest has a NIC for each of them.
WiredAsDeclared ==
  pc = "ok" /\ ~ dirty /\ running = Wanted /\ stale = {} /\ (\A p \in Wanted : Ready(p)) =>
    \A p \in Wanted : ifs[p] = spec[p] /\ (IsQemu(p) => guest[p] = spec[p])

\* "both ends of every link must be declared before the new pod's CNI ADD
\* fires": a replica comes into being only when the peers' CRDs name its links.
BothEndsBeforeStart ==
  [][\A p \in Wanted' \ Wanted :
       \A l \in spec[p] : \A q \in Peers(l, p) : l \in spec[q]]_vars

\* The mount resource of a file outlives every node but the last that mounts it.
SharedMountsKept == \A n \in Existing : File[n] \in mounts

\* A pod that is created has no operations on record: nothing of the pod that
\* bore its name before can be replayed onto it.
NoInheritedHistory ==
  [][~ dirty => (Wanted' \ Wanted) \cap history = {}]_vars

\* "rejects new links whose interfaces are already occupied": no pod's CRD
\* gives one interface to two links.
InterfacesUnique ==
  \A p \in crds : \A l, m \in spec[p] : l # m => Ends[l] \cap Ends[m] = {}

\* ModifyNetwork as a whole: in well-typed states, a modify that answers 200
\* without a fault has left CRDs that agree (CRDsAgree) and pods wired as
\* they declare (WiredAsDeclared).
ModifyTakesEffect == TypeOK /\ CRDsAgree /\ WiredAsDeclared

=============================================================================
