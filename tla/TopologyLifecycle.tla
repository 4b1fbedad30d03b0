-------------------------- MODULE TopologyLifecycle --------------------------
(***************************************************************************)
(* A namespace's topology from deploy to clear: the requests that create   *)
(* and remove its Kubernetes objects and its rows in SQLite, the operation *)
(* lock they take, the registry of link UIDs, and a backend that may die   *)
(* between any two calls.                                                  *)
(*                                                                         *)
(* Each topology is one link between the pods in Nodes, every pod with its *)
(* Topology CRD, its StatefulSet and its mounted file.  Every Kubernetes   *)
(* call and every SQL statement is a step of its own.                      *)
(***************************************************************************)
EXTENDS Integers, FiniteSets

CONSTANTS
  Namespaces,   \* namespaces of the cluster
  Workers,      \* requests being handled at once
  Nodes,        \* the pods of a topology
  UIDs,         \* link UIDs, minLinkUID..maxLinkUID
  NoUid,        \* no UID: a link that leaves it to the backend, a missing CRD
  Kinds,        \* the kinds of request that come, out of RequestKinds
  Faults,       \* which of FaultKinds occur
  Serial,       \* TRUE: requests come one at a time
  MaxRequests,  \* bound: requests served in a behaviour
  MaxBorn       \* bound: times kubectl lets a namespace be created

RequestKinds == {"deploy", "clear", "configure", "create", "delete", "summary"}
FaultKinds   == {"crash", "api", "db", "loss", "stuck"}

ASSUME UidAssumption    == NoUid \notin UIDs
ASSUME SwitchAssumption == /\ Kinds \subseteq RequestKinds /\ Faults \subseteq FaultKinds
                           /\ Serial \in BOOLEAN /\ MaxRequests \in Nat /\ MaxBorn \in Nat

VARIABLES
  nsPhase,    \* each namespace: "active", "terminating" or "absent"
  born,       \* how often each namespace object was created
  crd,        \* crd[n][k]: the link UID in pod k's Topology CRD, or NoUid
  sts,        \* sts[n]: pods that have their StatefulSet
  pods,       \* pods[n]: pods that exist
  mounts,     \* mounts[n]: pods whose ConfigMap or Secret exists
  counts,     \* namespaces with the interface counts ConfigMap
  locks,      \* namespaces with a row in namespace_operations
  flag,       \* namespaces whose has_topology is 1
  registry,   \* registry[n]: UIDs in link_uid_registry
  attributes, \* namespaces with rows in link_attributes
  history,    \* history[n]: operations on record, by the deploy they ran on
  deploys,    \* deploys[n]: deploys that began creating objects in n
  up,         \* the backend runs
  pc,         \* where each request is, "idle" before and after
  op,         \* the kind of request
  at,         \* the namespace it is about
  want,       \* the UID of its link
  todo,       \* the pods the current loop still has to visit
  tracked,    \* what a clear listed: StatefulSets and CRDs
  ran,        \* the deploy on whose pods a configure ran
  left        \* requests still to come

cluster == <<nsPhase, born, crd, sts, pods, mounts, counts>>
tables  == <<locks, flag, registry, attributes, history>>
request == <<op, at, want, todo, tracked, ran>>
vars    == <<nsPhase, born, crd, sts, pods, mounts, counts, locks, flag, registry,
             attributes, history, deploys, up, pc, op, at, want, todo, tracked, ran, left>>

HasCRD(n)      == {k \in Nodes : crd[n][k] # NoUid}
HasTopology(n) == sts[n] # {} \/ HasCRD(n) # {}
Used           == UNION {registry[n] : n \in Namespaces}
Linked(n)      == {crd[n][k] : k \in HasCRD(n)}
NoCRDs         == [k \in Nodes |-> NoUid]

Init ==
  /\ nsPhase = [n \in Namespaces |-> "active"] /\ born = [n \in Namespaces |-> 1]
  /\ crd = [n \in Namespaces |-> NoCRDs]
  /\ sts = [n \in Namespaces |-> {}] /\ pods = [n \in Namespaces |-> {}]
  /\ mounts = [n \in Namespaces |-> {}] /\ counts = {}
  /\ locks = {} /\ flag = {} /\ attributes = {}
  /\ registry = [n \in Namespaces |-> {}] /\ history = [n \in Namespaces |-> {}]
  /\ deploys = [n \in Namespaces |-> 0]
  /\ up = TRUE /\ left = MaxRequests
  /\ pc = [w \in Workers |-> "idle"] /\ op = [w \in Workers |-> "clear"]
  /\ at \in [Workers -> Namespaces] /\ want = [w \in Workers |-> NoUid]
  /\ todo = [w \in Workers |-> {}]
  /\ tracked = [w \in Workers |-> [sts |-> {}, crd |-> {}]]
  /\ ran = [w \in Workers |-> 0]

Goto(w, c)     == pc' = [pc EXCEPT ![w] = c]
Fail(f)        == f \in Faults
Quiet          == \A w \in Workers : pc[w] = "idle"
Ready(w)       == up /\ left > 0 /\ pc[w] = "idle" /\ (Serial => Quiet)

\* The loop over the pods goes on with k done, or is over.
Visit(w, k)    == todo' = [todo EXCEPT ![w] = @ \ {k}]
Loop(w, K)     == todo' = [todo EXCEPT ![w] = K]

\* A request of kind x about namespace n arrives and starts at c.
Arrive(w, x, n, u, c) ==
  /\ x \in Kinds /\ Ready(w)
  /\ op' = [op EXCEPT ![w] = x] /\ at' = [at EXCEPT ![w] = n]
  /\ want' = [want EXCEPT ![w] = u] /\ left' = left - 1
  /\ Goto(w, c)

-----------------------------------------------------------------------------
(* The operation lock.                                                     *)

\* Variant for the mutants: INSERT OR REPLACE takes the lock of another request.
AcquireReplacing(w) ==
  /\ pc[w] = "acquire"
  /\ locks' = locks \cup {at[w]}
  /\ Goto(w, IF op[w] = "deploy" THEN "sync" ELSE "list")
  /\ UNCHANGED <<cluster, flag, registry, attributes, history, deploys, up, request, left>>

\* AcquireNamespaceOperationLock: the row's primary key refuses a second one,
\* which the handler answers with 409; any other error is a 500.
Acquire(w) ==
  /\ pc[w] = "acquire"
  /\ \/ /\ at[w] \notin locks
        /\ locks' = locks \cup {at[w]}
        /\ Goto(w, IF op[w] = "deploy" THEN "sync" ELSE "list")
     \/ /\ at[w] \in locks \/ Fail("db")
        /\ Goto(w, "idle") /\ UNCHANGED locks
  /\ UNCHANGED <<cluster, flag, registry, attributes, history, deploys, up, request, left>>

\* The deferred ReleaseNamespaceOperationLock deletes the namespace's row,
\* whoever wrote it; an error is logged.
Release(w) ==
  /\ pc[w] = "release"
  /\ locks' = locks \ {at[w]} \/ (Fail("db") /\ UNCHANGED locks)
  /\ Goto(w, "idle")
  /\ UNCHANGED <<cluster, flag, registry, attributes, history, deploys, up, request, left>>

-----------------------------------------------------------------------------
(* DeployNetwork.                                                          *)

\* The namespace is valid; the link asks for a UID or leaves it open.
Deploy(w) ==
  /\ \E n \in Namespaces, u \in UIDs \cup {NoUid} :
       nsPhase[n] = "active" /\ Arrive(w, "deploy", n, u, "purge")
  /\ UNCHANGED <<cluster, tables, deploys, up, todo, tracked, ran>>

\* Variant for the mutants: the history of a deleted namesake stays.
PurgeNothing(w) ==
  /\ pc[w] = "purge"
  /\ Goto(w, "acquire") \/ Goto(w, "idle")
  /\ UNCHANGED <<cluster, tables, deploys, up, request, left>>

\* PurgeStaleDriverOperations drops what is older than the namespace object;
\* an error is only logged.  Then the Meshnet gate may refuse the deploy.
PurgeStale(w) ==
  /\ pc[w] = "purge"
  /\ \/ /\ nsPhase[at[w]] # "absent"
        /\ history' = [history EXCEPT ![at[w]] = {h \in @ : h.born >= born[at[w]]}]
     \/ /\ nsPhase[at[w]] = "absent" \/ Fail("api") \/ Fail("db")
        /\ UNCHANGED history
  /\ Goto(w, "acquire") \/ Goto(w, "idle")
  /\ UNCHANGED <<cluster, locks, flag, registry, attributes, deploys, up, request, left>>

\* Variant for the mutants: the guard trusts the namespace_state row.
SyncStateByRow(w) ==
  /\ pc[w] = "sync"
  /\ Goto(w, IF at[w] \in flag THEN "release" ELSE "prepare")
  /\ UNCHANGED <<cluster, tables, deploys, up, request, left>>

\* SyncNamespaceTopologyState: the guard looks at the cluster, not at the row.
SyncState(w) ==
  /\ pc[w] = "sync"
  /\ \/ /\ flag' = IF HasTopology(at[w]) THEN flag \cup {at[w]} ELSE flag \ {at[w]}
        /\ Goto(w, IF HasTopology(at[w]) THEN "release" ELSE "prepare")
     \/ (Fail("api") \/ Fail("db")) /\ Goto(w, "release") /\ UNCHANGED flag
  /\ UNCHANGED <<cluster, locks, registry, attributes, history, deploys, up, request, left>>

\* The validations, and PrepareUniqueLinkUIDs against the registry as it is now.
PrepareUIDs(w) ==
  /\ pc[w] = "prepare"
  /\ \/ Goto(w, "release") /\ UNCHANGED <<deploys, want, todo>>
     \/ \E u \in UIDs \ Used :
          /\ want[w] \in {NoUid, u}
          /\ want' = [want EXCEPT ![w] = u]
          /\ deploys' = [deploys EXCEPT ![at[w]] = @ + 1]
          /\ Loop(w, Nodes)
          /\ Goto(w, "crds")
  /\ UNCHANGED <<cluster, tables, up, op, at, tracked, ran, left>>

\* An object is created, or the call fails and the handler answers 500: the
\* name is taken, the namespace is going away, or the API server says no.
CreateCRD(w) ==
  /\ pc[w] = "crds"
  /\ \E k \in todo[w] :
       \/ /\ nsPhase[at[w]] = "active" /\ crd[at[w]][k] = NoUid
          /\ crd' = [crd EXCEPT ![at[w]][k] = want[w]]
          /\ Visit(w, k)
          /\ Goto(w, IF todo[w] = {k} THEN "mounts" ELSE "crds")
       \/ /\ nsPhase[at[w]] # "active" \/ crd[at[w]][k] # NoUid \/ Fail("api")
          /\ Goto(w, "release") /\ UNCHANGED <<crd, todo>>
  /\ UNCHANGED <<nsPhase, born, sts, pods, mounts, counts, tables, deploys, up,
                 op, at, want, tracked, ran, left>>

\* CreateMountResourceForFile, file by file: created or updated, skipped when
\* the file is not there, or an error.
CreateMounts(w) ==
  /\ pc[w] = "mounts"
  /\ \/ \E K \in SUBSET Nodes :
          /\ nsPhase[at[w]] = "active"
          /\ mounts' = [mounts EXCEPT ![at[w]] = @ \cup K]
          /\ Goto(w, "counts")
     \/ /\ nsPhase[at[w]] # "active" \/ Fail("api")
        /\ \E K \in SUBSET Nodes :
             mounts' = IF nsPhase[at[w]] = "active"
                       THEN [mounts EXCEPT ![at[w]] = @ \cup K] ELSE mounts
        /\ Goto(w, "release")
  /\ UNCHANGED <<nsPhase, born, crd, sts, pods, counts, tables, deploys, up, request, left>>

\* UpdateIfaceCountsConfigMap; an error is logged.
PublishCounts(w) ==
  /\ pc[w] = "counts"
  /\ \/ nsPhase[at[w]] = "active" /\ counts' = counts \cup {at[w]}
     \/ (nsPhase[at[w]] # "active" \/ Fail("api")) /\ UNCHANGED counts
  /\ Loop(w, Nodes)
  /\ Goto(w, "sts")
  /\ UNCHANGED <<nsPhase, born, crd, sts, pods, mounts, tables, deploys, up,
                 op, at, want, tracked, ran, left>>

CreateStatefulSet(w) ==
  /\ pc[w] = "sts"
  /\ \E k \in todo[w] :
       \/ /\ nsPhase[at[w]] = "active" /\ k \notin sts[at[w]]
          /\ sts' = [sts EXCEPT ![at[w]] = @ \cup {k}]
          /\ Visit(w, k)
          /\ Goto(w, IF todo[w] = {k} THEN "wait" ELSE "sts")
       \/ /\ nsPhase[at[w]] # "active" \/ k \in sts[at[w]] \/ Fail("api")
          /\ Goto(w, "release") /\ UNCHANGED <<sts, todo>>
  /\ UNCHANGED <<nsPhase, born, crd, pods, mounts, counts, tables, deploys, up,
                 op, at, want, tracked, ran, left>>

\* WaitForPodsReadyTimeline: every pod is Ready, or one cannot start or the
\* time is up and the deploy rolls back.
WaitReady(w) ==
  /\ pc[w] = "wait"
  /\ \/ Nodes \subseteq pods[at[w]] /\ Goto(w, "attributes")
     \/ Goto(w, "list")
  /\ UNCHANGED <<cluster, tables, deploys, up, request, left>>

\* SaveLinkAttributes, after the heal pass; an error is logged.
SaveLinkAttributes(w) ==
  /\ pc[w] = "attributes"
  /\ attributes' = attributes \cup {at[w]} \/ UNCHANGED attributes
  /\ Goto(w, "verify")
  /\ UNCHANGED <<cluster, locks, flag, registry, history, deploys, up, request, left>>

\* The MTU pass and ExitedPods: each lets the deploy go on or rolls it back.
Verify(w) ==
  /\ pc[w] = "verify"
  /\ Goto(w, "shape") \/ Goto(w, "list")
  /\ UNCHANGED <<cluster, tables, deploys, up, request, left>>

\* Variant for the mutants: the operation is saved without its executed_at.
ApplyUnstamped(w) ==
  /\ pc[w] = "shape"
  /\ history' = [history EXCEPT ![at[w]] = @ \cup {[deploy |-> deploys[at[w]]]}]
  /\ Goto(w, "flag")
  /\ UNCHANGED <<cluster, locks, flag, registry, attributes, deploys, up, request, left>>

\* ApplyLinkAttributes: shaping that ran is saved like any operation.
ApplyLinkAttributes(w) ==
  /\ pc[w] = "shape"
  /\ \/ history' = [history EXCEPT ![at[w]] =
                      @ \cup {[deploy |-> deploys[at[w]], born |-> born[at[w]]]}]
     \/ UNCHANGED history
  /\ Goto(w, "flag")
  /\ UNCHANGED <<cluster, locks, flag, registry, attributes, deploys, up, request, left>>

\* SetNamespaceHasTopology; an error is logged.
SetHasTopology(w) ==
  /\ pc[w] = "flag"
  /\ flag' = flag \cup {at[w]} \/ (Fail("db") /\ UNCHANGED flag)
  /\ Goto(w, "registry")
  /\ UNCHANGED <<cluster, locks, registry, attributes, history, deploys, up, request, left>>

\* SyncNamespaceLinkUIDRegistry, in one transaction; an error is logged.
SyncRegistry(w) ==
  /\ pc[w] = "registry"
  /\ \/ registry' = [registry EXCEPT ![at[w]] = Linked(at[w])]
     \/ (Fail("db") \/ Fail("api")) /\ UNCHANGED registry
  /\ Goto(w, "release")
  /\ UNCHANGED <<cluster, locks, flag, attributes, history, deploys, up, request, left>>

-----------------------------------------------------------------------------
(* ClearTopology, and RollbackNamespaceTopology, which runs the same       *)
(* ClearNamespaceTopologyResources and goes on when that fails.            *)

Clear(w) ==
  /\ \E n \in Namespaces : nsPhase[n] = "active" /\ Arrive(w, "clear", n, NoUid, "acquire")
  /\ UNCHANGED <<cluster, tables, deploys, up, todo, tracked, ran>>

ClearFails(w) == Goto(w, IF op[w] = "deploy" THEN "resync" ELSE "release")

\* The StatefulSets, and with them the mounts their templates name.
ListStatefulSets(w) ==
  /\ pc[w] = "list"
  /\ \/ /\ tracked' = [tracked EXCEPT ![w].sts = sts[at[w]]]
        /\ Loop(w, sts[at[w]])
        /\ Goto(w, "delsts")
     \/ Fail("api") /\ ClearFails(w) /\ UNCHANGED <<tracked, todo>>
  /\ UNCHANGED <<cluster, tables, deploys, up, op, at, want, ran, left>>

DeleteStatefulSet(w) ==
  /\ pc[w] = "delsts" /\ todo[w] # {}
  /\ \/ \E k \in todo[w] :
          /\ sts' = [sts EXCEPT ![at[w]] = @ \ {k}]
          /\ Visit(w, k)
          /\ UNCHANGED pc
     \/ Fail("api") /\ ClearFails(w) /\ UNCHANGED <<sts, todo>>
  /\ UNCHANGED <<nsPhase, born, crd, pods, mounts, counts, tables, deploys, up,
                 op, at, want, tracked, ran, left>>

\* Variant for the mutants: only the CRDs of pods that had a StatefulSet go.
ListTopologiesOfSets(w) ==
  /\ pc[w] = "delsts" /\ todo[w] = {}
  /\ tracked' = [tracked EXCEPT ![w].crd = HasCRD(at[w]) \cap tracked[w].sts]
  /\ Loop(w, HasCRD(at[w]) \cap tracked[w].sts)
  /\ Goto(w, "delcrd")
  /\ UNCHANGED <<cluster, tables, deploys, up, op, at, want, ran, left>>

ListTopologies(w) ==
  /\ pc[w] = "delsts" /\ todo[w] = {}
  /\ \/ /\ tracked' = [tracked EXCEPT ![w].crd = HasCRD(at[w])]
        /\ Loop(w, HasCRD(at[w]))
        /\ Goto(w, "delcrd")
     \/ Fail("api") /\ ClearFails(w) /\ UNCHANGED <<tracked, todo>>
  /\ UNCHANGED <<cluster, tables, deploys, up, op, at, want, ran, left>>

DeleteTopology(w) ==
  /\ pc[w] = "delcrd" /\ todo[w] # {}
  /\ \/ \E k \in todo[w] :
          /\ crd' = [crd EXCEPT ![at[w]][k] = NoUid]
          /\ Visit(w, k)
          /\ UNCHANGED pc
     \/ Fail("api") /\ ClearFails(w) /\ UNCHANGED <<crd, todo>>
  /\ UNCHANGED <<nsPhase, born, sts, pods, mounts, counts, tables, deploys, up,
                 op, at, want, tracked, ran, left>>

\* waitForTopologyResourcesDeletion: what was listed is gone, its pods
\* included, or (a pod is stuck) 120 s are over.
WaitDeleted(w) ==
  /\ pc[w] = "delcrd" /\ todo[w] = {}
  /\ LET gone == /\ tracked[w].sts \cap (sts[at[w]] \cup pods[at[w]]) = {}
                 /\ tracked[w].crd \cap HasCRD(at[w]) = {}
     IN  \/ gone /\ Loop(w, tracked[w].sts) /\ Goto(w, "delmounts")
         \/ /\ (~ gone /\ Fail("stuck")) \/ Fail("api")
            /\ ClearFails(w) /\ UNCHANGED todo
  /\ UNCHANGED <<cluster, tables, deploys, up, op, at, want, tracked, ran, left>>

DeleteMount(w) ==
  /\ pc[w] = "delmounts" /\ todo[w] # {}
  /\ \/ \E k \in todo[w] :
          /\ mounts' = [mounts EXCEPT ![at[w]] = @ \ {k}]
          /\ Visit(w, k)
          /\ UNCHANGED pc
     \/ Fail("api") /\ ClearFails(w) /\ UNCHANGED <<mounts, todo>>
  /\ UNCHANGED <<nsPhase, born, crd, sts, pods, counts, tables, deploys, up,
                 op, at, want, tracked, ran, left>>

\* The last two statements of ClearNamespaceTopologyResources.
ForgetUIDs(w) ==
  /\ pc[w] = "delmounts" /\ todo[w] = {}
  /\ \/ registry' = [registry EXCEPT ![at[w]] = {}] /\ Goto(w, "unflag")
     \/ Fail("db") /\ ClearFails(w) /\ UNCHANGED registry
  /\ UNCHANGED <<cluster, locks, flag, attributes, history, deploys, up, request, left>>

Unflag(w) ==
  /\ pc[w] = "unflag"
  /\ \/ flag' = flag \ {at[w]} /\ Goto(w, "resync")
     \/ Fail("db") /\ ClearFails(w) /\ UNCHANGED flag
  /\ UNCHANGED <<cluster, locks, registry, attributes, history, deploys, up, request, left>>

\* What the handlers do after it: each error is logged and the next one runs.
Resync(w) ==
  /\ pc[w] = "resync"
  /\ \/ flag' = IF HasTopology(at[w]) THEN flag \cup {at[w]} ELSE flag \ {at[w]}
     \/ (Fail("db") \/ Fail("api")) /\ UNCHANGED flag
  /\ Goto(w, "reregistry")
  /\ UNCHANGED <<cluster, locks, registry, attributes, history, deploys, up, request, left>>

DropRegistry(w) ==
  /\ pc[w] = "reregistry"
  /\ registry' = [registry EXCEPT ![at[w]] = {}] \/ (Fail("db") /\ UNCHANGED registry)
  /\ Goto(w, "rehistory")
  /\ UNCHANGED <<cluster, locks, flag, attributes, history, deploys, up, request, left>>

DropHistory(w) ==
  /\ pc[w] = "rehistory"
  /\ history' = [history EXCEPT ![at[w]] = {}] \/ (Fail("db") /\ UNCHANGED history)
  /\ Goto(w, "reattributes")
  /\ UNCHANGED <<cluster, locks, flag, registry, attributes, deploys, up, request, left>>

DropAttributes(w) ==
  /\ pc[w] = "reattributes"
  /\ attributes' = attributes \ {at[w]} \/ (Fail("db") /\ UNCHANGED attributes)
  /\ Goto(w, "recounts")
  /\ UNCHANGED <<cluster, locks, flag, registry, history, deploys, up, request, left>>

DropCounts(w) ==
  /\ pc[w] = "recounts"
  /\ counts' = counts \ {at[w]} \/ (Fail("api") /\ UNCHANGED counts)
  /\ Goto(w, "cleared")
  /\ UNCHANGED <<nsPhase, born, crd, sts, pods, mounts, tables, deploys, up, request, left>>

\* The answer: 200 for a clear, "rolledBack" for a deploy.
Answer(w) ==
  /\ pc[w] = "cleared"
  /\ Goto(w, "release")
  /\ UNCHANGED <<cluster, tables, deploys, up, request, left>>

-----------------------------------------------------------------------------
(* Requests that take no lock.                                             *)

\* Configure runs on a pod that exists and saves afterwards (OperationHistory
\* models it statement by statement), whatever is deployed by then.
Configure(w) ==
  /\ \E n \in Namespaces :
       /\ pods[n] # {} /\ Arrive(w, "configure", n, NoUid, "save")
       /\ ran' = [ran EXCEPT ![w] = deploys[n]]
  /\ UNCHANGED <<cluster, tables, deploys, up, todo, tracked>>

SaveOperation(w) ==
  /\ pc[w] = "save"
  /\ \/ history' = [history EXCEPT ![at[w]] =
                      @ \cup {[deploy |-> ran[w], born |-> born[at[w]]]}]
     \/ Fail("db") /\ UNCHANGED history
  /\ Goto(w, "idle")
  /\ UNCHANGED <<cluster, locks, flag, registry, attributes, deploys, up, request, left>>

\* CreateNamespace: whatever is on record under the name is a predecessor's.
CreateNamespace(w) ==
  /\ \E n \in Namespaces :
       /\ nsPhase[n] = "absent" /\ Arrive(w, "create", n, NoUid, "newhistory")
       /\ nsPhase' = [nsPhase EXCEPT ![n] = "active"]
       /\ born' = [born EXCEPT ![n] = @ + 1]
  /\ UNCHANGED <<crd, sts, pods, mounts, counts, tables, deploys, up, todo, tracked, ran>>

CreateCleans(w) ==
  /\ \/ /\ pc[w] = "newhistory"
        /\ history' = [history EXCEPT ![at[w]] = {}] \/ (Fail("db") /\ UNCHANGED history)
        /\ Goto(w, "newattributes") /\ UNCHANGED attributes
     \/ /\ pc[w] = "newattributes"
        /\ attributes' = attributes \ {at[w]} \/ (Fail("db") /\ UNCHANGED attributes)
        /\ Goto(w, "idle") /\ UNCHANGED history
  /\ UNCHANGED <<cluster, locks, flag, registry, deploys, up, request, left>>

\* DeleteNamespace: the object, then DeleteNamespaceState, which stops at its
\* first error, then the registry and the history once more, whatever came of
\* that, and the link attributes.
DeleteNamespace(w) ==
  /\ \E n \in Namespaces :
       /\ nsPhase[n] = "active" /\ Arrive(w, "delete", n, NoUid, "delstate")
       /\ nsPhase' = [nsPhase EXCEPT ![n] = "terminating"]
  /\ UNCHANGED <<born, crd, sts, pods, mounts, counts, tables, deploys, up, todo, tracked, ran>>

DeleteState(w) ==
  /\ pc[w] = "delstate"
  /\ \/ flag' = flag \ {at[w]} /\ Goto(w, "dellock")
     \/ Fail("db") /\ Goto(w, "delregistry2") /\ UNCHANGED flag
  /\ UNCHANGED <<cluster, locks, registry, attributes, history, deploys, up, request, left>>

\* The lock of the operation in progress, if there is one, goes too.
DeleteLock(w) ==
  /\ pc[w] = "dellock"
  /\ \/ locks' = locks \ {at[w]} /\ Goto(w, "delregistry1")
     \/ Fail("db") /\ Goto(w, "delregistry2") /\ UNCHANGED locks
  /\ UNCHANGED <<cluster, flag, registry, attributes, history, deploys, up, request, left>>

DeleteRegistry(w) ==
  /\ \/ /\ registry' = [registry EXCEPT ![at[w]] = {}]
        /\ \/ pc[w] = "delregistry1" /\ Goto(w, "delhistory1")
           \/ pc[w] = "delregistry2" /\ Goto(w, "delhistory2")
     \/ /\ Fail("db") /\ UNCHANGED registry
        /\ \/ pc[w] = "delregistry1" /\ Goto(w, "delregistry2")
           \/ pc[w] = "delregistry2" /\ Goto(w, "delhistory2")
  /\ UNCHANGED <<cluster, locks, flag, attributes, history, deploys, up, request, left>>

DeleteHistory(w) ==
  /\ history' = [history EXCEPT ![at[w]] = {}] \/ (Fail("db") /\ UNCHANGED history)
  /\ \/ pc[w] = "delhistory1" /\ Goto(w, "delregistry2")
     \/ pc[w] = "delhistory2" /\ Goto(w, "delattributes")
  /\ UNCHANGED <<cluster, locks, flag, registry, attributes, deploys, up, request, left>>

DeleteAttributes(w) ==
  /\ pc[w] = "delattributes"
  /\ attributes' = attributes \ {at[w]} \/ (Fail("db") /\ UNCHANGED attributes)
  /\ Goto(w, "idle")
  /\ UNCHANGED <<cluster, locks, flag, registry, history, deploys, up, request, left>>

\* GetNamespaceSummary, and ListNamespaces for each namespace: the row of
\* namespace_state is brought up to date by SyncNamespaceTopologyState, as in
\* SyncState, but without the lock.
Summary(w) ==
  /\ \E n \in Namespaces :
       nsPhase[n] # "absent" /\ Arrive(w, "summary", n, NoUid, "looksets")
  /\ UNCHANGED <<cluster, tables, deploys, up, todo, tracked, ran>>

\* It looks for StatefulSets first, and for CRDs where there are none.
LookAround(w) ==
  /\ \/ pc[w] = "looksets" /\ Goto(w, IF sts[at[w]] # {} THEN "raise" ELSE "lookcrds")
     \/ pc[w] = "lookcrds" /\ Goto(w, IF HasCRD(at[w]) # {} THEN "raise" ELSE "lower")
     \/ pc[w] \in {"looksets", "lookcrds"} /\ Fail("api") /\ Goto(w, "idle")
  /\ UNCHANGED <<cluster, tables, deploys, up, request, left>>

\* What it has seen may be over by the time it writes it.
SetSeen(w) ==
  /\ \/ pc[w] = "raise" /\ flag' = flag \cup {at[w]}
     \/ pc[w] = "lower" /\ flag' = flag \ {at[w]}
     \/ pc[w] \in {"raise", "lower"} /\ Fail("db") /\ UNCHANGED flag
  /\ Goto(w, "idle")
  /\ UNCHANGED <<cluster, locks, registry, attributes, history, deploys, up, request, left>>

-----------------------------------------------------------------------------
(* The cluster, and the backend process.                                   *)

\* The StatefulSet controller starts a pod, or ends one it no longer owns.
PodUp == \E n \in Namespaces : \E k \in sts[n] \ pods[n] :
  /\ nsPhase[n] = "active"
  /\ pods' = [pods EXCEPT ![n] = @ \cup {k}]
  /\ UNCHANGED <<nsPhase, born, crd, sts, mounts, counts, tables, deploys, up, pc, request, left>>

PodDown == \E n \in Namespaces : \E k \in pods[n] \ sts[n] :
  /\ pods' = [pods EXCEPT ![n] = @ \ {k}]
  /\ UNCHANGED <<nsPhase, born, crd, sts, mounts, counts, tables, deploys, up, pc, request, left>>

\* A terminating namespace goes, and with it what is left in it.
NamespaceGone == \E n \in Namespaces :
  /\ nsPhase[n] = "terminating"
  /\ nsPhase' = [nsPhase EXCEPT ![n] = "absent"]
  /\ crd' = [crd EXCEPT ![n] = NoCRDs]
  /\ sts' = [sts EXCEPT ![n] = {}] /\ pods' = [pods EXCEPT ![n] = {}]
  /\ mounts' = [mounts EXCEPT ![n] = {}] /\ counts' = counts \ {n}
  /\ UNCHANGED <<born, tables, deploys, up, pc, request, left>>

\* kubectl deletes a namespace, or creates it again, behind KubeNDT's back.
DeletedOutside == \E n \in Namespaces :
  /\ Fail("loss") /\ nsPhase[n] = "active" /\ born[n] < MaxBorn /\ (Serial => Quiet)
  /\ nsPhase' = [nsPhase EXCEPT ![n] = "terminating"]
  /\ UNCHANGED <<born, crd, sts, pods, mounts, counts, tables, deploys, up, pc, request, left>>

CreatedOutside == \E n \in Namespaces :
  /\ Fail("loss") /\ nsPhase[n] = "absent" /\ (Serial => Quiet)
  /\ nsPhase' = [nsPhase EXCEPT ![n] = "active"] /\ born' = [born EXCEPT ![n] = @ + 1]
  /\ UNCHANGED <<crd, sts, pods, mounts, counts, tables, deploys, up, pc, request, left>>

Crash ==
  /\ Fail("crash") /\ up
  /\ up' = FALSE
  /\ pc' = [w \in Workers |-> "idle"]
  /\ todo' = [w \in Workers |-> {}]
  /\ UNCHANGED <<cluster, tables, deploys, op, at, want, tracked, ran, left>>

\* Variants for the mutants: the registry is not rebuilt, the locks are kept.
StartupUnsynced ==
  /\ ~ up /\ up' = TRUE /\ locks' = {}
  /\ UNCHANGED <<cluster, flag, registry, attributes, history, deploys, pc, request, left>>
StartupLocked ==
  /\ ~ up /\ up' = TRUE /\ registry' = [n \in Namespaces |-> Linked(n)]
  /\ UNCHANGED <<cluster, locks, flag, attributes, history, deploys, pc, request, left>>

\* main: every lock is wiped and the registry is rebuilt from the CRDs, both
\* before the first request is served; an error of either is logged.
Startup ==
  /\ ~ up
  /\ up' = TRUE
  /\ locks' = {} \/ (Fail("db") /\ UNCHANGED locks)
  /\ \/ registry' = [n \in Namespaces |-> Linked(n)]
     \/ (Fail("api") \/ Fail("db")) /\ UNCHANGED registry
  /\ UNCHANGED <<cluster, flag, attributes, history, deploys, pc, request, left>>

-----------------------------------------------------------------------------
Locked(w) ==
  \/ Acquire(w) \/ SyncState(w) \/ PrepareUIDs(w) \/ CreateCRD(w) \/ CreateMounts(w)
  \/ PublishCounts(w) \/ CreateStatefulSet(w) \/ WaitReady(w) \/ SaveLinkAttributes(w)
  \/ Verify(w) \/ ApplyLinkAttributes(w) \/ SetHasTopology(w) \/ SyncRegistry(w)
  \/ ListStatefulSets(w) \/ DeleteStatefulSet(w) \/ ListTopologies(w) \/ DeleteTopology(w)
  \/ WaitDeleted(w) \/ DeleteMount(w) \/ ForgetUIDs(w) \/ Unflag(w) \/ Resync(w)
  \/ DropRegistry(w) \/ DropHistory(w) \/ DropAttributes(w) \/ DropCounts(w)
  \/ Answer(w) \/ Release(w)
Unlocked(w) == \/ PurgeStale(w) \/ SaveOperation(w) \/ CreateCleans(w)
               \/ DeleteState(w) \/ DeleteLock(w) \/ DeleteRegistry(w)
               \/ DeleteHistory(w) \/ DeleteAttributes(w) \/ LookAround(w) \/ SetSeen(w)
Step(w)     == Locked(w) \/ Unlocked(w)
Arrival(w)  == \/ Deploy(w) \/ Clear(w) \/ Configure(w)
               \/ CreateNamespace(w) \/ DeleteNamespace(w) \/ Summary(w)
World       == PodUp \/ PodDown \/ NamespaceGone \/ DeletedOutside \/ CreatedOutside

Next == (\E w \in Workers : Arrival(w) \/ Step(w)) \/ World \/ Crash \/ Startup

\* Calls return, so a request goes on; a backend that died is started again.
Fairness == (\A w \in Workers : WF_vars(Step(w))) /\ WF_vars(Startup)
Spec == Init /\ [][Next]_vars /\ Fairness

-----------------------------------------------------------------------------
(* Properties.                                                             *)

\* Where a request holds the operation lock.
Held == {"sync", "prepare", "crds", "mounts", "counts", "sts", "wait", "attributes",
         "verify", "shape", "flag", "registry", "list", "delsts", "delcrd", "delmounts",
         "unflag", "resync", "reregistry", "rehistory", "reattributes", "recounts",
         "cleared", "release"}
Free == {"idle", "purge", "acquire", "save", "newhistory", "newattributes", "delstate",
         "dellock", "delregistry1", "delhistory1", "delregistry2", "delhistory2",
         "delattributes", "looksets", "lookcrds", "raise", "lower"}

ClusterOK ==
  /\ nsPhase \in [Namespaces -> {"active", "terminating", "absent"}]
  /\ born \in [Namespaces -> Nat]
  /\ crd \in [Namespaces -> [Nodes -> UIDs \cup {NoUid}]]
  /\ sts \in [Namespaces -> SUBSET Nodes] /\ pods \in [Namespaces -> SUBSET Nodes]
  /\ mounts \in [Namespaces -> SUBSET Nodes] /\ counts \subseteq Namespaces
TablesOK ==
  /\ locks \subseteq Namespaces /\ flag \subseteq Namespaces /\ attributes \subseteq Namespaces
  /\ registry \in [Namespaces -> SUBSET UIDs]
  /\ history \in [Namespaces -> SUBSET [deploy: Nat, born: Nat]]
RequestsOK ==
  /\ deploys \in [Namespaces -> Nat] /\ up \in BOOLEAN /\ left \in Nat
  /\ pc \in [Workers -> Held \cup Free] /\ op \in [Workers -> RequestKinds]
  /\ at \in [Workers -> Namespaces] /\ want \in [Workers -> UIDs \cup {NoUid}]
  /\ todo \in [Workers -> SUBSET Nodes] /\ ran \in [Workers -> Nat]
  /\ tracked \in [Workers -> [sts: SUBSET Nodes, crd: SUBSET Nodes]]

\* The variables have the types of the cluster, the tables and the requests.
TypeOK == ClusterOK /\ TablesOK /\ RequestsOK

\* "Single operation at a time per namespace": no two requests are past their
\* lock in the same namespace.
OneOperation ==
  \A w, v \in Workers :
    pc[w] \in Held /\ pc[v] \in Held /\ at[w] = at[v] => w = v

\* A deploy creates into an empty namespace: the leftovers of an interrupted
\* deploy, a clear or another deploy never meet the objects it creates.
DeployFindsNothing ==
  \A w \in Workers :
    /\ pc[w] = "crds" => HasCRD(at[w]) \cap todo[w] = {} /\ sts[at[w]] = {}
    /\ pc[w] = "sts"  => sts[at[w]] \cap todo[w] = {}

\* When a clear answers 200 the topology is gone: no StatefulSet, no Topology
\* CRD, no link UID, no link attributes, and the flag says so.
ClearRemovesTopology ==
  \A w \in Workers :
    pc[w] = "cleared" /\ op[w] = "clear" =>
      /\ ~ HasTopology(at[w]) /\ at[w] \notin flag \cup attributes \cup counts
      /\ registry[at[w]] = {}

\* After an interrupted deploy "recovery is one call": when the clear answers
\* 200 the ConfigMaps and Secrets the deploy created are gone too.
ClearRemovesMounts ==
  \A w \in Workers :
    pc[w] = "cleared" /\ op[w] = "clear" => mounts[at[w]] = {}

\* "unique within a cluster": no UID is on links of two namespaces.
UIDsUnique ==
  \A n, m \in Namespaces :
    nsPhase[n] = "active" /\ nsPhase[m] = "active" /\ n # m => Linked(n) \cap Linked(m) = {}

\* Between requests, the operations on record for a deployed namespace ran on
\* this deploy: nothing of a predecessor can be replayed onto its pods.
HistoryOfThisDeploy ==
  \A n \in Namespaces :
    Quiet /\ nsPhase[n] = "active" /\ pods[n] # {} =>
      \A h \in history[n] : h.deploy = deploys[n]

\* A namespace is never stuck with an operation in progress: its lock goes,
\* at the latest when the backend starts again.
LockFreed == \A n \in Namespaces : n \in locks ~> n \notin locks

\* The stage of an operation in the terms of NamespaceOperations.
StageOf(c) ==
  CASE c \in {"sync", "prepare"} -> "check"
    [] c \in {"crds", "mounts", "counts", "sts"} -> "build"
    [] c \in Free -> "out"
    [] OTHER -> "settle"

Stages == [w \in Workers |-> StageOf(pc[w])]
CRDs   == [n \in Namespaces |-> HasCRD(n)]

Operations == INSTANCE NamespaceOperations WITH
  stage <- Stages, place <- at, crds <- CRDs, sets <- sts

\* DeployNetwork and ClearTopology implement NamespaceOperations: whatever
\* requests, failed calls, crashes and restarts interleave, a namespace's CRDs
\* and StatefulSets are created by one operation, from nothing, and removed by
\* one that excludes every other.
OneBuilder == Operations!Spec

=============================================================================
