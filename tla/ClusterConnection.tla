-------------------------- MODULE ClusterConnection --------------------------
(***************************************************************************)
(* Which cluster the backend works on: the saved kubeconfig, KUBE_CONTEXT, *)
(* the Kubernetes clients every handler takes from package variables, and  *)
(* the cached id of the active cluster, under which every row and file is  *)
(* kept.  Requests that switch the context or load another kubeconfig run  *)
(* beside the others; nothing but the two caches is behind a mutex.        *)
(*                                                                         *)
(* A kubeconfig says which cluster each of its contexts leads to.          *)
(***************************************************************************)
EXTENDS Naturals, FiniteSets

CONSTANTS
  Clusters,     \* clusters, which are their own ids
  Contexts,     \* context names
  Kubeconfigs,  \* kubeconfigs that may be loaded: [leads, current]
  None,         \* no cluster, no context, no id
  Switchers,    \* workers serving requests that change the connection
  Users,        \* workers serving requests that work on the active cluster
  Unreachable,  \* clusters that do not answer now and then
  MaxRequests   \* bound: requests and restarts in a behaviour

Workers == Switchers \cup Users

ASSUME ConnectionAssumption ==
  /\ None \notin Clusters \cup Contexts /\ Switchers \cap Users = {}
  /\ \A k \in Kubeconfigs :
       /\ DOMAIN k.leads \subseteq Contexts /\ k.current \in DOMAIN k.leads
       /\ \A c \in DOMAIN k.leads : k.leads[c] \in Clusters
  /\ Unreachable \subseteq Clusters /\ MaxRequests \in Nat

VARIABLES
  saved,    \* the kubeconfig on disk
  env,      \* KUBE_CONTEXT, None when unset
  client,   \* the cluster Clientset and DynamicClient talk to, None without
  cache,    \* cachedClusterID
  memo,     \* ctxIDCache: the cluster id remembered for each context
  registry, \* clusters table: the context name kept for each cluster, and
            \* (history) the cluster that name led to
  rows,     \* (history) <<id, cluster, quiet>>: a request filed its work on
            \* cluster under id; quiet as in job's alone
  job,      \* job[w]: the request w serves
  tainted,  \* (history) the cached id was asked of a cluster left since
  mixed,    \* (history) two switches overlapped and none ran alone since
  left      \* requests and restarts still to come

vars == <<saved, env, client, cache, memo, registry, rows, job, tainted, mixed,
          left>>

\* at: the step; ctx, conf: what it asked for; from: the cluster whose id it
\* is asking for; id: the id it got; alone: no (other) switch was under way,
\* and the id was not a tainted one.
Idle == [at |-> "idle", ctx |-> None, conf |-> None, from |-> None, id |-> None,
         alone |-> TRUE]

Start(w) == job[w] = Idle /\ left > 0 /\ left' = left - 1

At(w, step) == job[w].at = step

Go(w, step) == job' = [job EXCEPT ![w].at = step]

Done(w) == job' = [job EXCEPT ![w] = Idle]

ActiveIn(k, e) == IF e # None THEN e ELSE k.current

\* ActiveContextName
ActiveContextName == ActiveIn(saved, env)

\* The client InitClient ends up with, None when the kubeconfig lacks the
\* context KUBE_CONTEXT names.
InitClient(k, e) ==
  IF ActiveIn(k, e) \in DOMAIN k.leads THEN k.leads[ActiveIn(k, e)] ELSE None

\* The process starts on what is on disk; only the database outlives it.
Init ==
  /\ saved \in Kubeconfigs
  /\ env = None
  /\ client = InitClient(saved, None)
  /\ cache = None
  /\ memo = [c \in Contexts |-> None]
  /\ registry = [c \in Clusters |-> None]
  /\ rows = {}
  /\ job = [w \in Workers |-> Idle]
  /\ tainted = FALSE /\ mixed = FALSE
  /\ left = MaxRequests

Restart ==
  /\ left > 0 /\ left' = left - 1
  /\ env' = None
  /\ client' = InitClient(saved, None)
  /\ cache' = None
  /\ memo' = [c \in Contexts |-> None]
  /\ job' = [w \in Workers |-> Idle]
  /\ tainted' = FALSE /\ mixed' = FALSE
  /\ UNCHANGED <<saved, registry, rows>>

-----------------------------------------------------------------------------
(* Switching. *)

Switching(w) == job[w].at \in {"load", "unset", "init", "apply", "drop", "env",
                               "record", "ask", "name"}

\* A request that switches begins; it and the others are no longer alone.
Begin(w, step, c, k) ==
  LET others == {v \in Switchers \ {w} : Switching(v)}
  IN  /\ job' = [v \in Workers |->
           IF v = w THEN [Idle EXCEPT !.at = step, !.ctx = c, !.conf = k,
                                      !.alone = others = {}]
           ELSE IF job[v] = Idle THEN Idle ELSE [job[v] EXCEPT !.alone = FALSE]]
      /\ mixed' = (mixed \/ others # {})

\* The context exists in the kubeconfig on disk.
SetKubeContext(w, c) ==
  /\ Start(w)
  /\ c \in DOMAIN saved.leads
  /\ Begin(w, "apply", c, saved)
  /\ UNCHANGED <<saved, env, client, cache, memo, registry, rows, tainted>>

\* The kubeconfig that was uploaded parses and its cluster answers.
LoadKubeConfig(w, k) ==
  /\ Start(w)
  /\ Begin(w, "load", None, k)
  /\ UNCHANGED <<saved, env, client, cache, memo, registry, rows, tainted>>

SaveKubeconfig(w) ==
  /\ At(w, "load")
  /\ saved' = job[w].conf
  /\ Go(w, "unset")
  /\ UNCHANGED <<env, client, cache, memo, registry, rows, tainted, mixed, left>>

UnsetContext(w) ==
  /\ At(w, "unset")
  /\ env' = None
  /\ Go(w, "init")
  /\ UNCHANGED <<saved, client, cache, memo, registry, rows, tainted, mixed, left>>

\* A failure clears the clients and leaves the cached id.
ReloadClient(w) ==
  /\ At(w, "init")
  /\ client' = InitClient(saved, env)
  /\ IF client' = None THEN Done(w) ELSE Go(w, "drop")
  /\ UNCHANGED <<saved, env, cache, memo, registry, rows, tainted, mixed, left>>

\* The kubeconfig is read again, and may have lost the context.
ApplyContext(w) ==
  /\ At(w, "apply")
  /\ IF job[w].ctx \in DOMAIN saved.leads
       THEN client' = saved.leads[job[w].ctx] /\ Go(w, "drop")
       ELSE Done(w) /\ UNCHANGED client
  /\ UNCHANGED <<saved, env, cache, memo, registry, rows, tainted, mixed, left>>

KeepClusterID(w) ==
  /\ At(w, "drop")
  /\ Go(w, IF job[w].ctx # None THEN "env" ELSE "record")
  /\ UNCHANGED <<saved, env, client, cache, memo, registry, rows, tainted, mixed, left>>

\* invalidateClusterID, the last thing applyConfig does.
InvalidateClusterID(w) ==
  /\ At(w, "drop")
  /\ cache' = None
  /\ tainted' = FALSE
  /\ Go(w, IF job[w].ctx # None THEN "env" ELSE "record")
  /\ UNCHANGED <<saved, env, client, memo, registry, rows, mixed, left>>

RecordFirst(w) ==
  /\ At(w, "env")
  /\ Go(w, "record")
  /\ UNCHANGED <<saved, env, client, cache, memo, registry, rows, tainted, mixed, left>>

SetContext(w) ==
  /\ At(w, "env")
  /\ env' = job[w].ctx
  /\ Go(w, "record")
  /\ UNCHANGED <<saved, client, cache, memo, registry, rows, tainted, mixed, left>>

\* RecordActiveCluster, after the id: the context's name is read on its own.
RecordActiveCluster(w) ==
  /\ At(w, "name")
  /\ registry' = [registry EXCEPT ![job[w].id] =
       [name |-> ActiveContextName, led |-> InitClient(saved, env),
        alone |-> job[w].alone]]
  /\ mixed' = (mixed /\ ~ job[w].alone)
  /\ Done(w)
  /\ UNCHANGED <<saved, env, client, cache, memo, rows, tainted, left>>

-----------------------------------------------------------------------------
(* Working on the active cluster. *)

Underway == \E w \in Switchers : Switching(w)

\* RequireKubeconfig lets the request through.
Request(u) ==
  /\ Start(u)
  /\ client # None
  /\ job' = [job EXCEPT ![u] = [Idle EXCEPT !.at = "record", !.alone = ~ Underway]]
  /\ UNCHANGED <<saved, env, client, cache, memo, registry, rows, tainted, mixed>>

After(w) == IF w \in Users THEN "use" ELSE "name"

\* CurrentClusterID: the cached id, else the active cluster is asked.
CurrentClusterID(w) ==
  /\ At(w, "record")
  /\ \/ /\ cache # None
        /\ job' = [job EXCEPT ![w].at = After(w), ![w].id = cache,
                              ![w].alone = @ /\ ~ tainted]
     \/ /\ cache = None /\ client # None
        /\ job' = [job EXCEPT ![w].at = "ask", ![w].from = client]
     \/ /\ cache = None /\ client = None
        /\ Done(w)
  /\ UNCHANGED <<saved, env, client, cache, memo, registry, rows, tainted, mixed, left>>

\* The answer is cached whatever happened since the question.
Answer(w) ==
  /\ At(w, "ask")
  /\ cache' = job[w].from
  /\ tainted' = (job[w].from # client)
  /\ job' = [job EXCEPT ![w].at = After(w), ![w].id = job[w].from]
  /\ UNCHANGED <<saved, env, client, memo, registry, rows, mixed, left>>

NoAnswer(w) ==
  /\ At(w, "ask") /\ job[w].from \in Unreachable
  /\ Done(w)
  /\ UNCHANGED <<saved, env, client, cache, memo, registry, rows, tainted, mixed, left>>

\* The request works on the cluster and files what it did under the id.
Use(u) ==
  /\ At(u, "use")
  /\ rows' = IF client = None THEN rows
             ELSE rows \cup {[id |-> job[u].id, on |-> client,
                              quiet |-> job[u].alone]}
  /\ Done(u)
  /\ UNCHANGED <<saved, env, client, cache, memo, registry, tainted, mixed, left>>

\* GetKubeConfigInfo labels the contexts: a context asked before is not asked
\* again.
LabelContext(u, c) ==
  /\ Start(u)
  /\ c \in DOMAIN saved.leads /\ memo[c] = None
  /\ job' = [job EXCEPT ![u] = [Idle EXCEPT !.at = "label", !.ctx = c,
                                            !.from = saved.leads[c]]]
  /\ UNCHANGED <<saved, env, client, cache, memo, registry, rows, tainted, mixed>>

Labelled(u) ==
  /\ At(u, "label")
  /\ \/ memo' = [memo EXCEPT ![job[u].ctx] = job[u].from]
     \/ job[u].from \in Unreachable /\ UNCHANGED memo
  /\ Done(u)
  /\ UNCHANGED <<saved, env, client, cache, registry, rows, tainted, mixed, left>>

-----------------------------------------------------------------------------

Switch(w) ==
  \/ \E c \in Contexts : SetKubeContext(w, c)
  \/ \E k \in Kubeconfigs : LoadKubeConfig(w, k)
  \/ SaveKubeconfig(w) \/ UnsetContext(w) \/ ReloadClient(w) \/ ApplyContext(w)
  \/ InvalidateClusterID(w) \/ SetContext(w) \/ RecordActiveCluster(w)

Work(u) ==
  \/ Request(u) \/ Use(u) \/ Labelled(u)
  \/ \E c \in Contexts : LabelContext(u, c)

Next ==
  \/ \E w \in Switchers : Switch(w)
  \/ \E u \in Users : Work(u)
  \/ \E w \in Workers : CurrentClusterID(w) \/ Answer(w) \/ NoAnswer(w)
  \/ Restart

Spec == Init /\ [][Next]_vars

-----------------------------------------------------------------------------

\* The state has the shape the code gives it; a cluster on record has the name
\* of a context (RecordActiveCluster).
TypeOK ==
  /\ saved \in Kubeconfigs /\ env \in Contexts \cup {None}
  /\ client \in Clusters \cup {None} /\ cache \in Clusters \cup {None}
  /\ memo \in [Contexts -> Clusters \cup {None}]
  /\ \A c \in Clusters : registry[c] = None \/ registry[c].name \in Contexts
  /\ rows \subseteq [id : Clusters, on : Clusters, quiet : BOOLEAN]
  /\ left \in 0 .. MaxRequests

\* A switch has changed the clients and not dropped the id yet.
Dropping == \E w \in Switchers : At(w, "drop")

\* What CurrentClusterID answers from its cache is the id of the cluster the
\* clients talk to, however switches, loads that fail and requests interleave,
\* unless the id was asked of a cluster that has been left since.
CachedIDIsActive ==
  cache # None /\ client # None /\ ~ Dropping /\ ~ tainted => cache = client

\* The same without the exception: the comment on CurrentClusterID has the id
\* cached "until the active client changes".
CachedUntilSwitch == cache # None /\ client # None /\ ~ Dropping => cache = client

\* A request that no switch overlapped, and that met no tainted id, files its
\* rows under the id of the cluster whose objects it changed, even if the
\* process was restarted, and so sent back to another context, before it.
RowsOfTheirCluster == \A r \in rows : r.quiet => r.id = r.on

\* Between switches that did not overlap, the context the UI reports as current
\* leads to the cluster the clients talk to.
ContextIsActive ==
  ~ Underway /\ ~ mixed /\ client # None => client = InitClient(saved, env)

\* A cluster is on record under a context that led to it when it was recorded,
\* unless another switch or load ran at the same time, or an id asked before
\* the switch was cached after it (RecordActiveCluster).
RecordedUnderItsContext ==
  \A c \in Clusters :
    registry[c] # None /\ registry[c].alone => registry[c].led = c

\* Ids and rows follow the active cluster: the cached id (CachedIDIsActive),
\* and what requests filed under it (RowsOfTheirCluster).
IDsOfTheirCluster == CachedIDIsActive /\ RowsOfTheirCluster

\* Contexts follow the active cluster: the one the UI shows
\* (ContextIsActive) and the one a cluster is recorded under
\* (RecordedUnderItsContext), in well-typed states.
ContextsOfTheirCluster == TypeOK /\ ContextIsActive /\ RecordedUnderItsContext

=============================================================================
