# KubeNDT: a TLA+ model of its operations

KubeNDT deploys emulated networks on Kubernetes. A Go backend turns a topology
(nodes and links) into Topology CRDs, StatefulSets, ConfigMaps and Secrets,
configures the nodes by running commands in their pods, shapes and sizes their
links, and keeps in one SQLite file what it needs to do so again after a pod is
recreated. This directory specifies the parts of the backend whose correctness
depends on the order in which requests, pods, SQL statements, kernel calls and
crashes meet.

Paths below are relative to `src/backend/` unless they start with `doc/`.

## 1. Inventory

| Component | State | Operations | Hard part |
|---|---|---|---|
| Operation history (`helpers/driver_operation_history.go`) | table `driver_operation_history`, one row per applied action and pod | save, duplicate check, replay, touch, prune, purge, namespace delete | saves and replays are several statements with no transaction; rows outlive pods |
| Configure (`handlers/configurator.go`) | none of its own | plan, skip duplicates, run, save, per pod and per link | takes no lock; history read before and written after the commands |
| Action pipeline (`helpers/action_pipeline.go`) | none | group, run as script or guest commit, map results back | one exec for several actions, partial failure, retries |
| Deploy (`handlers/network.go`) | CRDs, StatefulSets, mounts, counts | about fifteen calls under the lock, rollback | dies or fails between any two calls |
| Clear and rollback (`helpers/network_clear.go`) | the same objects, and the rows about them | list, delete, wait, clean the tables | must find what an interrupted deploy left |
| Namespace lock and state (`helpers/namespace_state.go`) | `namespace_operations`, `namespace_state` | acquire, release, wipe at startup, sync | the row belongs to nobody; a deletion removes it |
| Link UID registry (`helpers/network_uids.go`) | `link_uid_registry` | prepare, sync from CRDs, delete | checked at the start, written at the end of a deploy |
| Namespaces (`helpers/namespaces.go`) | namespace objects | create, delete | same name, different object |
| Modify and scale (`helpers/network_modify.go`, `network_scale.go`) | all objects of a topology | delete, scale down and up, add, restart, wait, replay | many nodes, many calls, no rollback; pods start meanwhile |
| Restart (`handlers/pods.go`, `helpers/pods.go`) | the pod, its peers' interfaces and skip entries | prepare peers, delete, wait, MTU pass, replay, peers | no lock; a pod that is not up yet |
| Heal pass, peer replay (`helpers/heal.go`, `peer_replay.go`, `qemu_rewire.go`) | interfaces of running pods | detect, choose, restart, re-apply | bounded rounds, which end to restart |
| MTU pass, link attributes (`helpers/mtu.go`, `link_attributes.go`) | table `link_attributes`, learned ceilings, MTUs and addresses of interfaces | read, settle, write, second round | decisions on old reads; passes overlap |
| Link shaping (`helpers/link_shaping.go`, `tc.go`, `tc_readback.go`) | qdiscs of interfaces, rows, chosen tc | expand, validate, batch, replay, read back | a batch that stops half-way; tc or toolbox |
| Toolbox, capture, iperf, trace (`helpers/toolbox.go`, `iperf.go`, `trace.go`, `handlers/capture.go`) | ephemeral containers, programs in pods | inject, stream, cancel, kill | handler, pump, exec and client end in any order |
| Files and mounts (`helpers/files.go`, `file_meta.go`, `pods.go`) | files on disk, their flag, ConfigMaps and Secrets | upload, save, rename, delete, import, sync, mount | disk, row and resource are three steps |
| Cluster connection (`kubeclient/`, `handlers/kubeconfig.go`) | clients, `KUBE_CONTEXT`, cached cluster id, `clusters` | switch, load, reset, ask for the id | package variables without a lock |
| Authentication (`auth/`, `handlers/auth.go`) | password, sessions, tokens, failed logins | login, validate, logout, tokens, startup | SELECT and UPDATE apart; windows and clocks |
| Startup (`main.go`) | | wipe locks, rebuild the registry, clients, password | what a crash left behind |
| Drivers, executors, reads, frontend, API documentation | | | see section 8 |

Components meet in three places. The **database** is shared by every request,
one statement at a time. The **cluster** is shared with the kubelet, the
controllers, Meshnet and anyone with kubectl. And the **namespace lock** orders
deploy, clear and modify, but not configure, restart, file requests, tools, or
the creation and deletion of namespaces.

What makes each correct:

- the history: the last word on each piece of state and nothing else; what
  configure skips is in force; a replay restores what is on record and prunes
  only what cannot be applied;
- deploy, clear, rollback: one operation at a time, never into leftovers, and
  one clear removes whatever an interruption left;
- modify: a 200 means that CRDs, pods and guests agree, and that nothing of
  another node was lost on the way;
- restart and heal: a pod and its neighbours end up as they were;
- the lock: exclusive, and never left behind; UIDs: unique over the cluster;
- links: at the MTU and with the shaping on record, at both ends;
- mounts: every volume resolves, to the file it was declared for;
- the connection: ids, rows and names belong to the cluster they are used for;
- credentials: what has ended stays ended;
- tools: what is reported happened, and nothing is left running.

## 2. Modules

| Module | Models | Uses |
|---|---|---|
| `OperationHistory` | history rows of one pod, configure and restart requests, the pod, crashes | |
| `TopologyLifecycle` | deploy, rollback, clear, configure's save, create and delete a namespace, the lock, the tables, startup | `NamespaceOperations` (refinement) |
| `NamespaceOperations` | what lock and emptiness check promise together (abstract) | |
| `TopologyModify` | ModifyNetwork: delete, scale-down, scale-up, add, restarts, heal round | |
| `PodRestart` | restart requests and the heal pass over pods, interfaces and skip entries | |
| `LinkMTU` | the MTU pass, link attribute rows, learned ceilings | |
| `LinkShaping` | the links section of configure, tc batches, readback, the toolbox | |
| `NamespaceFiles` | files, sensitive flags, the resources behind mounts | |
| `ClusterConnection` | kubeconfig, context, clients, cluster-id cache | |
| `ToolRuns` | traces, throughput tests, captures | |
| `NamespacePods` | the pods, and what may fail, for `LinkShaping` and `ToolRuns` | |
| `Authentication` | password, sessions, tokens, login limiter | |
| `MC...` | small instances of the above | their module |
| `...Proofs` | theorems (section 6); `AccessProofs` those of `ClusterConnection` and `Authentication`, `PodToolsProofs` those of `LinkShaping` and `ToolRuns` | their module |

Each module states the behaviour of the others where it meets them: a modify
holds the lock that `TopologyLifecycle` shows exclusive; the heal pass of a
modify is one round in `TopologyModify` and the whole algorithm in `PodRestart`;
the MTU pass is a step of a restart in `PodRestart` and the whole algorithm in
`LinkMTU`; the replay of one pod is a step there and statement by statement in
`OperationHistory`.

### OperationHistory

`rows` is the table for one pod: `id` (AUTOINCREMENT), `act` (action type with
payload), `at` (`executed_at`). `nextId` is the counter, `clock` the time of the
next stamp, and `created` the pod's creation time, rounded down to `Resolution`
ticks as Kubernetes rounds it to seconds. `live` is what is configured on the
pod, `fit` how this incarnation treats an action: runs it, rejects it, or has a
driver that no longer plans it. `wanted` and `lost` are history variables: the
last recorded word on each state, and whether a row was pruned or a save failed.

An action is what its catalogue entry (`actions.Descriptor`) declares: `state`,
`key`, `clears`, `undoPersists`, `clearsAlso`, `repeatable`. `needs` stands for
what the node's own software requires (a BGP neighbour needs a BGP process), and
is external. `driver_type` is not modelled: a pod keeps its driver.

Each worker is a request with its program point `pc`:

    configure   check -> run -> save (-> delete -> replace -> insert) -> idle
    restart     wait -> mtu -> list -> resolve -> run -> settle -> idle

`RunScriptAction`, `RunGuestCommit`, `ExecError`, `PassOver` and `RunEnds` are
`RunPlannedActions` for both. A script reports each action by its own marker; a
guest commit and a failed exec count for the whole `Group`. `Guest` chooses the
executor, so mixed pods are not covered. Every SQL statement is a step.

### TopologyLifecycle and NamespaceOperations

The cluster (`nsPhase`, `born`, `crd`, `sts`, `pods`, `mounts`, `counts`), the
tables (`locks`, `flag`, `registry`, `attributes`, `history`) and the requests
(`pc`, `op`, `at`, `want`, `todo`, `tracked`, `ran`). A topology is one link over
`Nodes`, each node one replica with its own file. Every Kubernetes call and every
statement is a step, each with its failure branch when the fault is in `Faults`.
A history entry keeps the deploy it ran on and the namespace object it was saved
under, which is what `PurgeStale` compares. Rollback shares clear's steps, as in
the code, and differs in going on after a failure (`ClearFails`).

The validations of a deploy are one choice between going on and answering 400;
the MTU pass and `ExitedPods` (`Verify`) are one choice between going on and
rolling back; the heal pass leaves no trace in this state. A listing or summary of
namespaces brings `flag` up to date without the lock (`Summary`, `LookAround`,
`SetSeen`): what it saw may be over when it writes it.

`NamespaceOperations` says the same without lock rows, tables or calls: per
worker a `stage` (`out`, `check`, `build`, `settle`), per namespace its CRDs and
StatefulSets; an operation begins where no other is, builds only from nothing,
and only creates what is not there. `OneBuilder` in `TopologyLifecycle` is
`Operations!Spec` under the mapping `StageOf`, `CRDs`; the mapping reads the
stage off `pc`, and a worker is `out` until it has its lock.

### TopologyModify

A pod is `<<node, ordinal>>`, a link its name with the interfaces `Ends[l]`.
Cluster: `replicas`, `crds`, `spec`, `mounts`, `counts`. Tables: `history`,
`attrs`, `registry`. Data plane: `running`, `stale`, `ifs`, `guest`, `launched`.
The one request of the namespace's lock: `pc`, `req`, `phase` and its loop
variables. The phases are those of the handler:

    delete   unlink -> list -> detach -> delset -> deltopo -> delmount -> delrows
    down     orphans -> shrink -> forget
    up       newcrds -> upsert -> counts -> grow
    add      addmounts -> ... -> upsert -> counts -> addsets
    finish   plan -> restart -> wait -> replay -> heal -> attributes -> sync -> ok

Pods start, launch their guests, and stop between any two of these steps; a
pod's CNI ADD wires the links both ends declare at that moment, which is why the
order of CRDs and StatefulSets matters. A failed call ends the request where it
stands: there is no rollback. A deleted StatefulSet's pods and those a smaller
one lost are `stale` until they stop: "K8s scales the StatefulSet down, terminating pods from the
highest ordinal first" (`helpers/network_scale.go:187-188`), within the grace period of 2 s. The
fault `lag` is a controller that has not looked yet when the node grows again.

### PodRestart

`phase`, `dev` (interfaces), `mtu`, `rows` and `conf` (operations on record and in
force) per pod, `skipped` of its CRD; for a guest the `taps` its VM was launched
with and `tc`, the redirects between them and the interfaces. What an operation
put on an interface dies with it; what it put inside a guest dies with the VM,
while the redirect dies with the interface. A worker of a restart request reads
its skip entries, injects one at each peer of a link it creates, deletes the peers'
veths, deletes the pod, waits, and runs MTU pass, replay and peers. A heal pass
collects the missing ends, checks them again, chooses pods by
`chooseRestartEndpoint` and recreates them the same way, for at most `MaxRounds`
rounds. The ends of a pod that is not Ready, or whose exec failed each time (fault
`exec`), count as missing. The kubelet and Meshnet are `PodGone` and `PodUp`: a veth dies with
either end, a tunnel's end stays; both ends of a link are made unless both skip
it, and a name that is taken makes the ADD fail (`Clash`). A guest then boots, and
`Launch` is its entrypoint, which wires the interfaces there are. `twin` is a
history variable: the links both ends of which one heal round recreates, which
`CleanRename` (tunnels) and `NetworkRestored` (redirects) except.

### LinkMTU

Per end the MTU on the pod (`mtu`) and in the guest, extra addresses, the rows
`link_attributes`, the learned `ceiling` of a worker and the remembered
`namespaceMTU`. `pass[p]` is a request: listing, reads per pod, learning from
fresh VXLAN ends, settling, writing pod by pod, then guests, and a second round
when the kernel refused a value. Each read may fail in the way the code lets it:
links or pods that cannot be listed end the pass, attributes that cannot be loaded
leave every link without value and extra addresses, a history that cannot be read
counts as empty, a pod that cannot be read is a warning. Passes overlap; `quiet`
and `clean` in the record of a pass say that nothing disturbed it and that it
warned of nothing. `misled` is a history variable: what a pass took for true and
was not, a failed read (`read`), an end wired anew under the pass (`wiring`), or
an address that `remove_ip` took away under it or in a history it could not read
(`address`).

### LinkShaping

An entry gives fields, of which some are above zero; an htb tree has classes with
rates, matches and leaves. `Valid` is the validation, `Rows` the batch, `Applied`
and `Accepts` the kernel, `ReadQdisc` the way back. Each end of a link is a user
of its pod's tc; captures, traces and reads are others. The choice between the
pod's tc and the toolbox is made at first contact and remembered; the toolbox is
injected under the pod's mutex, which the API may refuse, as it may refuse to show
whether one runs.

### NamespaceFiles

`disk`, `meta`, `res` (by kind and name), `set` (a node's volume) and a job per
worker: file requests of `Users`, and one worker `Topo` for whoever holds the
namespace's lock. Saving is disk, then read again, then resource; mounting is
flag, content, drop of the other kind, put, and the StatefulSet, which reads the
flag once more. Both reads discard the error of `GetFileMeta`, so one that fails
says ConfigMap (`KindsRead`). Resources are named by `Sanitized`, which need not keep
two paths apart. `misled` is a history variable: mounted files whose flag changed
or was misread, or whose resource a request for another file of the same name
changed.

### ClusterConnection

`saved` kubeconfig, `env`, `client`, `cache`, `memo`, `registry`; switchers and
users. A switch writes client, environment, cache and record in separate steps;
a user takes the id from the cache or asks the active cluster, whose answer is
cached whatever happened meanwhile. `tainted` and `mixed` are history variables
that mark where the code's races have struck.

### ToolRuns

`run[r]` is a request's handler, context, pipe, pump and result; `procs` the
programs in pods, `listens` the servers that listen. `BFSPath` is a recursive
function, a round of the search a number, checked against a reference definition
(`Within`, `PathsReal`).

### Authentication

Process (`phase`, `env`, `stored`, `admin`), tables (`session`, `token`), memory
(`attempt`), one job per worker with a database statement per step, a clock, and
crashes. `issued` and `ended` are history variables.

## 3. Runs

No run checks for deadlock: the supply of requests is bounded, so behaviours
end. `PROJECT.json` says in a sentence what each run shows.

| Run | Properties | Instance |
|---|---|---|
| HistorySerial | TypeOK, HistoryIsLastWord, NoMasking, ReplayRestores, OneRowPerState | script node, whole catalogue, 3 requests one at a time, one loss, slow daemons, transient errors, three kinds of pod |
| HistoryConcurrent | ReplaySettlesOwnRows, PruneAfterRetries, RequestsEnd | guest; configure against restart; all faults |
| LifecycleLock | TypeOK, OneOperation, DeployFindsNothing, OneBuilder | 2 requests at once, 3 in all, summaries among them, 1 namespace; crash, api, db, stuck |
| LifecycleRecover | ClearRemovesTopology, UIDsUnique, LockFreed | 2 namespaces, 2 UIDs, 3 requests one at a time, summaries among them; crash, stuck |
| LifecycleNames | HistoryOfThisDeploy | 5 requests of all kinds one at a time, namespaces recreated by kubectl |
| ModifyPhases | ModifyTakesEffect, SharedMountsKept, BothEndsBeforeStart, NoInheritedHistory | a QEMU router, a host of two replicas, a switch that scales; 2 of 10 requests in a row; api |
| RestartHeal | OneSideSkips, CleanRename, NetworkRestored, RequestsEnd | host - switch - guest with veth, tunnel and uplink; 2 requests; timeout, unwired, api |
| MTUPass | PassInForce, LoweringJustified, TwoRoundsEnough | veth and tunnel to a guest, two workers of different ceilings; 2 requests or failures of all kinds |
| Shaping | KernelAsRecorded, FirstMatchWins, ValidIsAccepted, OneToolbox | a pod with tc, one with or without it, an uplink; 16 entries; 2 requests; tc, pull, look |
| Files | MountsSound, OneKind, SyncedIsCurrent | two folders with a file each and a file `d_f` whose resource is named as that of `d/f`, 2 contents, 2 users, 2 nodes, 4 requests; api, db |
| Connection | IDsOfTheirCluster, ContextsOfTheirCluster | 2 clusters, 2 kubeconfigs with a context name in common, 2 switchers, 2 users, 4 requests |
| Tools | PathsReal, OutcomeTold, ProgramsAccounted, RunsEnd | 3 topologies of up to 5 pods, 2 runs, 2 ports; exec, slow, kill |

What the properties say of the code:

- `HistoryIsLastWord`: between requests the rows are exactly what the recorded
  configuration amounts to (`rowsOnState`, `clearedWith`, the undo rule).
- `NoMasking`: what `DriverOperationAppliedSince` would skip is in force on the
  pod that exists now.
- `ReplayRestores`: a replay that ran everything leaves every row in force and
  stamped for this incarnation.
- `OneRowPerState`: no two rows on one state and key at any statement.
- `PruneAfterRetries`: a row is pruned for a failed run only after its exec was
  tried `replayExecAttempts` times.
- `ReplaySettlesOwnRows`: ids held across minutes of commands still name the
  operations they named.
- `OneOperation`, `DeployFindsNothing`, `OneBuilder`: the lock, and the check that
  a namespace is free, hold for as long as the operation they guard; together
  they implement `NamespaceOperations`.
- `ClearRemovesTopology`: the answer 200 means that it is gone.
- `UIDsUnique`: the registry, which a dead deploy never wrote, is rebuilt before
  the next one reads it.
- `HistoryOfThisDeploy`: rows keyed by a name never reach a later namespace, or a
  later deploy, of that name.
- `ModifyTakesEffect`: a modify that answers 200 left a CRD at every pod and no
  other, links declared at both ends, and, once the pods are up, the interfaces
  and guest NICs the CRDs declare.
- `BothEndsBeforeStart`: a replica comes into being after its peers' CRDs name its
  links; `NoInheritedHistory`: and without a predecessor's rows;
  `SharedMountsKept`: a mount outlives all nodes but the last that uses it.
- `OneSideSkips`: the ends of a link never both leave it to the other.
  `CleanRename`: a replacement meets no leftover interface. `NetworkRestored`:
  operations, redirects and MTU are in force at the recreated pods and at the
  neighbours' ends once all is quiet.
- `PassInForce`: what a clean and undisturbed pass reports holds at both ends,
  inside the guest, and for the extra addresses. `LoweringJustified`: the
  platform's MTU is given up only where a worker cannot carry it, and a remembered
  ceiling is true, unless a pass was misled. `TwoRoundsEnough`: the second round of
  a pass that warned of nothing meets no refusal.
- `KernelAsRecorded`: the row reads back from the kernel (its distribution excepted,
  which tc does not print), and a batch that failed half-way left the beginning of
  its own tree. `FirstMatchWins`: filters classify
  as the request's order says. `ValidIsAccepted`: the kernel refuses nothing the
  validation let through. `OneToolbox`: concurrent users converge on one.
- `MountsSound`: a volume resolves, to the file it was declared for, unless that
  file was `misled`. `OneKind`: never a ConfigMap and a Secret for one file, unless a
  drop was refused. `SyncedIsCurrent`: the three places of a file agree.
- `IDsOfTheirCluster`, `ContextsOfTheirCluster`: cached id, rows, context shown and
  context recorded belong to the cluster the clients talk to.
- `PathsReal`: drawn hops follow links by shortest ways. `OutcomeTold`: delivered,
  unreachable, given up or unreached as the emitted hops say. `ProgramsAccounted`:
  a test that ended left no program. `RunsEnd`: every run ends, its program too.

Why the bounds are enough to be interesting: three requests allow a set, its undo
and a set again, a set, a restart and a repeat, or a deploy, a clear that dies and
a clear; two workers are what an interleaving of a save and a replay, or of two
operations on a lock, needs; one loss gives a second incarnation, and a restart
after it a third; two namespaces and two UIDs are what a collision needs. Five
requests in LifecycleNames allow deploy, configure, delete, create and deploy
again. In ModifyPhases one request mixes all sections, and two in a row let the
second meet what a failed first left, or bring a replica back under the name, and
perhaps beside the pod, of one that went. In RestartHeal the switch is a neighbour
of both others, so both kinds of link occur; the end of the veth and the end of
the tunnel that Meshnet may have missed make a heal round recreate two neighbours
at once. No request follows a wait that ran out. In MTUPass the ceilings 1500 and
1400 lie on either side of the platform's 1450, and two passes are what an overlap
needs. In Files two users and a mount are what a save, a second save and a put in
between need; the name that two paths share makes one mount overwrite another's
resource. In Connection the name that leads to different clusters is what a stale
entry needs.

### Disagreements between code and documentation

Met while modelling. Each is a definition of its module, or a checked property
under another constant, and no run expects it; the last column makes TLC find it.

| What the code does | What is written | How to see it |
|---|---|---|
| Every duplicate check of a request is made before its first action runs (`handlers/configurator.go:128`): `link_down`, `link_up` on an interface whose `link_up` is on record runs the first and skips the second. | `doc/ARCHITECTURE.md:90` "a set, its undo and the same set again all run" | HistorySerial, `Actions <- LinkActions`, `Requests <- TwoStepRequests`, `Fits <- AllFit`, INVARIANT RequestTakesEffect |
| The retry looks at the error of the exec, but an action of a script fails by its marker in an exec that succeeds (`helpers/action_pipeline.go:232`): it is pruned after one try. | `doc/FAILURE_MODEL.md:34` "a command that fails while a daemon is still starting is retried before the operation is given up on" | HistoryConcurrent, `Guest = FALSE`, PROPERTY PruneAfterRetries |
| Setting a router again gives its row a new id behind the rows that build on it (`helpers/driver_operation_history.go:157`); the next replay runs those first, they fail and are pruned. | `doc/FAILURE_MODEL.md:34` "Handled." and "the pod's history is replayed in order" | HistorySerial, `Actions <- BGPActions`, `Requests <- BGPRequests`, `Fits <- AllFit`, PROPERTY ReplayKeepsWhatFits |
| Clear learns of mounts from StatefulSets (`helpers/network_clear.go:55`), which a deploy creates after them: those of a deploy that died in between stay. | `doc/FAILURE_MODEL.md:26` "Recovery is one call" | LifecycleRecover, INVARIANT ClearRemovesMounts |
| Deleting a namespace deletes the lock row of the deploy in progress (`helpers/namespace_state.go:204`); another is admitted. | `doc/IMPLEMENTATION_DETAILS.md:667` "Single operation at a time per namespace (SQLite PRIMARY KEY on namespace)" | LifecycleLock, `Kinds = {"deploy", "clear", "create", "delete"}`, `MaxRequests = 4`, `MaxBorn = 2`, `Faults = {}`, INVARIANT OneOperation |
| Interface conflicts are checked in the add phase (`helpers/network_modify.go:90`); the links of a scale-up's replicas were written before it. | `helpers/network_modify.go:346` "rejects new links whose interfaces are already occupied" | ModifyPhases, `Links <- ScaleLinks`, `Requests <- ScaleRequests`, INVARIANT InterfacesUnique |
| The second round still compares with what was read before the first (`helpers/mtu.go:511`): an end that had the lowered value then, and was raised by the first round, counts as done and stays raised. | `helpers/mtu.go:191-192` "the value is lowered to what that end carries and every link is written again so they all agree" | MTUPass, INVARIANT LinksAgree |
| Two pods of one heal round are prepared before either is gone, and the second's CNI ADD finds the tunnel end the first one made on its return. | `helpers/pods.go:838-839` "Removing the peer end here guarantees a clean rename" | RestartHeal, INVARIANT RenameGuaranteed |
| The rewire leaves out what was recreated itself (`helpers/qemu_rewire.go:62-69`): a guest launched before its neighbour of the same heal round is back keeps redirects to the interface that went. | `helpers/pods.go:843-846` "then corrected by the post-restart QEMU TC rewire pass [...] so QEMU peers don't end up with stale `mirred` redirect targets" | RestartHeal, INVARIANT NoStaleRedirect |
| An id asked before a switch is cached after it (`kubeclient/cluster_id.go:49-73`). | `kubeclient/cluster_id.go:50-51` "caching it until the active client changes" | Connection, INVARIANT CachedUntilSwitch |
| A cancellation while the iperf server starts returns before anything is killed (`helpers/iperf.go:301-303`). | `helpers/iperf.go:197` "Cancelling ctx stops both" | Tools: `NoLeftovers` speaks of results "summary" and "cancelled" only |
| A mount of a file whose flag changed drops the other kind of resource at once (`helpers/pods.go:738-741`), whoever uses it: a pod recreated after that has no volume to start with. | `doc/FILE_MANAGER.md:67` "Existing pods keep using the old ConfigMap until they are redeployed" | Files, `Faults = {}`, INVARIANT VolumesKeepTheirs |
| A listing takes no lock: one that saw the StatefulSets before a clear and writes after it leaves `has_topology` at 1 for a namespace that has none (`helpers/namespace_state.go:70-91`). | `handlers/namespaces.go:44-45` "This also refreshes the DB row so future reads via the cheap NamespaceHasTopology() stay accurate" | LifecycleLock, `Faults = {}`, INVARIANT ClearRemovesTopology |
| Names of tokens are counted, then inserted, in two statements (`auth/auth.go:236-261`). | `auth/auth.go:234-235` "Token names must be unique" | `Authentication` with 2 workers, 2 tokens and 1 name, INVARIANT TokenNamesUnique |

## 4. What the assumptions leave out

### What serial requests hide

`Serial` (`Overlap = FALSE` in PodRestart) describes one client that waits for
each answer. It is an assumption of HistorySerial, LifecycleRecover,
LifecycleNames and RestartHeal, and the code does not enforce it. Setting it
otherwise, or adding the fault named, breaks their properties in these ways:

- two configure requests for one pod both list before either inserts:
  `OneRowPerState` fails;
- a configure runs on a pod that a restart is replacing and saves after the
  replacement was created: its row is newer than the pod, and `NoMasking` fails.
  `Resolution = 2` has the same effect without overlap, when a row was saved in
  the second in which the replacement was created;
- a crash after the commands and before the save: `HistoryIsLastWord` fails, so
  that run has no crashes;
- two deploys in two namespaces read the registry before either writes it:
  `UIDsUnique` fails. A rollback that drops the registry although its CRDs could
  not be deleted (the fault `api`) has the same effect until the next startup;
- a listing or summary of namespaces that began before a clear writes the flag
  after it: `ClearRemovesTopology` fails (the flag alone, until the next one);
- a configure saves after a clear dropped the history, or a clear gives up on a
  stuck pod before it drops it, or a rollback dies before its pods are gone:
  `HistoryOfThisDeploy` fails;
- restarts of two neighbours, or a restart beside a heal pass, each make the
  other leave their link: `OneSideSkips` fails, and the link stays unwired; with
  a heal pass beside them `NetworkRestored` fails too.

### What the faults leave out

Behaviours the models have, and the properties except, each by a history variable
or by a fault that no run enables:

- modify: a failed list of the remaining StatefulSets counts as an empty one, and
  a mount others use is deleted (fault `list`, `SharedMountsKept`);
- modify: a scale-down does not wait for its orphans. One that the controller has not begun
  to end when the next request scales its node up again stays, with the interfaces
  it had and none of the new links (fault `lag`, ModifyPhases with `Faults =
  {"api", "lag"}`, `WiredAsDeclared`);
- modify: a scale-up does not check its links as the add does
  (`helpers/network_modify.go:82`). One that ends at a pod no node has leaves the
  Topology CRD of that pod behind an answer 200 (ModifyPhases, `Requests <-
  AbsentRequests`, `CRDsAgree`, the first half of `ModifyTakesEffect`). One that
  ends at a node the same request adds, or at a replica of a later plan, creates
  the CRD that the add, or the plan, then POSTs: it is refused and the request
  ends half-way, always (`Requests <- NewPeerRequests`: no scale answers 200);
- restart: a wait that runs out re-applies the neighbours before the late CNI ADD
  (`handlers/pods.go:157-158`); the heal pass logs it and replays anyway; a
  refused deletion of the pod leaves its neighbours' ends cut; an error of the
  MTU pass or of the replay returns before the neighbours are re-applied
  (`handlers/pods.go:172-190`). All set `dirty`. An exec that fails three times on a
  Ready pod counts all its ends as missing and makes the heal pass restart it
  (fault `exec`): the theorems cover it, RestartHeal does not, because with it the
  liveness property outgrows the run; with the invariants alone the instance has
  3 298 600 states;
- MTU: only an undisturbed pass is claimed to be in force; two requests for one
  link update, find no row and insert. `misled` marks a failed read; a tunnel end
  wired anew under a pass, which then writes the link's own MTU, and the next pass
  takes it for the worker's ceiling (as it does when a deploy's reads are older than
  the wiring); and a `remove_ip` during a pass, which puts the address back, where
  every later pass leaves it, as does a pass that cannot read the history
  (`helpers/mtu.go:464-468`). A pod whose script did not run in the first round may
  be refused in the second;
- history: a one-off (`persist = false`) changes what is in force and not the table,
  so the row it replaced still masks; an exec that ran and was reported as failed, a
  save that failed and a crash before the save have the same effect (`NoMasking`). No run sends one-offs;
- shaping: a toolbox given up on while it was starting leaves a second one, and so does
  one that runs when the pod cannot be looked at, since a failed look counts as no
  toolbox (`helpers/toolbox.go:144-148`, fault `look`); both set `stuck`. An htb entry drops its delay, loss and reorder fields
  (`helpers/tc.go:288`);
- files: `misled` marks what `MountsSound` excepts. A flag that changes while the
  file is mounted makes the next mount, or the deletion of another node, delete the
  resource in use. A flag that cannot be read counts as not sensitive
  (`helpers/pods.go:559`, `710`): the StatefulSet of a sensitive file then names a
  ConfigMap nobody made, or the next mount drops the Secret in use. Two paths of one
  sanitized name overwrite each other's resource, as `doc/FILE_MANAGER.md:109` warns.
  A failed list of the remaining StatefulSets counts as an empty one here too
  (fault `list`, `helpers/network_modify.go:812`). A refused drop leaves both kinds
  (`refused`); a refused deletion in a clear leaves resources no volume names; a folder
  that is renamed leaves the flags of its children behind;
- connection: two switches at once mix one's client with the other's context
  (`mixed`); the label cache keeps a context's old cluster when a name is used
  again (`kubeclient/cluster_id.go:32-35`);
- tools: pkill matches a prefix, so the port 530 of an external test would match
  5301 (`helpers/iperf.go:263-264`); killing has no deadline of its own; mtr's
  report counts as delivered when its last hub answered, whoever that was;
- authentication: two validations may write `last_seen_at` in the wrong order, a
  stale read may delete a session that was just renewed; a SELECT that fails counts
  as no session, an UPDATE that fails admits the request all the same
  (`auth/auth.go:197-209`), and a logout ignores an error of its DELETE.

### What is simplified

Steps of the code that are one step here, or branches that are left out, because no
property tells them apart:

- `DriverOperationAppliedSince` is two SELECTs (`helpers/driver_operation_history.go:203-238`)
  and one step, `AppliedSince`. `NoMasking`, which it decides, is checked where
  requests come one at a time and nothing can fall between the two;
- an action that needs a tool the pod lacks has the toolbox injected first
  (`helpers/action_pipeline.go:138-151`). When that fails the action did not run: it is
  not saved, or its row is kept, and the others go on. A group also ends where
  the container of an action changes (`200-270`). `OperationHistory` has one container
  and no such failure; `ToolRuns` and `LinkShaping` have the toolbox;
- `LinkShaping`: an entry with only a reverse part, and several entries for one link
  in one request, do not occur in it;
- `ClusterConnection`: the record that startup makes (`main.go:62`) is made by the first
  request instead; the three assignments of `applyConfig` (`kubeclient/client.go:107-109`),
  and the truncation and copy of a kubeconfig (`261`), are one step each;
- `NamespaceFiles`: `handlers.DeleteFolder` has no route and is left out; the
  deletion of a folder through `DELETE` of a file is there (`Removed`).

## 5. Fairness

`OperationHistory`: weak fairness of each worker's next step, since every exec
has a deadline (`executor/exec.go:99`), every wait a timeout, and SQLite answers.
Nothing is assumed of the cluster: a pod may never come back. `RequestsEnd` needs
no more, because the wait gives up.

`TopologyLifecycle`: weak fairness of each request's next step and of `Startup`
(`docker-compose.yml` has `restart: unless-stopped`). The wait of a clear returns
when its pods are gone or, with the `stuck` fault, when 120 s are over; LockFreed
is checked with it. With failing statements a release that fails leaves the lock
until the next restart (the code logs it), so LockFreed is checked without `db`.

`PodRestart`: weak fairness of each worker's next step and of the pods', since the
kubelet, Meshnet and a guest's entrypoint run, and the entrypoint's wait for
interfaces is bounded; the heal pass ends because its rounds are bounded.

`ToolRuns`: weak fairness of each handler, pump and goroutine (contexts have
deadlines, or a client that is gone) and of the kubelet's kill. Nothing is
assumed of the programs, which may run forever.

The other modules state no fairness and no liveness.

## 6. Proofs

The theorems hold for every value of the constants that satisfies the ASSUMEs:
any catalogue, any sets of workers, namespaces, nodes, links, files, clusters,
credentials and UIDs, and any combination of faults a theorem does not exclude. The
assumptions are of typing (no UID is `NoUid`, the bounds are naturals) and, for
`Desc`, what the catalogue keeps to: each action has a descriptor, the no-state
value is in no `clearsAlso`, and an action without a state takes none down
(`actions/registry.go`: it "is independent of the others").

`OperationHistoryProofs`:

- `TypeCorrect`: `Spec => [](TypeOK /\ Shape /\ IsFiniteSet(rows))`. `Shape` is what
  typing needs to be inductive: a worker's `mark` and `tries` run over the same
  indices as its `list`, a restarter's list holds rows, a job's entries, and the
  program points of one kind of worker are not those of the other. The table is
  finite, which `ReplayList` needs to have an order.
- `ReplaySettlesOwn`: by `IdsNameOperations`: every id in the table or in a
  replay's list is below the counter and names one action. Steps either remove
  or stamp rows, add one with the next id, or read a list (`TableSteps`).
- `SerialOneRow`, under `Serial`: by `OneAtATime` and `SaveClearsSlot`: in a
  save, rows on the slot are still to be deleted, then copies of the action only,
  then none. Without `Serial` it is false (two saves at once).
- `HistoryKeepsLastWord`, under `Serial` and without crashes, whatever statements,
  execs and reads fail: `Spec => []HistoryIsLastWord`. Three strengthenings.
  `RowsInOrder`: no row touches the slot of a row with a smaller id, and none is of
  an undo that is not kept. `SaveClears`: the rows an action touches are exactly
  those its save still has to delete, then copies of it, then none. `LastWord`: a
  save in progress *owes* the table the word on each slot that an entry still to be
  written touches, that of the last such entry, and the table has the word on every
  other slot. Between requests nothing is owed. A crash forgets the debt, which is
  why it is excluded.
- `ReplayRestoresHistory`, under `Serial` and when statements do not fail, crashes
  included: `Spec => []ReplayRestores`. `ReplayInv`: a replay's list is the whole
  table in the order of ids, so (by `RowsInOrder`) no entry undoes an earlier one;
  what ran is in force; what was settled is stamped after the pod's creation. The
  list covers the table because as many rows in increasing order of ids as the table
  has are all of them (`ListCovers`).
- `NothingIsMasked`, under `Serial`, `Resolution = 1`, with every action recorded
  and without crashes, failed statements and timeouts: `Spec => []NoMasking`, by
  `FreshInForce`. A row is fresh when it is stamped since the pod was created. Fresh
  rows are in force, except while a job is at the node: then what it owes the table
  is what the node has, and where it owes nothing fresh rows are in force
  (`Applied`). A commit that ran is never part of one that is still to run
  (`CommitsApart`), so a failure unmarks nothing that was applied. A restart has no
  fresh row until it settles what it ran. Each hypothesis is needed: section 4 says
  what happens without it.
- `PrunesAfterRetries`, on a guest node, with any interleaving and all faults:
  `Spec => PruneAfterRetries`, by `FailedIsTried`: a mark becomes "fail" with the
  last attempt only. On a script node it is false (section 3).

`TopologyLifecycleProofs`:

- `LifecycleTypes`: `Spec => []TypeOK`.
- `LockIsExclusive`, when no request deletes a namespace: by `LockInv`: whoever is
  past the lock has its row in the table, two holders are one, and nothing is
  past the lock while the backend is down. With deletions it is false (section 3).
- `DeploysFindNothing`, under the same assumption: by `EmptyAhead`: what a deploy
  still has to create does not exist, which the exclusive lock keeps true from
  the sync to the last StatefulSet.
- `LifecycleImplementsOperations`, under the same assumption: `Spec => OneBuilder`,
  that is `Operations!Spec`. The initial states map to initial states, and each
  action, taken in a state of the invariants above and of the next one, maps to
  one action of `NamespaceOperations` or to a stutter: acquiring the lock to
  `Begin` by `LockInv` (who is past the lock is alone), the sync to `Build`, a
  creation to `Create` by `EmptyAhead`, a crash to the end of all operations.

Its second half, on what a clear, a restart of the backend and a new namespace of an
old name leave behind:

- `ClearedIsGone`: `Spec => []ClearRemovesTopology` when no call or statement fails
  and either requests are serial or no namespace is deleted, listed or summarised
  through the API; any crashes, stuck pods and lost namespaces. By `Clearing`: per program point of
  clear and rollback, what is gone by then and, by the exclusive lock, stays gone.
- `ClearedHasNoObjects`: the same for the objects, the registry and (where no listing
  or summary runs beside a clear) the flag alone, whatever fails: a clear stops at
  the first error of those steps. Of the rest it
  only logs errors, so the stronger theorem needs its hypothesis.
- `UIDsStayUnique`, for serial requests and calls that do not fail: by `UIDInv`: the
  registry a deploy chooses from covers every CRD, since a deploy that died without
  writing it is followed by a startup that rebuilds it; and a deploy's UIDs are on
  no link of another namespace from the choice on.
- `HistoryStaysWithItsDeploy`, for serial requests and no faults but lost namespaces:
  by `HistoryInv`, which follows the rows of a namespace name through its objects:
  rows of an earlier object are dated before it and purged before a deploy's pods
  exist, and rows of this deploy are dropped before its pods can be another's.

`AccessProofs`, on `ClusterConnection` without hypotheses: `IDsFollowTheCluster` and
`ContextsFollowTheCluster`. The invariant says per program point of a switch which
of client, environment, cache and record it has written already (`SwitchFacts`), per
point of a user which switches may have passed since it asked (`UserFacts`), and
that the history variables mark every overlap that struck.

`NamespaceFilesProofs`, from `Parameters` (paths are sequences of names, no resource
is `None`):

- `OneKindBehindAFile`: by `KindsApart`: a kind is put only after the other was
  dropped, and a sync creates none.
- `SyncedStaysCurrent`: by `ResourcesCurrent`: a resource has what is on disk, or a
  save of its file is under way, or an accepted exception struck.
- `MountsStaySound`, with `"list" \notin Faults`, whatever else fails and whatever paths
  the sanitizer maps to one name: by `MountsResolve`: the volumes of a file that was not
  misled find their resource, and a mount in progress has put it before the
  StatefulSet. The hypothesis is needed (section 4), and so is each of the three
  parts of `misled`: without it TLC finds a volume without its resource.

`LinkMTUProofs`, from `Parameters` (the rows at the start are rows, and their links
carry what they ask for): `PassesTakeEffect`, `LoweringIsJustified`,
`SecondRoundIsEnough`, by `MTUInv`: what a pass read is what the devices have unless
it was disturbed (`Undisturbed`), an end of a fresh pod shows its worker's ceiling
or the ceiling is known (`DevicesTell`), and what the second round writes was either
accepted before or lowered to a ceiling that is true (`Rounds`). The first attempt
at these proofs failed for a reason: as stated then, the properties held in small
instances only. A third pass, one more wiring or a `remove_ip` at the wrong moment
breaks them, and the run's bounds allowed none of these. `misled` names the three
cases, and the properties except exactly them.

`AccessProofs`, on `Authentication` (an instance of it, since the two modules share names),
from `AuthParameters` (the sets of credentials are disjoint,
`None` is in none of them, times and limits are naturals):

- `AuthenticationTypes`: `Spec => []TypeOK`.
- `EndedCredentialsStayOut`: by `Out`: a credential that has ended has no row; what
  was over when a request began has ended; and a request past its SELECT did not
  carry such a cookie. Rows are inserted only for values never issued before,
  which is why nothing comes back. The UPDATE of a validation that overlaps a
  logout touches no row.
- `OnlyThisPassword`: by `Granted`: no request is under way while the process does
  not serve, sessions exist only for the password in memory once it serves, and a
  login that is about to insert holds that password.
- `SeenStaysInOrder`: by `Timed`: the times a request carries are not after now.
- `FailuresBounded`, for finitely many workers: the failures counted for a client
  and the logins that passed the check together stay below the limit plus the
  number of workers.

The module has no run; an instance with two workers, one client, password,
session and token and a clock up to 2 has 43 935 states, in which all five
invariants hold.

`TopologyModifyProofs`, over any requests, each theorem along invariants that say
what holds at each step of the handler. `Control` (the types, the request as
BuildScalePlans accepted it, whose phase a shared step belongs to, and that the
plans left still change what they scale) is what the others rest on.

- `ModifyTypes` (`TypeOK`): from `Control`.
- `SharedMountsStay` (`SharedMountsKept`), with `"list" \notin Faults`: `MountsOK` adds
  that the files of the nodes to come are there from the first CRD on. The
  hypothesis is needed (section 4).
- `NewPodsHaveNoHistory` (`NoInheritedHistory`): `HistoryOK` bounds the history by the
  pods wanted and those whose rows are about to go; `LinksOK` carries
  ValidateLinksForModify from the add to the attributes, whose operations are
  saved on the ends of links.
- `BothEndsFirst` (`BothEndsBeforeStart`): `DeclaredOK`: while CRDs are written, those
  visited have the links; and a new pod's CRD has no others. It needs no
  hypothesis: no failure makes a pod come early.
- `ModifyLeavesCRDsAgreed` (`CRDsAgree`), with `[]ScaleLinksValid`: every link a
  scale-up writes passes the check that the add makes of its own. `CRDsAsWanted`
  says at each step which pods have a CRD, `EndsAgree` which links may be declared
  at one end only.
- `ModifyWires` (`WiredAsDeclared`), with the same hypothesis and `"lag" \notin Faults`, and
  `ModifyDoesAll` (`ModifyTakesEffect`). `WiredOK` says what is right of whom: `Behind` are
  the pods whose CRD the request changed under them and that it will restart
  (`RestartSet`; a new pod starts from its CRD, a host needs no restart for a link
  that a new peer's CNI ADD wires), `Due` those it has not come to yet, `Leaving` the
  orphans without CRDs. Of all others, a QEMU pod's count is its CRD's, an interface is of a
  link of the CRD, and so is a guest's NIC; and a link both ends of which declare it and are up
  has its interfaces, unless it is one the add writes between running pods
  (`Pending`), to which PlanRestarts owes an end. Every step of the handler then only has to
  keep its debts (`QuietBut`), a pod that stops drops interfaces of its own links
  (`IfsOK`), one that starts is given what both ends declare, and a guest that sees as many
  interfaces as its pod has links, all of them links of the CRD, sees them all.
  `ApartOK` keeps the links of the scale-ups, of each other's new pods and of the add
  apart. The invariant (`WireOK`) needs no healing: the rounds of the heal pass
  only add restarts. TLC finds it, with the invariants above
  that it contains, and the hypothesis `ScaleLinksValid`, true in ModifyPhases (1 870 594
  states).

`PodRestartProofs`, over any topology: any pods, guests, veths, tunnels and uplinks,
any ends Meshnet missed, any number of workers, requests, rounds and failures.

- `RestartTypes` (`TypeOK`): whatever requests overlap.
- The others suppose `~ Overlap`: restarts that overlap are not of neighbours, and a
  heal pass runs alone. The code enforces neither, and without it they are false
  (section 4). All three follow from `RestartInv` (`RestartInvariant`).
- `NeverBothSkip` (`OneSideSkips`), whatever fails: by `InjectOK`: the links a pod has
  its peers skip are links it does not skip itself, which it read before it began
  to write. No other request writes its entries in between (`Exclusive`).
- `RenameIsClean` (`CleanRename`): a veth never outlives a namespace of its pods
  (`VethOK`, which failures do not touch). A tunnel's end does: `CutOK` says that what
  `deletePeerVethsForPod` visited is gone, and `GoneOK` that it stays so from the
  delete to the CNI ADD. Both need that no neighbour is started meanwhile, hence
  `DownOK`: a pod that is not Ready is being recreated by a worker, and that worker
  is the one at its neighbour (`ReadyBeside`).
- `RestartsRestore` (`NetworkRestored`): by an account of what is owed. Each recorded
  operation, redirect and MTU that is not in force on an interface is owed it by a
  worker that has not reached the point where it restores it (`ConfOK`, `TcOK`,
  `MtuOK`). `PodGone` and `PodUp` create debts of the worker that deleted the pod, MTU
  pass, replay and neighbours' pass settle theirs, and idle workers owe nothing. A
  neighbours' pass that skips pods that are not Ready still settles all of its debts,
  because with `ReadyBeside` those it visits are.

The first attempt at these proofs failed, and changed the model. It had put a
guest's redirects and its operations into one variable, so the replay restored
redirects that nothing in the code restores; and the ends Meshnet could have
missed in RestartHeal never made a heal round recreate a tunnel's two pods. Both
properties were false in general: section 3 quotes the comments that say
otherwise, and `twin` names the exception. TLC finds `RestartInv` true in RestartHeal
and on two other topologies.

`PodToolsProofs`, on `LinkShaping`, from what the module assumes of its constants: links join one or
two pods, sessions are not ends of links, and requests are what parsing leaves
(`EntriesAssumption`: classes and matches are lists, fields above zero are given ones).
Any pods with or without tc, any requests with any number of classes and matches, any
number of sessions, any failures.

- `ShapingAsRecorded` (`KernelAsRecorded`) and `ValidRequestsAreTaken`
  (`ValidIsAccepted`), by `ShapingInv`: an end at rest has what its row says
  (`OnRecord`); one whose batch is under way has run the beginning of it, and what is
  left is its end (`Midway`); one whose batch failed keeps a beginning of it, whatever
  tc ran it; and a line is refused of no batch that passed the validation. It rests on
  `TreeAfter`, which says what the kernel has after the first k lines of an htb batch:
  which classes, leaves and filters, hence that the next line finds what it hangs
  from, and what reads back after the last one.
- `TreesSortAsAsked` (`FirstMatchWins`): from the same invariant. The filters after
  the last line have the priorities 1, 2, ... in the order of classes and of their
  matches, so the filter of least priority that has a packet is of the first class
  that has it.
- `ToolsShareTheToolbox` (`OneToolbox`): by `BoxInv`: a toolbox that is starting
  belongs to whoever holds the pod's mutex.

Batches are flattened lists, and the kernel's tree is a fold over them: both are
recursive functions of the community modules. They are unfolded by their definitions,
and a claim about every n is shown of the least n it fails for, from the library's
well-foundedness of `<` on the naturals, so that no theorem with an operator parameter is needed.
A proof attempt found the readback property false: a class that shapes with a
distribution was said to read it back, and no entry of Shaping had one. The property
now leaves the distribution out, as the comment of `TCParamEntry` does, and the run has
such a class. TLC finds `ShapingInv`'s conjuncts about ends true in Shaping.

`PodToolsProofs`, on `ToolRuns`, from what the module assumes of its constants (finitely
many pods, requests name pods, limits are naturals, no line of a probe is empty): any pods and topologies, any number
of requests at a time, any ports, limits and faults. The theorems follow from `ToolInv`,
whose first part are the types (`Typed`, with what a run holds at each of its steps) and
that no step touches the run of another request.

- `OutcomeIsTold` (`OutcomeTold`): by `Traces`, which says of a trace that streams that
  its flags and its silence count are those of the hops it emitted (`Told`), and why it
  streams no more (`Streams`): a stop by the pump followed a flag or the limit of silent
  hops, and a probe that is gone with nobody cancelling had tried every hop.
- `ProgramsAreAccounted` (`ProgramsAccounted`): by `Belongs` (a program runs for a request
  past its first steps, in the pod and at the port that one says), `Bound` (one server
  listens at a port, and one seen listening still does) and `AllClean`: a test that
  streams with its summary has no program left, and one that kills by name no client
  once it kills servers. A program of another request that matches the name is not
  excluded: what is proved holds although `KillIperf` may kill those too.
- `PathsAreReal` (`PathsReal`): by `AllDrawn`: the pod a request goes on from is the
  last one that its hops resolved, and every resolved hop is drawn as `AnnotateTraceHop`
  draws it from there (`DrawnNext`). The rest is that `BFSPath` is right for every
  topology, with cycles, parallel links and links of a pod to itself (`BFSPathRight`). After
  every neighbour of every pod it serves, the search has seen all pods up to some number of
  links away and a part of those one link further, the queue holds those it has not served,
  nearer ones first (`Border`), and a pod first seen from another is one link farther
  than it (`Grown`). So a queue that is empty has left no neighbour out; a pod is served once,
  and as many rounds as there are pods are enough (`SearchRight`). The way back along the pods
  that first saw each other has as many links as the pod is away (`BackRight`), which no
  other way undercuts.

The two specifications share the constants of `NamespacePods` and nothing else, and no
proof about one cites an assumption of the other.

Every invariant and action property that a run checks is stated by a theorem. Only
model-checked: the liveness properties (`RequestsEnd`,
`LockFreed`, `RunsEnd`) are out of the proof system's reach.

## 7. What the map leaves out

A definition is mapped to the lines whose control it keeps and whose data it
abstracts. Properties, variants for mutants and the definitions of `MC...`
modules are not mapped, and `external` marks what the code relies on and does not
contain: the kubelet, the StatefulSet controller, Meshnet, the kernel's queueing
layer, tc, traceroute, iperf3, the browser, and the death of the process.

## 8. Not modelled

- Command building of the drivers and capabilities (`drivers/`, `capabilities/`):
  pure string construction per vendor; what it declares of an action is in
  `OperationHistory`.
- The text of scripts, markers and formats: the models keep per-action results.
- Shells (`handlers/shell.go`): a bidirectional copy that decides nothing.
- Read-only endpoints (cluster, logs, metrics, topology, lists): no state changes,
  but for the list and the summary of namespaces, which write the topology flag and are
  in `TopologyLifecycle`.
- The graph positions a client stores: nothing else reads them.
- The frontend and the generated API documentation.

## 9. Plan

1. An abstract configuration store that a serial `OperationHistory` implements:
   `LastWord` is its refinement mapping in all but name.
2. A composition of `TopologyModify` with restarts, which take no lock.
