--------------------------- MODULE NamespaceFiles ---------------------------
(***************************************************************************)
(* The files of a namespace: on the backend's disk, their "sensitive" flag *)
(* in namespace_file_meta, and the ConfigMap or Secret that carries a file *)
(* into the pods that mount it.  File requests take no lock.  Operations   *)
(* on the topology hold the namespace's lock, so one worker stands for     *)
(* them; each node they add mounts one file.                               *)
(*                                                                         *)
(* A path is the sequence of its names.  A request that is refused before  *)
(* it changes anything is no step.                                         *)
(***************************************************************************)
EXTENDS Naturals, FiniteSets, SequencesExt

CONSTANTS
  Paths,        \* paths of files and folders, closed under parents
  Sanitized,    \* Sanitized[p]: the resource name made from p
  Contents,     \* text that fits a ConfigMap
  Bad,          \* content that does not: too long, or not UTF-8
  Dir, None,    \* what a path can be besides a file
  Nodes,        \* nodes that may be added to the topology
  Users,        \* workers serving file requests
  Topo,         \* the worker that holds the namespace's lock
  Faults,       \* which of {"api", "db", "list"} fail now and then
  MaxRequests   \* bound: requests in a behaviour

Workers == Users \cup {Topo}
Kinds   == {"ConfigMap", "Secret"}
Names   == {Sanitized[p] : p \in Paths}

ASSUME FilesAssumption ==
  /\ \A p \in Paths : p # <<>> /\ \A i \in 1 .. Len(p) : SubSeq(p, 1, i) \in Paths
  /\ Bad \notin Contents /\ Cardinality({Bad, Dir, None}) = 3
  /\ Contents \cap {Dir, None} = {} /\ Topo \notin Users
  /\ Faults \subseteq {"api", "db", "list"} /\ MaxRequests \in Nat

VARIABLES
  disk,     \* disk[p]: the content of file p, or Dir, or None
  meta,     \* meta[p]: "none" without a row, else "plain" or "sensitive"
  res,      \* res[k][n]: the resource of kind k named n, or None
  set,      \* set[n]: the volume in n's StatefulSet, None without a StatefulSet
  job,      \* job[w]: the request w serves: the step it is at, its path, the
            \* path a rename leads to, the content it has read and, of a mount,
            \* the node that is added and the kind of resource
  stale,    \* (history) files whose resource need not hold what is on disk
  misled,   \* (history) files that, since they are mounted, had their flag
            \* changed or misread, or their resource touched for another file
            \* of that name
  refused,  \* (history) names whose other kind the API refused to drop
  left      \* requests still to come

vars == <<disk, meta, res, set, job, stale, misled, refused, left>>

Resource == [file : Paths, data : Contents]
Volume   == [kind : Kinds, file : Paths \cup {None}]

Idle == [at |-> "idle", file |-> <<>>, to |-> <<>>, data |-> None, node |-> None,
         kind |-> "ConfigMap"]

Init ==
  /\ disk = [p \in Paths |-> None]
  /\ meta = [p \in Paths |-> "none"]
  /\ res = [k \in Kinds |-> [n \in Names |-> None]]
  /\ set = [n \in Nodes |-> None]
  /\ job = [w \in Workers |-> Idle]
  /\ stale = {} /\ misled = {} /\ refused = {}
  /\ left = MaxRequests

-----------------------------------------------------------------------------
(* The disk. *)

\* Paths in folder d, and d itself; the root folder is the empty path.
Under(d) == {p \in Paths : IsPrefix(d, p)}

Parents(p) == {SubSeq(p, 1, i) : i \in 1 .. Len(p) - 1}

\* os.MkdirAll of p's folder succeeds.
HasRoom(p) == \A q \in Parents(p) : disk[q] \in {Dir, None}

IsFile(p) == disk[p] \notin {Dir, None}

\* validateMountableContent, and the same two checks before a resource is
\* written.
Mountable(c) == c \in Contents

Written(p, c) ==
  [q \in Paths |-> IF q = p THEN c ELSE IF q \in Parents(p) THEN Dir ELSE disk[q]]

-----------------------------------------------------------------------------
(* Who mounts a file, and as what. *)

Refuse(fault) == fault \in Faults

Sensitive(p) == meta[p] = "sensitive"

\* The kind of resource p's flag asks for.
KindOf(p) == IF Sensitive(p) THEN "Secret" ELSE "ConfigMap"

\* The kinds MountResourceNameForFile and CreateMountResourceForFile may choose:
\* both ignore the error of GetFileMeta, so a flag that cannot be read (the
\* statement, or the cluster's id) counts as not set.
KindsRead(p) == {KindOf(p)} \cup (IF Refuse("db") \/ Refuse("api") THEN {"ConfigMap"} ELSE {})

Other(k) == IF k = "Secret" THEN "ConfigMap" ELSE "Secret"

\* The volumes of the nodes in S; a node whose file was skipped has none.
VolumesOf(S) == {v \in {set[n] : n \in S} \ {None} : v.file # None}

Volumes == VolumesOf(Nodes)

\* Files of a StatefulSet's volumes and the one being mounted.
Mounted ==
  {v.file : v \in Volumes} \cup ({job[Topo].file} \cap Paths)

\* The step takes p's flag for not set, and it is.
Misread(p) ==
  /\ Sensitive(p) /\ job[Topo].file = p
  /\ \/ job[Topo].at = "read" /\ job'[Topo].at \in {"drop", "put"} /\ job'[Topo].kind = "ConfigMap"
     \/ set' # set /\ set'[job[Topo].node].kind = "ConfigMap"

\* The step is one of a request for another file whose resource has p's name,
\* and changes a resource.
Contested(p) ==
  /\ res' # res
  /\ \E w \in Workers :
       job'[w] # job[w] /\ job[w].file \in Paths \ {p} /\ Sanitized[job[w].file] = Sanitized[p]

Remember ==
  misled' = {p \in Mounted' :
               p \in misled \/ Sensitive(p)' # Sensitive(p) \/ Misread(p) \/ Contested(p)}

Start(w) == job[w] = Idle /\ left > 0 /\ left' = left - 1

At(w, step) == job[w].at = step

Go(w, step) == job' = [job EXCEPT ![w].at = step]

Done(w) == job' = [job EXCEPT ![w] = Idle]

-----------------------------------------------------------------------------
(* File requests. *)

\* A content lands on disk and the request goes on to the resource behind it.
Save(u, p, c) ==
  /\ disk' = Written(p, c)
  /\ job' = [job EXCEPT ![u].at = "sync", ![u].file = p]
  /\ UNCHANGED <<meta, res, set, stale, refused>>

Upload(u, p, c) ==
  /\ Start(u)
  /\ Mountable(c) /\ HasRoom(p) /\ disk[p] # Dir
  /\ Save(u, p, c)

UpdateFileContent(u, p, c) ==
  /\ Start(u)
  /\ Mountable(c) /\ IsFile(p)
  /\ Save(u, p, c)

\* SyncMountResourceFromFile reads the file again; it may be another by now.
SyncRead(u) ==
  /\ At(u, "sync")
  /\ IF Mountable(disk[job[u].file])
       THEN /\ job' = [job EXCEPT ![u].at = "put", ![u].data = disk[job[u].file]]
            /\ UNCHANGED stale
       ELSE Done(u) /\ stale' = stale \cup {job[u].file}
  /\ UNCHANGED <<disk, meta, res, set, refused, left>>

\* What writing resource name n, kind k, does for worker w.
Put(w, k) ==
  /\ res' = [res EXCEPT ![k][Sanitized[job[w].file]] =
               [file |-> job[w].file, data |-> job[w].data]]
  /\ stale' = IF job[w].data = disk[job[w].file] THEN stale \ {job[w].file}
              ELSE stale \cup {job[w].file}

BackingConfigMap(p) == {k \in {"ConfigMap"} : res[k][Sanitized[p]] # None}

\* The kinds of resource that exist for p.
Backing(p) == {k \in Kinds : res[k][Sanitized[p]] # None}

\* The Secret if there is one, else the ConfigMap if there is one.
SyncKind(p) == IF "Secret" \in Backing(p) THEN "Secret" ELSE "ConfigMap"

SyncPut(u) ==
  /\ At(u, "put")
  /\ Done(u)
  /\ \/ /\ SyncKind(job[u].file) \in Backing(job[u].file)
        /\ Put(u, SyncKind(job[u].file))
     \/ /\ Backing(job[u].file) = {}
        /\ UNCHANGED <<res, stale>>
     \/ /\ Refuse("api") /\ Backing(job[u].file) # {}     \* answered as sync_warning
        /\ stale' = stale \cup {job[u].file}
        /\ UNCHANGED res
  /\ UNCHANGED <<disk, meta, set, refused, left>>

\* os.Remove, which DeleteFile tries first: a file, or an empty folder.
Removable(p) == disk[p] # Dir \/ \A q \in Under(p) \ {p} : disk[q] = None

\* os.RemoveAll: the folder with all under it.
Removed(p) == [q \in Paths |-> IF q \in Under(p) THEN None ELSE disk[q]]

DeleteFile(u, p) ==
  /\ Start(u)
  /\ disk[p] # None
  /\ disk' = Removed(p)
  /\ job' = [job EXCEPT ![u].at = IF Removable(p) THEN "forget" ELSE "forgetall", ![u].file = p]
  /\ UNCHANGED <<meta, res, set, stale, refused>>

DeleteAllNamespaceFiles(u) ==
  /\ Start(u)
  /\ disk' = [p \in Paths |-> None]
  /\ Go(u, "forgetall")
  /\ UNCHANGED <<meta, res, set, stale, refused>>

\* DeleteFileMeta, DeleteFileMetaByPrefix, DeleteAllFileMetaForNamespace.
DeleteMeta(u) ==
  /\ job[u].at \in {"forget", "forgetall"}
  /\ LET gone == IF At(u, "forget") THEN {job[u].file} ELSE Under(job[u].file)
     IN  \/ meta' = [p \in Paths |-> IF p \in gone THEN "none" ELSE meta[p]]
         \/ Refuse("db") /\ UNCHANGED meta
  /\ Done(u)
  /\ UNCHANGED <<disk, res, set, stale, refused, left>>

CreateFolder(u, p) ==
  /\ Start(u)
  /\ disk[p] = None /\ HasRoom(p)
  /\ disk' = Written(p, Dir)
  /\ UNCHANGED <<meta, res, set, job, stale, refused>>

\* Where ExtractZip and ExtractTarGz can put an entry; its content is not
\* checked.
Extractable(p, c) == HasRoom(p) /\ (IF c = Dir THEN disk[p] \in {Dir, None} ELSE disk[p] # Dir)

\* One entry of an archive; an archive is as many of these steps.  No resource
\* is synced.
ImportEntry(u, p, c) ==
  /\ Start(u)
  /\ Extractable(p, c)
  /\ disk' = Written(p, c)
  /\ stale' = stale \cup {p}
  /\ UNCHANGED <<meta, res, set, job, refused>>

\* Where renaming p to q takes r.
Moved(p, q, r) == q \o SubSeq(r, Len(p) + 1, Len(r))

Rename(u, p, q) ==
  /\ Start(u)
  /\ disk[p] # None /\ disk[q] = None
  /\ ~ IsPrefix(p, q) /\ HasRoom(q)
  /\ LET all == {r \in Under(p) : disk[r] # None}
     IN  /\ \A r \in all : Moved(p, q, r) \in Paths
         /\ disk' = [r \in Paths |->
              IF \E s \in all : Moved(p, q, s) = r
                THEN disk[CHOOSE s \in all : Moved(p, q, s) = r]
              ELSE IF r \in all THEN None
              ELSE IF r \in Parents(q) THEN Dir ELSE disk[r]]
         /\ stale' = stale \cup {Moved(p, q, r) : r \in all}
  /\ job' = [job EXCEPT ![u].at = "moved", ![u].file = p, ![u].to = q]
  /\ UNCHANGED <<meta, res, set, refused>>

\* The row of the path itself moves, unless the new path has one.
RenameFileMeta(u) ==
  /\ At(u, "moved")
  /\ \/ /\ meta[job[u].file] # "none" /\ meta[job[u].to] = "none"
        /\ meta' = [meta EXCEPT ![job[u].to] = meta[job[u].file], ![job[u].file] = "none"]
     \/ /\ meta[job[u].file] = "none" \/ meta[job[u].to] # "none" \/ Refuse("db")
        /\ UNCHANGED meta
  /\ Done(u)
  /\ UNCHANGED <<disk, res, set, stale, refused, left>>

\* The upsert of SetFileSensitive; the path need not be that of a file.
SetFileSensitive(p, flag) == meta' = [meta EXCEPT ![p] = flag]

\* Nothing is synced: the kind of resource changes with the next mount.
UpdateFileMeta(u, p, flag) ==
  /\ Start(u)
  /\ SetFileSensitive(p, flag)
  /\ UNCHANGED <<disk, res, set, job, stale, refused>>

-----------------------------------------------------------------------------
(* Operations on the topology. *)

\* The file exists, and a mount marked sensitive sets the flag.
BeginMount(n, p, mark) ==
  /\ Start(Topo)
  /\ set[n] = None /\ IsFile(p)
  /\ \/ mark /\ SetFileSensitive(p, "sensitive")
     \/ (mark => Refuse("db")) /\ UNCHANGED meta
  /\ job' = [job EXCEPT ![Topo].at = "read", ![Topo].file = p, ![Topo].node = n]
  /\ UNCHANGED <<disk, res, set, stale, refused>>

\* A file that is gone is skipped with a warning; one that cannot be mounted,
\* and a resource that cannot be asked for, ends the request.
ReadMount ==
  /\ At(Topo, "read")
  /\ LET p == job[Topo].file
     IN  \/ ~ IsFile(p) /\ Go(Topo, "bare")
         \/ IsFile(p) /\ (Mountable(disk[p]) => Refuse("api")) /\ Done(Topo)
         \/ /\ Mountable(disk[p])
            /\ \E k \in KindsRead(p) :
                 job' = [job EXCEPT
                   ![Topo].at = IF k \in Backing(p) THEN "put" ELSE "drop",
                   ![Topo].data = disk[p], ![Topo].kind = k]
  /\ UNCHANGED <<disk, meta, res, set, stale, refused, left>>

KeepOther ==
  /\ At(Topo, "drop")
  /\ Go(Topo, "put")
  /\ UNCHANGED <<disk, meta, res, set, stale, refused, left>>

\* The resource of the other kind goes before one of this kind is created.
DropOther ==
  /\ At(Topo, "drop")
  /\ LET n == Sanitized[job[Topo].file]
     IN  \/ /\ res' = [res EXCEPT ![Other(job[Topo].kind)][n] = None]
            /\ refused' = refused \ {n}
         \/ /\ Refuse("api") /\ res[Other(job[Topo].kind)][n] # None       \* only logged
            /\ refused' = refused \cup {n}
            /\ UNCHANGED res
  /\ Go(Topo, "put")
  /\ UNCHANGED <<disk, meta, set, stale, left>>

PutMount ==
  /\ At(Topo, "put")
  /\ \/ Put(Topo, job[Topo].kind) /\ Go(Topo, "set")
     \/ Refuse("api") /\ Done(Topo) /\ UNCHANGED <<res, stale>>
  /\ UNCHANGED <<disk, meta, set, refused, left>>

\* CreateNetworkStatefulSet resolves the resource from the flag once more.
CreateSet ==
  /\ job[Topo].at \in {"set", "bare"}
  /\ \/ \E k \in KindsRead(job[Topo].file) :
          set' = [set EXCEPT ![job[Topo].node] =
                   [kind |-> k, file |-> IF At(Topo, "bare") THEN None ELSE job[Topo].file]]
     \/ Refuse("api") /\ UNCHANGED set
  /\ Done(Topo)
  /\ UNCHANGED <<disk, meta, res, stale, refused, left>>

\* The resources behind the volumes of the nodes in S.
Behind(S) == {<<v.kind, Sanitized[v.file]>> : v \in VolumesOf(S)}

UnusedAll(n) == Behind({n})

\* What deleting node n's StatefulSet leaves without a user, by the list of those
\* that remain.
Unused(n) == Behind({n}) \ Behind(Nodes \ {n})

\* res without the resources <<kind, name>> in S.
Without(S) == [k \in Kinds |-> [n \in Names |-> IF <<k, n>> \in S THEN None ELSE res[k][n]]]

DeleteNode(n) ==
  /\ Start(Topo)
  /\ set[n] # None
  /\ set' = [set EXCEPT ![n] = None]
  /\ \/ res' = Without(Unused(n))
     \/ Refuse("list") /\ res' = Without(Behind({n}))     \* it counts as empty
     \/ Refuse("api") /\ UNCHANGED res
  /\ UNCHANGED <<disk, meta, job, stale, refused>>

\* Clearing the topology, with or without the files; their rows stay.  It ends at
\* the first object that cannot be deleted.
ClearTopology(files) ==
  /\ Start(Topo)
  /\ \E n \in Nodes : set[n] # None
  /\ \/ /\ set' = [n \in Nodes |-> None]
        /\ res' = Without(Behind(Nodes))
        /\ IF files THEN disk' = [p \in Paths |-> None] ELSE UNCHANGED disk
     \/ /\ Refuse("api")
        /\ \E S \in SUBSET Nodes : set' = [n \in Nodes |-> IF n \in S THEN None ELSE set[n]]
        /\ UNCHANGED <<res, disk>>
     \/ /\ Refuse("api")
        /\ set' = [n \in Nodes |-> None]
        /\ \E S \in SUBSET Behind(Nodes) : res' = Without(S)
        /\ UNCHANGED disk
  /\ UNCHANGED <<meta, job, stale, refused>>

-----------------------------------------------------------------------------

FileRequest(u) ==
  \/ \E p \in Paths, c \in Contents :
       Upload(u, p, c) \/ UpdateFileContent(u, p, c)
  \/ \E p \in Paths, c \in Contents \cup {Bad, Dir} : ImportEntry(u, p, c)
  \/ \E p \in Paths : DeleteFile(u, p) \/ CreateFolder(u, p)
  \/ \E p, q \in Paths : Rename(u, p, q)
  \/ \E p \in Paths, flag \in {"plain", "sensitive"} : UpdateFileMeta(u, p, flag)
  \/ DeleteAllNamespaceFiles(u)

FileStep(u) == SyncRead(u) \/ SyncPut(u) \/ DeleteMeta(u) \/ RenameFileMeta(u)

TopologyRequest ==
  \/ \E n \in Nodes, p \in Paths, mark \in BOOLEAN : BeginMount(n, p, mark)
  \/ \E n \in Nodes : DeleteNode(n)
  \/ \E files \in BOOLEAN : ClearTopology(files)

TopologyStep ==
  ReadMount \/ DropOther \/ PutMount \/ CreateSet

Next ==
  /\ \/ \E u \in Users : FileRequest(u) \/ FileStep(u)
     \/ TopologyRequest \/ TopologyStep
  /\ Remember

Spec == Init /\ [][Next]_vars

-----------------------------------------------------------------------------

\* The state has the shape the code gives it.  A resource never carries
\* content that does not fit it, although an import can put such a file on
\* disk: both paths that write a resource check what they read.
TypeOK ==
  /\ disk \in [Paths -> Contents \cup {Bad, Dir, None}]
  /\ \A p \in Paths : disk[p] # None => \A q \in Parents(p) : disk[q] = Dir
  /\ meta \in [Paths -> {"none", "plain", "sensitive"}]
  /\ res \in [Kinds -> [Names -> Resource \cup {None}]]
  /\ set \in [Nodes -> Volume \cup {None}]
  /\ \A w \in Workers :
       /\ job[w].file \in Paths \cup {<<>>} /\ job[w].to \in Paths \cup {<<>>}
       /\ job[w].data \in Contents \cup {None} /\ job[w].kind \in Kinds
       /\ job[w].node \in Nodes \cup {None}
  /\ left \in 0 .. MaxRequests

\* A file is never behind a ConfigMap and a Secret at once, whatever flips of
\* its flag, failed creations and deletions came before, unless the API
\* refused to drop the one that was there (CreateMountResourceForFile).
OneKind ==
  \A n \in Names :
    res["ConfigMap"][n] # None /\ res["Secret"][n] # None => n \in refused

\* The resource a StatefulSet's volume names exists, and still carries the
\* file: neither deleting another node that shares it, nor a mount or a clear
\* that failed, nor a file request takes it away while the file keeps its flag,
\* its flag is read as it is, and no other file is sanitized to its name.
VolumesResolve ==
  \A v \in Volumes :
    v.file # None /\ v.file \notin misled =>
      /\ res[v.kind][Sanitized[v.file]] # None
      /\ res[v.kind][Sanitized[v.file]].file = v.file

\* Existing pods keep using the old ConfigMap until they are redeployed.  (Not so:
\* the next mount of the file drops it, and a pod recreated then has no volume.)
VolumesKeepTheirs ==
  \A v \in Volumes : v.file # None => res[v.kind][Sanitized[v.file]] # None

Busy(p) == \E w \in Workers : job[w].file = p

\* Once the requests on a file are over, the resource behind it holds what the
\* last save put on disk, whichever order saves and mounts ran in.  The
\* exceptions are the ones the code accepts: a refused sync, an imported or
\* renamed file, and a request that wrote what it had read before the save.
SyncedIsCurrent ==
  \A k \in Kinds, n \in Names :
    LET r == res[k][n]
    IN  r # None =>
          \/ disk[r.file] \notin Contents \/ r.file \in stale
          \/ Busy(r.file) \/ n \in refused
          \/ r.data = disk[r.file]

\* The mounts as a whole: in well-typed states every volume resolves to the
\* file it was declared for, and no resource carries what does not fit it.
MountsSound == TypeOK /\ VolumesResolve

=============================================================================
