----------------------- MODULE TopologyLifecycleProofs -----------------------
(***************************************************************************)
(* Proofs about TopologyLifecycle: while no namespace is deleted through   *)
(* the API, the row in namespace_operations admits one operation at a time *)
(* per namespace, through crashes, restarts and every failing call, and a  *)
(* deploy never meets an object it did not create itself.  From these two  *)
(* facts TopologyLifecycle implements NamespaceOperations: every step of   *)
(* the backend and of the cluster is a step of the abstract specification, *)
(* or changes nothing it talks about.  What a clear, a restart of the      *)
(* backend and a new namespace of an old name leave behind rests on them   *)
(* too.                                                                    *)
(***************************************************************************)
EXTENDS TopologyLifecycle, TLAPS

Points == Held \cup Free

\* What the lock rests on: the row of a request past Acquire is there, a
\* backend that is down has no request, and nobody is deleting a namespace.  Nor
\* does anybody look at one for a summary when none comes.
LockTypes  == /\ pc \in [Workers -> Points] /\ at \in [Workers -> Namespaces]
              /\ up \in BOOLEAN
RowPresent == \A w \in Workers : pc[w] \in Held => at[w] \in locks
DownQuiet  == up \/ Quiet
NoDeletion == \A w \in Workers : pc[w] \notin {"delstate", "dellock"}
Looking    == {"looksets", "lookcrds", "raise", "lower"}
NoLooking  == "summary" \in Kinds \/ \A w \in Workers : pc[w] \notin Looking
LockInv    == LockTypes /\ RowPresent /\ DownQuiet /\ NoDeletion /\ NoLooking /\ OneOperation

-----------------------------------------------------------------------------
\* Request w goes from a point to c, holding the lock there only if it held it
\* before: what most steps do.
Moves(w, c) ==
  /\ pc' = [pc EXCEPT ![w] = c] /\ c \in Points \ {"delstate", "dellock"}
  /\ c \in Held => pc[w] \in Held
  /\ c \in Looking => pc[w] \in Looking
  /\ pc[w] # "idle" \/ up
  /\ UNCHANGED <<at, locks, up>>

\* A request that moves on without touching the lock preserves the invariant.
LEMMA MovePreserves ==
  ASSUME LockInv, NEW w \in Workers, NEW c, Moves(w, c)
  PROVE  LockInv'
<1>. USE DEF LockInv, Moves
<1>1. LockTypes'
  BY DEF LockTypes
<1>2. RowPresent'
  BY DEF LockTypes, RowPresent
<1>3. DownQuiet'
  BY DEF LockTypes, DownQuiet, Quiet
<1>4. NoDeletion'
  BY DEF LockTypes, NoDeletion
<1>5. OneOperation'
  BY DEF LockTypes, OneOperation
<1>6. NoLooking'
  BY DEF LockTypes, NoLooking
<1>. QED
  BY <1>1, <1>2, <1>3, <1>4, <1>5, <1>6

\* A step that leaves the requests, the lock and the process alone.
LEMMA StillPreserves ==
  ASSUME LockInv, UNCHANGED <<pc, at, locks, up>>
  PROVE  LockInv'
BY DEF LockInv, LockTypes, RowPresent, DownQuiet, Quiet, NoDeletion, NoLooking, OneOperation

\* A request that arrives holds nothing.
LEMMA ArrivePreserves ==
  ASSUME LockInv, "delete" \notin Kinds, NEW w \in Workers, NEW x, NEW n \in Namespaces,
         NEW u, NEW c \in Free \ {"delstate", "dellock"}, c \in Looking => x = "summary",
         Arrive(w, x, n, u, c), UNCHANGED <<locks, up>>
  PROVE  LockInv'
<1>. USE DEF LockInv, Arrive, Ready, Goto
<1>1. LockTypes'
  BY DEF LockTypes, Points
<1>2. RowPresent'
  BY DEF LockTypes, RowPresent, Held, Free
<1>3. DownQuiet'
  BY DEF DownQuiet
<1>4. NoDeletion'
  BY DEF LockTypes, NoDeletion
<1>5. OneOperation'
  BY DEF LockTypes, OneOperation, Held, Free
<1>6. NoLooking'
  BY DEF LockTypes, NoLooking
<1>. QED
  BY <1>1, <1>2, <1>3, <1>4, <1>5, <1>6

\* Every step of a request but Acquire and Release moves it on.
Moving(w) ==
  \/ PurgeStale(w) \/ SyncState(w) \/ PrepareUIDs(w) \/ CreateCRD(w)
  \/ CreateMounts(w) \/ PublishCounts(w) \/ CreateStatefulSet(w)
  \/ WaitReady(w) \/ SaveLinkAttributes(w) \/ Verify(w)
  \/ ApplyLinkAttributes(w) \/ SetHasTopology(w) \/ SyncRegistry(w)
  \/ ListStatefulSets(w) \/ DeleteStatefulSet(w) \/ ListTopologies(w)
  \/ DeleteTopology(w) \/ WaitDeleted(w) \/ DeleteMount(w) \/ ForgetUIDs(w)
  \/ Unflag(w) \/ Resync(w) \/ DropRegistry(w) \/ DropHistory(w)
  \/ DropAttributes(w) \/ DropCounts(w) \/ Answer(w) \/ SaveOperation(w)
  \/ CreateCleans(w) \/ DeleteRegistry(w) \/ DeleteHistory(w)
  \/ DeleteAttributes(w) \/ LookAround(w) \/ SetSeen(w)

\* Every such step, its error paths included, is a move.
LEMMA MovingMoves ==
  ASSUME LockInv, NEW w \in Workers, Moving(w)
  PROVE  \E c : Moves(w, c)
<1>. USE DEF Moves, Goto, Points, Held, Free, Looking, LockInv, LockTypes, cluster, tables, request
<1>1. CASE PurgeStale(w)
  BY <1>1 DEF PurgeStale
<1>2. CASE SyncState(w)
  BY <1>2 DEF SyncState
<1>3. CASE PrepareUIDs(w)
  BY <1>3 DEF PrepareUIDs
<1>4. CASE CreateCRD(w)
  BY <1>4 DEF CreateCRD
<1>5. CASE CreateMounts(w)
  BY <1>5 DEF CreateMounts
<1>6. CASE PublishCounts(w)
  BY <1>6 DEF PublishCounts
<1>7. CASE CreateStatefulSet(w)
  BY <1>7 DEF CreateStatefulSet
<1>8. CASE WaitReady(w)
  BY <1>8 DEF WaitReady
<1>9. CASE SaveLinkAttributes(w)
  BY <1>9 DEF SaveLinkAttributes
<1>10. CASE Verify(w)
  BY <1>10 DEF Verify
<1>11. CASE ApplyLinkAttributes(w)
  BY <1>11 DEF ApplyLinkAttributes
<1>12. CASE SetHasTopology(w)
  BY <1>12 DEF SetHasTopology
<1>13. CASE SyncRegistry(w)
  BY <1>13 DEF SyncRegistry
<1>14. CASE ListStatefulSets(w)
  BY <1>14 DEF ListStatefulSets, ClearFails
<1>15. CASE DeleteStatefulSet(w)
  BY <1>15 DEF DeleteStatefulSet, ClearFails
<1>16. CASE ListTopologies(w)
  BY <1>16 DEF ListTopologies, ClearFails
<1>17. CASE DeleteTopology(w)
  BY <1>17 DEF DeleteTopology, ClearFails
<1>18. CASE WaitDeleted(w)
  BY <1>18 DEF WaitDeleted, ClearFails
<1>19. CASE DeleteMount(w)
  BY <1>19 DEF DeleteMount, ClearFails
<1>20. CASE ForgetUIDs(w)
  BY <1>20 DEF ForgetUIDs, ClearFails
<1>21. CASE Unflag(w)
  BY <1>21 DEF Unflag, ClearFails
<1>22. CASE Resync(w)
  BY <1>22 DEF Resync
<1>23. CASE DropRegistry(w)
  BY <1>23 DEF DropRegistry
<1>24. CASE DropHistory(w)
  BY <1>24 DEF DropHistory
<1>25. CASE DropAttributes(w)
  BY <1>25 DEF DropAttributes
<1>26. CASE DropCounts(w)
  BY <1>26 DEF DropCounts
<1>27. CASE Answer(w)
  BY <1>27 DEF Answer
<1>28. CASE SaveOperation(w)
  BY <1>28 DEF SaveOperation
<1>29. CASE CreateCleans(w)
  BY <1>29 DEF CreateCleans
<1>30. CASE DeleteRegistry(w)
  BY <1>30 DEF DeleteRegistry
<1>31. CASE DeleteHistory(w)
  BY <1>31 DEF DeleteHistory
<1>32. CASE DeleteAttributes(w)
  BY <1>32 DEF DeleteAttributes
<1>33. CASE LookAround(w)
  BY <1>33 DEF LookAround
<1>34. CASE SetSeen(w)
  BY <1>34 DEF SetSeen
<1>. QED
  BY <1>1, <1>2, <1>3, <1>4, <1>5, <1>6, <1>7, <1>8, <1>9, <1>10, <1>11, <1>12, <1>13, <1>14, <1>15, <1>16, <1>17, <1>18, <1>19, <1>20, <1>21, <1>22, <1>23, <1>24, <1>25, <1>26, <1>27, <1>28, <1>29, <1>30, <1>31, <1>32,
     <1>33, <1>34 DEF Moving

\* Init establishes the lock's invariant, and every step preserves it.
LEMMA LockInit ==
  ASSUME Init
  PROVE  LockInv
BY DEF Init, LockInv, LockTypes, RowPresent, DownQuiet, NoDeletion, NoLooking, OneOperation,
       Points, Held, Free, Looking

\* Each action keeps the invariant of the lock.
LEMMA LockNext ==
  ASSUME LockInv, "delete" \notin Kinds, [Next]_vars
  PROVE  LockInv'
<1>1. ASSUME NEW w \in Workers, Moving(w) PROVE LockInv'
  BY <1>1, MovingMoves, MovePreserves
<1>2. ASSUME NEW w \in Workers, Acquire(w) PROVE LockInv'
  <2>. USE <1>2 DEF Acquire, Goto, request
  <2>1. CASE at[w] \notin locks /\ locks' = locks \cup {at[w]}
    <3>. USE <2>1 DEF LockInv
    <3>1. LockTypes'
      BY DEF LockTypes, Points, Held, Free
    <3>2. RowPresent' /\ NoDeletion' /\ NoLooking'
      BY DEF LockTypes, RowPresent, NoDeletion, NoLooking, Looking
    <3>3. DownQuiet'
      BY DEF LockTypes, DownQuiet, Quiet
    <3>4. OneOperation'
      BY DEF LockTypes, OneOperation, RowPresent
    <3>. QED
      BY <3>1, <3>2, <3>3, <3>4
  <2>2. CASE pc' = [pc EXCEPT ![w] = "idle"] /\ UNCHANGED locks
    <3>1. Moves(w, "idle")
      BY <2>2 DEF Moves, Points, Held, Free, Looking
    <3>. QED
      BY <3>1, MovePreserves
  <2>. QED
    BY <2>1, <2>2
<1>3. ASSUME NEW w \in Workers, Release(w) PROVE LockInv'
  <2>. USE <1>3 DEF Release, Goto, request, LockInv
  <2>1. LockTypes'
    BY DEF LockTypes, Points, Free
  <2>2. RowPresent'
    BY DEF LockTypes, RowPresent, OneOperation, Held
  <2>3. DownQuiet' /\ NoDeletion' /\ NoLooking'
    BY DEF LockTypes, DownQuiet, Quiet, NoDeletion, NoLooking, Looking
  <2>4. OneOperation'
    BY DEF LockTypes, OneOperation, Held
  <2>. QED
    BY <2>1, <2>2, <2>3, <2>4
<1>4. ASSUME NEW w \in Workers, Arrival(w) PROVE LockInv'
  <2>. USE DEF tables, Free, Looking
  <2>1. CASE Deploy(w)
    BY <2>1, ArrivePreserves DEF Deploy
  <2>2. CASE Clear(w)
    BY <2>2, ArrivePreserves DEF Clear
  <2>3. CASE Configure(w)
    BY <2>3, ArrivePreserves DEF Configure
  <2>4. CASE CreateNamespace(w)
    BY <2>4, ArrivePreserves DEF CreateNamespace
  <2>5. CASE DeleteNamespace(w)
    BY <2>5 DEF DeleteNamespace, Arrive
  <2>6. CASE Summary(w)
    BY <2>6, ArrivePreserves DEF Summary
  <2>. QED
    BY <1>4, <2>1, <2>2, <2>3, <2>4, <2>5, <2>6 DEF Arrival
<1>5. CASE World
  BY <1>5, StillPreserves
     DEF World, PodUp, PodDown, NamespaceGone, DeletedOutside, CreatedOutside, tables, request
<1>6. CASE Crash
  BY <1>6 DEF Crash, LockInv, LockTypes, RowPresent, DownQuiet, Quiet, NoDeletion, NoLooking,
              OneOperation, Points, Held, Free, Looking
<1>7. CASE Startup
  <2>. USE <1>7 DEF Startup, LockInv, request
  <2>1. Quiet
    BY DEF DownQuiet
  <2>2. LockTypes' /\ RowPresent' /\ DownQuiet' /\ NoDeletion' /\ NoLooking' /\ OneOperation'
    BY <2>1 DEF LockTypes, RowPresent, DownQuiet, Quiet, NoDeletion, NoLooking, OneOperation,
                Held
  <2>. QED
    BY <2>2
<1>8. ASSUME NEW w \in Workers, Step(w) PROVE LockInv'
  <2>1. CASE DeleteState(w) \/ DeleteLock(w)
    BY <2>1, <1>8 DEF DeleteState, DeleteLock, LockInv, NoDeletion
  <2>. QED
    BY <1>1, <1>2, <1>3, <1>8, <2>1 DEF Step, Locked, Unlocked, Moving
<1>9. CASE UNCHANGED vars
  BY <1>9, StillPreserves DEF vars
<1>. QED
  BY <1>4, <1>5, <1>6, <1>7, <1>8, <1>9 DEF Next

\* "Single operation at a time per namespace": as long as no namespace is
\* deleted through the API (DeleteNamespaceState removes the lock row of
\* whoever holds it), AcquireNamespaceOperationLock lets one deploy or clear
\* into a namespace, for any number of requests, namespaces, crashes and
\* failing calls.
THEOREM LockIsExclusive ==
  ASSUME "delete" \notin Kinds
  PROVE  Spec => []OneOperation
<1>1. Init => LockInv
  BY LockInit
<1>2. LockInv /\ [Next]_vars => LockInv'
  BY LockNext
<1>3. LockInv => OneOperation
  BY DEF LockInv
<1>. QED
  BY <1>1, <1>2, <1>3, PTL DEF Spec

-----------------------------------------------------------------------------

\* A step of a worker to one of the points C keeps the program counters typed.
LEMMA GotoType ==
  ASSUME RequestsOK, NEW w \in Workers, NEW C \in SUBSET (Held \cup Free),
         pc' = pc \/ \E c \in C : Goto(w, c)
  PROVE  pc' \in [Workers -> Held \cup Free]
<1>1. pc \in [Workers -> Held \cup Free]
  BY DEF RequestsOK
<1>2. ASSUME NEW c \in C, Goto(w, c) PROVE pc' \in [Workers -> Held \cup Free]
  <2>1. c \in Held \cup Free
    OBVIOUS
  <2>. QED
    BY <1>1, <1>2, <2>1 DEF Goto
<1>. QED
  BY <1>1, <1>2

\* Every step preserves the types: the whole of TypeOK is inductive.
LEMMA TypeNext ==
  ASSUME TypeOK, [Next]_vars
  PROVE  TypeOK'
<1>. USE SwitchAssumption DEF TypeOK, Held, Free, cluster, tables, request, RequestKinds
<1>1. ASSUME NEW w \in Workers, PurgeStale(w) PROVE TypeOK'
  <2>1. ClusterOK'
    BY <1>1 DEF PurgeStale, Goto, ClusterOK, RequestsOK
  <2>2. TablesOK'
    <3>1. history' \in [Namespaces -> SUBSET [deploy: Nat, born: Nat]]
      <4>1. \/ history' = history
            \/ history' = [history EXCEPT ![at[w]] = {h \in history[at[w]] : h.born >= born[at[w]]}]
        BY <1>1 DEF PurgeStale, RequestsOK
      <4>2. {h \in history[at[w]] : h.born >= born[at[w]]} \in SUBSET [deploy: Nat, born: Nat]
        BY DEF ClusterOK, TablesOK, RequestsOK
      <4>3. at[w] \in Namespaces /\ history \in [Namespaces -> SUBSET [deploy: Nat, born: Nat]]
        BY DEF ClusterOK, TablesOK, RequestsOK
      <4>. QED
        BY <4>1, <4>2, <4>3
    <3>. QED
      BY <1>1, <3>1 DEF PurgeStale, Goto, ClusterOK, TablesOK, RequestsOK
  <2>3. RequestsOK'
    BY <1>1 DEF PurgeStale, Goto, ClusterOK, RequestsOK
  <2>. QED
    BY <2>1, <2>2, <2>3
<1>2. ASSUME NEW w \in Workers, SyncState(w) PROVE TypeOK'
  <2>1. ClusterOK'
    BY <1>2 DEF SyncState, Goto, ClusterOK, RequestsOK
  <2>2. TablesOK'
    BY <1>2 DEF SyncState, Goto, ClusterOK, TablesOK, RequestsOK
  <2>3. RequestsOK'
    BY <1>2 DEF SyncState, Goto, ClusterOK, RequestsOK
  <2>. QED
    BY <2>1, <2>2, <2>3
<1>3. ASSUME NEW w \in Workers, PrepareUIDs(w) PROVE TypeOK'
  <2>1. ClusterOK'
    BY <1>3 DEF PrepareUIDs, Goto, Loop, ClusterOK, RequestsOK
  <2>2. TablesOK'
    BY <1>3 DEF PrepareUIDs, Goto, Loop, ClusterOK, TablesOK, RequestsOK
  <2>3. RequestsOK'
    <3>1. todo' \in [Workers -> SUBSET Nodes]
      <4>1. \/ todo' = todo
            \/ todo' = [todo EXCEPT ![w] = Nodes]
        BY <1>3 DEF PrepareUIDs, Loop, RequestsOK
      <4>2. Nodes \in SUBSET Nodes
        BY DEF ClusterOK, TablesOK, RequestsOK
      <4>3. at[w] \in Namespaces /\ todo \in [Workers -> SUBSET Nodes]
        BY DEF ClusterOK, TablesOK, RequestsOK
      <4>. QED
        BY <4>1, <4>2, <4>3
    <3>2. pc' \in [Workers -> Held \cup Free]
      <4>1. pc' = pc \/ \E c \in {"release", "crds"} : Goto(w, c)
        BY <1>3 DEF PrepareUIDs, Goto
      <4>2. {"release", "crds"} \in SUBSET (Held \cup Free)
        OBVIOUS
      <4>. QED
        BY <4>1, <4>2, GotoType
    <3>3. want' \in [Workers -> UIDs \cup {NoUid}]
      <4>1. want' = want \/ \E u \in UIDs : want' = [want EXCEPT ![w] = u]
        BY <1>3 DEF PrepareUIDs
      <4>2. want \in [Workers -> UIDs \cup {NoUid}]
        BY DEF RequestsOK
      <4>. QED
        BY <4>1, <4>2
    <3>4. deploys' \in [Namespaces -> Nat]
      <4>1. \/ deploys' = deploys
            \/ deploys' = [deploys EXCEPT ![at[w]] = deploys[at[w]] + 1]
        BY <1>3 DEF PrepareUIDs
      <4>2. at[w] \in Namespaces /\ deploys \in [Namespaces -> Nat]
        BY DEF RequestsOK
      <4>. QED
        BY <4>1, <4>2
    <3>. QED
      BY <1>3, <3>1, <3>2, <3>3, <3>4 DEF PrepareUIDs, RequestsOK
  <2>. QED
    BY <2>1, <2>2, <2>3
<1>4. ASSUME NEW w \in Workers, CreateCRD(w) PROVE TypeOK'
  <2>1. ClusterOK'
    <3>1. crd' \in [Namespaces -> [Nodes -> UIDs \cup {NoUid}]]
      <4>1. \/ crd' = crd
            \/ \E k \in Nodes : crd' = [crd EXCEPT ![at[w]] = [crd[at[w]] EXCEPT ![k] = want[w]]]
        BY <1>4 DEF CreateCRD, RequestsOK
      <4>2. ASSUME NEW k \in Nodes PROVE [crd[at[w]] EXCEPT ![k] = want[w]] \in [Nodes -> UIDs \cup {NoUid}]
        BY DEF ClusterOK, TablesOK, RequestsOK
      <4>3. at[w] \in Namespaces /\ crd \in [Namespaces -> [Nodes -> UIDs \cup {NoUid}]]
        BY DEF ClusterOK, TablesOK, RequestsOK
      <4>. QED
        BY <4>1, <4>2, <4>3
    <3>. QED
      BY <1>4, <3>1 DEF CreateCRD, Goto, Visit, ClusterOK, RequestsOK
  <2>2. TablesOK'
    BY <1>4 DEF CreateCRD, Goto, Visit, ClusterOK, TablesOK, RequestsOK
  <2>3. RequestsOK'
    <3>1. todo' \in [Workers -> SUBSET Nodes]
      <4>1. \/ todo' = todo
            \/ \E k \in Nodes : todo' = [todo EXCEPT ![w] = todo[w] \ {k}]
        BY <1>4 DEF CreateCRD, Visit, RequestsOK
      <4>2. ASSUME NEW k \in Nodes PROVE todo[w] \ {k} \in SUBSET Nodes
        BY DEF ClusterOK, TablesOK, RequestsOK
      <4>3. at[w] \in Namespaces /\ todo \in [Workers -> SUBSET Nodes]
        BY DEF ClusterOK, TablesOK, RequestsOK
      <4>. QED
        BY <4>1, <4>2, <4>3
    <3>2. pc' \in [Workers -> Held \cup Free]
      <4>1. pc' = pc \/ \E c \in {"mounts", "crds", "release"} : Goto(w, c)
        BY <1>4 DEF CreateCRD, Goto
      <4>2. {"mounts", "crds", "release"} \in SUBSET (Held \cup Free)
        OBVIOUS
      <4>. QED
        BY <4>1, <4>2, GotoType
    <3>. QED
      BY <1>4, <3>1, <3>2 DEF CreateCRD, Goto, Visit, ClusterOK, RequestsOK
  <2>. QED
    BY <2>1, <2>2, <2>3
<1>5. ASSUME NEW w \in Workers, CreateMounts(w) PROVE TypeOK'
  <2>1. ClusterOK'
    <3>1. mounts' \in [Namespaces -> SUBSET Nodes]
      <4>1. \/ mounts' = mounts
            \/ \E K \in SUBSET Nodes : mounts' = [mounts EXCEPT ![at[w]] = mounts[at[w]] \cup K]
        BY <1>5 DEF CreateMounts, RequestsOK
      <4>2. ASSUME NEW K \in SUBSET Nodes PROVE mounts[at[w]] \cup K \in SUBSET Nodes
        BY DEF ClusterOK, TablesOK, RequestsOK
      <4>3. at[w] \in Namespaces /\ mounts \in [Namespaces -> SUBSET Nodes]
        BY DEF ClusterOK, TablesOK, RequestsOK
      <4>. QED
        BY <4>1, <4>2, <4>3
    <3>. QED
      BY <1>5, <3>1 DEF CreateMounts, Goto, ClusterOK, RequestsOK
  <2>2. TablesOK'
    BY <1>5 DEF CreateMounts, Goto, ClusterOK, TablesOK, RequestsOK
  <2>3. RequestsOK'
    BY <1>5 DEF CreateMounts, Goto, ClusterOK, RequestsOK
  <2>. QED
    BY <2>1, <2>2, <2>3
<1>6. ASSUME NEW w \in Workers, PublishCounts(w) PROVE TypeOK'
  <2>1. ClusterOK'
    BY <1>6 DEF PublishCounts, Goto, Loop, ClusterOK, RequestsOK
  <2>2. TablesOK'
    BY <1>6 DEF PublishCounts, Goto, Loop, ClusterOK, TablesOK, RequestsOK
  <2>3. RequestsOK'
    BY <1>6 DEF PublishCounts, Goto, Loop, ClusterOK, RequestsOK
  <2>. QED
    BY <2>1, <2>2, <2>3
<1>7. ASSUME NEW w \in Workers, CreateStatefulSet(w) PROVE TypeOK'
  <2>1. ClusterOK'
    <3>1. sts' \in [Namespaces -> SUBSET Nodes]
      <4>1. \/ sts' = sts
            \/ \E k \in Nodes : sts' = [sts EXCEPT ![at[w]] = sts[at[w]] \cup {k}]
        BY <1>7 DEF CreateStatefulSet, RequestsOK
      <4>2. ASSUME NEW k \in Nodes PROVE sts[at[w]] \cup {k} \in SUBSET Nodes
        BY DEF ClusterOK, TablesOK, RequestsOK
      <4>3. at[w] \in Namespaces /\ sts \in [Namespaces -> SUBSET Nodes]
        BY DEF ClusterOK, TablesOK, RequestsOK
      <4>. QED
        BY <4>1, <4>2, <4>3
    <3>. QED
      BY <1>7, <3>1 DEF CreateStatefulSet, Goto, Visit, ClusterOK, RequestsOK
  <2>2. TablesOK'
    BY <1>7 DEF CreateStatefulSet, Goto, Visit, ClusterOK, TablesOK, RequestsOK
  <2>3. RequestsOK'
    <3>1. todo' \in [Workers -> SUBSET Nodes]
      <4>1. \/ todo' = todo
            \/ \E k \in Nodes : todo' = [todo EXCEPT ![w] = todo[w] \ {k}]
        BY <1>7 DEF CreateStatefulSet, Visit, RequestsOK
      <4>2. ASSUME NEW k \in Nodes PROVE todo[w] \ {k} \in SUBSET Nodes
        BY DEF ClusterOK, TablesOK, RequestsOK
      <4>3. at[w] \in Namespaces /\ todo \in [Workers -> SUBSET Nodes]
        BY DEF ClusterOK, TablesOK, RequestsOK
      <4>. QED
        BY <4>1, <4>2, <4>3
    <3>2. pc' \in [Workers -> Held \cup Free]
      <4>1. pc' = pc \/ \E c \in {"wait", "sts", "release"} : Goto(w, c)
        BY <1>7 DEF CreateStatefulSet, Goto
      <4>2. {"wait", "sts", "release"} \in SUBSET (Held \cup Free)
        OBVIOUS
      <4>. QED
        BY <4>1, <4>2, GotoType
    <3>. QED
      BY <1>7, <3>1, <3>2 DEF CreateStatefulSet, Goto, Visit, ClusterOK, RequestsOK
  <2>. QED
    BY <2>1, <2>2, <2>3
<1>8. ASSUME NEW w \in Workers, WaitReady(w) PROVE TypeOK'
  <2>1. ClusterOK'
    BY <1>8 DEF WaitReady, Goto, ClusterOK, RequestsOK
  <2>2. TablesOK'
    BY <1>8 DEF WaitReady, Goto, ClusterOK, TablesOK, RequestsOK
  <2>3. RequestsOK'
    BY <1>8 DEF WaitReady, Goto, ClusterOK, RequestsOK
  <2>. QED
    BY <2>1, <2>2, <2>3
<1>9. ASSUME NEW w \in Workers, SaveLinkAttributes(w) PROVE TypeOK'
  <2>1. ClusterOK'
    BY <1>9 DEF SaveLinkAttributes, Goto, ClusterOK, RequestsOK
  <2>2. TablesOK'
    BY <1>9 DEF SaveLinkAttributes, Goto, ClusterOK, TablesOK, RequestsOK
  <2>3. RequestsOK'
    BY <1>9 DEF SaveLinkAttributes, Goto, ClusterOK, RequestsOK
  <2>. QED
    BY <2>1, <2>2, <2>3
<1>10. ASSUME NEW w \in Workers, Verify(w) PROVE TypeOK'
  <2>1. ClusterOK'
    BY <1>10 DEF Verify, Goto, ClusterOK, RequestsOK
  <2>2. TablesOK'
    BY <1>10 DEF Verify, Goto, ClusterOK, TablesOK, RequestsOK
  <2>3. RequestsOK'
    BY <1>10 DEF Verify, Goto, ClusterOK, RequestsOK
  <2>. QED
    BY <2>1, <2>2, <2>3
<1>11. ASSUME NEW w \in Workers, ApplyLinkAttributes(w) PROVE TypeOK'
  <2>1. ClusterOK'
    BY <1>11 DEF ApplyLinkAttributes, Goto, ClusterOK, RequestsOK
  <2>2. TablesOK'
    <3>1. history' \in [Namespaces -> SUBSET [deploy: Nat, born: Nat]]
      <4>1. \/ history' = history
            \/ history' = [history EXCEPT ![at[w]] = history[at[w]] \cup {[deploy |-> deploys[at[w]], born |-> born[at[w]]]}]
        BY <1>11 DEF ApplyLinkAttributes, RequestsOK
      <4>2. history[at[w]] \cup {[deploy |-> deploys[at[w]], born |-> born[at[w]]]} \in SUBSET [deploy: Nat, born: Nat]
        BY DEF ClusterOK, TablesOK, RequestsOK
      <4>3. at[w] \in Namespaces /\ history \in [Namespaces -> SUBSET [deploy: Nat, born: Nat]]
        BY DEF ClusterOK, TablesOK, RequestsOK
      <4>. QED
        BY <4>1, <4>2, <4>3
    <3>. QED
      BY <1>11, <3>1 DEF ApplyLinkAttributes, Goto, ClusterOK, TablesOK, RequestsOK
  <2>3. RequestsOK'
    BY <1>11 DEF ApplyLinkAttributes, Goto, ClusterOK, RequestsOK
  <2>. QED
    BY <2>1, <2>2, <2>3
<1>12. ASSUME NEW w \in Workers, SetHasTopology(w) PROVE TypeOK'
  <2>1. ClusterOK'
    BY <1>12 DEF SetHasTopology, Goto, ClusterOK, RequestsOK
  <2>2. TablesOK'
    BY <1>12 DEF SetHasTopology, Goto, ClusterOK, TablesOK, RequestsOK
  <2>3. RequestsOK'
    BY <1>12 DEF SetHasTopology, Goto, ClusterOK, RequestsOK
  <2>. QED
    BY <2>1, <2>2, <2>3
<1>13. ASSUME NEW w \in Workers, SyncRegistry(w) PROVE TypeOK'
  <2>1. ClusterOK'
    BY <1>13 DEF SyncRegistry, Goto, Linked, HasCRD, ClusterOK, RequestsOK
  <2>2. TablesOK'
    <3>1. registry' \in [Namespaces -> SUBSET UIDs]
      <4>1. \/ registry' = registry
            \/ registry' = [registry EXCEPT ![at[w]] = Linked(at[w])]
        BY <1>13 DEF SyncRegistry, RequestsOK
      <4>2. Linked(at[w]) \in SUBSET UIDs
        BY DEF ClusterOK, RequestsOK, Linked, HasCRD
      <4>3. at[w] \in Namespaces /\ registry \in [Namespaces -> SUBSET UIDs]
        BY DEF ClusterOK, TablesOK, RequestsOK
      <4>. QED
        BY <4>1, <4>2, <4>3
    <3>. QED
      BY <1>13, <3>1 DEF SyncRegistry, Goto, Linked, HasCRD, ClusterOK, TablesOK, RequestsOK
  <2>3. RequestsOK'
    BY <1>13 DEF SyncRegistry, Goto, Linked, HasCRD, ClusterOK, RequestsOK
  <2>. QED
    BY <2>1, <2>2, <2>3
<1>14. ASSUME NEW w \in Workers, ListStatefulSets(w) PROVE TypeOK'
  <2>1. ClusterOK'
    BY <1>14 DEF ListStatefulSets, Goto, ClearFails, Loop, ClusterOK, RequestsOK
  <2>2. TablesOK'
    BY <1>14 DEF ListStatefulSets, Goto, ClearFails, Loop, ClusterOK, TablesOK, RequestsOK
  <2>3. RequestsOK'
    <3>1. todo' \in [Workers -> SUBSET Nodes]
      <4>1. \/ todo' = todo
            \/ todo' = [todo EXCEPT ![w] = sts[at[w]]]
        BY <1>14 DEF ListStatefulSets, Loop, RequestsOK
      <4>2. sts[at[w]] \in SUBSET Nodes
        BY DEF ClusterOK, TablesOK, RequestsOK
      <4>3. at[w] \in Namespaces /\ todo \in [Workers -> SUBSET Nodes]
        BY DEF ClusterOK, TablesOK, RequestsOK
      <4>. QED
        BY <4>1, <4>2, <4>3
    <3>2. pc' \in [Workers -> Held \cup Free]
      <4>1. pc' = pc \/ \E c \in {"delsts", "resync", "release"} : Goto(w, c)
        BY <1>14 DEF ListStatefulSets, Goto, ClearFails
      <4>2. {"delsts", "resync", "release"} \in SUBSET (Held \cup Free)
        OBVIOUS
      <4>. QED
        BY <4>1, <4>2, GotoType
    <3>3. tracked' \in [Workers -> [sts: SUBSET Nodes, crd: SUBSET Nodes]]
      <4>1. \/ tracked' = tracked
            \/ tracked' = [tracked EXCEPT ![w] = [tracked[w] EXCEPT !.sts = sts[at[w]]]]
        BY <1>14 DEF ListStatefulSets, RequestsOK
      <4>2. [tracked[w] EXCEPT !.sts = sts[at[w]]] \in [sts: SUBSET Nodes, crd: SUBSET Nodes]
        <5>1. sts[at[w]] \in SUBSET Nodes
          BY DEF ClusterOK, RequestsOK
        <5>2. tracked[w] \in [sts: SUBSET Nodes, crd: SUBSET Nodes]
          BY DEF RequestsOK
        <5>. QED
          BY <5>1, <5>2
      <4>3. at[w] \in Namespaces /\ tracked \in [Workers -> [sts: SUBSET Nodes, crd: SUBSET Nodes]]
        BY DEF ClusterOK, TablesOK, RequestsOK
      <4>. QED
        BY <4>1, <4>2, <4>3
    <3>. QED
      BY <1>14, <3>1, <3>2, <3>3 DEF ListStatefulSets, Goto, ClearFails, Loop, ClusterOK, RequestsOK
  <2>. QED
    BY <2>1, <2>2, <2>3
<1>15. ASSUME NEW w \in Workers, DeleteStatefulSet(w) PROVE TypeOK'
  <2>1. ClusterOK'
    <3>1. sts' \in [Namespaces -> SUBSET Nodes]
      <4>1. \/ sts' = sts
            \/ \E k \in Nodes : sts' = [sts EXCEPT ![at[w]] = sts[at[w]] \ {k}]
        BY <1>15 DEF DeleteStatefulSet, RequestsOK
      <4>2. ASSUME NEW k \in Nodes PROVE sts[at[w]] \ {k} \in SUBSET Nodes
        BY DEF ClusterOK, TablesOK, RequestsOK
      <4>3. at[w] \in Namespaces /\ sts \in [Namespaces -> SUBSET Nodes]
        BY DEF ClusterOK, TablesOK, RequestsOK
      <4>. QED
        BY <4>1, <4>2, <4>3
    <3>. QED
      BY <1>15, <3>1 DEF DeleteStatefulSet, Goto, ClearFails, Visit, ClusterOK, RequestsOK
  <2>2. TablesOK'
    BY <1>15 DEF DeleteStatefulSet, Goto, ClearFails, Visit, ClusterOK, TablesOK, RequestsOK
  <2>3. RequestsOK'
    <3>1. todo' \in [Workers -> SUBSET Nodes]
      <4>1. \/ todo' = todo
            \/ \E k \in Nodes : todo' = [todo EXCEPT ![w] = todo[w] \ {k}]
        BY <1>15 DEF DeleteStatefulSet, Visit, RequestsOK
      <4>2. ASSUME NEW k \in Nodes PROVE todo[w] \ {k} \in SUBSET Nodes
        BY DEF ClusterOK, TablesOK, RequestsOK
      <4>3. at[w] \in Namespaces /\ todo \in [Workers -> SUBSET Nodes]
        BY DEF ClusterOK, TablesOK, RequestsOK
      <4>. QED
        BY <4>1, <4>2, <4>3
    <3>2. pc' \in [Workers -> Held \cup Free]
      <4>1. pc' = pc \/ \E c \in {"resync", "release"} : Goto(w, c)
        BY <1>15 DEF DeleteStatefulSet, Goto, ClearFails
      <4>2. {"resync", "release"} \in SUBSET (Held \cup Free)
        OBVIOUS
      <4>. QED
        BY <4>1, <4>2, GotoType
    <3>. QED
      BY <1>15, <3>1, <3>2 DEF DeleteStatefulSet, Goto, ClearFails, Visit, ClusterOK, RequestsOK
  <2>. QED
    BY <2>1, <2>2, <2>3
<1>16. ASSUME NEW w \in Workers, ListTopologies(w) PROVE TypeOK'
  <2>1. ClusterOK'
    BY <1>16 DEF ListTopologies, Goto, ClearFails, Loop, HasCRD, ClusterOK, RequestsOK
  <2>2. TablesOK'
    BY <1>16 DEF ListTopologies, Goto, ClearFails, Loop, HasCRD, ClusterOK, TablesOK, RequestsOK
  <2>3. RequestsOK'
    <3>1. todo' \in [Workers -> SUBSET Nodes]
      <4>1. \/ todo' = todo
            \/ todo' = [todo EXCEPT ![w] = HasCRD(at[w])]
        BY <1>16 DEF ListTopologies, Loop, RequestsOK
      <4>2. HasCRD(at[w]) \in SUBSET Nodes
        BY DEF ClusterOK, RequestsOK, Linked, HasCRD
      <4>3. at[w] \in Namespaces /\ todo \in [Workers -> SUBSET Nodes]
        BY DEF ClusterOK, TablesOK, RequestsOK
      <4>. QED
        BY <4>1, <4>2, <4>3
    <3>2. pc' \in [Workers -> Held \cup Free]
      <4>1. pc' = pc \/ \E c \in {"delcrd", "resync", "release"} : Goto(w, c)
        BY <1>16 DEF ListTopologies, Goto, ClearFails
      <4>2. {"delcrd", "resync", "release"} \in SUBSET (Held \cup Free)
        OBVIOUS
      <4>. QED
        BY <4>1, <4>2, GotoType
    <3>3. tracked' \in [Workers -> [sts: SUBSET Nodes, crd: SUBSET Nodes]]
      <4>1. \/ tracked' = tracked
            \/ tracked' = [tracked EXCEPT ![w] = [tracked[w] EXCEPT !.crd = HasCRD(at[w])]]
        BY <1>16 DEF ListTopologies, RequestsOK
      <4>2. [tracked[w] EXCEPT !.crd = HasCRD(at[w])] \in [sts: SUBSET Nodes, crd: SUBSET Nodes]
        <5>1. HasCRD(at[w]) \in SUBSET Nodes
          BY DEF HasCRD
        <5>2. tracked[w] \in [sts: SUBSET Nodes, crd: SUBSET Nodes]
          BY DEF RequestsOK
        <5>. QED
          BY <5>1, <5>2
      <4>3. at[w] \in Namespaces /\ tracked \in [Workers -> [sts: SUBSET Nodes, crd: SUBSET Nodes]]
        BY DEF ClusterOK, TablesOK, RequestsOK
      <4>. QED
        BY <4>1, <4>2, <4>3
    <3>. QED
      BY <1>16, <3>1, <3>2, <3>3 DEF ListTopologies, Goto, ClearFails, Loop, HasCRD, ClusterOK, RequestsOK
  <2>. QED
    BY <2>1, <2>2, <2>3
<1>17. ASSUME NEW w \in Workers, DeleteTopology(w) PROVE TypeOK'
  <2>1. ClusterOK'
    <3>1. crd' \in [Namespaces -> [Nodes -> UIDs \cup {NoUid}]]
      <4>1. \/ crd' = crd
            \/ \E k \in Nodes : crd' = [crd EXCEPT ![at[w]] = [crd[at[w]] EXCEPT ![k] = NoUid]]
        BY <1>17 DEF DeleteTopology, RequestsOK
      <4>2. ASSUME NEW k \in Nodes PROVE [crd[at[w]] EXCEPT ![k] = NoUid] \in [Nodes -> UIDs \cup {NoUid}]
        BY DEF ClusterOK, TablesOK, RequestsOK
      <4>3. at[w] \in Namespaces /\ crd \in [Namespaces -> [Nodes -> UIDs \cup {NoUid}]]
        BY DEF ClusterOK, TablesOK, RequestsOK
      <4>. QED
        BY <4>1, <4>2, <4>3
    <3>. QED
      BY <1>17, <3>1 DEF DeleteTopology, Goto, ClearFails, Visit, ClusterOK, RequestsOK
  <2>2. TablesOK'
    BY <1>17 DEF DeleteTopology, Goto, ClearFails, Visit, ClusterOK, TablesOK, RequestsOK
  <2>3. RequestsOK'
    <3>1. todo' \in [Workers -> SUBSET Nodes]
      <4>1. \/ todo' = todo
            \/ \E k \in Nodes : todo' = [todo EXCEPT ![w] = todo[w] \ {k}]
        BY <1>17 DEF DeleteTopology, Visit, RequestsOK
      <4>2. ASSUME NEW k \in Nodes PROVE todo[w] \ {k} \in SUBSET Nodes
        BY DEF ClusterOK, TablesOK, RequestsOK
      <4>3. at[w] \in Namespaces /\ todo \in [Workers -> SUBSET Nodes]
        BY DEF ClusterOK, TablesOK, RequestsOK
      <4>. QED
        BY <4>1, <4>2, <4>3
    <3>2. pc' \in [Workers -> Held \cup Free]
      <4>1. pc' = pc \/ \E c \in {"resync", "release"} : Goto(w, c)
        BY <1>17 DEF DeleteTopology, Goto, ClearFails
      <4>2. {"resync", "release"} \in SUBSET (Held \cup Free)
        OBVIOUS
      <4>. QED
        BY <4>1, <4>2, GotoType
    <3>. QED
      BY <1>17, <3>1, <3>2 DEF DeleteTopology, Goto, ClearFails, Visit, ClusterOK, RequestsOK
  <2>. QED
    BY <2>1, <2>2, <2>3
<1>18. ASSUME NEW w \in Workers, WaitDeleted(w) PROVE TypeOK'
  <2>1. ClusterOK'
    BY <1>18 DEF WaitDeleted, Goto, ClearFails, Loop, ClusterOK, RequestsOK
  <2>2. TablesOK'
    BY <1>18 DEF WaitDeleted, Goto, ClearFails, Loop, ClusterOK, TablesOK, RequestsOK
  <2>3. RequestsOK'
    <3>1. todo' \in [Workers -> SUBSET Nodes]
      <4>1. \/ todo' = todo
            \/ todo' = [todo EXCEPT ![w] = tracked[w].sts]
        BY <1>18 DEF WaitDeleted, Loop, RequestsOK
      <4>2. tracked[w].sts \in SUBSET Nodes
        BY DEF ClusterOK, TablesOK, RequestsOK
      <4>3. at[w] \in Namespaces /\ todo \in [Workers -> SUBSET Nodes]
        BY DEF ClusterOK, TablesOK, RequestsOK
      <4>. QED
        BY <4>1, <4>2, <4>3
    <3>2. pc' \in [Workers -> Held \cup Free]
      <4>1. pc' = pc \/ \E c \in {"delmounts", "resync", "release"} : Goto(w, c)
        BY <1>18 DEF WaitDeleted, Goto, ClearFails
      <4>2. {"delmounts", "resync", "release"} \in SUBSET (Held \cup Free)
        OBVIOUS
      <4>. QED
        BY <4>1, <4>2, GotoType
    <3>3. UNCHANGED <<deploys, up, op, at, want, tracked, ran, left>>
      BY <1>18 DEF WaitDeleted
    <3>. QED
      BY <3>1, <3>2, <3>3 DEF RequestsOK
  <2>. QED
    BY <2>1, <2>2, <2>3
<1>19. ASSUME NEW w \in Workers, DeleteMount(w) PROVE TypeOK'
  <2>1. ClusterOK'
    <3>1. \/ mounts' = mounts
          \/ \E k \in todo[w] : mounts' = [mounts EXCEPT ![at[w]] = mounts[at[w]] \ {k}]
      BY <1>19 DEF DeleteMount
    <3>2. mounts' \in [Namespaces -> SUBSET Nodes]
      <4>1. at[w] \in Namespaces /\ mounts \in [Namespaces -> SUBSET Nodes]
        BY DEF ClusterOK, RequestsOK
      <4>. QED
        BY <3>1, <4>1
    <3>. QED
      BY <1>19, <3>2 DEF DeleteMount, ClusterOK
  <2>2. TablesOK'
    BY <1>19 DEF DeleteMount, Goto, ClearFails, Visit, ClusterOK, TablesOK, RequestsOK
  <2>3. RequestsOK'
    <3>1. todo' \in [Workers -> SUBSET Nodes]
      <4>1. \/ todo' = todo
            \/ \E k \in Nodes : todo' = [todo EXCEPT ![w] = todo[w] \ {k}]
        BY <1>19 DEF DeleteMount, Visit, RequestsOK
      <4>2. ASSUME NEW k \in Nodes PROVE todo[w] \ {k} \in SUBSET Nodes
        BY DEF ClusterOK, TablesOK, RequestsOK
      <4>3. at[w] \in Namespaces /\ todo \in [Workers -> SUBSET Nodes]
        BY DEF ClusterOK, TablesOK, RequestsOK
      <4>. QED
        BY <4>1, <4>2, <4>3
    <3>2. pc' \in [Workers -> Held \cup Free]
      <4>1. pc' = pc \/ \E c \in {"resync", "release"} : Goto(w, c)
        BY <1>19 DEF DeleteMount, Goto, ClearFails
      <4>2. {"resync", "release"} \in SUBSET (Held \cup Free)
        OBVIOUS
      <4>. QED
        BY <4>1, <4>2, GotoType
    <3>. QED
      BY <1>19, <3>1, <3>2 DEF DeleteMount, Goto, ClearFails, Visit, ClusterOK, RequestsOK
  <2>. QED
    BY <2>1, <2>2, <2>3
<1>20. ASSUME NEW w \in Workers, ForgetUIDs(w) PROVE TypeOK'
  <2>1. ClusterOK'
    BY <1>20 DEF ForgetUIDs, Goto, ClearFails, ClusterOK, RequestsOK
  <2>2. TablesOK'
    BY <1>20 DEF ForgetUIDs, Goto, ClearFails, ClusterOK, TablesOK, RequestsOK
  <2>3. RequestsOK'
    BY <1>20 DEF ForgetUIDs, Goto, ClearFails, ClusterOK, RequestsOK
  <2>. QED
    BY <2>1, <2>2, <2>3
<1>21. ASSUME NEW w \in Workers, Unflag(w) PROVE TypeOK'
  <2>1. ClusterOK'
    BY <1>21 DEF Unflag, Goto, ClearFails, ClusterOK, RequestsOK
  <2>2. TablesOK'
    BY <1>21 DEF Unflag, Goto, ClearFails, ClusterOK, TablesOK, RequestsOK
  <2>3. RequestsOK'
    BY <1>21 DEF Unflag, Goto, ClearFails, ClusterOK, RequestsOK
  <2>. QED
    BY <2>1, <2>2, <2>3
<1>22. ASSUME NEW w \in Workers, Resync(w) PROVE TypeOK'
  <2>1. ClusterOK'
    BY <1>22 DEF Resync, Goto, ClusterOK, RequestsOK
  <2>2. TablesOK'
    BY <1>22 DEF Resync, Goto, ClusterOK, TablesOK, RequestsOK
  <2>3. RequestsOK'
    BY <1>22 DEF Resync, Goto, ClusterOK, RequestsOK
  <2>. QED
    BY <2>1, <2>2, <2>3
<1>23. ASSUME NEW w \in Workers, DropRegistry(w) PROVE TypeOK'
  <2>1. ClusterOK'
    BY <1>23 DEF DropRegistry, Goto, ClusterOK, RequestsOK
  <2>2. TablesOK'
    BY <1>23 DEF DropRegistry, Goto, ClusterOK, TablesOK, RequestsOK
  <2>3. RequestsOK'
    BY <1>23 DEF DropRegistry, Goto, ClusterOK, RequestsOK
  <2>. QED
    BY <2>1, <2>2, <2>3
<1>24. ASSUME NEW w \in Workers, DropHistory(w) PROVE TypeOK'
  <2>1. ClusterOK'
    BY <1>24 DEF DropHistory, Goto, ClusterOK, RequestsOK
  <2>2. TablesOK'
    BY <1>24 DEF DropHistory, Goto, ClusterOK, TablesOK, RequestsOK
  <2>3. RequestsOK'
    BY <1>24 DEF DropHistory, Goto, ClusterOK, RequestsOK
  <2>. QED
    BY <2>1, <2>2, <2>3
<1>25. ASSUME NEW w \in Workers, DropAttributes(w) PROVE TypeOK'
  <2>1. ClusterOK'
    BY <1>25 DEF DropAttributes, Goto, ClusterOK, RequestsOK
  <2>2. TablesOK'
    BY <1>25 DEF DropAttributes, Goto, ClusterOK, TablesOK, RequestsOK
  <2>3. RequestsOK'
    BY <1>25 DEF DropAttributes, Goto, ClusterOK, RequestsOK
  <2>. QED
    BY <2>1, <2>2, <2>3
<1>26. ASSUME NEW w \in Workers, DropCounts(w) PROVE TypeOK'
  <2>1. ClusterOK'
    BY <1>26 DEF DropCounts, Goto, ClusterOK, RequestsOK
  <2>2. TablesOK'
    BY <1>26 DEF DropCounts, Goto, ClusterOK, TablesOK, RequestsOK
  <2>3. RequestsOK'
    BY <1>26 DEF DropCounts, Goto, ClusterOK, RequestsOK
  <2>. QED
    BY <2>1, <2>2, <2>3
<1>27. ASSUME NEW w \in Workers, Answer(w) PROVE TypeOK'
  <2>1. ClusterOK'
    BY <1>27 DEF Answer, Goto, ClusterOK, RequestsOK
  <2>2. TablesOK'
    BY <1>27 DEF Answer, Goto, ClusterOK, TablesOK, RequestsOK
  <2>3. RequestsOK'
    BY <1>27 DEF Answer, Goto, ClusterOK, RequestsOK
  <2>. QED
    BY <2>1, <2>2, <2>3
<1>28. ASSUME NEW w \in Workers, SaveOperation(w) PROVE TypeOK'
  <2>1. ClusterOK'
    BY <1>28 DEF SaveOperation, Goto, ClusterOK, RequestsOK
  <2>2. TablesOK'
    <3>1. history' \in [Namespaces -> SUBSET [deploy: Nat, born: Nat]]
      <4>1. \/ history' = history
            \/ history' = [history EXCEPT ![at[w]] = history[at[w]] \cup {[deploy |-> ran[w], born |-> born[at[w]]]}]
        BY <1>28 DEF SaveOperation, RequestsOK
      <4>2. history[at[w]] \cup {[deploy |-> ran[w], born |-> born[at[w]]]} \in SUBSET [deploy: Nat, born: Nat]
        BY DEF ClusterOK, TablesOK, RequestsOK
      <4>3. at[w] \in Namespaces /\ history \in [Namespaces -> SUBSET [deploy: Nat, born: Nat]]
        BY DEF ClusterOK, TablesOK, RequestsOK
      <4>. QED
        BY <4>1, <4>2, <4>3
    <3>. QED
      BY <1>28, <3>1 DEF SaveOperation, Goto, ClusterOK, TablesOK, RequestsOK
  <2>3. RequestsOK'
    BY <1>28 DEF SaveOperation, Goto, ClusterOK, RequestsOK
  <2>. QED
    BY <2>1, <2>2, <2>3
<1>29. ASSUME NEW w \in Workers, CreateCleans(w) PROVE TypeOK'
  <2>1. ClusterOK'
    BY <1>29 DEF CreateCleans, Goto, ClusterOK, RequestsOK
  <2>2. TablesOK'
    BY <1>29 DEF CreateCleans, Goto, ClusterOK, TablesOK, RequestsOK
  <2>3. RequestsOK'
    BY <1>29 DEF CreateCleans, Goto, ClusterOK, RequestsOK
  <2>. QED
    BY <2>1, <2>2, <2>3
<1>30. ASSUME NEW w \in Workers, DeleteRegistry(w) PROVE TypeOK'
  <2>1. ClusterOK'
    BY <1>30 DEF DeleteRegistry, Goto, ClusterOK, RequestsOK
  <2>2. TablesOK'
    BY <1>30 DEF DeleteRegistry, Goto, ClusterOK, TablesOK, RequestsOK
  <2>3. RequestsOK'
    BY <1>30 DEF DeleteRegistry, Goto, ClusterOK, RequestsOK
  <2>. QED
    BY <2>1, <2>2, <2>3
<1>31. ASSUME NEW w \in Workers, DeleteHistory(w) PROVE TypeOK'
  <2>1. ClusterOK'
    BY <1>31 DEF DeleteHistory, Goto, ClusterOK, RequestsOK
  <2>2. TablesOK'
    BY <1>31 DEF DeleteHistory, Goto, ClusterOK, TablesOK, RequestsOK
  <2>3. RequestsOK'
    BY <1>31 DEF DeleteHistory, Goto, ClusterOK, RequestsOK
  <2>. QED
    BY <2>1, <2>2, <2>3
<1>32. ASSUME NEW w \in Workers, DeleteAttributes(w) PROVE TypeOK'
  <2>1. ClusterOK'
    BY <1>32 DEF DeleteAttributes, Goto, ClusterOK, RequestsOK
  <2>2. TablesOK'
    BY <1>32 DEF DeleteAttributes, Goto, ClusterOK, TablesOK, RequestsOK
  <2>3. RequestsOK'
    BY <1>32 DEF DeleteAttributes, Goto, ClusterOK, RequestsOK
  <2>. QED
    BY <2>1, <2>2, <2>3
<1>33. ASSUME NEW w \in Workers, Acquire(w) PROVE TypeOK'
  <2>1. ClusterOK'
    BY <1>33 DEF Acquire, Goto, ClusterOK, RequestsOK
  <2>2. TablesOK'
    BY <1>33 DEF Acquire, Goto, ClusterOK, TablesOK, RequestsOK
  <2>3. RequestsOK'
    BY <1>33 DEF Acquire, Goto, ClusterOK, RequestsOK
  <2>. QED
    BY <2>1, <2>2, <2>3
<1>34. ASSUME NEW w \in Workers, Release(w) PROVE TypeOK'
  <2>1. ClusterOK'
    BY <1>34 DEF Release, Goto, ClusterOK, RequestsOK
  <2>2. TablesOK'
    BY <1>34 DEF Release, Goto, ClusterOK, TablesOK, RequestsOK
  <2>3. RequestsOK'
    BY <1>34 DEF Release, Goto, ClusterOK, RequestsOK
  <2>. QED
    BY <2>1, <2>2, <2>3
<1>35. ASSUME NEW w \in Workers, DeleteState(w) PROVE TypeOK'
  <2>1. ClusterOK'
    BY <1>35 DEF DeleteState, Goto, ClusterOK, RequestsOK
  <2>2. TablesOK'
    BY <1>35 DEF DeleteState, Goto, ClusterOK, TablesOK, RequestsOK
  <2>3. RequestsOK'
    BY <1>35 DEF DeleteState, Goto, ClusterOK, RequestsOK
  <2>. QED
    BY <2>1, <2>2, <2>3
<1>36. ASSUME NEW w \in Workers, DeleteLock(w) PROVE TypeOK'
  <2>1. ClusterOK'
    BY <1>36 DEF DeleteLock, Goto, ClusterOK, RequestsOK
  <2>2. TablesOK'
    BY <1>36 DEF DeleteLock, Goto, ClusterOK, TablesOK, RequestsOK
  <2>3. RequestsOK'
    BY <1>36 DEF DeleteLock, Goto, ClusterOK, RequestsOK
  <2>. QED
    BY <2>1, <2>2, <2>3
<1>37. ASSUME NEW w \in Workers, Deploy(w) PROVE TypeOK'
  <2>1. ClusterOK'
    BY <1>37 DEF Deploy, Arrive, Ready, Goto, ClusterOK, RequestsOK
  <2>2. TablesOK'
    BY <1>37 DEF Deploy, Arrive, Ready, Goto, ClusterOK, TablesOK, RequestsOK
  <2>3. RequestsOK'
    BY <1>37 DEF Deploy, Arrive, Ready, Goto, ClusterOK, RequestsOK
  <2>. QED
    BY <2>1, <2>2, <2>3
<1>38. ASSUME NEW w \in Workers, Clear(w) PROVE TypeOK'
  <2>1. ClusterOK'
    BY <1>38 DEF Clear, Arrive, Ready, Goto, ClusterOK, RequestsOK
  <2>2. TablesOK'
    BY <1>38 DEF Clear, Arrive, Ready, Goto, ClusterOK, TablesOK, RequestsOK
  <2>3. RequestsOK'
    BY <1>38 DEF Clear, Arrive, Ready, Goto, ClusterOK, RequestsOK
  <2>. QED
    BY <2>1, <2>2, <2>3
<1>39. ASSUME NEW w \in Workers, Configure(w) PROVE TypeOK'
  <2>1. ClusterOK'
    BY <1>39 DEF Configure, Arrive, Ready, Goto, ClusterOK, RequestsOK
  <2>2. TablesOK'
    BY <1>39 DEF Configure, Arrive, Ready, Goto, ClusterOK, TablesOK, RequestsOK
  <2>3. RequestsOK'
    BY <1>39 DEF Configure, Arrive, Ready, Goto, ClusterOK, RequestsOK
  <2>. QED
    BY <2>1, <2>2, <2>3
<1>40. ASSUME NEW w \in Workers, CreateNamespace(w) PROVE TypeOK'
  <2>1. ClusterOK'
    BY <1>40 DEF CreateNamespace, Arrive, Ready, Goto, ClusterOK, RequestsOK
  <2>2. TablesOK'
    BY <1>40 DEF CreateNamespace, Arrive, Ready, Goto, ClusterOK, TablesOK, RequestsOK
  <2>3. RequestsOK'
    BY <1>40 DEF CreateNamespace, Arrive, Ready, Goto, ClusterOK, RequestsOK
  <2>. QED
    BY <2>1, <2>2, <2>3
<1>41. ASSUME NEW w \in Workers, DeleteNamespace(w) PROVE TypeOK'
  <2>1. ClusterOK'
    BY <1>41 DEF DeleteNamespace, Arrive, Ready, Goto, ClusterOK, RequestsOK
  <2>2. TablesOK'
    BY <1>41 DEF DeleteNamespace, Arrive, Ready, Goto, ClusterOK, TablesOK, RequestsOK
  <2>3. RequestsOK'
    BY <1>41 DEF DeleteNamespace, Arrive, Ready, Goto, ClusterOK, RequestsOK
  <2>. QED
    BY <2>1, <2>2, <2>3
<1>42. CASE PodUp
  BY <1>42 DEF PodUp, ClusterOK, TablesOK, RequestsOK
<1>43. CASE PodDown
  BY <1>43 DEF PodDown, ClusterOK, TablesOK, RequestsOK
<1>44. CASE NamespaceGone
  BY <1>44 DEF NamespaceGone, NoCRDs, ClusterOK, TablesOK, RequestsOK
<1>45. CASE DeletedOutside
  BY <1>45 DEF DeletedOutside, ClusterOK, TablesOK, RequestsOK
<1>46. CASE CreatedOutside
  BY <1>46 DEF CreatedOutside, ClusterOK, TablesOK, RequestsOK
<1>47. CASE Crash
  BY <1>47 DEF Crash, ClusterOK, TablesOK, RequestsOK
<1>48. CASE Startup
  BY <1>48 DEF Startup, Linked, HasCRD, ClusterOK, TablesOK, RequestsOK
<1>49. CASE UNCHANGED vars
  BY <1>49 DEF vars, ClusterOK, TablesOK, RequestsOK
<1>50. ASSUME NEW w \in Workers, LookAround(w) PROVE TypeOK'
  <2>1. ClusterOK'
    BY <1>50 DEF LookAround, Goto, ClusterOK, RequestsOK
  <2>2. TablesOK'
    BY <1>50 DEF LookAround, Goto, ClusterOK, TablesOK, RequestsOK
  <2>3. RequestsOK'
    BY <1>50 DEF LookAround, Goto, ClusterOK, RequestsOK
  <2>. QED
    BY <2>1, <2>2, <2>3
<1>51. ASSUME NEW w \in Workers, SetSeen(w) PROVE TypeOK'
  <2>1. ClusterOK'
    BY <1>51 DEF SetSeen, Goto, ClusterOK, RequestsOK
  <2>2. TablesOK'
    BY <1>51 DEF SetSeen, Goto, ClusterOK, TablesOK, RequestsOK
  <2>3. RequestsOK'
    BY <1>51 DEF SetSeen, Goto, ClusterOK, RequestsOK
  <2>. QED
    BY <2>1, <2>2, <2>3
<1>52. ASSUME NEW w \in Workers, Summary(w) PROVE TypeOK'
  <2>1. ClusterOK'
    BY <1>52 DEF Summary, Arrive, Ready, Goto, ClusterOK, RequestsOK
  <2>2. TablesOK'
    BY <1>52 DEF Summary, Arrive, Ready, Goto, ClusterOK, TablesOK, RequestsOK
  <2>3. RequestsOK'
    BY <1>52 DEF Summary, Arrive, Ready, Goto, ClusterOK, RequestsOK
  <2>. QED
    BY <2>1, <2>2, <2>3
<1>. QED
  BY <1>1, <1>2, <1>3, <1>4, <1>5, <1>6, <1>7, <1>8, <1>9, <1>10, <1>11, 
     <1>12, <1>13, <1>14, <1>15, <1>16, <1>17, <1>18, <1>19, <1>20, 
     <1>21, <1>22, <1>23, <1>24, <1>25, <1>26, <1>27, <1>28, <1>29, 
     <1>30, <1>31, <1>32, <1>33, <1>34, <1>35, <1>36, <1>37, <1>38, 
     <1>39, <1>40, <1>41, <1>42, <1>43, <1>44, <1>45, <1>46, <1>47, 
     <1>48, <1>49, <1>50, <1>51, <1>52
     DEF Next, Arrival, Step, Locked, Unlocked, World

\* Every variable keeps its type: the tables, the cluster's objects and the
\* requests' local state, in every reachable state.
THEOREM LifecycleTypes == Spec => []TypeOK
<1>1. Init => TypeOK
  BY SwitchAssumption DEF Init, TypeOK, ClusterOK, TablesOK, RequestsOK, NoCRDs, Held, Free,
     RequestKinds
<1>2. TypeOK /\ [Next]_vars => TypeOK'
  BY TypeNext
<1>. QED
  BY <1>1, <1>2, PTL DEF Spec

-----------------------------------------------------------------------------
\* What a deploy can rely on from its check of the cluster to its last create:
\* nothing was there, and since then only it created anything.
Creating    == {"prepare", "crds", "mounts", "counts", "sts"}
EmptyFor(w) ==
  /\ pc[w] = "prepare" => ~ HasTopology(at[w])
  /\ pc[w] = "crds" => HasCRD(at[w]) \cap todo[w] = {} /\ sts[at[w]] = {}
  /\ pc[w] \in {"mounts", "counts"} => sts[at[w]] = {}
  /\ pc[w] = "sts" => sts[at[w]] \cap todo[w] = {}
EmptyAhead  == \A w \in Workers : EmptyFor(w)

\* A request other than the one that steps, in a namespace that gains nothing.
LEMMA OthersStay ==
  ASSUME TypeOK, NEW v \in Workers, EmptyFor(v),
         pc'[v] = pc[v], at'[v] = at[v], todo'[v] = todo[v],
         sts'[at[v]] \subseteq sts[at[v]],
         \A k \in Nodes : crd[at[v]][k] = NoUid => crd'[at[v]][k] = NoUid
  PROVE  EmptyFor(v)'
BY DEF EmptyFor, HasTopology, HasCRD

\* Request w ends up outside the creating part, and nothing is created.
Leaves(w) ==
  /\ pc'[w] \notin Creating
  /\ \A v \in Workers \ {w} : pc'[v] = pc[v] /\ at'[v] = at[v] /\ todo'[v] = todo[v]
  /\ \A n \in Namespaces : /\ sts'[n] \subseteq sts[n]
                           /\ \A k \in Nodes : crd[n][k] = NoUid => crd'[n][k] = NoUid

\* Such a step keeps what the deploys in progress rely on.
LEMMA LeavePreserves ==
  ASSUME TypeOK, EmptyAhead, NEW w \in Workers, Leaves(w)
  PROVE  EmptyAhead'
<1>1. ASSUME NEW v \in Workers PROVE EmptyFor(v)'
  <2>1. CASE v = w
    BY <2>1 DEF EmptyFor, Leaves, Creating
  <2>2. CASE v # w
    BY <2>2, OthersStay DEF EmptyAhead, Leaves, TypeOK, RequestsOK
  <2>. QED
    BY <2>1, <2>2
<1>. QED
  BY <1>1 DEF EmptyAhead

\* The requests' steps that create no CRD and no StatefulSet.
Leaving(w) ==
  \/ PurgeStale(w) \/ WaitReady(w) \/ SaveLinkAttributes(w) \/ Verify(w)
  \/ ApplyLinkAttributes(w) \/ SetHasTopology(w) \/ SyncRegistry(w)
  \/ ListStatefulSets(w) \/ DeleteStatefulSet(w) \/ ListTopologies(w)
  \/ DeleteTopology(w) \/ WaitDeleted(w) \/ DeleteMount(w) \/ ForgetUIDs(w)
  \/ Unflag(w) \/ Resync(w) \/ DropRegistry(w) \/ DropHistory(w)
  \/ DropAttributes(w) \/ DropCounts(w) \/ Answer(w) \/ SaveOperation(w)
  \/ CreateCleans(w) \/ DeleteState(w) \/ DeleteLock(w) \/ DeleteRegistry(w)
  \/ DeleteHistory(w) \/ DeleteAttributes(w) \/ Acquire(w) \/ Release(w)
  \/ Deploy(w) \/ Clear(w) \/ Configure(w) \/ CreateNamespace(w)
  \/ DeleteNamespace(w) \/ Summary(w) \/ LookAround(w) \/ SetSeen(w)

\* Each of them leaves the creating part or was never in it.
LEMMA LeavingLeaves ==
  ASSUME TypeOK, NEW w \in Workers, Leaving(w)
  PROVE  Leaves(w)
<1>. USE DEF TypeOK, ClusterOK, RequestsOK, Leaves, Creating, cluster, request
<1>1. CASE PurgeStale(w)
  BY <1>1 DEF PurgeStale, Goto
<1>2. CASE WaitReady(w)
  BY <1>2 DEF WaitReady, Goto
<1>3. CASE SaveLinkAttributes(w)
  BY <1>3 DEF SaveLinkAttributes, Goto
<1>4. CASE Verify(w)
  BY <1>4 DEF Verify, Goto
<1>5. CASE ApplyLinkAttributes(w)
  BY <1>5 DEF ApplyLinkAttributes, Goto
<1>6. CASE SetHasTopology(w)
  BY <1>6 DEF SetHasTopology, Goto
<1>7. CASE SyncRegistry(w)
  BY <1>7 DEF SyncRegistry, Goto
<1>8. CASE ListStatefulSets(w)
  BY <1>8 DEF ListStatefulSets, Goto, ClearFails, Loop
<1>9. CASE DeleteStatefulSet(w)
  <2>1. \/ sts' = sts
        \/ \E k \in Nodes : sts' = [sts EXCEPT ![at[w]] = sts[at[w]] \ {k}]
    BY <1>9 DEF DeleteStatefulSet
  <2>2. \A n \in Namespaces : sts'[n] \subseteq sts[n]
    BY <2>1
  <2>3. /\ pc'[w] \in {"delsts", "resync", "release"} /\ UNCHANGED <<crd, at>>
        /\ \A v \in Workers \ {w} : pc'[v] = pc[v] /\ todo'[v] = todo[v]
    BY <1>9 DEF DeleteStatefulSet, Goto, ClearFails, Visit
  <2>. QED
    BY <2>2, <2>3
<1>10. CASE ListTopologies(w)
  BY <1>10 DEF ListTopologies, Goto, ClearFails, Loop
<1>11. CASE DeleteTopology(w)
  <2>1. \/ crd' = crd
        \/ \E k \in Nodes : crd' = [crd EXCEPT ![at[w]] = [crd[at[w]] EXCEPT ![k] = NoUid]]
    BY <1>11 DEF DeleteTopology
  <2>2. ASSUME NEW n \in Namespaces, NEW j \in Nodes, crd[n][j] = NoUid
        PROVE  crd'[n][j] = NoUid
    <3>1. CASE n = at[w]
      BY <2>1, <2>2, <3>1
    <3>2. CASE n # at[w]
      BY <2>1, <2>2, <3>2
    <3>. QED
      BY <3>1, <3>2
  <2>. QED
    BY <1>11, <2>2 DEF DeleteTopology, Goto, ClearFails, Visit
<1>12. CASE WaitDeleted(w)
  BY <1>12 DEF WaitDeleted, Goto, ClearFails, Loop
<1>13. CASE DeleteMount(w)
  BY <1>13 DEF DeleteMount, Goto, ClearFails, Visit
<1>14. CASE ForgetUIDs(w)
  BY <1>14 DEF ForgetUIDs, Goto, ClearFails
<1>15. CASE Unflag(w)
  BY <1>15 DEF Unflag, Goto, ClearFails
<1>16. CASE Resync(w)
  BY <1>16 DEF Resync, Goto
<1>17. CASE DropRegistry(w)
  BY <1>17 DEF DropRegistry, Goto
<1>18. CASE DropHistory(w)
  BY <1>18 DEF DropHistory, Goto
<1>19. CASE DropAttributes(w)
  BY <1>19 DEF DropAttributes, Goto
<1>20. CASE DropCounts(w)
  BY <1>20 DEF DropCounts, Goto
<1>21. CASE Answer(w)
  BY <1>21 DEF Answer, Goto
<1>22. CASE SaveOperation(w)
  BY <1>22 DEF SaveOperation, Goto
<1>23. CASE CreateCleans(w)
  BY <1>23 DEF CreateCleans, Goto
<1>24. CASE DeleteState(w)
  BY <1>24 DEF DeleteState, Goto
<1>25. CASE DeleteLock(w)
  BY <1>25 DEF DeleteLock, Goto
<1>26. CASE DeleteRegistry(w)
  BY <1>26 DEF DeleteRegistry, Goto
<1>27. CASE DeleteHistory(w)
  BY <1>27 DEF DeleteHistory, Goto
<1>28. CASE DeleteAttributes(w)
  BY <1>28 DEF DeleteAttributes, Goto
<1>29. CASE Acquire(w)
  BY <1>29 DEF Acquire, Goto
<1>30. CASE Release(w)
  BY <1>30 DEF Release, Goto
<1>31. CASE Deploy(w)
  BY <1>31 DEF Deploy, Goto, Arrive
<1>32. CASE Clear(w)
  BY <1>32 DEF Clear, Goto, Arrive
<1>33. CASE Configure(w)
  BY <1>33 DEF Configure, Goto, Arrive
<1>34. CASE CreateNamespace(w)
  BY <1>34 DEF CreateNamespace, Goto, Arrive
<1>35. CASE DeleteNamespace(w)
  BY <1>35 DEF DeleteNamespace, Goto, Arrive
<1>36. CASE Summary(w)
  BY <1>36 DEF Summary, Goto, Arrive
<1>37. CASE LookAround(w)
  BY <1>37 DEF LookAround, Goto
<1>38. CASE SetSeen(w)
  BY <1>38 DEF SetSeen, Goto
<1>. QED
  BY <1>1, <1>2, <1>3, <1>4, <1>5, <1>6, <1>7, <1>8, <1>9, <1>10, <1>11, 
     <1>12, <1>13, <1>14, <1>15, <1>16, <1>17, <1>18, <1>19, <1>20, 
     <1>21, <1>22, <1>23, <1>24, <1>25, <1>26, <1>27, <1>28, <1>29, 
     <1>30, <1>31, <1>32, <1>33, <1>34, <1>35, <1>36, <1>37, <1>38 DEF Leaving

\* Every step keeps what the deploys in progress rely on, because the lock
\* keeps a second operation out of their namespace.
LEMMA EmptyNext ==
  ASSUME TypeOK, OneOperation, EmptyAhead, [Next]_vars
  PROVE  EmptyAhead'
<1>. USE DEF TypeOK, ClusterOK, RequestsOK
<1>1. ASSUME NEW w \in Workers, Leaving(w) PROVE EmptyAhead'
  BY <1>1, LeavingLeaves, LeavePreserves
<1>2. ASSUME NEW w \in Workers, SyncState(w) PROVE EmptyAhead'
  <2>1. ASSUME NEW v \in Workers, v # w PROVE EmptyFor(v)'
    <3>1. UNCHANGED <<crd, sts, at, todo>> /\ pc'[v] = pc[v]
      BY <1>2, <2>1 DEF SyncState, Goto, cluster, request
    <3>. QED
      BY <3>1, OthersStay DEF EmptyAhead
  <2>2. EmptyFor(w)'
    <3>1. UNCHANGED <<crd, sts, at, todo>>
      BY <1>2 DEF SyncState, cluster, request
    <3>2. \/ pc'[w] = "release"
          \/ pc'[w] = "prepare" /\ ~ HasTopology(at[w])
      BY <1>2 DEF SyncState, Goto
    <3>. QED
      BY <3>1, <3>2 DEF EmptyFor, HasTopology, HasCRD
  <2>. QED
    BY <2>1, <2>2 DEF EmptyAhead
<1>3. ASSUME NEW w \in Workers, PrepareUIDs(w) PROVE EmptyAhead'
  <2>1. ASSUME NEW v \in Workers \ {w} PROVE EmptyFor(v)'
    <3>1. /\ pc'[v] = pc[v] /\ at'[v] = at[v] /\ todo'[v] = todo[v]
          /\ UNCHANGED <<crd, sts>>
      BY <1>3, <2>1 DEF PrepareUIDs, Goto, Loop, cluster
    <3>. QED
      BY <3>1, OthersStay DEF EmptyAhead
  <2>2. EmptyFor(w)'
    <3>1. pc'[w] \in {"release", "crds"} /\ UNCHANGED <<crd, sts, at>>
      BY <1>3 DEF PrepareUIDs, Goto, cluster
    <3>2. HasCRD(at[w]) = {} /\ sts[at[w]] = {}
      BY <1>3 DEF PrepareUIDs, EmptyAhead, EmptyFor, HasTopology
    <3>. QED
      BY <3>1, <3>2 DEF EmptyFor, HasCRD
  <2>. QED
    BY <2>1, <2>2 DEF EmptyAhead
<1>4. ASSUME NEW w \in Workers, CreateCRD(w) PROVE EmptyAhead'
  <2>. PICK k \in todo[w] :
         \/ /\ crd' = [crd EXCEPT ![at[w]] = [crd[at[w]] EXCEPT ![k] = want[w]]]
            /\ Visit(w, k)
            /\ pc' = [pc EXCEPT ![w] = IF todo[w] = {k} THEN "mounts" ELSE "crds"]
         \/ pc' = [pc EXCEPT ![w] = "release"] /\ UNCHANGED <<crd, todo>>
    BY <1>4 DEF CreateCRD, Goto
  <2>0. pc[w] = "crds" /\ UNCHANGED <<sts, at>>
    BY <1>4 DEF CreateCRD
  <2>1. ASSUME NEW v \in Workers, v # w PROVE EmptyFor(v)'
    <3>1. CASE at[v] = at[w]
      BY <3>1, <2>0, <2>1 DEF OneOperation, Held, EmptyFor, Visit
    <3>2. CASE at[v] # at[w]
      <4>1. crd'[at[v]] = crd[at[v]] /\ pc'[v] = pc[v] /\ todo'[v] = todo[v]
        BY <3>2, <2>1 DEF Visit
      <4>. QED
        BY <4>1, <2>0, OthersStay DEF EmptyAhead
    <3>. QED
      BY <3>1, <3>2
  <2>2. EmptyFor(w)'
    BY <2>0 DEF EmptyAhead, EmptyFor, HasCRD, Visit
  <2>. QED
    BY <2>1, <2>2 DEF EmptyAhead
<1>5. ASSUME NEW w \in Workers, CreateMounts(w) PROVE EmptyAhead'
  <2>0. UNCHANGED <<crd, sts, at, todo>>
    BY <1>5 DEF CreateMounts, request
  <2>1. ASSUME NEW v \in Workers \ {w} PROVE EmptyFor(v)'
    <3>1. pc'[v] = pc[v]
      BY <1>5, <2>1 DEF CreateMounts, Goto
    <3>. QED
      BY <2>0, <3>1, OthersStay DEF EmptyAhead
  <2>2. EmptyFor(w)'
    <3>1. pc[w] = "mounts" /\ pc'[w] \in {"counts", "release"}
      BY <1>5 DEF CreateMounts, Goto
    <3>. QED
      BY <2>0, <3>1 DEF EmptyAhead, EmptyFor
  <2>. QED
    BY <2>1, <2>2 DEF EmptyAhead
<1>6. ASSUME NEW w \in Workers, PublishCounts(w) PROVE EmptyAhead'
  BY <1>6 DEF PublishCounts, Goto, Loop, EmptyAhead, EmptyFor, HasTopology, HasCRD
<1>7. ASSUME NEW w \in Workers, CreateStatefulSet(w) PROVE EmptyAhead'
  <2>. PICK k \in todo[w] :
         \/ /\ sts' = [sts EXCEPT ![at[w]] = sts[at[w]] \cup {k}]
            /\ Visit(w, k)
            /\ pc' = [pc EXCEPT ![w] = IF todo[w] = {k} THEN "wait" ELSE "sts"]
         \/ pc' = [pc EXCEPT ![w] = "release"] /\ UNCHANGED <<sts, todo>>
    BY <1>7 DEF CreateStatefulSet, Goto
  <2>0. pc[w] = "sts" /\ UNCHANGED <<crd, at>>
    BY <1>7 DEF CreateStatefulSet
  <2>1. ASSUME NEW v \in Workers, v # w PROVE EmptyFor(v)'
    <3>1. CASE at[v] = at[w]
      BY <3>1, <2>0, <2>1 DEF OneOperation, Held, EmptyFor, Visit
    <3>2. CASE at[v] # at[w]
      <4>1. sts'[at[v]] = sts[at[v]] /\ pc'[v] = pc[v] /\ todo'[v] = todo[v]
        BY <3>2, <2>1 DEF Visit
      <4>. QED
        BY <4>1, <2>0, OthersStay DEF EmptyAhead
    <3>. QED
      BY <3>1, <3>2
  <2>2. EmptyFor(w)'
    BY <2>0 DEF EmptyAhead, EmptyFor, Visit
  <2>. QED
    BY <2>1, <2>2 DEF EmptyAhead
<1>8. CASE PodUp \/ PodDown \/ DeletedOutside \/ CreatedOutside \/ Startup \/ UNCHANGED vars
  <2>1. UNCHANGED <<crd, sts, pc, at, todo>>
    BY <1>8 DEF PodUp, PodDown, DeletedOutside, CreatedOutside, Startup, cluster, request, vars
  <2>. QED
    BY <2>1 DEF EmptyAhead, EmptyFor, HasTopology, HasCRD
<1>9. CASE NamespaceGone
  <2>1. PICK n \in Namespaces : /\ crd' = [crd EXCEPT ![n] = NoCRDs]
                                /\ sts' = [sts EXCEPT ![n] = {}]
                                /\ UNCHANGED <<pc, at, todo>>
    BY <1>9 DEF NamespaceGone, request
  <2>2. ASSUME NEW v \in Workers PROVE EmptyFor(v)'
    BY <2>1, OthersStay DEF EmptyAhead, NoCRDs
  <2>. QED
    BY <2>2 DEF EmptyAhead
<1>10. CASE Crash
  BY <1>10 DEF Crash, EmptyAhead, EmptyFor
<1>. QED
  BY <1>1, <1>2, <1>3, <1>4, <1>5, <1>6, <1>7, <1>8, <1>9, <1>10
     DEF Next, Arrival, Step, Locked, Unlocked, World, Leaving

\* As long as no namespace is deleted through the API, a deploy never meets an
\* object it did not create: neither a crashed deploy's leftovers, which
\* SyncNamespaceTopologyState sees in the cluster, nor those of a request that
\* runs at the same time, which the operation lock keeps out.
THEOREM DeploysFindNothing ==
  ASSUME "delete" \notin Kinds
  PROVE  Spec => []DeployFindsNothing
<1>. DEFINE Inv == LockInv /\ EmptyAhead
<1>1. Init => Inv
  BY LockInit DEF Init, EmptyAhead, EmptyFor
<1>2. TypeOK /\ Inv /\ [Next]_vars => Inv'
  BY LockNext, EmptyNext DEF LockInv
<1>3. Inv => DeployFindsNothing
  BY DEF EmptyAhead, EmptyFor, DeployFindsNothing
<1>. QED
  BY <1>1, <1>2, <1>3, LifecycleTypes, PTL DEF Spec

-----------------------------------------------------------------------------
(* The refinement of NamespaceOperations.                                  *)

Checking == {"sync", "prepare"}
Building == {"crds", "mounts", "counts", "sts"}
Settling == Held \ (Checking \cup Building)

\* The four stages split the points of a request.
LEMMA StageValues ==
  /\ \A c \in Checking : StageOf(c) = "check"
  /\ \A c \in Building : StageOf(c) = "build"
  /\ \A c \in Settling : StageOf(c) = "settle"
  /\ \A c \in Free : StageOf(c) = "out"
BY DEF StageOf, Checking, Building, Settling, Held, Free

\* A request outside Free is past its lock.
LEMMA OutIsFree ==
  ASSUME NEW c \in Points, StageOf(c) # "out"
  PROVE  c \in Held
BY StageValues DEF Points

\* Moving one request moves one stage.
LEMMA StagesMove ==
  ASSUME TypeOK, NEW w \in Workers, NEW c, pc' = [pc EXCEPT ![w] = c]
  PROVE  Stages' = [Stages EXCEPT ![w] = StageOf(c)]
BY DEF Stages, TypeOK, RequestsOK

\* A move within a stage that leaves the objects alone is a stutter.
LEMMA MoveWithin ==
  ASSUME TypeOK, NEW w \in Workers, NEW c, pc' = [pc EXCEPT ![w] = c],
         StageOf(c) = StageOf(pc[w]), UNCHANGED <<crd, sts, at>>
  PROVE  UNCHANGED Operations!vars
<1>1. Stages' = Stages
  BY StagesMove DEF Stages
<1>2. CRDs' = CRDs
  BY DEF CRDs, HasCRD
<1>. QED
  BY <1>1, <1>2 DEF Operations!vars

\* So is a step that leaves the requests alone too.
LEMMA NoMove ==
  ASSUME UNCHANGED <<pc, crd, sts, at>>
  PROVE  UNCHANGED Operations!vars
BY DEF Operations!vars, Stages, CRDs, HasCRD

\* A move to another stage that leaves the objects alone.
LEMMA MoveOn ==
  ASSUME TypeOK, NEW w \in Workers, NEW c, pc' = [pc EXCEPT ![w] = c],
         UNCHANGED <<crd, sts, at>>
  PROVE  Operations!Enter(w, StageOf(c)) /\ UNCHANGED <<at, CRDs, sts>>
<1>1. CRDs' = CRDs
  BY DEF CRDs, HasCRD
<1>. QED
  BY <1>1, StagesMove DEF Operations!Enter

\* The stage of a request, read off its point.
LEMMA StageAt ==
  ASSUME NEW w \in Workers
  PROVE  Stages[w] = StageOf(pc[w])
BY DEF Stages

\* A CRD comes: CreateCRD with a UID.
LEMMA CRDsGain ==
  ASSUME TypeOK, NEW n \in Namespaces, NEW k \in Nodes, NEW u \in UIDs,
         crd' = [crd EXCEPT ![n][k] = u]
  PROVE  CRDs' = [CRDs EXCEPT ![n] = CRDs[n] \cup {k}]
<1>1. \A m \in Namespaces : HasCRD(m)' = IF m = n THEN HasCRD(n) \cup {k} ELSE HasCRD(m)
  BY UidAssumption DEF HasCRD, TypeOK, ClusterOK
<1>. QED
  BY <1>1 DEF CRDs

\* And goes: DeleteTopology.
LEMMA CRDsLose ==
  ASSUME TypeOK, NEW n \in Namespaces, NEW k \in Nodes,
         crd' = [crd EXCEPT ![n][k] = NoUid]
  PROVE  CRDs' = [CRDs EXCEPT ![n] = CRDs[n] \ {k}]
<1>1. \A m \in Namespaces : HasCRD(m)' = IF m = n THEN HasCRD(n) \ {k} ELSE HasCRD(m)
  BY DEF HasCRD, TypeOK, ClusterOK
<1>. QED
  BY <1>1 DEF CRDs

-----------------------------------------------------------------------------
\* The steps of the requests that take no lock, and of a deploy before it
\* takes it.
FreeStep(w) ==
  \/ PurgeStale(w) \/ SaveOperation(w) \/ CreateCleans(w) \/ DeleteState(w)
  \/ DeleteLock(w) \/ DeleteRegistry(w) \/ DeleteHistory(w) \/ DeleteAttributes(w)
  \/ LookAround(w) \/ SetSeen(w)

\* They stay outside.
LEMMA FreeStepsStutter ==
  ASSUME TypeOK, NEW w \in Workers, FreeStep(w)
  PROVE  UNCHANGED Operations!vars
<1>0. ASSUME NEW c \in Free, pc[w] \in Free, pc' = [pc EXCEPT ![w] = c],
             UNCHANGED <<crd, sts, at>>
      PROVE  UNCHANGED Operations!vars
  BY <1>0, MoveWithin, StageValues
<1>. USE DEF Goto, Free, cluster, request
<1>1. CASE PurgeStale(w)
  <2>1. PICK c \in Free : pc[w] \in Free /\ pc' = [pc EXCEPT ![w] = c]
                               /\ UNCHANGED <<crd, sts, at>>
    BY <1>1 DEF PurgeStale
  <2>. QED
    BY <1>0, <2>1
<1>2. CASE SaveOperation(w)
  <2>1. PICK c \in Free : pc[w] \in Free /\ pc' = [pc EXCEPT ![w] = c]
                               /\ UNCHANGED <<crd, sts, at>>
    BY <1>2 DEF SaveOperation
  <2>. QED
    BY <1>0, <2>1
<1>3. CASE CreateCleans(w)
  <2>1. PICK c \in Free : pc[w] \in Free /\ pc' = [pc EXCEPT ![w] = c]
                               /\ UNCHANGED <<crd, sts, at>>
    BY <1>3 DEF CreateCleans
  <2>. QED
    BY <1>0, <2>1
<1>4. CASE DeleteState(w)
  <2>1. PICK c \in Free : pc[w] \in Free /\ pc' = [pc EXCEPT ![w] = c]
                               /\ UNCHANGED <<crd, sts, at>>
    BY <1>4 DEF DeleteState
  <2>. QED
    BY <1>0, <2>1
<1>5. CASE DeleteLock(w)
  <2>1. PICK c \in Free : pc[w] \in Free /\ pc' = [pc EXCEPT ![w] = c]
                               /\ UNCHANGED <<crd, sts, at>>
    BY <1>5 DEF DeleteLock
  <2>. QED
    BY <1>0, <2>1
<1>6. CASE DeleteRegistry(w)
  <2>1. PICK c \in Free : pc[w] \in Free /\ pc' = [pc EXCEPT ![w] = c]
                               /\ UNCHANGED <<crd, sts, at>>
    BY <1>6 DEF DeleteRegistry
  <2>. QED
    BY <1>0, <2>1
<1>7. CASE DeleteHistory(w)
  <2>1. PICK c \in Free : pc[w] \in Free /\ pc' = [pc EXCEPT ![w] = c]
                               /\ UNCHANGED <<crd, sts, at>>
    BY <1>7 DEF DeleteHistory
  <2>. QED
    BY <1>0, <2>1
<1>8. CASE DeleteAttributes(w)
  <2>1. PICK c \in Free : pc[w] \in Free /\ pc' = [pc EXCEPT ![w] = c]
                               /\ UNCHANGED <<crd, sts, at>>
    BY <1>8 DEF DeleteAttributes
  <2>. QED
    BY <1>0, <2>1
<1>9. CASE LookAround(w)
  <2>1. PICK c \in Free : pc[w] \in Free /\ pc' = [pc EXCEPT ![w] = c]
                               /\ UNCHANGED <<crd, sts, at>>
    BY <1>9 DEF LookAround
  <2>. QED
    BY <1>0, <2>1
<1>10. CASE SetSeen(w)
  <2>1. PICK c \in Free : pc[w] \in Free /\ pc' = [pc EXCEPT ![w] = c]
                               /\ UNCHANGED <<crd, sts, at>>
    BY <1>10 DEF SetSeen
  <2>. QED
    BY <1>0, <2>1
<1>. QED
  BY <1>1, <1>2, <1>3, <1>4, <1>5, <1>6, <1>7, <1>8, <1>9, <1>10 DEF FreeStep

\* The steps of an operation that has nothing left to create, apart from the
\* deletion of StatefulSets and CRDs and the release of the lock.
SettledStep(w) ==
  \/ WaitReady(w) \/ SaveLinkAttributes(w) \/ Verify(w) \/ ApplyLinkAttributes(w)
  \/ SetHasTopology(w) \/ SyncRegistry(w) \/ ListStatefulSets(w) \/ ListTopologies(w)
  \/ WaitDeleted(w) \/ DeleteMount(w) \/ ForgetUIDs(w) \/ Unflag(w)
  \/ Resync(w) \/ DropRegistry(w) \/ DropHistory(w) \/ DropAttributes(w)
  \/ DropCounts(w) \/ Answer(w)

\* They stay in that stage and leave the objects alone.
LEMMA SettledStepsStutter ==
  ASSUME TypeOK, NEW w \in Workers, SettledStep(w)
  PROVE  UNCHANGED Operations!vars
<1>. USE DEF Goto, Settling, Held, Checking, Building, cluster, request
<1>1. CASE WaitReady(w)
  <2>1. PICK c \in Settling : pc[w] \in Settling /\ pc' = [pc EXCEPT ![w] = c]
                               /\ UNCHANGED <<crd, sts, at>>
    BY <1>1 DEF WaitReady
  <2>. QED
    BY <2>1, MoveWithin, StageValues
<1>2. CASE SaveLinkAttributes(w)
  <2>1. PICK c \in Settling : pc[w] \in Settling /\ pc' = [pc EXCEPT ![w] = c]
                               /\ UNCHANGED <<crd, sts, at>>
    BY <1>2 DEF SaveLinkAttributes
  <2>. QED
    BY <2>1, MoveWithin, StageValues
<1>3. CASE Verify(w)
  <2>1. PICK c \in Settling : pc[w] \in Settling /\ pc' = [pc EXCEPT ![w] = c]
                               /\ UNCHANGED <<crd, sts, at>>
    BY <1>3 DEF Verify
  <2>. QED
    BY <2>1, MoveWithin, StageValues
<1>4. CASE ApplyLinkAttributes(w)
  <2>1. PICK c \in Settling : pc[w] \in Settling /\ pc' = [pc EXCEPT ![w] = c]
                               /\ UNCHANGED <<crd, sts, at>>
    BY <1>4 DEF ApplyLinkAttributes
  <2>. QED
    BY <2>1, MoveWithin, StageValues
<1>5. CASE SetHasTopology(w)
  <2>1. PICK c \in Settling : pc[w] \in Settling /\ pc' = [pc EXCEPT ![w] = c]
                               /\ UNCHANGED <<crd, sts, at>>
    BY <1>5 DEF SetHasTopology
  <2>. QED
    BY <2>1, MoveWithin, StageValues
<1>6. CASE SyncRegistry(w)
  <2>1. PICK c \in Settling : pc[w] \in Settling /\ pc' = [pc EXCEPT ![w] = c]
                               /\ UNCHANGED <<crd, sts, at>>
    BY <1>6 DEF SyncRegistry
  <2>. QED
    BY <2>1, MoveWithin, StageValues
<1>7. CASE ListStatefulSets(w)
  <2>1. PICK c \in Settling : pc[w] \in Settling /\ pc' = [pc EXCEPT ![w] = c]
                               /\ UNCHANGED <<crd, sts, at>>
    BY <1>7 DEF ListStatefulSets, ClearFails
  <2>. QED
    BY <2>1, MoveWithin, StageValues
<1>8. CASE ListTopologies(w)
  <2>1. PICK c \in Settling : pc[w] \in Settling /\ pc' = [pc EXCEPT ![w] = c]
                               /\ UNCHANGED <<crd, sts, at>>
    BY <1>8 DEF ListTopologies, ClearFails
  <2>. QED
    BY <2>1, MoveWithin, StageValues
<1>9. CASE WaitDeleted(w)
  <2>1. PICK c \in Settling : pc[w] \in Settling /\ pc' = [pc EXCEPT ![w] = c]
                               /\ UNCHANGED <<crd, sts, at>>
    BY <1>9 DEF WaitDeleted, ClearFails
  <2>. QED
    BY <2>1, MoveWithin, StageValues
<1>10. CASE DeleteMount(w)
  <2>1. PICK c \in Settling : pc[w] \in Settling /\ pc' = [pc EXCEPT ![w] = c]
                               /\ UNCHANGED <<crd, sts, at>>
    BY <1>10 DEF DeleteMount, ClearFails, TypeOK, RequestsOK
  <2>. QED
    BY <2>1, MoveWithin, StageValues
<1>11. CASE ForgetUIDs(w)
  <2>1. PICK c \in Settling : pc[w] \in Settling /\ pc' = [pc EXCEPT ![w] = c]
                               /\ UNCHANGED <<crd, sts, at>>
    BY <1>11 DEF ForgetUIDs, ClearFails
  <2>. QED
    BY <2>1, MoveWithin, StageValues
<1>12. CASE Unflag(w)
  <2>1. PICK c \in Settling : pc[w] \in Settling /\ pc' = [pc EXCEPT ![w] = c]
                               /\ UNCHANGED <<crd, sts, at>>
    BY <1>12 DEF Unflag, ClearFails
  <2>. QED
    BY <2>1, MoveWithin, StageValues
<1>13. CASE Resync(w)
  <2>1. PICK c \in Settling : pc[w] \in Settling /\ pc' = [pc EXCEPT ![w] = c]
                               /\ UNCHANGED <<crd, sts, at>>
    BY <1>13 DEF Resync
  <2>. QED
    BY <2>1, MoveWithin, StageValues
<1>14. CASE DropRegistry(w)
  <2>1. PICK c \in Settling : pc[w] \in Settling /\ pc' = [pc EXCEPT ![w] = c]
                               /\ UNCHANGED <<crd, sts, at>>
    BY <1>14 DEF DropRegistry
  <2>. QED
    BY <2>1, MoveWithin, StageValues
<1>15. CASE DropHistory(w)
  <2>1. PICK c \in Settling : pc[w] \in Settling /\ pc' = [pc EXCEPT ![w] = c]
                               /\ UNCHANGED <<crd, sts, at>>
    BY <1>15 DEF DropHistory
  <2>. QED
    BY <2>1, MoveWithin, StageValues
<1>16. CASE DropAttributes(w)
  <2>1. PICK c \in Settling : pc[w] \in Settling /\ pc' = [pc EXCEPT ![w] = c]
                               /\ UNCHANGED <<crd, sts, at>>
    BY <1>16 DEF DropAttributes
  <2>. QED
    BY <2>1, MoveWithin, StageValues
<1>17. CASE DropCounts(w)
  <2>1. PICK c \in Settling : pc[w] \in Settling /\ pc' = [pc EXCEPT ![w] = c]
                               /\ UNCHANGED <<crd, sts, at>>
    BY <1>17 DEF DropCounts
  <2>. QED
    BY <2>1, MoveWithin, StageValues
<1>18. CASE Answer(w)
  <2>1. PICK c \in Settling : pc[w] \in Settling /\ pc' = [pc EXCEPT ![w] = c]
                               /\ UNCHANGED <<crd, sts, at>>
    BY <1>18 DEF Answer
  <2>. QED
    BY <2>1, MoveWithin, StageValues
<1>. QED
  BY <1>1, <1>2, <1>3, <1>4, <1>5, <1>6, <1>7, <1>8, <1>9, <1>10, <1>11, <1>12, <1>13, <1>14, <1>15, <1>16, <1>17, <1>18 DEF SettledStep

-----------------------------------------------------------------------------
\* A request arrives outside.
LEMMA ArrivalArrives ==
  ASSUME TypeOK, NEW w \in Workers, Arrival(w)
  PROVE  Operations!Arrive(w)
<1>1. PICK n \in Namespaces, c \in Free :
        /\ pc[w] = "idle" /\ pc' = [pc EXCEPT ![w] = c] /\ at' = [at EXCEPT ![w] = n]
        /\ UNCHANGED <<crd, sts>>
  BY DEF Arrival, Deploy, Clear, Configure, CreateNamespace, DeleteNamespace, Summary, Arrive,
         Ready, Goto, Free, cluster
<1>2. StageOf(pc[w]) = "out" /\ StageOf(c) = "out"
  BY <1>1, StageValues DEF Free
<1>3. Stages' = Stages
  BY <1>1, <1>2, StagesMove DEF Stages
<1>4. CRDs' = CRDs
  BY <1>1 DEF CRDs, HasCRD
<1>. QED
  BY <1>1, <1>2, <1>3, <1>4, StageAt DEF Operations!Arrive

\* The row in namespace_operations lets a request in only when no other is in.
LEMMA AcquireBegins ==
  ASSUME TypeOK, LockInv, NEW w \in Workers, Acquire(w)
  PROVE  Operations!Begin(w) \/ UNCHANGED Operations!vars
<1>0. pc[w] = "acquire" /\ UNCHANGED <<crd, sts, at>>
  BY DEF Acquire, cluster, request
<1>1. CASE at[w] \in locks \/ pc' = [pc EXCEPT ![w] = "idle"]
  <2>1. pc' = [pc EXCEPT ![w] = "idle"]
    BY <1>1 DEF Acquire, Goto
  <2>. QED
    BY <1>0, <2>1, MoveWithin, StageValues DEF Free
<1>2. CASE at[w] \notin locks /\ pc' # [pc EXCEPT ![w] = "idle"]
  <2>1. PICK c \in {"sync", "list"} : pc' = [pc EXCEPT ![w] = c]
    BY <1>2 DEF Acquire, Goto
  <2>2. StageOf(c) \in {"check", "settle"}
    BY StageValues DEF Checking, Building, Settling, Held
  <2>3. Operations!Alone(w)
    <3>. SUFFICES ASSUME NEW v \in Workers \ {w}, Stages[v] # "out", at[v] = at[w]
                  PROVE  FALSE
      BY DEF Operations!Alone
    <3>1. pc[v] \in Held
      BY StageAt, OutIsFree DEF TypeOK, RequestsOK, Points
    <3>. QED
      BY <3>1, <1>2 DEF LockInv, RowPresent
  <2>4. Stages[w] = "out"
    BY <1>0, StageAt, StageValues DEF Free
  <2>. QED
    BY <1>0, <2>1, <2>2, <2>3, <2>4, MoveOn DEF Operations!Begin
<1>. QED
  BY <1>1, <1>2

\* The check ends with the answer, or goes on to the building.
LEMMA CheckSteps ==
  ASSUME TypeOK, EmptyAhead, NEW w \in Workers, SyncState(w) \/ PrepareUIDs(w)
  PROVE  Operations!Build(w) \/ Operations!Settle(w) \/ UNCHANGED Operations!vars
<1>1. CASE SyncState(w)
  <2>1. PICK c \in {"prepare", "release"} :
          pc[w] = "sync" /\ pc' = [pc EXCEPT ![w] = c] /\ UNCHANGED <<crd, sts, at>>
    BY <1>1 DEF SyncState, Goto, cluster, request
  <2>2. StageOf(pc[w]) = "check" /\ StageOf("prepare") = "check" /\ StageOf("release") = "settle"
    BY <2>1, StageValues DEF Checking, Building, Settling, Held
  <2>. QED
    BY <2>1, <2>2, MoveWithin, MoveOn, StageAt DEF Operations!Settle
<1>2. CASE PrepareUIDs(w)
  <2>1. PICK c \in {"crds", "release"} :
          pc[w] = "prepare" /\ pc' = [pc EXCEPT ![w] = c] /\ UNCHANGED <<crd, sts, at>>
    BY <1>2 DEF PrepareUIDs, Goto, cluster
  <2>2. /\ StageOf(pc[w]) = "check" /\ StageOf("crds") = "build"
        /\ StageOf("release") = "settle"
    BY <2>1, StageValues DEF Checking, Building, Settling, Held
  <2>3. Operations!Empty(at[w])
    BY <2>1 DEF Operations!Empty, EmptyAhead, EmptyFor, HasTopology, CRDs, TypeOK, RequestsOK
  <2>. QED
    BY <2>1, <2>2, <2>3, MoveOn, StageAt DEF Operations!Settle, Operations!Build
<1>. QED
  BY <1>1, <1>2

\* A deploy that builds creates what is not there, or gives up.
LEMMA BuildSteps ==
  ASSUME TypeOK, NEW w \in Workers,
         CreateCRD(w) \/ CreateMounts(w) \/ PublishCounts(w) \/ CreateStatefulSet(w)
  PROVE  Operations!Create(w) \/ Operations!Settle(w) \/ UNCHANGED Operations!vars
<1>0. /\ \A c \in Building : StageOf(c) = "build"
      /\ StageOf("release") = "settle" /\ StageOf("wait") = "settle"
      /\ at[w] \in Namespaces
  BY StageValues DEF Settling, Held, Checking, Building, TypeOK, RequestsOK
<1>1. CASE CreateCRD(w)
  <2>1. PICK k \in todo[w] :
          \/ /\ crd[at[w]][k] = NoUid /\ crd' = [crd EXCEPT ![at[w]][k] = want[w]]
             /\ pc' = [pc EXCEPT ![w] = IF todo[w] = {k} THEN "mounts" ELSE "crds"]
          \/ pc' = [pc EXCEPT ![w] = "release"] /\ UNCHANGED crd
    BY <1>1 DEF CreateCRD, Goto
  <2>2. pc[w] = "crds" /\ UNCHANGED <<sts, at>> /\ k \in Nodes
    BY <1>1, <2>1 DEF CreateCRD, TypeOK, RequestsOK
  <2>3. Stages[w] = "build"
    BY <1>0, <2>2, StageAt DEF Building
  <2>4. CASE pc' = [pc EXCEPT ![w] = "release"] /\ UNCHANGED crd
    BY <1>0, <2>2, <2>3, <2>4, MoveOn DEF Operations!Settle
  <2>5. CASE /\ crd[at[w]][k] = NoUid /\ crd' = [crd EXCEPT ![at[w]][k] = want[w]]
             /\ pc' = [pc EXCEPT ![w] = IF todo[w] = {k} THEN "mounts" ELSE "crds"]
    <3>1. PICK c \in Building : pc' = [pc EXCEPT ![w] = c]
      BY <2>5 DEF Building
    <3>2. Operations!Enter(w, "build")
      BY <1>0, <3>1, StagesMove DEF Operations!Enter
    <3>3. CASE want[w] = NoUid
      <4>1. crd' = crd
        BY <2>2, <2>5, <3>3, <1>0 DEF TypeOK, ClusterOK
      <4>. QED
        BY <1>0, <2>2, <2>3, <3>1, <4>1, MoveWithin, StageAt
    <3>4. CASE want[w] \in UIDs
      <4>1. CRDs' = [CRDs EXCEPT ![at[w]] = CRDs[at[w]] \cup {k}]
        BY <1>0, <2>2, <2>5, <3>4, CRDsGain
      <4>2. k \notin CRDs[at[w]]
        BY <1>0, <2>5 DEF CRDs, HasCRD
      <4>. QED
        BY <2>2, <2>3, <3>2, <4>1, <4>2 DEF Operations!Create
    <3>. QED
      BY <3>3, <3>4 DEF TypeOK, RequestsOK
  <2>. QED
    BY <2>1, <2>4, <2>5
<1>2. CASE CreateMounts(w) \/ PublishCounts(w)
  <2>1. PICK c \in {"counts", "sts", "release"} :
          pc[w] \in Building /\ pc' = [pc EXCEPT ![w] = c] /\ UNCHANGED <<crd, sts, at>>
    BY <1>2 DEF CreateMounts, PublishCounts, Goto, Building, request
  <2>2. CASE c = "release"
    BY <1>0, <2>1, <2>2, MoveOn, StageAt DEF Operations!Settle
  <2>3. CASE c \in Building
    BY <1>0, <2>1, <2>3, MoveWithin
  <2>. QED
    BY <2>2, <2>3 DEF Building
<1>3. CASE CreateStatefulSet(w)
  <2>1. PICK k \in todo[w] :
          \/ /\ k \notin sts[at[w]] /\ sts' = [sts EXCEPT ![at[w]] = sts[at[w]] \cup {k}]
             /\ pc' = [pc EXCEPT ![w] = IF todo[w] = {k} THEN "wait" ELSE "sts"]
          \/ pc' = [pc EXCEPT ![w] = "release"] /\ UNCHANGED sts
    BY <1>3 DEF CreateStatefulSet, Goto
  <2>2. pc[w] = "sts" /\ UNCHANGED <<crd, at>> /\ k \in Nodes
    BY <1>3, <2>1 DEF CreateStatefulSet, TypeOK, RequestsOK
  <2>3. Stages[w] = "build"
    BY <1>0, <2>2, StageAt DEF Building
  <2>4. CASE pc' = [pc EXCEPT ![w] = "release"] /\ UNCHANGED sts
    BY <1>0, <2>2, <2>3, <2>4, MoveOn DEF Operations!Settle
  <2>5. CASE /\ k \notin sts[at[w]] /\ sts' = [sts EXCEPT ![at[w]] = sts[at[w]] \cup {k}]
             /\ pc' = [pc EXCEPT ![w] = IF todo[w] = {k} THEN "wait" ELSE "sts"]
    <3>1. PICK c \in {"wait", "sts"} : pc' = [pc EXCEPT ![w] = c]
      BY <2>5
    <3>2. Operations!Enter(w, "build") \/ Operations!Enter(w, "settle")
      <4>1. StageOf(c) \in {"build", "settle"}
        BY <1>0, <3>1 DEF Building
      <4>2. Stages' = [Stages EXCEPT ![w] = StageOf(c)]
        BY <3>1, StagesMove
      <4>. QED
        BY <4>1, <4>2 DEF Operations!Enter
    <3>3. CRDs' = CRDs
      BY <2>2 DEF CRDs, HasCRD
    <3>. QED
      BY <2>2, <2>3, <2>5, <3>2, <3>3 DEF Operations!Create
  <2>. QED
    BY <2>1, <2>4, <2>5
<1>. QED
  BY <1>1, <1>2, <1>3

\* A clear or a rollback removes StatefulSets and CRDs one by one.
LEMMA DeleteRemoves ==
  ASSUME TypeOK, NEW w \in Workers, DeleteStatefulSet(w) \/ DeleteTopology(w)
  PROVE  Operations!Remove(w) \/ UNCHANGED Operations!vars
<1>0. pc[w] \in Settling /\ UNCHANGED at /\ at[w] \in Namespaces /\ todo[w] \subseteq Nodes
  BY DEF DeleteStatefulSet, DeleteTopology, Settling, Held, Checking, Building, TypeOK, RequestsOK
<1>1. Stages[w] = "settle"
  BY <1>0, StageAt, StageValues
<1>2. CASE ClearFails(w) /\ UNCHANGED <<crd, sts>>
  <2>0. "resync" \in Settling /\ "release" \in Settling
    BY DEF Settling, Held, Checking, Building
  <2>1. PICK c \in Settling : pc' = [pc EXCEPT ![w] = c]
    BY <1>2, <2>0 DEF ClearFails, Goto
  <2>. QED
    BY <1>0, <1>2, <2>1, MoveWithin, StageValues
<1>3. CASE UNCHANGED <<pc, crd>> /\ \E k \in todo[w] : sts' = [sts EXCEPT ![at[w]] = sts[at[w]] \ {k}]
  <2>1. Stages' = Stages /\ CRDs' = CRDs
    BY <1>3 DEF Stages, CRDs, HasCRD
  <2>. QED
    BY <1>0, <1>1, <1>3, <2>1 DEF Operations!Remove
<1>4. CASE UNCHANGED <<pc, sts>> /\ \E k \in todo[w] : crd' = [crd EXCEPT ![at[w]][k] = NoUid]
  <2>1. PICK k \in todo[w] : crd' = [crd EXCEPT ![at[w]][k] = NoUid]
    BY <1>4
  <2>2. CRDs' = [CRDs EXCEPT ![at[w]] = CRDs[at[w]] \ {k}]
    BY <1>0, <2>1, CRDsLose
  <2>3. Stages' = Stages
    BY <1>4 DEF Stages
  <2>. QED
    BY <1>0, <1>1, <1>4, <2>2, <2>3 DEF Operations!Remove
<1>. QED
  BY <1>2, <1>3, <1>4 DEF DeleteStatefulSet, DeleteTopology

\* The deferred release is the end of the operation.
LEMMA ReleaseEnds ==
  ASSUME TypeOK, NEW w \in Workers, Release(w)
  PROVE  Operations!End(w)
<1>1. pc[w] = "release" /\ pc' = [pc EXCEPT ![w] = "idle"] /\ UNCHANGED <<crd, sts, at>>
  BY DEF Release, Goto, cluster, request
<1>2. StageOf("release") = "settle" /\ StageOf("idle") = "out"
  BY StageValues DEF Settling, Held, Checking, Building, Free
<1>. QED
  BY <1>1, <1>2, MoveOn, StageAt DEF Operations!End

\* The cluster and the backend process.
LEMMA WorldSteps ==
  ASSUME TypeOK, World \/ Crash \/ Startup \/ UNCHANGED vars
  PROVE  \/ Operations!Die \/ \E n \in Namespaces : Operations!Gone(n)
         \/ UNCHANGED Operations!vars
<1>1. CASE PodUp \/ PodDown \/ DeletedOutside \/ CreatedOutside \/ Startup \/ UNCHANGED vars
  <2>1. UNCHANGED <<pc, crd, sts, at>>
    BY <1>1 DEF PodUp, PodDown, DeletedOutside, CreatedOutside, Startup, cluster, request, vars
  <2>. QED
    BY <2>1, NoMove
<1>2. CASE NamespaceGone
  <2>1. PICK n \in Namespaces :
          /\ crd' = [crd EXCEPT ![n] = NoCRDs] /\ sts' = [sts EXCEPT ![n] = {}]
          /\ UNCHANGED <<pc, at>>
    BY <1>2 DEF NamespaceGone, request
  <2>2. CRDs' = [CRDs EXCEPT ![n] = {}]
    <3>1. \A m \in Namespaces : HasCRD(m)' = IF m = n THEN {} ELSE HasCRD(m)
      BY <2>1 DEF HasCRD, NoCRDs, TypeOK, ClusterOK
    <3>. QED
      BY <3>1 DEF CRDs
  <2>3. Stages' = Stages
    BY <2>1 DEF Stages
  <2>. QED
    BY <2>1, <2>2, <2>3 DEF Operations!Gone
<1>3. CASE Crash
  <2>1. pc' = [w \in Workers |-> "idle"] /\ UNCHANGED <<crd, sts, at>>
    BY <1>3 DEF Crash, cluster
  <2>2. StageOf("idle") = "out"
    BY StageValues DEF Free
  <2>3. Stages' = [w \in Workers |-> "out"] /\ CRDs' = CRDs
    BY <2>1, <2>2 DEF Stages, CRDs, HasCRD
  <2>. QED
    BY <2>1, <2>3 DEF Operations!Die
<1>. QED
  BY <1>1, <1>2, <1>3 DEF World

\* Every step of the backend and the cluster is one NamespaceOperations allows.
LEMMA StepImplements ==
  ASSUME TypeOK, LockInv, EmptyAhead, [Next]_vars
  PROVE  [Operations!Next]_(Operations!vars)
<1>1. ASSUME NEW w \in Workers, Arrival(w) \/ Step(w)
      PROVE  [Operations!Next]_(Operations!vars)
  <2>1. CASE Arrival(w)
    BY <2>1, ArrivalArrives DEF Operations!Next
  <2>2. CASE Acquire(w)
    BY <2>2, AcquireBegins DEF Operations!Next
  <2>3. CASE SyncState(w) \/ PrepareUIDs(w)
    BY <2>3, CheckSteps DEF Operations!Next
  <2>4. CASE CreateCRD(w) \/ CreateMounts(w) \/ PublishCounts(w) \/ CreateStatefulSet(w)
    BY <2>4, BuildSteps DEF Operations!Next
  <2>5. CASE DeleteStatefulSet(w) \/ DeleteTopology(w)
    BY <2>5, DeleteRemoves DEF Operations!Next
  <2>6. CASE Release(w)
    BY <2>6, ReleaseEnds DEF Operations!Next
  <2>7. CASE FreeStep(w)
    BY <2>7, FreeStepsStutter
  <2>8. CASE SettledStep(w)
    BY <2>8, SettledStepsStutter
  <2>. QED
    BY <1>1, <2>1, <2>2, <2>3, <2>4, <2>5, <2>6, <2>7, <2>8
       DEF Step, Locked, Unlocked, FreeStep, SettledStep
<1>2. CASE World \/ Crash \/ Startup \/ UNCHANGED vars
  BY <1>2, WorldSteps DEF Operations!Next
<1>. QED
  BY <1>1, <1>2 DEF Next

\* DeployNetwork, ClearTopology and the operation lock implement
\* NamespaceOperations, for any requests, namespaces, faults and restarts, as
\* long as no namespace is deleted through the API: a namespace's CRDs and
\* StatefulSets are created from nothing, and removed, by one operation at a
\* time.
THEOREM LifecycleImplementsOperations ==
  ASSUME "delete" \notin Kinds
  PROVE  Spec => OneBuilder
<1>. DEFINE Inv == TypeOK /\ LockInv /\ EmptyAhead
<1>1. Init => LockInv /\ EmptyAhead
  BY LockInit DEF Init, EmptyAhead, EmptyFor
<1>2. Inv /\ [Next]_vars => (LockInv /\ EmptyAhead)'
  BY LockNext, EmptyNext DEF LockInv
<1>3. Init => Operations!Init
  <2>. SUFFICES ASSUME Init PROVE Operations!Init
    OBVIOUS
  <2>1. Stages = [w \in Workers |-> "out"]
    BY StageValues DEF Init, Stages, Free
  <2>2. CRDs = [n \in Namespaces |-> {}]
    BY DEF Init, CRDs, HasCRD, NoCRDs
  <2>. QED
    BY <2>1, <2>2 DEF Init, Operations!Init
<1>4. Inv /\ [Next]_vars => [Operations!Next]_(Operations!vars)
  BY StepImplements, SMTT(30)
<1>. QED
  BY <1>1, <1>2, <1>3, <1>4, LifecycleTypes, PTL DEF Spec, OneBuilder, Operations!Spec

-----------------------------------------------------------------------------
(* What a clear, a restart of the backend and a new namespace of an old     *)
(* name leave behind.                                                      *)


\* One request at a time: with Serial at most one is under way.
Alone == \A w, v \in Workers : pc[w] # "idle" /\ pc[v] # "idle" => w = v

\* The points of ClearNamespaceTopologyResources, and of its callers after it,
\* by what is done when a request is there.
Unflagged == {"resync", "reregistry", "rehistory", "reattributes", "recounts", "cleared"}
Forgotten == Unflagged \cup {"unflag"}
Emptied   == Forgotten \cup {"delmounts"}
Tail      == Emptied \cup {"delsts", "delcrd"}

\* A request that clears cannot leave objects behind on its way to the answer:
\* a clear stops at its first error, a rollback goes on.
Thorough(w) == op[w] = "clear" \/ ~ Fail("api")
EmptyingFor(w) ==
  Thorough(w) =>
    /\ pc[w] = "delsts" => sts[at[w]] \subseteq todo[w]
    /\ pc[w] = "delcrd" => sts[at[w]] = {} /\ HasCRD(at[w]) \subseteq todo[w]
    /\ pc[w] \in Emptied => ~ HasTopology(at[w])

\* No summary writes a flag while a clear is under way: none comes, or the
\* requests come one at a time.
Apart    == Serial \/ "summary" \notin Kinds
Unlooked == \A w, v \in Workers : pc[w] \in Looking => pc[v] \notin Held

\* Nor rows: those whose statement may fail without ending the clear excepted,
\* and the flag where a summary may set it again.
ForgettingFor(w) ==
  op[w] = "clear" =>
    /\ pc[w] \in Forgotten => registry[at[w]] = {}
    /\ pc[w] \in Unflagged => at[w] \notin flag \/ ~ Apart
    /\ pc[w] \in {"recounts", "cleared"} => at[w] \notin attributes \/ Fail("db")
    /\ pc[w] = "cleared" => at[w] \notin counts \/ Fail("api")

ClearingFor(w) == EmptyingFor(w) /\ ForgettingFor(w)
Clearing       == \A w \in Workers : ClearingFor(w)

-----------------------------------------------------------------------------
(* What a step of a request leaves alone.                                  *)

\* Nothing about namespace n changes.
Elsewhere(n) ==
  /\ nsPhase'[n] = nsPhase[n] /\ born'[n] = born[n] /\ crd'[n] = crd[n] /\ sts'[n] = sts[n]
  /\ pods'[n] = pods[n] /\ (n \in counts' <=> n \in counts) /\ (n \in flag' <=> n \in flag)
  /\ registry'[n] = registry[n] /\ (n \in attributes' <=> n \in attributes)
  /\ history'[n] = history[n] /\ deploys'[n] = deploys[n]

\* Nothing about request v changes.
SameRequest(v) ==
  /\ pc'[v] = pc[v] /\ op'[v] = op[v] /\ at'[v] = at[v] /\ want'[v] = want[v]
  /\ todo'[v] = todo[v] /\ tracked'[v] = tracked[v] /\ ran'[v] = ran[v]

\* Only w and its namespace change.
Frame(w) ==
  /\ \A v \in Workers \ {w} : SameRequest(v)
  /\ \A n \in Namespaces \ {at'[w]} : Elsewhere(n)

\* A step of a request is about that request and its namespace.
LEMMA StepFrame ==
  ASSUME TypeOK, NEW w \in Workers, Step(w)
  PROVE  Frame(w) /\ at' = at /\ op' = op /\ nsPhase' = nsPhase /\ born' = born /\ up' = up
<1>. USE DEF TypeOK, ClusterOK, TablesOK, RequestsOK, Frame, Elsewhere, SameRequest,
             cluster, tables, request
<1>1. CASE SyncState(w)
  BY <1>1 DEF SyncState, Goto
<1>2. CASE PrepareUIDs(w)
  BY <1>2 DEF PrepareUIDs, Goto, Loop
<1>3. CASE CreateCRD(w)
  BY <1>3 DEF CreateCRD, Goto, Visit
<1>4. CASE CreateMounts(w)
  BY <1>4 DEF CreateMounts, Goto
<1>5. CASE PublishCounts(w)
  BY <1>5 DEF PublishCounts, Goto, Loop
<1>6. CASE CreateStatefulSet(w)
  BY <1>6 DEF CreateStatefulSet, Goto, Visit
<1>7. CASE WaitReady(w)
  BY <1>7 DEF WaitReady, Goto
<1>8. CASE SaveLinkAttributes(w)
  BY <1>8 DEF SaveLinkAttributes, Goto
<1>9. CASE Verify(w)
  BY <1>9 DEF Verify, Goto
<1>10. CASE ApplyLinkAttributes(w)
  BY <1>10 DEF ApplyLinkAttributes, Goto
<1>11. CASE SetHasTopology(w)
  BY <1>11 DEF SetHasTopology, Goto
<1>12. CASE SyncRegistry(w)
  BY <1>12 DEF SyncRegistry, Goto
<1>13. CASE ListStatefulSets(w)
  BY <1>13 DEF ListStatefulSets, Goto, ClearFails, Loop
<1>14. CASE DeleteStatefulSet(w)
  BY <1>14 DEF DeleteStatefulSet, Goto, ClearFails, Visit
<1>15. CASE ListTopologies(w)
  BY <1>15 DEF ListTopologies, Goto, ClearFails, Loop
<1>16. CASE DeleteTopology(w)
  BY <1>16 DEF DeleteTopology, Goto, ClearFails, Visit
<1>17. CASE WaitDeleted(w)
  BY <1>17 DEF WaitDeleted, Goto, ClearFails, Loop
<1>18. CASE DeleteMount(w)
  BY <1>18 DEF DeleteMount, Goto, ClearFails, Visit
<1>19. CASE ForgetUIDs(w)
  BY <1>19 DEF ForgetUIDs, Goto, ClearFails
<1>20. CASE Unflag(w)
  BY <1>20 DEF Unflag, Goto, ClearFails
<1>21. CASE Resync(w)
  BY <1>21 DEF Resync, Goto
<1>22. CASE DropRegistry(w)
  BY <1>22 DEF DropRegistry, Goto
<1>23. CASE DropHistory(w)
  BY <1>23 DEF DropHistory, Goto
<1>24. CASE DropAttributes(w)
  BY <1>24 DEF DropAttributes, Goto
<1>25. CASE DropCounts(w)
  BY <1>25 DEF DropCounts, Goto
<1>26. CASE Answer(w)
  BY <1>26 DEF Answer, Goto
<1>27. CASE Acquire(w)
  BY <1>27 DEF Acquire, Goto
<1>28. CASE Release(w)
  BY <1>28 DEF Release, Goto
<1>29. CASE PurgeStale(w)
  BY <1>29 DEF PurgeStale, Goto
<1>30. CASE SaveOperation(w)
  BY <1>30 DEF SaveOperation, Goto
<1>31. CASE CreateCleans(w)
  BY <1>31 DEF CreateCleans, Goto
<1>32. CASE DeleteState(w)
  BY <1>32 DEF DeleteState, Goto
<1>33. CASE DeleteLock(w)
  BY <1>33 DEF DeleteLock, Goto
<1>34. CASE DeleteRegistry(w)
  BY <1>34 DEF DeleteRegistry, Goto
<1>35. CASE DeleteHistory(w)
  BY <1>35 DEF DeleteHistory, Goto
<1>36. CASE DeleteAttributes(w)
  BY <1>36 DEF DeleteAttributes, Goto
<1>37. CASE LookAround(w)
  BY <1>37 DEF LookAround, Goto
<1>38. CASE SetSeen(w)
  BY <1>38 DEF SetSeen, Goto
<1>. QED
  BY <1>1, <1>2, <1>3, <1>4, <1>5, <1>6, <1>7, <1>8, <1>9, <1>10, <1>11,
     <1>12, <1>13, <1>14, <1>15, <1>16, <1>17, <1>18, <1>19, <1>20,
     <1>21, <1>22, <1>23, <1>24, <1>25, <1>26, <1>27, <1>28, <1>29,
     <1>30, <1>31, <1>32, <1>33, <1>34, <1>35, <1>36, <1>37, <1>38
     DEF Step, Locked, Unlocked

\* So is its arrival, which changes at most the phase of that namespace.
LEMMA ArrivalFrame ==
  ASSUME TypeOK, NEW w \in Workers, Arrival(w)
  PROVE  /\ Frame(w) /\ UNCHANGED <<crd, sts, pods, mounts, counts, tables, deploys, up, todo, tracked>>
         /\ pc[w] = "idle" /\ up /\ (Serial => Quiet)
<1>. USE DEF TypeOK, ClusterOK, TablesOK, RequestsOK, Frame, Elsewhere, SameRequest, Ready,
             cluster, tables, request
<1>1. CASE Deploy(w)
  BY <1>1 DEF Deploy, Goto, Arrive
<1>2. CASE Clear(w)
  BY <1>2 DEF Clear, Goto, Arrive
<1>3. CASE Configure(w)
  BY <1>3 DEF Configure, Goto, Arrive
<1>4. CASE CreateNamespace(w)
  BY <1>4 DEF CreateNamespace, Goto, Arrive
<1>5. CASE DeleteNamespace(w)
  BY <1>5 DEF DeleteNamespace, Goto, Arrive
<1>6. CASE Summary(w)
  BY <1>6 DEF Summary, Goto, Arrive
<1>. QED
  BY <1>1, <1>2, <1>3, <1>4, <1>5, <1>6
     DEF Arrival

-----------------------------------------------------------------------------
(* A clear removes what it says.                                           *)

\* Nothing is added to what a clear removes from namespace n.
Shrinks(n) ==
  /\ sts'[n] \subseteq sts[n] /\ \A k \in Nodes : crd[n][k] = NoUid => crd'[n][k] = NoUid
  /\ registry'[n] \subseteq registry[n] /\ (n \in flag' => n \in flag \/ ~ Apart)
  /\ (n \in attributes' => n \in attributes) /\ (n \in counts' => n \in counts)

\* A clear in a namespace that only shrinks.
LEMMA ClearingStays ==
  ASSUME NEW v \in Workers, at[v] \in Namespaces, ClearingFor(v),
         pc'[v] = pc[v], op'[v] = op[v], at'[v] = at[v], todo'[v] = todo[v], Shrinks(at[v])
  PROVE  ClearingFor(v)'
<1>1. HasCRD(at[v])' \subseteq HasCRD(at[v])
  BY DEF HasCRD, Shrinks
<1>2. EmptyingFor(v)'
  BY <1>1 DEF ClearingFor, EmptyingFor, Thorough, Shrinks, HasTopology
<1>3. ForgettingFor(v)'
  BY DEF ClearingFor, ForgettingFor, Shrinks
<1>. QED
  BY <1>2, <1>3 DEF ClearingFor

\* Outside the clear's part a request claims nothing.
LEMMA ClearingOutside ==
  ASSUME NEW v, pc'[v] \notin Tail
  PROVE  ClearingFor(v)'
BY DEF ClearingFor, EmptyingFor, ForgettingFor, Tail, Emptied, Forgotten, Unflagged

\* The other requests: one that clears the same namespace meets only requests
\* that hold no lock, and those add nothing it removes.
LEMMA ClearingOthers ==
  ASSUME TypeOK, OneOperation, Clearing, NEW w \in Workers, Frame(w),
         pc[w] \notin Held => at'[w] \in Namespaces /\ Shrinks(at'[w]),
         pc[w] \in Held => at'[w] = at[w],
         ClearingFor(w)'
  PROVE  Clearing'
<1>1. ASSUME NEW v \in Workers, v # w PROVE ClearingFor(v)'
  <2>. USE <1>1
  <2>1. SameRequest(v) /\ at[v] \in Namespaces
    BY DEF Frame, TypeOK, RequestsOK
  <2>2. CASE pc[v] \notin Tail
    BY <2>1, <2>2, ClearingOutside DEF SameRequest
  <2>3. CASE pc[v] \in Tail /\ at[v] # at'[w]
    <3>1. Elsewhere(at[v])
      BY <2>1, <2>3 DEF Frame
    <3>2. Shrinks(at[v])
      BY <3>1 DEF Elsewhere, Shrinks
    <3>. QED
      BY <2>1, <3>2, ClearingStays DEF SameRequest, Clearing
  <2>4. CASE pc[v] \in Tail /\ at[v] = at'[w]
    <3>1. pc[v] \in Held
      BY <2>4 DEF Held, Tail, Emptied, Forgotten, Unflagged
    <3>2. pc[w] \notin Held
      BY <2>4, <3>1 DEF OneOperation
    <3>. QED
      BY <2>1, <2>4, <3>2, ClearingStays DEF SameRequest, Clearing
  <2>. QED
    BY <2>2, <2>3, <2>4
<1>. QED
  BY <1>1 DEF Clearing

\* The steps of a request that holds no lock add nothing, but for the flag.
LEMMA UnlockedShrinks ==
  ASSUME TypeOK, NEW w \in Workers, Unlocked(w) \/ Acquire(w), Apart => ~ SetSeen(w)
  PROVE  Shrinks(at[w]) /\ pc'[w] \notin Tail
<1>. USE DEF TypeOK, ClusterOK, TablesOK, RequestsOK, Shrinks, cluster, tables, request, Goto,
             Tail, Emptied, Forgotten, Unflagged
<1>1. CASE PurgeStale(w)
  BY <1>1 DEF PurgeStale
<1>2. CASE SaveOperation(w)
  BY <1>2 DEF SaveOperation
<1>3. CASE CreateCleans(w)
  BY <1>3 DEF CreateCleans
<1>4. CASE DeleteState(w)
  BY <1>4 DEF DeleteState
<1>5. CASE DeleteLock(w)
  BY <1>5 DEF DeleteLock
<1>6. CASE DeleteRegistry(w)
  BY <1>6 DEF DeleteRegistry
<1>7. CASE DeleteHistory(w)
  BY <1>7 DEF DeleteHistory
<1>8. CASE DeleteAttributes(w)
  BY <1>8 DEF DeleteAttributes
<1>9. CASE Acquire(w)
  BY <1>9 DEF Acquire
<1>10. CASE LookAround(w)
  BY <1>10 DEF LookAround
<1>11. CASE SetSeen(w)
  BY <1>11 DEF SetSeen
<1>. QED
  BY <1>1, <1>2, <1>3, <1>4, <1>5, <1>6, <1>7, <1>8, <1>9, <1>10, <1>11 DEF Unlocked

\* A deploy's own steps are outside the clear's part.
Deploying(w) ==
  \/ SyncState(w) \/ PrepareUIDs(w) \/ CreateCRD(w) \/ CreateMounts(w) \/ PublishCounts(w)
  \/ CreateStatefulSet(w) \/ WaitReady(w) \/ SaveLinkAttributes(w) \/ Verify(w)
  \/ ApplyLinkAttributes(w) \/ SetHasTopology(w) \/ SyncRegistry(w) \/ Answer(w) \/ Release(w)

\* None of them leads into it.
LEMMA DeployingOutside ==
  ASSUME TypeOK, NEW w \in Workers, Deploying(w)
  PROVE  pc'[w] \notin Tail
BY DEF Deploying, SyncState, PrepareUIDs, CreateCRD, CreateMounts, PublishCounts,
       CreateStatefulSet, WaitReady, SaveLinkAttributes, Verify, ApplyLinkAttributes,
       SetHasTopology, SyncRegistry, Answer, Release, Goto, Tail, Emptied, Forgotten, Unflagged,
       TypeOK, RequestsOK

\* The steps of ClearNamespaceTopologyResources.
LEMMA EmptyingSteps ==
  ASSUME TypeOK, NEW w \in Workers, ClearingFor(w),
         \/ ListStatefulSets(w) \/ DeleteStatefulSet(w) \/ ListTopologies(w)
         \/ DeleteTopology(w) \/ WaitDeleted(w) \/ DeleteMount(w)
  PROVE  ClearingFor(w)'
<1>. DEFINE m == at[w]
<1>0. /\ m \in Namespaces /\ pc \in [Workers -> Held \cup Free] /\ op[w] \in RequestKinds
      /\ todo \in [Workers -> SUBSET Nodes] /\ sts \in [Namespaces -> SUBSET Nodes]
      /\ crd \in [Namespaces -> [Nodes -> UIDs \cup {NoUid}]]
  BY DEF TypeOK, ClusterOK, RequestsOK
<1>1. CASE ListStatefulSets(w)
  BY <1>0, <1>1 DEF ListStatefulSets, Loop, Goto, ClearFails, ClearingFor, EmptyingFor,
     ForgettingFor, Thorough, Emptied, Forgotten, Unflagged, cluster
<1>2. CASE DeleteStatefulSet(w)
  <2>1. CASE \E k \in todo[w] : /\ sts' = [sts EXCEPT ![at[w]] = @ \ {k}]
                                /\ Visit(w, k) /\ UNCHANGED pc
    <3>1. PICK k \in todo[w] : /\ sts' = [sts EXCEPT ![at[w]] = @ \ {k}]
                               /\ Visit(w, k) /\ UNCHANGED pc
      BY <2>1
    <3>2. sts'[m] = sts[m] \ {k} /\ todo'[w] = todo[w] \ {k} /\ at' = at /\ op' = op /\ pc[w] = "delsts"
      BY <1>0, <1>2, <3>1 DEF DeleteStatefulSet, Visit
    <3>. QED
      BY <3>1, <3>2 DEF ClearingFor, EmptyingFor, ForgettingFor, Thorough, Emptied, Forgotten, Unflagged
  <2>2. CASE Fail("api") /\ ClearFails(w) /\ UNCHANGED <<sts, todo>>
    BY <1>0, <1>2, <2>2 DEF DeleteStatefulSet, Goto, ClearFails, ClearingFor, EmptyingFor,
       ForgettingFor, Thorough, Emptied, Forgotten, Unflagged
  <2>. QED
    BY <1>2, <2>1, <2>2 DEF DeleteStatefulSet
<1>3. CASE ListTopologies(w)
  <2>1. pc[w] = "delsts" /\ todo[w] = {} /\ UNCHANGED <<crd, sts, at, op>>
    BY <1>3 DEF ListTopologies, cluster
  <2>2. CASE todo' = [todo EXCEPT ![w] = HasCRD(m)] /\ pc' = [pc EXCEPT ![w] = "delcrd"]
    <3>1. HasCRD(m)' = HasCRD(m) /\ todo'[w] = HasCRD(m) /\ pc'[w] = "delcrd"
      BY <1>0, <2>1, <2>2 DEF HasCRD
    <3>. QED
      BY <1>0, <2>1, <3>1 DEF ClearingFor, EmptyingFor, ForgettingFor, Thorough, Emptied, Forgotten, Unflagged
  <2>3. CASE Fail("api") /\ ClearFails(w)
    BY <1>0, <2>1, <2>3 DEF Goto, ClearFails, ClearingFor, EmptyingFor,
       ForgettingFor, Thorough, Emptied, Forgotten, Unflagged
  <2>. QED
    BY <1>3, <2>2, <2>3 DEF ListTopologies, Loop, Goto
<1>4. CASE DeleteTopology(w)
  <2>1. CASE \E k \in todo[w] : /\ crd' = [crd EXCEPT ![at[w]][k] = NoUid]
                                /\ Visit(w, k) /\ UNCHANGED pc
    <3>1. PICK k \in todo[w] : /\ crd' = [crd EXCEPT ![at[w]][k] = NoUid]
                               /\ Visit(w, k) /\ UNCHANGED pc
      BY <2>1
    <3>2. todo'[w] = todo[w] \ {k} /\ at' = at /\ op' = op /\ sts' = sts /\ pc[w] = "delcrd"
      BY <1>0, <1>4, <3>1 DEF DeleteTopology, Visit
    <3>3. HasCRD(m)' = HasCRD(m) \ {k}
      BY <1>0, <3>1, <3>2 DEF HasCRD
    <3>. QED
      BY <3>1, <3>2, <3>3 DEF ClearingFor, EmptyingFor, ForgettingFor, Thorough, Emptied, Forgotten, Unflagged
  <2>2. CASE Fail("api") /\ ClearFails(w) /\ UNCHANGED <<crd, todo>>
    BY <1>0, <1>4, <2>2 DEF DeleteTopology, Goto, ClearFails, ClearingFor, EmptyingFor,
       ForgettingFor, Thorough, Emptied, Forgotten, Unflagged
  <2>. QED
    BY <1>4, <2>1, <2>2 DEF DeleteTopology
<1>5. CASE WaitDeleted(w)
  <2>1. pc[w] = "delcrd" /\ todo[w] = {} /\ UNCHANGED <<crd, sts, at, op>>
    BY <1>5 DEF WaitDeleted, cluster
  <2>2. Thorough(w) => ~ HasTopology(m)
    BY <2>1 DEF ClearingFor, EmptyingFor, HasTopology
  <2>3. HasTopology(m)' = HasTopology(m) /\ Thorough(w)' = Thorough(w)
    BY <2>1 DEF HasTopology, HasCRD, Thorough
  <2>4. pc'[w] = "delmounts" \/ (pc'[w] = "resync" /\ op[w] # "clear") \/ pc'[w] = "release"
    BY <1>0, <1>5 DEF WaitDeleted, Goto, ClearFails
  <2>. QED
    BY <2>1, <2>2, <2>3, <2>4 DEF ClearingFor, EmptyingFor, ForgettingFor, Emptied, Forgotten, Unflagged
<1>6. CASE DeleteMount(w)
  <2>1. pc[w] = "delmounts" /\ UNCHANGED <<crd, sts, at, op>>
    BY <1>6 DEF DeleteMount
  <2>2. Thorough(w) => ~ HasTopology(m)
    BY <2>1 DEF ClearingFor, EmptyingFor, Emptied
  <2>3. HasTopology(m)' = HasTopology(m) /\ Thorough(w)' = Thorough(w)
    BY <2>1 DEF HasTopology, HasCRD, Thorough
  <2>4. pc'[w] = "delmounts" \/ (pc'[w] = "resync" /\ op[w] # "clear") \/ pc'[w] = "release"
    BY <1>0, <1>6 DEF DeleteMount, Goto, ClearFails
  <2>. QED
    BY <2>1, <2>2, <2>3, <2>4 DEF ClearingFor, EmptyingFor, ForgettingFor, Emptied, Forgotten, Unflagged
<1>. QED
  BY <1>1, <1>2, <1>3, <1>4, <1>5, <1>6

\* The statements after it, each of which keeps what the earlier ones removed.
LEMMA ForgettingSteps ==
  ASSUME TypeOK, NEW w \in Workers, ClearingFor(w),
         \/ ForgetUIDs(w) \/ Unflag(w) \/ Resync(w) \/ DropRegistry(w) \/ DropHistory(w)
         \/ DropAttributes(w) \/ DropCounts(w)
  PROVE  ClearingFor(w)'
<1>0. /\ at[w] \in Namespaces /\ pc \in [Workers -> Held \cup Free] /\ op[w] \in RequestKinds
      /\ registry \in [Namespaces -> SUBSET UIDs]
  BY DEF TypeOK, TablesOK, RequestsOK
<1>1. /\ UNCHANGED <<crd, sts, at, op>>
      /\ pc[w] \in Emptied
      /\ HasTopology(at[w])' = HasTopology(at[w]) /\ Thorough(w)' = Thorough(w)
  BY DEF ForgetUIDs, Unflag, Resync, DropRegistry, DropHistory, DropAttributes, DropCounts,
     cluster, request, Emptied, Forgotten, Unflagged, HasTopology, HasCRD, Thorough
<1>2. EmptyingFor(w)'
  <2>1. pc'[w] \notin {"delsts", "delcrd"}
    BY <1>0 DEF ForgetUIDs, Unflag, Resync, DropRegistry, DropHistory, DropAttributes, DropCounts, Goto, ClearFails
  <2>. QED
    BY <1>1, <2>1 DEF EmptyingFor, ClearingFor
<1>3. ForgettingFor(w)'
  <2>. USE <1>0, <1>1 DEF Goto, ClearFails, ForgettingFor, ClearingFor, Forgotten, Unflagged, request
  <2>1. CASE ForgetUIDs(w)
    BY <2>1 DEF ForgetUIDs
  <2>2. CASE Unflag(w)
    BY <2>2 DEF Unflag
  <2>3. CASE Resync(w)
    <3>1. op[w] = "clear" => ~ HasTopology(at[w])
      BY <2>3 DEF Resync, EmptyingFor, Thorough, Emptied
    <3>. QED
      BY <2>3, <3>1 DEF Resync
  <2>4. CASE DropRegistry(w)
    BY <2>4 DEF DropRegistry
  <2>5. CASE DropHistory(w)
    BY <2>5 DEF DropHistory
  <2>6. CASE DropAttributes(w)
    BY <2>6 DEF DropAttributes, cluster
  <2>7. CASE DropCounts(w)
    BY <2>7, SMTT(30) DEF DropCounts, tables
  <2>. QED
    BY <2>1, <2>2, <2>3, <2>4, <2>5, <2>6, <2>7
<1>. QED
  BY <1>2, <1>3 DEF ClearingFor

\* A request that steps is under way.
LEMMA StepBusy ==
  ASSUME NEW w \in Workers, Step(w)
  PROVE  pc[w] # "idle"
BY DEF Step, Locked, Unlocked, Acquire, SyncState, PrepareUIDs, CreateCRD, CreateMounts,
       PublishCounts, CreateStatefulSet, WaitReady, SaveLinkAttributes, Verify,
       ApplyLinkAttributes, SetHasTopology, SyncRegistry, ListStatefulSets, DeleteStatefulSet,
       ListTopologies, DeleteTopology, WaitDeleted, DeleteMount, ForgetUIDs, Unflag, Resync,
       DropRegistry, DropHistory, DropAttributes, DropCounts, Answer, Release, PurgeStale,
       SaveOperation, CreateCleans, DeleteState, DeleteLock, DeleteRegistry, DeleteHistory,
       DeleteAttributes, LookAround, SetSeen

\* And past its lock unless its step is one of those that need none.
LEMMA StepHolds ==
  ASSUME NEW w \in Workers, Step(w)
  PROVE  \/ pc[w] \in Held
         \/ Unlocked(w) \/ Acquire(w)
BY DEF Step, Locked, SyncState, PrepareUIDs, CreateCRD, CreateMounts,
       PublishCounts, CreateStatefulSet, WaitReady, SaveLinkAttributes, Verify,
       ApplyLinkAttributes, SetHasTopology, SyncRegistry, ListStatefulSets, DeleteStatefulSet,
       ListTopologies, DeleteTopology, WaitDeleted, DeleteMount, ForgetUIDs, Unflag, Resync,
       DropRegistry, DropHistory, DropAttributes, DropCounts, Answer, Release, Held

\* Every step keeps what the clears in progress have done.
LEMMA ClearingNext ==
  ASSUME TypeOK, OneOperation, DownQuiet, Apart => Unlooked, Clearing, [Next]_vars
  PROVE  Clearing'
<1>1. ASSUME NEW w \in Workers, Step(w), Apart => ~ SetSeen(w) PROVE Clearing'
  <2>1. Frame(w) /\ at' = at
    BY <1>1, StepFrame
  <2>2. pc[w] \notin Held => at'[w] \in Namespaces /\ Shrinks(at'[w])
    BY <1>1, <2>1, StepHolds, UnlockedShrinks DEF TypeOK, RequestsOK
  <2>3. ClearingFor(w)'
    <3>1. CASE Unlocked(w) \/ Acquire(w)
      BY <1>1, <3>1, UnlockedShrinks, ClearingOutside
    <3>2. CASE Deploying(w)
      BY <3>2, DeployingOutside, ClearingOutside
    <3>3. CASE \/ ListStatefulSets(w) \/ DeleteStatefulSet(w) \/ ListTopologies(w)
               \/ DeleteTopology(w) \/ WaitDeleted(w) \/ DeleteMount(w)
      BY <3>3, EmptyingSteps DEF Clearing
    <3>4. CASE \/ ForgetUIDs(w) \/ Unflag(w) \/ Resync(w) \/ DropRegistry(w) \/ DropHistory(w)
               \/ DropAttributes(w) \/ DropCounts(w)
      BY <3>4, ForgettingSteps DEF Clearing
    <3>. QED
      BY <1>1, <3>1, <3>2, <3>3, <3>4 DEF Step, Locked, Deploying
  <2>. QED
    BY <2>1, <2>2, <2>3, ClearingOthers
<1>2. ASSUME NEW w \in Workers, Arrival(w) PROVE Clearing'
  <2>1. /\ Frame(w) /\ pc[w] = "idle"
        /\ UNCHANGED <<crd, sts, counts, registry, flag, attributes>>
    BY <1>2, ArrivalFrame DEF tables
  <2>2. at'[w] \in Namespaces /\ pc'[w] \notin Tail
    BY <1>2 DEF Arrival, Deploy, Clear, Configure, CreateNamespace, DeleteNamespace, Summary,
       Arrive, Goto, TypeOK, RequestsOK, Tail, Emptied, Forgotten, Unflagged
  <2>3. Shrinks(at'[w]) /\ pc[w] \notin Held
    BY <2>1 DEF Shrinks, Held
  <2>. QED
    BY <2>1, <2>2, <2>3, ClearingOutside, ClearingOthers
<1>3. CASE World
  <2>1. /\ UNCHANGED <<pc, op, at, todo, registry, flag, attributes>>
        /\ \A n \in Namespaces : Shrinks(n)
    BY <1>3 DEF World, PodUp, PodDown, NamespaceGone, NoCRDs, DeletedOutside, CreatedOutside,
       tables, request, Shrinks, TypeOK, ClusterOK
  <2>. QED
    BY <2>1, ClearingStays DEF Clearing, TypeOK, RequestsOK
<1>4. CASE Crash
  BY <1>4, ClearingOutside DEF Crash, Clearing, Tail, Emptied, Forgotten, Unflagged
<1>5. CASE Startup
  BY <1>5, ClearingOutside DEF Startup, DownQuiet, Quiet, Clearing, Tail, Emptied, Forgotten,
     Unflagged
<1>6. CASE UNCHANGED vars
  <2>1. /\ UNCHANGED <<pc, op, at, todo>> /\ \A n \in Namespaces : Shrinks(n)
    BY <1>6 DEF vars, Shrinks
  <2>. QED
    BY <2>1, ClearingStays DEF Clearing, TypeOK, RequestsOK
<1>7. ASSUME NEW w \in Workers, SetSeen(w), Apart PROVE Clearing'
  <2>1. \A v \in Workers : pc[v] \notin Held
    BY <1>7 DEF SetSeen, Unlooked, Looking
  <2>2. \A v \in Workers : pc'[v] \notin Tail
    BY <1>7, <2>1 DEF SetSeen, Goto, TypeOK, RequestsOK, Held, Tail, Emptied, Forgotten, Unflagged
  <2>. QED
    BY <2>2, ClearingOutside DEF Clearing
<1>. QED
  BY <1>1, <1>2, <1>3, <1>4, <1>5, <1>6, <1>7 DEF Next

\* With one request at a time there is one at a time.
LEMMA AloneNext ==
  ASSUME TypeOK, Serial, Alone, DownQuiet, [Next]_vars
  PROVE  Alone' /\ DownQuiet'
<1>1. ASSUME NEW w \in Workers, Step(w) PROVE Alone' /\ DownQuiet'
  <2>1. /\ pc[w] # "idle" /\ up' = up /\ up /\ \A v \in Workers \ {w} : pc'[v] = pc[v]
    BY <1>1, StepBusy, StepFrame DEF Frame, SameRequest, DownQuiet, Quiet
  <2>2. \A v \in Workers \ {w} : pc'[v] = "idle"
    BY <2>1 DEF Alone
  <2>. QED
    BY <2>1, <2>2 DEF Alone, DownQuiet
<1>2. ASSUME NEW w \in Workers, Arrival(w) PROVE Alone' /\ DownQuiet'
  <2>1. /\ up' = up /\ up /\ \A v \in Workers \ {w} : pc'[v] = pc[v] /\ pc[v] = "idle"
    BY <1>2, ArrivalFrame DEF Frame, SameRequest, Quiet
  <2>. QED
    BY <2>1 DEF Alone, DownQuiet
<1>3. CASE World \/ Startup \/ UNCHANGED vars
  BY <1>3 DEF World, PodUp, PodDown, NamespaceGone, DeletedOutside, CreatedOutside, Startup,
     vars, request, Alone, DownQuiet, Quiet
<1>4. CASE Crash
  BY <1>4 DEF Crash, Alone, DownQuiet, Quiet
<1>. QED
  BY <1>1, <1>2, <1>3, <1>4 DEF Next

\* Being alone, it is the only one in its namespace.
LEMMA AloneIsExclusive ==
  ASSUME Alone
  PROVE  OneOperation /\ Unlooked
BY DEF Alone, OneOperation, Unlooked, Held, Looking

\* Exclusive operations, with what each theorem below assumes of the requests.
LEMMA Exclusive ==
  ASSUME Serial \/ "delete" \notin Kinds
  PROVE  Spec => [](OneOperation /\ DownQuiet /\ (Apart => Unlooked))
<1>1. CASE ~ Serial
  <2>1. Init => LockInv
    BY LockInit
  <2>2. LockInv /\ [Next]_vars => LockInv'
    BY <1>1, LockNext
  <2>3. LockInv => OneOperation /\ DownQuiet /\ (Apart => Unlooked)
    BY <1>1 DEF LockInv, Apart, NoLooking, Unlooked
  <2>. QED
    BY <2>1, <2>2, <2>3, PTL DEF Spec
<1>2. CASE Serial
  <2>1. Init => Alone /\ DownQuiet
    BY DEF Init, Alone, DownQuiet
  <2>2. TypeOK /\ Alone /\ DownQuiet /\ [Next]_vars => Alone' /\ DownQuiet'
    BY <1>2, AloneNext
  <2>3. Alone => OneOperation /\ Unlooked
    BY AloneIsExclusive
  <2>. QED
    BY <2>1, <2>2, <2>3, LifecycleTypes, PTL DEF Spec
<1>. QED
  BY <1>1, <1>2

\* The clears in progress are as far as their program points say.
LEMMA ClearingHolds ==
  ASSUME Serial \/ "delete" \notin Kinds
  PROVE  Spec => []Clearing
<1>1. Init => Clearing
  BY DEF Init, Clearing, ClearingFor, EmptyingFor, ForgettingFor, Emptied, Forgotten, Unflagged
<1>2. TypeOK /\ OneOperation /\ DownQuiet /\ (Apart => Unlooked) /\ Clearing /\ [Next]_vars => Clearing'
  BY ClearingNext
<1>. QED
  BY <1>1, <1>2, LifecycleTypes, Exclusive, PTL DEF Spec

\* When ClearTopology answers 200 the topology is gone, with its link UIDs and
\* attributes, its counts and its flag, for any number of requests at once, and
\* after any crash, when no call or statement fails and, unless the requests
\* come one at a time, no namespace is deleted through the API and none is
\* listed: ListNamespaces and GetNamespaceSummary write the flag without the
\* lock, from what they saw before the clear.
THEOREM ClearedIsGone ==
  ASSUME Serial \/ {"delete", "summary"} \cap Kinds = {}, Faults \cap {"api", "db"} = {}
  PROVE  Spec => []ClearRemovesTopology
<1>1. Clearing => ClearRemovesTopology
  BY DEF Clearing, ClearingFor, EmptyingFor, ForgettingFor, Thorough, ClearRemovesTopology,
     Emptied, Forgotten, Unflagged, Fail, Apart
<1>2. Serial \/ "delete" \notin Kinds
  OBVIOUS
<1>. QED
  BY <1>1, <1>2, ClearingHolds, PTL

\* The part of it that holds whatever fails: ClearNamespaceTopologyResources
\* stops at its first error, so the answer 200 means at least that the objects
\* and the UIDs are gone, and the flag too where no summary may set it again.
\* The errors of the statements that follow it are only logged, so rows of
\* link_attributes and the counts may stay.
ClearRemovesObjects ==
  \A w \in Workers :
    pc[w] = "cleared" /\ op[w] = "clear" =>
      ~ HasTopology(at[w]) /\ (Apart => at[w] \notin flag) /\ registry[at[w]] = {}

\* A clear that answers 200 removed the objects, whatever else failed.
THEOREM ClearedHasNoObjects ==
  ASSUME Serial \/ "delete" \notin Kinds
  PROVE  Spec => []ClearRemovesObjects
<1>1. Clearing => ClearRemovesObjects
  BY DEF Clearing, ClearingFor, EmptyingFor, ForgettingFor, Thorough, ClearRemovesObjects,
     Emptied, Forgotten, Unflagged
<1>. QED
  BY <1>1, ClearingHolds, PTL

-----------------------------------------------------------------------------
(* A request of one that comes at a time finds its namespace as it was     *)
(* when it was admitted.                                                   *)

Active(n) == nsPhase[n] = "active"
Deleting  == {"delstate", "dellock", "delregistry1", "delhistory1", "delregistry2",
              "delhistory2", "delattributes"}

\* The namespace of a deploy or a clear is active, that of a deletion is not.
AdmittedFor(w) ==
  /\ pc[w] \in Held \cup {"purge", "acquire"} => Active(at[w])
  /\ pc[w] \in Deleting => ~ Active(at[w])
Admitted   == \A w \in Workers : AdmittedFor(w)
AbsentBare == \A n \in Namespaces : nsPhase[n] = "absent" =>
                HasCRD(n) = {} /\ sts[n] = {} /\ pods[n] = {}

\* A request goes on with what it was admitted for.
LEMMA StepAdmitted ==
  ASSUME TypeOK, NEW w \in Workers, Step(w), AdmittedFor(w)
  PROVE  AdmittedFor(w)' /\ pods' = pods /\ (pc[w] \notin Held => UNCHANGED <<crd, sts>>)
<1>0. at' = at /\ nsPhase' = nsPhase
  BY StepFrame
<1>. USE <1>0 DEF AdmittedFor, Active, Deleting, Held, cluster, TypeOK, RequestsOK, Goto
<1>1. CASE SyncState(w)
  BY <1>1 DEF SyncState
<1>2. CASE PrepareUIDs(w)
  BY <1>2 DEF PrepareUIDs
<1>3. CASE CreateCRD(w)
  BY <1>3 DEF CreateCRD
<1>4. CASE CreateMounts(w)
  BY <1>4 DEF CreateMounts
<1>5. CASE PublishCounts(w)
  BY <1>5 DEF PublishCounts
<1>6. CASE CreateStatefulSet(w)
  BY <1>6 DEF CreateStatefulSet
<1>7. CASE WaitReady(w)
  BY <1>7 DEF WaitReady
<1>8. CASE SaveLinkAttributes(w)
  BY <1>8 DEF SaveLinkAttributes
<1>9. CASE Verify(w)
  BY <1>9 DEF Verify
<1>10. CASE ApplyLinkAttributes(w)
  BY <1>10 DEF ApplyLinkAttributes
<1>11. CASE SetHasTopology(w)
  BY <1>11 DEF SetHasTopology
<1>12. CASE SyncRegistry(w)
  BY <1>12 DEF SyncRegistry
<1>13. CASE ListStatefulSets(w)
  BY <1>13 DEF ListStatefulSets, ClearFails
<1>14. CASE DeleteStatefulSet(w)
  BY <1>14 DEF DeleteStatefulSet, ClearFails
<1>15. CASE ListTopologies(w)
  BY <1>15 DEF ListTopologies, ClearFails
<1>16. CASE DeleteTopology(w)
  BY <1>16 DEF DeleteTopology, ClearFails
<1>17. CASE WaitDeleted(w)
  BY <1>17 DEF WaitDeleted, ClearFails
<1>18. CASE DeleteMount(w)
  BY <1>18 DEF DeleteMount, ClearFails
<1>19. CASE ForgetUIDs(w)
  BY <1>19 DEF ForgetUIDs, ClearFails
<1>20. CASE Unflag(w)
  BY <1>20 DEF Unflag, ClearFails
<1>21. CASE Resync(w)
  BY <1>21 DEF Resync
<1>22. CASE DropRegistry(w)
  BY <1>22 DEF DropRegistry
<1>23. CASE DropHistory(w)
  BY <1>23 DEF DropHistory
<1>24. CASE DropAttributes(w)
  BY <1>24 DEF DropAttributes
<1>25. CASE DropCounts(w)
  BY <1>25 DEF DropCounts
<1>26. CASE Answer(w)
  BY <1>26 DEF Answer
<1>27. CASE Acquire(w)
  BY <1>27 DEF Acquire
<1>28. CASE Release(w)
  BY <1>28 DEF Release
<1>29. CASE PurgeStale(w)
  BY <1>29 DEF PurgeStale
<1>30. CASE SaveOperation(w)
  BY <1>30 DEF SaveOperation
<1>31. CASE CreateCleans(w)
  BY <1>31 DEF CreateCleans
<1>32. CASE DeleteState(w)
  BY <1>32 DEF DeleteState
<1>33. CASE DeleteLock(w)
  BY <1>33 DEF DeleteLock
<1>34. CASE DeleteRegistry(w)
  BY <1>34 DEF DeleteRegistry
<1>35. CASE DeleteHistory(w)
  BY <1>35 DEF DeleteHistory
<1>36. CASE DeleteAttributes(w)
  BY <1>36 DEF DeleteAttributes
<1>37. CASE LookAround(w)
  BY <1>37 DEF LookAround
<1>38. CASE SetSeen(w)
  BY <1>38 DEF SetSeen
<1>. QED
  BY <1>1, <1>2, <1>3, <1>4, <1>5, <1>6, <1>7, <1>8, <1>9, <1>10, <1>11,
     <1>12, <1>13, <1>14, <1>15, <1>16, <1>17, <1>18, <1>19, <1>20,
     <1>21, <1>22, <1>23, <1>24, <1>25, <1>26, <1>27, <1>28, <1>29,
     <1>30, <1>31, <1>32, <1>33, <1>34, <1>35, <1>36, <1>37, <1>38
     DEF Step, Locked, Unlocked

\* Every step keeps the namespaces as the requests were admitted for them.
LEMMA AdmittedNext ==
  ASSUME TypeOK, Serial, Alone, DownQuiet, Admitted, AbsentBare, [Next]_vars
  PROVE  Admitted' /\ AbsentBare'
<1>1. ASSUME NEW w \in Workers, Step(w) PROVE Admitted' /\ AbsentBare'
  <2>1. Frame(w) /\ at' = at /\ nsPhase' = nsPhase /\ pc[w] # "idle"
    BY <1>1, StepFrame, StepBusy
  <2>2. AdmittedFor(w)' /\ pods' = pods /\ (pc[w] \notin Held => UNCHANGED <<crd, sts>>)
    BY <1>1, StepAdmitted DEF Admitted
  <2>3. ASSUME NEW v \in Workers, v # w PROVE AdmittedFor(v)'
    BY <2>1, <2>3 DEF Alone, AdmittedFor, Frame, SameRequest, Held, Deleting
  <2>4. ASSUME NEW n \in Namespaces, nsPhase[n] = "absent"
        PROVE  crd'[n] = crd[n] /\ sts'[n] = sts[n]
    BY <2>1, <2>2, <2>4 DEF Admitted, AdmittedFor, Active, Frame, Elsewhere
  <2>. QED
    BY <2>1, <2>2, <2>3, <2>4 DEF Admitted, AbsentBare, HasCRD
<1>2. ASSUME NEW w \in Workers, Arrival(w) PROVE Admitted' /\ AbsentBare'
  <2>1. /\ Frame(w) /\ UNCHANGED <<crd, sts, pods>> /\ \A v \in Workers : pc[v] = "idle"
    BY <1>2, ArrivalFrame DEF Quiet
  <2>2. AdmittedFor(w)'
    BY <1>2 DEF Arrival, Deploy, Clear, Configure, CreateNamespace, DeleteNamespace, Summary, Arrive, Goto,
       AdmittedFor, Active, Held, Deleting, TypeOK, RequestsOK, ClusterOK, cluster
  <2>3. ASSUME NEW v \in Workers, v # w PROVE AdmittedFor(v)'
    BY <2>1, <2>3 DEF AdmittedFor, Frame, SameRequest, Held, Deleting
  <2>4. \A n \in Namespaces : nsPhase'[n] = "absent" => nsPhase[n] = "absent"
    BY <1>2 DEF Arrival, Deploy, Clear, Configure, CreateNamespace, DeleteNamespace, Summary, TypeOK,
       ClusterOK, cluster
  <2>. QED
    BY <2>1, <2>2, <2>3, <2>4 DEF Admitted, AbsentBare, HasCRD
<1>3. CASE PodUp \/ PodDown
  <2>1. UNCHANGED <<nsPhase, crd, sts, pc, at>>
    BY <1>3 DEF PodUp, PodDown, request
  <2>2. \A n \in Namespaces : nsPhase[n] = "absent" => pods'[n] = {}
    BY <1>3 DEF PodUp, PodDown, AbsentBare, TypeOK, ClusterOK
  <2>. QED
    BY <2>1, <2>2 DEF Admitted, AdmittedFor, Active, AbsentBare, HasCRD
<1>4. CASE NamespaceGone
  <2>1. PICK n \in Namespaces :
          /\ nsPhase[n] = "terminating" /\ nsPhase' = [nsPhase EXCEPT ![n] = "absent"]
          /\ crd' = [crd EXCEPT ![n] = NoCRDs]
          /\ sts' = [sts EXCEPT ![n] = {}] /\ pods' = [pods EXCEPT ![n] = {}]
          /\ UNCHANGED <<pc, at>>
    BY <1>4 DEF NamespaceGone, request
  <2>2. Admitted'
    BY <2>1 DEF Admitted, AdmittedFor, Active, TypeOK, ClusterOK, RequestsOK
  <2>3. AbsentBare'
    BY <2>1 DEF AbsentBare, HasCRD, NoCRDs, TypeOK, ClusterOK
  <2>. QED
    BY <2>2, <2>3
<1>5. CASE DeletedOutside \/ CreatedOutside
  <2>1. UNCHANGED <<crd, sts, pods, pc, at>> /\ Quiet
    BY <1>5 DEF DeletedOutside, CreatedOutside, request
  <2>2. \A n \in Namespaces : nsPhase'[n] = "absent" => nsPhase[n] = "absent"
    BY <1>5 DEF DeletedOutside, CreatedOutside, TypeOK, ClusterOK
  <2>. QED
    BY <2>1, <2>2 DEF Admitted, AdmittedFor, AbsentBare, HasCRD, Quiet, Held, Deleting
<1>6. CASE Crash \/ Startup
  <2>1. UNCHANGED <<crd, sts, pods, at, nsPhase>> /\ \A w \in Workers : pc'[w] = "idle"
    BY <1>6 DEF Crash, Startup, DownQuiet, Quiet, cluster, request
  <2>. QED
    BY <2>1 DEF Admitted, AdmittedFor, AbsentBare, HasCRD, Held, Deleting
<1>7. CASE UNCHANGED vars
  BY <1>7 DEF vars, Admitted, AdmittedFor, Active, AbsentBare, HasCRD
<1>. QED
  BY <1>1, <1>2, <1>3, <1>4, <1>5, <1>6, <1>7 DEF Next, World

\* What every request can count on when they come one at a time.
SerialInv == Alone /\ DownQuiet /\ EmptyAhead /\ Clearing /\ Admitted /\ AbsentBare

\* It holds in every behaviour with one request at a time.
LEMMA SerialHolds ==
  ASSUME Serial
  PROVE  Spec => []SerialInv
<1>1. Init => SerialInv
  BY DEF Init, SerialInv, Alone, DownQuiet, Clearing, ClearingFor, EmptyingFor, ForgettingFor,
     Emptied, Forgotten, Unflagged, EmptyAhead, EmptyFor, Admitted, AdmittedFor, Held, Deleting,
     AbsentBare
<1>2. TypeOK /\ SerialInv /\ [Next]_vars => SerialInv'
  BY AloneNext, AloneIsExclusive, EmptyNext, ClearingNext, AdmittedNext DEF SerialInv
<1>. QED
  BY <1>1, <1>2, LifecycleTypes, PTL DEF Spec

-----------------------------------------------------------------------------
(* The registry of link UIDs, for requests that come one at a time.        *)

\* Where the CRDs of a namespace may carry a UID the registry lacks: from the
\* first CRD to SyncNamespaceLinkUIDRegistry, or to the last CRD's removal.
Pending == {"crds", "mounts", "counts", "sts", "wait", "attributes", "verify", "shape",
            "flag", "registry", "list", "delsts", "delcrd"}

\* While the backend runs, the registry has every UID in use but those of the
\* operation in progress, and the UID that one chose is on no other link.
Covered(n)   == \/ Linked(n) \subseteq registry[n]
                \/ \E w \in Workers : at[w] = n /\ pc[w] \in Pending
Registered   == up => \A n \in Namespaces : Active(n) => Covered(n)
ChosenFor(w) == pc[w] = "crds" =>
                  \A m \in Namespaces : Active(m) /\ m # at[w] => want[w] \notin Linked(m)
UIDInv       == Registered /\ (\A w \in Workers : ChosenFor(w)) /\ UIDsUnique

\* What a step must keep for the one request under way and its namespace.
LEMMA UIDStep ==
  ASSUME TypeOK, Alone, UIDInv, NEW w \in Workers, Frame(w), at' = at, nsPhase' = nsPhase,
         pc[w] # "idle", up, up' = up,
         Active(at[w]) => Linked(at[w])' \subseteq registry'[at[w]] \/ pc'[w] \in Pending,
         pc'[w] = "crds" => \A m \in Namespaces : Active(m) /\ m # at[w] => want'[w] \notin Linked(m),
         Linked(at[w])' \subseteq Linked(at[w]) \/
           (pc[w] = "crds" /\ Linked(at[w])' \subseteq Linked(at[w]) \cup {want[w]})
  PROVE  UIDInv'
<1>1. ASSUME NEW n \in Namespaces, n # at[w]
      PROVE  /\ Linked(n)' = Linked(n) /\ registry'[n] = registry[n]
             /\ Active(n)' = Active(n)
             /\ Active(n) => Linked(n) \subseteq registry[n]
  <2>1. crd'[n] = crd[n] /\ registry'[n] = registry[n]
    BY <1>1 DEF Frame, Elsewhere
  <2>2. ASSUME Active(n) PROVE Linked(n) \subseteq registry[n]
    <3>1. Covered(n)
      BY <2>2 DEF UIDInv, Registered
    <3>2. \A v \in Workers : at[v] = n => pc[v] = "idle"
      BY <1>1 DEF Alone
    <3>. QED
      BY <3>1, <3>2 DEF Covered, Pending
  <2>. QED
    BY <2>1, <2>2 DEF Linked, HasCRD, Active
<1>2. at[w] \in Namespaces /\ (Active(at[w])' = Active(at[w]))
  BY DEF TypeOK, RequestsOK, Active
<1>3. Registered'
  <2>1. ASSUME NEW n \in Namespaces, Active(n)' PROVE Covered(n)'
    <3>1. CASE n = at[w]
      BY <1>2, <2>1, <3>1 DEF Covered
    <3>2. CASE n # at[w]
      BY <1>1, <2>1, <3>2 DEF Covered
    <3>. QED
      BY <3>1, <3>2
  <2>. QED
    BY <2>1 DEF Registered
<1>4. ASSUME NEW v \in Workers PROVE ChosenFor(v)'
  <2>1. CASE v = w
    BY <1>1, <2>1 DEF ChosenFor, Active
  <2>2. CASE v # w
    BY <2>2 DEF Alone, ChosenFor, Frame, SameRequest
  <2>. QED
    BY <2>1, <2>2
<1>5. UIDsUnique'
  <2>1. ASSUME NEW n \in Namespaces, NEW m \in Namespaces, n # m, Active(n), Active(m)
        PROVE  Linked(n)' \cap Linked(m)' = {}
    <3>0. Linked(n) \cap Linked(m) = {}
      BY <2>1 DEF UIDInv, UIDsUnique, Active
    <3>1. CASE n # at[w] /\ m # at[w]
      BY <1>1, <3>0, <3>1
    <3>2. CASE n = at[w]
      <4>1. Linked(m)' = Linked(m)
        BY <1>1, <2>1, <3>2
      <4>2. pc[w] = "crds" => want[w] \notin Linked(m)
        BY <2>1, <3>2 DEF UIDInv, ChosenFor
      <4>. QED
        BY <3>0, <3>2, <4>1, <4>2
    <3>3. CASE m = at[w]
      <4>1. Linked(n)' = Linked(n)
        BY <1>1, <2>1, <3>3
      <4>2. pc[w] = "crds" => want[w] \notin Linked(n)
        BY <2>1, <3>3 DEF UIDInv, ChosenFor
      <4>. QED
        BY <3>0, <3>3, <4>1, <4>2
    <3>. QED
      BY <3>1, <3>2, <3>3
  <2>. QED
    BY <2>1 DEF UIDsUnique, Active
<1>. QED
  BY <1>3, <1>4, <1>5 DEF UIDInv

\* The request under way alone may keep its namespace from being covered.
LEMMA CoveredByOne ==
  ASSUME TypeOK, Alone, UIDInv, up, NEW w \in Workers, pc[w] # "idle", pc[w] \notin Pending,
         NEW n \in Namespaces, Active(n)
  PROVE  Linked(n) \subseteq registry[n]
<1>1. Covered(n)
  BY DEF UIDInv, Registered
<1>2. \A v \in Workers : pc[v] \notin Pending
  BY DEF Alone, Pending
<1>. QED
  BY <1>1, <1>2 DEF Covered

\* The steps that write neither CRDs nor registry and do not end a deploy.
Aside(w) ==
  \/ Acquire(w) \/ Release(w) \/ PurgeStale(w) \/ SyncState(w) \/ CreateMounts(w)
  \/ PublishCounts(w) \/ CreateStatefulSet(w) \/ WaitReady(w) \/ SaveLinkAttributes(w)
  \/ Verify(w) \/ ApplyLinkAttributes(w) \/ SetHasTopology(w) \/ ListStatefulSets(w)
  \/ DeleteStatefulSet(w) \/ ListTopologies(w) \/ DeleteMount(w) \/ Unflag(w) \/ Resync(w)
  \/ DropHistory(w) \/ DropAttributes(w) \/ DropCounts(w) \/ Answer(w) \/ SaveOperation(w)
  \/ CreateCleans(w) \/ DeleteState(w) \/ DeleteLock(w) \/ DeleteHistory(w) \/ DeleteAttributes(w)
  \/ LookAround(w) \/ SetSeen(w)

\* With no call failing, a request leaves the pending part only where it has
\* written the registry or removed the CRDs.
LEMMA AsideStays ==
  ASSUME TypeOK, SerialInv, Faults \cap {"api", "db"} = {}, NEW w \in Workers, Aside(w)
  PROVE  /\ UNCHANGED <<crd, registry>> /\ pc'[w] # "crds"
         /\ pc[w] \in Pending => pc'[w] \in Pending
<1>0. /\ pc \in [Workers -> Held \cup Free] /\ ~ Fail("api") /\ ~ Fail("db")
      /\ pc[w] \in Held => Active(at[w])
      /\ pc[w] = "sts" => sts[at[w]] \cap todo[w] = {}
  BY DEF TypeOK, RequestsOK, Fail, SerialInv, Admitted, AdmittedFor, EmptyAhead, EmptyFor
<1>. USE <1>0 DEF Goto, Pending, cluster, tables, request, ClearFails, Held, Active
<1>1. CASE Acquire(w)
  BY <1>1 DEF Acquire
<1>2. CASE Release(w)
  BY <1>2 DEF Release
<1>3. CASE PurgeStale(w)
  BY <1>3 DEF PurgeStale
<1>4. CASE SyncState(w)
  BY <1>4 DEF SyncState
<1>5. CASE CreateMounts(w)
  BY <1>5 DEF CreateMounts
<1>6. CASE PublishCounts(w)
  BY <1>6 DEF PublishCounts
<1>7. CASE CreateStatefulSet(w)
  BY <1>7 DEF CreateStatefulSet
<1>8. CASE WaitReady(w)
  BY <1>8 DEF WaitReady
<1>9. CASE SaveLinkAttributes(w)
  BY <1>9 DEF SaveLinkAttributes
<1>10. CASE Verify(w)
  BY <1>10 DEF Verify
<1>11. CASE ApplyLinkAttributes(w)
  BY <1>11 DEF ApplyLinkAttributes
<1>12. CASE SetHasTopology(w)
  BY <1>12 DEF SetHasTopology
<1>13. CASE ListStatefulSets(w)
  BY <1>13 DEF ListStatefulSets
<1>14. CASE DeleteStatefulSet(w)
  BY <1>14 DEF DeleteStatefulSet
<1>15. CASE ListTopologies(w)
  BY <1>15 DEF ListTopologies
<1>16. CASE DeleteMount(w)
  BY <1>16 DEF DeleteMount
<1>17. CASE Unflag(w)
  BY <1>17 DEF Unflag
<1>18. CASE Resync(w)
  BY <1>18 DEF Resync
<1>19. CASE DropHistory(w)
  BY <1>19 DEF DropHistory
<1>20. CASE DropAttributes(w)
  BY <1>20 DEF DropAttributes
<1>21. CASE DropCounts(w)
  BY <1>21 DEF DropCounts
<1>22. CASE Answer(w)
  BY <1>22 DEF Answer
<1>23. CASE SaveOperation(w)
  BY <1>23 DEF SaveOperation
<1>24. CASE CreateCleans(w)
  BY <1>24 DEF CreateCleans
<1>25. CASE DeleteState(w)
  BY <1>25 DEF DeleteState
<1>26. CASE DeleteLock(w)
  BY <1>26 DEF DeleteLock
<1>27. CASE DeleteHistory(w)
  BY <1>27 DEF DeleteHistory
<1>28. CASE DeleteAttributes(w)
  BY <1>28 DEF DeleteAttributes
<1>29. CASE LookAround(w)
  BY <1>29 DEF LookAround
<1>30. CASE SetSeen(w)
  BY <1>30 DEF SetSeen
<1>. QED
  BY <1>1, <1>2, <1>3, <1>4, <1>5, <1>6, <1>7, <1>8, <1>9, <1>10, <1>11,
     <1>12, <1>13, <1>14, <1>15, <1>16, <1>17, <1>18, <1>19, <1>20,
     <1>21, <1>22, <1>23, <1>24, <1>25, <1>26, <1>27, <1>28, <1>29, <1>30
     DEF Aside

\* Every step keeps the registry's account of the UIDs.
LEMMA UIDNext ==
  ASSUME TypeOK, Serial, SerialInv, Faults \cap {"api", "db"} = {}, UIDInv, [Next]_vars
  PROVE  UIDInv'
<1>0. ~ Fail("api") /\ ~ Fail("db")
  BY DEF Fail
<1>1. ASSUME NEW w \in Workers, Step(w) PROVE UIDInv'
  <2>. DEFINE m == at[w]
  <2>0. /\ Frame(w) /\ at' = at /\ nsPhase' = nsPhase /\ pc[w] # "idle" /\ up /\ up' = up
        /\ Alone /\ m \in Namespaces
        /\ pc \in [Workers -> Held \cup Free] /\ crd \in [Namespaces -> [Nodes -> UIDs \cup {NoUid}]]
        /\ registry \in [Namespaces -> SUBSET UIDs]
    BY <1>1, StepFrame, StepBusy DEF SerialInv, DownQuiet, Quiet, TypeOK, ClusterOK, TablesOK, RequestsOK
  <2>1. CASE Aside(w)
    <3>1. /\ UNCHANGED <<crd, registry>> /\ pc'[w] # "crds"
          /\ pc[w] \in Pending => pc'[w] \in Pending
      BY <2>1, AsideStays
    <3>2. Linked(m)' = Linked(m)
      BY <2>0, <3>1 DEF Linked, HasCRD
    <3>3. Active(m) => Linked(m)' \subseteq registry'[m] \/ pc'[w] \in Pending
      BY <2>0, <3>1, <3>2, CoveredByOne
    <3>. QED
      BY <2>0, <3>1, <3>2, <3>3, UIDStep
  <2>2. CASE PrepareUIDs(w)
    <3>1. pc[w] = "prepare" /\ UNCHANGED <<crd, registry>>
      BY <2>2 DEF PrepareUIDs, cluster, tables
    <3>2. Linked(m)' = Linked(m)
      BY <2>0, <3>1 DEF Linked, HasCRD
    <3>3. \A n \in Namespaces : Active(n) => Linked(n) \subseteq registry[n]
      BY <2>0, <3>1, CoveredByOne DEF Pending
    <3>4. pc'[w] = "crds" => want'[w] \notin Used
      BY <2>0, <2>2 DEF PrepareUIDs, Goto, TypeOK, RequestsOK
    <3>5. pc'[w] = "crds" =>
            \A n \in Namespaces : Active(n) /\ n # at[w] => want'[w] \notin Linked(n)
      BY <3>3, <3>4 DEF Used
    <3>. QED
      BY <2>0, <3>1, <3>2, <3>3, <3>5, UIDStep
  <2>3. CASE CreateCRD(w)
    <3>0. pc[w] = "crds" /\ Active(m) /\ HasCRD(m) \cap todo[w] = {} /\ want' = want /\ todo[w] \subseteq Nodes
      BY <2>3 DEF CreateCRD, SerialInv, Admitted, AdmittedFor, Held, EmptyAhead, EmptyFor, TypeOK, RequestsOK
    <3>1. PICK k \in todo[w] :
            /\ crd' = [crd EXCEPT ![m][k] = want[w]]
            /\ pc'[w] \in {"mounts", "crds"}
      BY <1>0, <2>0, <2>3, <3>0 DEF CreateCRD, Goto, HasCRD, Active
    <3>2. k \in Nodes /\ crd'[m] = [crd[m] EXCEPT ![k] = want[w]]
      BY <2>0, <3>0, <3>1
    <3>3. Linked(m)' \subseteq Linked(m) \cup {want[w]}
      BY <2>0, <3>2 DEF Linked, HasCRD
    <3>4. \A n \in Namespaces : Active(n) /\ n # m => want'[w] \notin Linked(n)
      BY <3>0 DEF UIDInv, ChosenFor
    <3>5. pc'[w] \in Pending
      BY <3>1 DEF Pending
    <3>. QED
      BY <2>0, <3>0, <3>3, <3>4, <3>5, UIDStep
  <2>4. CASE SyncRegistry(w)
    <3>1. UNCHANGED crd /\ registry' = [registry EXCEPT ![m] = Linked(m)] /\ pc'[w] = "release"
      BY <1>0, <2>0, <2>4 DEF SyncRegistry, cluster, Goto
    <3>2. Linked(m)' = Linked(m) /\ registry'[m] = Linked(m)
      BY <2>0, <3>1 DEF Linked, HasCRD
    <3>. QED
      BY <2>0, <3>1, <3>2, UIDStep
  <2>5. CASE DeleteTopology(w)
    <3>1. PICK k \in todo[w] : crd' = [crd EXCEPT ![m][k] = NoUid] /\ pc' = pc /\ pc[w] = "delcrd"
      BY <1>0, <2>5 DEF DeleteTopology
    <3>2. k \in Nodes /\ crd'[m] = [crd[m] EXCEPT ![k] = NoUid]
      BY <2>0, <3>1 DEF TypeOK, RequestsOK
    <3>3. Linked(m)' \subseteq Linked(m)
      BY <2>0, <3>2 DEF Linked, HasCRD
    <3>4. pc'[w] \in Pending /\ pc'[w] # "crds"
      BY <3>1 DEF Pending
    <3>. QED
      BY <2>0, <3>3, <3>4, UIDStep
  <2>6. CASE WaitDeleted(w) \/ ForgetUIDs(w) \/ DropRegistry(w)
    <3>1. UNCHANGED crd /\ pc'[w] # "crds"
      BY <2>0, <2>6 DEF WaitDeleted, ForgetUIDs, DropRegistry, cluster, Goto, ClearFails
    <3>2. HasCRD(m) = {}
      BY <1>0, <2>6 DEF WaitDeleted, ForgetUIDs, DropRegistry, SerialInv, Clearing, ClearingFor,
         EmptyingFor, Thorough, HasTopology, Emptied, Forgotten, Unflagged
    <3>3. Linked(m)' = Linked(m) /\ Linked(m) = {}
      BY <2>0, <3>1, <3>2 DEF Linked, HasCRD
    <3>. QED
      BY <2>0, <3>1, <3>3, UIDStep
  <2>7. CASE DeleteRegistry(w)
    <3>1. UNCHANGED crd /\ pc'[w] # "crds" /\ pc[w] \in Deleting
      BY <2>0, <2>7 DEF DeleteRegistry, cluster, Goto, Deleting
    <3>2. Linked(m)' = Linked(m) /\ ~ Active(m)
      BY <2>0, <3>1 DEF Linked, HasCRD, SerialInv, Admitted, AdmittedFor
    <3>. QED
      BY <2>0, <3>1, <3>2, UIDStep
  <2>. QED
    BY <1>1, <2>1, <2>2, <2>3, <2>4, <2>5, <2>6, <2>7 DEF Step, Locked, Unlocked, Aside
<1>2. ASSUME NEW w \in Workers, Arrival(w) PROVE UIDInv'
  <2>1. /\ Frame(w) /\ UNCHANGED <<crd, registry, up>> /\ up /\ \A v \in Workers : pc[v] = "idle"
    BY <1>2, ArrivalFrame DEF Quiet, tables
  <2>2. /\ \A v \in Workers : pc'[v] # "crds"
        /\ \A n \in Namespaces : Active(n)' => Active(n) \/ nsPhase[n] = "absent"
    BY <1>2, <2>1 DEF Frame, SameRequest, Arrival, Deploy, Clear, Configure, CreateNamespace,
       DeleteNamespace, Summary, Arrive, Goto, TypeOK, ClusterOK, RequestsOK, cluster, Active
  <2>3. \A n \in Namespaces : Linked(n)' = Linked(n)
    BY <2>1 DEF Linked, HasCRD
  <2>4. \A n \in Namespaces : Active(n) => Linked(n) \subseteq registry[n]
    BY <2>1 DEF UIDInv, Registered, Covered, Pending
  <2>5. \A n \in Namespaces : nsPhase[n] = "absent" => Linked(n) = {}
    BY DEF SerialInv, AbsentBare, Linked
  <2>6. Registered'
    BY <2>1, <2>2, <2>3, <2>4, <2>5 DEF Registered, Covered
  <2>7. UIDsUnique'
    BY <2>2, <2>3, <2>5 DEF UIDInv, UIDsUnique, Active
  <2>. QED
    BY <2>2, <2>6, <2>7 DEF UIDInv, ChosenFor
<1>3. CASE PodUp \/ PodDown \/ UNCHANGED vars
  <2>1. UNCHANGED <<nsPhase, crd, registry, up, pc, at, want>>
    BY <1>3 DEF PodUp, PodDown, vars, tables, request
  <2>2. \A n \in Namespaces : Linked(n)' = Linked(n)
    BY <2>1 DEF Linked, HasCRD
  <2>. QED
    BY <2>1, <2>2 DEF UIDInv, Registered, Covered, ChosenFor, UIDsUnique, Active
<1>4. CASE NamespaceGone \/ DeletedOutside \/ CreatedOutside
  <2>1. /\ UNCHANGED <<registry, up, pc, at, want>>
        /\ \A n \in Namespaces : Active(n)' => crd'[n] = crd[n] /\ (Active(n) \/ (nsPhase[n] = "absent" /\ Quiet))
    BY <1>4 DEF NamespaceGone, DeletedOutside, CreatedOutside, tables, request, Active, TypeOK, ClusterOK
  <2>2. \A n \in Namespaces : Active(n)' => Linked(n)' = Linked(n)
    BY <2>1 DEF Linked, HasCRD
  <2>3. \A n \in Namespaces : nsPhase[n] = "absent" => Linked(n) = {}
    BY DEF SerialInv, AbsentBare, Linked
  <2>4. Registered'
    BY <2>1, <2>2, <2>3 DEF UIDInv, Registered, Covered
  <2>5. UIDsUnique'
    <3>1. \A n \in Namespaces : Active(n)' => Active(n) \/ Linked(n) = {}
      BY <2>1, <2>3
    <3>2. ASSUME NEW n \in Namespaces, NEW k \in Namespaces, n # k, Active(n)', Active(k)'
          PROVE  Linked(n)' \cap Linked(k)' = {}
      BY <2>2, <3>1, <3>2 DEF UIDInv, UIDsUnique, Active
    <3>. QED
      BY <3>2 DEF UIDsUnique, Active
  <2>6. ASSUME NEW v \in Workers PROVE ChosenFor(v)'
    BY <2>1, <2>2 DEF UIDInv, ChosenFor, Quiet
  <2>. QED
    BY <2>4, <2>5, <2>6 DEF UIDInv
<1>5. CASE Crash
  <2>1. UNCHANGED <<nsPhase, crd>> /\ up' = FALSE /\ \A v \in Workers : pc'[v] = "idle"
    BY <1>5 DEF Crash, cluster
  <2>2. \A n \in Namespaces : Linked(n)' = Linked(n)
    BY <2>1 DEF Linked, HasCRD
  <2>. QED
    BY <2>1, <2>2 DEF UIDInv, Registered, ChosenFor, UIDsUnique
<1>6. CASE Startup
  <2>1. /\ UNCHANGED <<nsPhase, crd, pc>> /\ registry' = [n \in Namespaces |-> Linked(n)]
        /\ \A v \in Workers : pc[v] = "idle"
    BY <1>0, <1>6 DEF Startup, cluster, SerialInv, DownQuiet, Quiet
  <2>2. \A n \in Namespaces : Linked(n)' = Linked(n) /\ registry'[n] = Linked(n)
    BY <2>1 DEF Linked, HasCRD
  <2>. QED
    BY <2>1, <2>2 DEF UIDInv, Registered, Covered, ChosenFor, UIDsUnique
<1>. QED
  BY <1>1, <1>2, <1>3, <1>4, <1>5, <1>6 DEF Next, World

\* "unique within a cluster": with requests that come one at a time and calls
\* that do not fail, no link UID is ever on links of two namespaces, through
\* crashes of the backend between any two calls, clears that give up on a stuck
\* pod, and namespaces deleted and created by the API or by kubectl: the
\* registry a deploy chooses from is then a deploy's or a startup's account of
\* every CRD.
THEOREM UIDsStayUnique ==
  ASSUME Serial, Faults \cap {"api", "db"} = {}
  PROVE  Spec => []UIDsUnique
<1>1. Init => UIDInv
  BY DEF Init, UIDInv, Registered, Covered, ChosenFor, UIDsUnique, Linked, HasCRD, NoCRDs
<1>2. TypeOK /\ SerialInv /\ UIDInv /\ [Next]_vars => UIDInv'
  BY UIDNext
<1>3. UIDInv => UIDsUnique
  BY DEF UIDInv
<1>. QED
  BY <1>1, <1>2, <1>3, LifecycleTypes, SerialHolds, PTL DEF Spec

-----------------------------------------------------------------------------
(* The history of a namespace, for requests that come one at a time while  *)
(* nothing but the namespace itself is lost.                               *)

\* No row was saved under an earlier namespace object, none under this one.
NoneOld(n) == \A h \in history[n] : h.born = born[n]
NoneNew(n) == \A h \in history[n] : h.born # born[n]

\* The points of a clear before it drops the history, the two in which pods
\* may outlive their StatefulSets, and a deploy past PurgeStaleDriverOperations
\* on its way to its last StatefulSet.
BeforeDrop == {"list", "delsts", "delcrd", "delmounts", "unflag", "resync", "reregistry",
               "rehistory"}
Orphaning  == {"delsts", "delcrd"}
Purged(w)  == \/ pc[w] = "acquire" /\ op[w] = "deploy"
              \/ pc[w] \in {"sync", "prepare", "crds", "mounts", "counts", "sts"}

\* A row is no newer than the namespace object, and one of this object is of
\* this deploy.  A namespace with pods has no older row, and one without a
\* topology, unless a clear is on its way to drop them, no row of its own.
Dated(n)  == \A h \in history[n] :
               h.born <= born[n] /\ (h.born = born[n] => h.deploy = deploys[n])
Bare(n)   == sts[n] = {} /\ pods[n] = {}
Rows(n)   == Dated(n) /\ (Active(n) => NoneOld(n) \/ Bare(n))
Built(n, c) == Active(n) => NoneNew(n) \/ sts[n] # {} \/ c \in BeforeDrop
Owned(n, c) == pods[n] \subseteq sts[n] \/ c \in Orphaning

\* The same of the request under way, which knows more at each of its points.
HistoryFor(w) ==
  /\ Purged(w) => NoneOld(at[w])
  /\ pc[w] \in {"prepare", "crds", "mounts", "counts", "sts"} => NoneNew(at[w])
  /\ pc[w] \in {"wait", "attributes", "verify", "shape", "flag", "registry"} => sts[at[w]] # {}
  /\ pc[w] \in Orphaning => sts[at[w]] \cup pods[at[w]] \subseteq tracked[w].sts
  /\ pc[w] = "save" => ran[w] = deploys[at[w]] /\ (Active(at[w]) => sts[at[w]] # {})
Own(w) == Rows(at[w]) /\ Built(at[w], pc[w]) /\ Owned(at[w], pc[w]) /\ HistoryFor(w)

\* A namespace that no request is about.
Unattended(n) == \A w \in Workers : at[w] = n => pc[w] = "idle"
Rest(n)       == Rows(n) /\ Built(n, "idle") /\ Owned(n, "idle")
HistoryInv    == /\ \A w \in Workers : pc[w] # "idle" => Own(w)
                 /\ \A n \in Namespaces : Unattended(n) => Rest(n)

\* The one request under way accounts for its namespace, the others rest.
LEMMA HistoryStep ==
  ASSUME TypeOK, Alone, HistoryInv, NEW w \in Workers, Frame(w), at' = at, pc[w] # "idle", Own(w)'
  PROVE  HistoryInv'
<1>1. ASSUME NEW v \in Workers, pc'[v] # "idle" PROVE Own(v)'
  BY <1>1 DEF Alone, Frame, SameRequest
<1>2. ASSUME NEW n \in Namespaces, Unattended(n)' PROVE Rest(n)'
  <2>1. CASE n = at[w]
    BY <1>2, <2>1 DEF Unattended, Own, Rest, Built, Owned
  <2>2. CASE n # at[w]
    <3>1. Unattended(n)
      BY <2>2 DEF Alone, Unattended
    <3>2. Rest(n) /\ Elsewhere(n)
      BY <2>2, <3>1 DEF HistoryInv, Frame
    <3>. QED
      BY <3>2 DEF Rest, Rows, Dated, Bare, Built, Owned, NoneOld, NoneNew, Elsewhere, Active
  <2>. QED
    BY <2>1, <2>2
<1>. QED
  BY <1>1, <1>2 DEF HistoryInv

\* A request that leaves history, objects and counts of deploys alone, and does
\* not leave a point that excuses something, keeps its account.
LEMMA OwnMoves ==
  ASSUME NEW w \in Workers, Own(w), at' = at, nsPhase' = nsPhase, born' = born, pods' = pods,
         UNCHANGED <<history, sts, deploys>>,
         pc[w] \in BeforeDrop => pc'[w] \in BeforeDrop,
         pc[w] \in Orphaning => pc'[w] \in Orphaning \/ pods[at[w]] \subseteq sts[at[w]],
         HistoryFor(w)'
  PROVE  Own(w)'
BY DEF Own, Rows, Dated, Bare, Built, Owned, NoneOld, NoneNew, Active

\* Dropping rows keeps it too.
LEMMA OwnDrops ==
  ASSUME NEW w \in Workers, Own(w), at' = at, nsPhase' = nsPhase, born' = born, pods' = pods,
         UNCHANGED <<sts, deploys>>, history'[at[w]] \subseteq history[at[w]],
         pc[w] \in BeforeDrop => pc'[w] \in BeforeDrop \/ history'[at[w]] = {},
         pc[w] \notin Orphaning,
         HistoryFor(w)'
  PROVE  Own(w)'
<1>1. Rows(at[w])'
  BY DEF Own, Rows, Dated, Bare, NoneOld, Active
<1>2. Built(at[w], pc[w])'
  BY DEF Own, Built, NoneNew, Active
<1>3. Owned(at[w], pc[w])'
  BY DEF Own, Owned
<1>. QED
  BY <1>1, <1>2, <1>3 DEF Own

\* The steps that leave history, StatefulSets and deploys alone.
Onward(w) ==
  \/ Acquire(w) \/ Release(w) \/ SyncState(w) \/ CreateCRD(w) \/ CreateMounts(w)
  \/ PublishCounts(w) \/ WaitReady(w) \/ SaveLinkAttributes(w) \/ Verify(w) \/ SetHasTopology(w)
  \/ SyncRegistry(w) \/ ListStatefulSets(w) \/ ListTopologies(w) \/ DeleteTopology(w)
  \/ WaitDeleted(w) \/ DeleteMount(w) \/ ForgetUIDs(w) \/ Unflag(w) \/ Resync(w)
  \/ DropRegistry(w) \/ DropAttributes(w) \/ DropCounts(w) \/ Answer(w) \/ DeleteState(w)
  \/ DeleteLock(w) \/ DeleteRegistry(w) \/ DeleteAttributes(w) \/ LookAround(w) \/ SetSeen(w)

\* Each of them keeps the account of its request.
LEMMA OnwardKeeps ==
  ASSUME TypeOK, SerialInv, Faults \subseteq {"loss"}, NEW w \in Workers, Step(w), Onward(w), Own(w)
  PROVE  Own(w)'
<1>. DEFINE m == at[w]
<1>0. /\ at' = at /\ op' = op /\ nsPhase' = nsPhase /\ born' = born /\ pods' = pods
      /\ ~ Fail("api") /\ ~ Fail("db") /\ ~ Fail("stuck")
      /\ pc \in [Workers -> Held \cup Free] /\ (pc[w] \in Held => Active(m))
      /\ tracked \in [Workers -> [sts: SUBSET Nodes, crd: SUBSET Nodes]]
  BY StepFrame, StepAdmitted DEF SerialInv, Admitted, AdmittedFor, Fail, TypeOK, RequestsOK
<1>. USE <1>0
<1>a. ASSUME UNCHANGED <<history, sts, deploys, ran>>, pc'[w] \notin Orphaning, pc'[w] # "save",
             pc[w] \in BeforeDrop => pc'[w] \in BeforeDrop,
             pc[w] \in Orphaning => pods[m] \subseteq sts[m],
             Purged(w)' => Purged(w),
             pc'[w] \in {"prepare", "crds", "mounts", "counts", "sts"} =>
               pc[w] \in {"prepare", "crds", "mounts", "counts", "sts"} \/ NoneNew(m),
             pc'[w] \in {"wait", "attributes", "verify", "shape", "flag", "registry"} =>
               pc[w] \in {"wait", "attributes", "verify", "shape", "flag", "registry"}
      PROVE  Own(w)'
  <2>1. HistoryFor(w)'
    <3>1. HistoryFor(w)
      BY DEF Own
    <3>2. NoneOld(m)' = NoneOld(m) /\ NoneNew(m)' = NoneNew(m)
      BY <1>a DEF NoneOld, NoneNew
    <3>. QED
      BY <1>a, <3>1, <3>2 DEF HistoryFor, Purged
  <2>. QED
    BY <1>a, <2>1, OwnMoves
<1>. USE DEF Goto, cluster, tables, request, ClearFails, Orphaning, BeforeDrop, Purged
<1>1. CASE Acquire(w)
  BY <1>1, <1>a DEF Acquire
<1>2. CASE Release(w)
  BY <1>2, <1>a DEF Release
<1>3. CASE CreateCRD(w)
  BY <1>3, <1>a DEF CreateCRD
<1>4. CASE CreateMounts(w)
  BY <1>4, <1>a DEF CreateMounts
<1>5. CASE PublishCounts(w)
  BY <1>5, <1>a DEF PublishCounts
<1>6. CASE WaitReady(w)
  BY <1>6, <1>a DEF WaitReady
<1>7. CASE SaveLinkAttributes(w)
  BY <1>7, <1>a DEF SaveLinkAttributes
<1>8. CASE Verify(w)
  BY <1>8, <1>a DEF Verify
<1>9. CASE SetHasTopology(w)
  BY <1>9, <1>a DEF SetHasTopology
<1>10. CASE SyncRegistry(w)
  BY <1>10, <1>a DEF SyncRegistry
<1>11. CASE DeleteMount(w)
  BY <1>11, <1>a DEF DeleteMount
<1>12. CASE ForgetUIDs(w)
  BY <1>12, <1>a DEF ForgetUIDs
<1>13. CASE Unflag(w)
  BY <1>13, <1>a DEF Unflag
<1>14. CASE Resync(w)
  BY <1>14, <1>a DEF Resync
<1>15. CASE DropRegistry(w)
  BY <1>15, <1>a DEF DropRegistry
<1>16. CASE DropAttributes(w)
  BY <1>16, <1>a DEF DropAttributes
<1>17. CASE DropCounts(w)
  BY <1>17, <1>a DEF DropCounts
<1>18. CASE Answer(w)
  BY <1>18, <1>a DEF Answer
<1>19. CASE DeleteState(w)
  BY <1>19, <1>a DEF DeleteState
<1>20. CASE DeleteLock(w)
  BY <1>20, <1>a DEF DeleteLock
<1>21. CASE DeleteRegistry(w)
  BY <1>21, <1>a DEF DeleteRegistry
<1>22. CASE DeleteAttributes(w)
  BY <1>22, <1>a DEF DeleteAttributes
<1>23. CASE SyncState(w)
  <2>1. pc[w] = "sync" /\ Active(m)
    BY <1>23 DEF SyncState, Held
  <2>2. pc'[w] = "release" \/ (pc'[w] = "prepare" /\ NoneNew(m))
    BY <1>23, <2>1 DEF SyncState, HasTopology, Own, Built
  <2>. QED
    BY <1>23, <2>1, <2>2, <1>a DEF SyncState
<1>24. CASE ListStatefulSets(w)
  <2>1. /\ pc[w] = "list" /\ pc'[w] = "delsts" /\ tracked'[w].sts = sts[m]
        /\ UNCHANGED <<history, sts, deploys, ran>>
    BY <1>24 DEF ListStatefulSets
  <2>2. pods[m] \subseteq sts[m]
    BY <2>1 DEF Own, Owned
  <2>3. HistoryFor(w)'
    BY <2>1, <2>2 DEF HistoryFor
  <2>. QED
    BY <2>1, <2>3, OwnMoves
<1>25. CASE ListTopologies(w) \/ DeleteTopology(w)
  <2>1. /\ pc[w] \in Orphaning /\ pc'[w] = "delcrd" /\ tracked'[w].sts = tracked[w].sts
        /\ UNCHANGED <<history, sts, deploys, ran>>
    <3>1. CASE ListTopologies(w)
      BY <3>1 DEF ListTopologies
    <3>2. CASE DeleteTopology(w)
      BY <3>2 DEF DeleteTopology
    <3>. QED
      BY <1>25, <3>1, <3>2
  <2>2. HistoryFor(w)'
    BY <2>1 DEF HistoryFor, Own
  <2>. QED
    BY <2>1, <2>2, OwnMoves
<1>26. CASE WaitDeleted(w)
  <2>1. /\ pc[w] = "delcrd" /\ pc'[w] = "delmounts" /\ tracked[w].sts \cap (sts[m] \cup pods[m]) = {}
        /\ UNCHANGED <<history, sts, deploys, ran>>
    BY <1>26 DEF WaitDeleted
  <2>2. pods[m] = {}
    BY <2>1 DEF HistoryFor, Own
  <2>. QED
    BY <2>1, <2>2, <1>a
<1>27. CASE LookAround(w)
  BY <1>27, <1>a DEF LookAround
<1>28. CASE SetSeen(w)
  BY <1>28, <1>a DEF SetSeen
<1>. QED
  BY <1>1, <1>2, <1>3, <1>4, <1>5, <1>6, <1>7, <1>8, <1>9, <1>10, <1>11,
     <1>12, <1>13, <1>14, <1>15, <1>16, <1>17, <1>18, <1>19, <1>20,
     <1>21, <1>22, <1>23, <1>24, <1>25, <1>26, <1>27, <1>28
     DEF Onward

\* The steps that write the history, the StatefulSets or the count of deploys.
LEMMA WritesKeep ==
  ASSUME TypeOK, SerialInv, Faults \subseteq {"loss"}, NEW w \in Workers, Step(w), ~ Onward(w), Own(w)
  PROVE  Own(w)'
<1>. DEFINE m == at[w]
<1>0. /\ at' = at /\ op' = op /\ nsPhase' = nsPhase /\ born' = born /\ pods' = pods
      /\ ~ Fail("api") /\ ~ Fail("db") /\ ~ Fail("stuck")
      /\ pc \in [Workers -> Held \cup Free] /\ m \in Namespaces
      /\ pc[w] \in Held \cup {"purge"} => Active(m)
      /\ history \in [Namespaces -> SUBSET [deploy: Nat, born: Nat]]
      /\ deploys \in [Namespaces -> Nat] /\ born \in [Namespaces -> Nat]
      /\ sts \in [Namespaces -> SUBSET Nodes] /\ todo \in [Workers -> SUBSET Nodes]
  BY StepFrame, StepAdmitted DEF SerialInv, Admitted, AdmittedFor, Fail, TypeOK, ClusterOK,
     TablesOK, RequestsOK
<1>. USE <1>0
<1>. DEFINE row == [deploy |-> deploys[m], born |-> born[m]]
<1>a. ASSUME UNCHANGED <<sts, deploys, ran, tracked>>,
             history'[m] \in {history[m], history[m] \cup {row}},
             pc[w] \notin BeforeDrop, Active(m) => sts[m] # {},
             pc'[w] \in {"flag", "idle"}, pc'[w] = "flag" => Active(m)
      PROVE  Own(w)'
  <2>1. pods[m] \subseteq sts[m]
    BY <1>a DEF Own, Owned, BeforeDrop, Orphaning
  <2>2. \A h \in history'[m] : h \in history[m] \/ h = row
    BY <1>a
  <2>3. row.born = born[m] /\ row.deploy = deploys[m] /\ born[m] <= born[m]
    OBVIOUS
  <2>4. Dated(m)'
    BY <1>a, <2>2, <2>3 DEF Own, Rows, Dated
  <2>5. Active(m) => NoneOld(m)
    BY <1>a DEF Own, Rows, Bare
  <2>6. Rows(m)'
    BY <1>a, <2>2, <2>3, <2>4, <2>5 DEF Rows, NoneOld, Active
  <2>7. Built(m, pc[w])' /\ Owned(m, pc[w])'
    BY <1>a, <2>1 DEF Built, Owned, Active
  <2>8. HistoryFor(w)'
    BY <1>a DEF HistoryFor, Purged, Orphaning
  <2>. QED
    BY <2>6, <2>7, <2>8 DEF Own
<1>1. CASE PurgeStale(w)
  <2>1. /\ pc[w] = "purge" /\ Active(m) /\ pc'[w] \in {"acquire", "idle"}
        /\ UNCHANGED <<sts, deploys, ran, tracked>>
    BY <1>1 DEF PurgeStale, Goto, cluster, request
  <2>2. history'[m] = {h \in history[m] : h.born >= born[m]}
    BY <1>1, <2>1 DEF PurgeStale, Active
  <2>3. NoneOld(m)'
    <3>1. ASSUME NEW h \in history[m], h.born >= born[m] PROVE h.born = born[m]
      <4>1. h \in [deploy: Nat, born: Nat] /\ h.born <= born[m] /\ born[m] \in Nat
        BY DEF Own, Rows, Dated
      <4>2. h.born \in Nat
        BY <4>1
      <4>. QED
        BY <3>1, <4>1, <4>2
    <3>. QED
      BY <2>2, <3>1 DEF NoneOld
  <2>4. HistoryFor(w)'
    BY <2>1, <2>3 DEF HistoryFor, Purged, Orphaning
  <2>. QED
    BY <2>1, <2>2, <2>4, OwnDrops DEF BeforeDrop, Orphaning
<1>2. CASE PrepareUIDs(w)
  <2>1. /\ pc[w] = "prepare" /\ pc'[w] \in {"crds", "release"} /\ UNCHANGED <<sts, history>>
    BY <1>2 DEF PrepareUIDs, Goto, cluster, tables
  <2>2. history[m] = {}
    BY <2>1 DEF Own, HistoryFor, Purged, NoneOld, NoneNew
  <2>3. Rows(m)' /\ Built(m, pc[w])' /\ NoneOld(m)' /\ NoneNew(m)'
    BY <2>1, <2>2 DEF Rows, Dated, Built, NoneOld, NoneNew
  <2>4. Owned(m, pc[w])'
    BY <2>1 DEF Own, Owned, Orphaning
  <2>5. HistoryFor(w)'
    BY <2>1, <2>3 DEF HistoryFor, Orphaning
  <2>. QED
    BY <2>3, <2>4, <2>5 DEF Own
<1>3. CASE CreateStatefulSet(w)
  <2>0. pc[w] = "sts" /\ Active(m) /\ UNCHANGED <<history, deploys, ran, tracked>>
    BY <1>3 DEF CreateStatefulSet, tables, Held
  <2>1. PICK k \in todo[w] :
          \/ /\ sts' = [sts EXCEPT ![m] = @ \cup {k}] /\ pc'[w] \in {"wait", "sts"}
          \/ sts' = sts /\ pc'[w] = "release"
    BY <1>3 DEF CreateStatefulSet, Goto
  <2>2. /\ sts[m] \subseteq sts'[m] /\ pc'[w] \in {"wait", "sts", "release"}
        /\ pc'[w] = "wait" => sts'[m] # {}
    BY <2>1
  <2>3. NoneOld(m) /\ NoneNew(m) /\ pods[m] \subseteq sts[m]
    BY <2>0 DEF Own, HistoryFor, Purged, Owned, Orphaning
  <2>4. NoneOld(m)' /\ NoneNew(m)'
    BY <2>0, <2>3 DEF NoneOld, NoneNew
  <2>5. Rows(m)' /\ Built(m, pc[w])' /\ Owned(m, pc[w])'
    BY <2>0, <2>2, <2>3, <2>4 DEF Own, Rows, Dated, Built, Owned
  <2>6. HistoryFor(w)'
    BY <2>0, <2>2, <2>4 DEF HistoryFor, Orphaning
  <2>. QED
    BY <2>5, <2>6 DEF Own
<1>4. CASE ApplyLinkAttributes(w)
  <2>1. /\ pc[w] = "shape" /\ pc'[w] = "flag" /\ Active(m) /\ UNCHANGED <<sts, deploys, ran, tracked>>
        /\ history'[m] \in {history[m], history[m] \cup {row}}
    BY <1>4 DEF ApplyLinkAttributes, Goto, cluster, request, Held
  <2>2. sts[m] # {}
    BY <2>1 DEF Own, HistoryFor
  <2>. QED
    BY <2>1, <2>2, <1>a DEF BeforeDrop
<1>5. CASE DeleteStatefulSet(w)
  <2>1. /\ pc[w] = "delsts" /\ pc'[w] = "delsts" /\ UNCHANGED <<history, deploys, ran, tracked>>
        /\ sts'[m] \subseteq sts[m]
    BY <1>5 DEF DeleteStatefulSet, tables
  <2>2. Rows(m)' /\ Built(m, pc[w])' /\ Owned(m, pc[w])'
    BY <2>1 DEF Own, Rows, Dated, Bare, NoneOld, Built, Owned, BeforeDrop, Orphaning, Active
  <2>3. HistoryFor(w)'
    BY <2>1 DEF Own, HistoryFor, Purged, Orphaning
  <2>. QED
    BY <2>2, <2>3 DEF Own
<1>6. CASE DropHistory(w)
  <2>1. /\ pc[w] = "rehistory" /\ pc'[w] = "reattributes" /\ UNCHANGED <<sts, deploys>>
        /\ history'[m] = {}
    BY <1>6 DEF DropHistory, Goto, cluster
  <2>2. HistoryFor(w)'
    BY <2>1 DEF HistoryFor, Purged, Orphaning
  <2>. QED
    BY <2>1, <2>2, OwnDrops DEF Orphaning
<1>7. CASE SaveOperation(w)
  <2>1. /\ pc[w] = "save" /\ pc'[w] = "idle" /\ UNCHANGED <<sts, deploys, ran, tracked>>
        /\ history'[m] = history[m] \cup {[deploy |-> ran[w], born |-> born[m]]}
    BY <1>7 DEF SaveOperation, Goto, cluster, request
  <2>2. ran[w] = deploys[m] /\ (Active(m) => sts[m] # {})
    BY <2>1 DEF Own, HistoryFor
  <2>. QED
    BY <2>1, <2>2, <1>a DEF BeforeDrop
<1>8. CASE CreateCleans(w) \/ DeleteHistory(w)
  <2>1. /\ pc[w] \in {"newhistory", "newattributes", "delhistory1", "delhistory2"}
        /\ pc'[w] \in {"newattributes", "idle", "delregistry2", "delattributes"}
        /\ UNCHANGED <<sts, deploys>> /\ history'[m] \subseteq history[m]
    BY <1>8 DEF CreateCleans, DeleteHistory, Goto, cluster
  <2>2. HistoryFor(w)'
    BY <2>1 DEF HistoryFor, Purged, Orphaning
  <2>. QED
    BY <2>1, <2>2, OwnDrops DEF Orphaning, BeforeDrop
<1>. QED
  BY <1>1, <1>2, <1>3, <1>4, <1>5, <1>6, <1>7, <1>8 DEF Step, Locked, Unlocked, Onward

\* A namespace nobody is about, changed by the cluster or by a new request.
LEMMA RestBecomes ==
  ASSUME TypeOK, AbsentBare, NEW n \in Namespaces, Rest(n),
         UNCHANGED <<history, deploys>>,
         \/ nsPhase'[n] = nsPhase[n] /\ born'[n] = born[n]
         \/ nsPhase'[n] # "active" /\ born'[n] = born[n]
         \/ nsPhase[n] = "absent" /\ born'[n] = born[n] + 1,
         sts'[n] = sts[n], pods'[n] = pods[n]
  PROVE  Rest(n)'
<1>0. /\ born[n] \in Nat /\ \A h \in history[n] : h.born \in Nat
      /\ Dated(n)
  BY DEF TypeOK, ClusterOK, TablesOK, Rest, Rows
<1>1. CASE nsPhase'[n] = nsPhase[n] /\ born'[n] = born[n]
  BY <1>1 DEF Rest, Rows, Dated, Bare, Built, Owned, NoneOld, NoneNew, Active
<1>2. CASE nsPhase'[n] # "active" /\ born'[n] = born[n]
  BY <1>2 DEF Rest, Rows, Dated, Built, Owned, Active
<1>3. CASE nsPhase[n] = "absent" /\ born'[n] = born[n] + 1
  <2>1. \A h \in history[n] : h.born <= born[n] + 1 /\ h.born # born[n] + 1
    BY <1>0 DEF Dated
  <2>2. Bare(n)'
    BY <1>3 DEF AbsentBare, Bare
  <2>. QED
    BY <1>3, <2>1, <2>2 DEF Rest, Rows, Dated, Bare, Built, Owned, NoneNew
<1>. QED
  BY <1>1, <1>2, <1>3

\* Every step keeps the histories and their deploys together.
LEMMA HistoryNext ==
  ASSUME TypeOK, Serial, SerialInv, Faults \subseteq {"loss"}, HistoryInv, [Next]_vars
  PROVE  HistoryInv'
<1>0. Alone /\ AbsentBare /\ at \in [Workers -> Namespaces]
  BY DEF SerialInv, TypeOK, RequestsOK
<1>1. ASSUME NEW w \in Workers, Step(w) PROVE HistoryInv'
  <2>1. Frame(w) /\ at' = at /\ pc[w] # "idle"
    BY <1>1, StepFrame, StepBusy
  <2>2. Own(w)'
    BY <1>1, <2>1, OnwardKeeps, WritesKeep DEF HistoryInv
  <2>. QED
    BY <1>0, <2>1, <2>2, HistoryStep
<1>2. ASSUME NEW w \in Workers, Arrival(w) PROVE HistoryInv'
  <2>1. /\ Frame(w) /\ UNCHANGED <<sts, pods, history, deploys, tracked>>
        /\ \A v \in Workers : pc[v] = "idle"
    BY <1>2, ArrivalFrame DEF Quiet, tables
  <2>2. at'[w] \in Namespaces
    BY <1>2 DEF Arrival, Deploy, Clear, Configure, CreateNamespace, DeleteNamespace, Summary,
       Arrive, TypeOK, RequestsOK
  <2>3. \A n \in Namespaces : Rest(n)
    BY <2>1 DEF HistoryInv, Unattended
  <2>4. ASSUME NEW n \in Namespaces
        PROVE  \/ nsPhase'[n] = nsPhase[n] /\ born'[n] = born[n]
               \/ nsPhase'[n] # "active" /\ born'[n] = born[n]
               \/ nsPhase[n] = "absent" /\ born'[n] = born[n] + 1
    BY <1>2 DEF Arrival, Deploy, Clear, Configure, CreateNamespace, DeleteNamespace, Summary, cluster,
       TypeOK, ClusterOK
  <2>5. \A n \in Namespaces : Rest(n)'
    BY <1>0, <2>1, <2>3, <2>4, RestBecomes
  <2>6. HistoryFor(w)'
    <3>. USE DEF Arrive, Goto, HistoryFor, Purged, Orphaning, TypeOK, RequestsOK
    <3>1. CASE Deploy(w)
      BY <3>1 DEF Deploy
    <3>2. CASE Clear(w)
      BY <3>2 DEF Clear
    <3>3. CASE Configure(w)
      <4>1. PICK n \in Namespaces :
              /\ pods[n] # {} /\ Arrive(w, "configure", n, NoUid, "save")
              /\ ran' = [ran EXCEPT ![w] = deploys[n]] /\ nsPhase' = nsPhase
        BY <3>3 DEF Configure, cluster
      <4>2. sts[n] # {}
        BY <2>3, <4>1 DEF Rest, Owned
      <4>3. at'[w] = n /\ pc'[w] = "save" /\ ran'[w] = deploys[n]
        BY <4>1
      <4>. QED
        BY <2>1, <4>2, <4>3
    <3>4. CASE CreateNamespace(w)
      BY <3>4 DEF CreateNamespace
    <3>5. CASE DeleteNamespace(w)
      BY <3>5 DEF DeleteNamespace
    <3>6. CASE Summary(w)
      BY <3>6 DEF Summary
    <3>. QED
      BY <1>2, <3>1, <3>2, <3>3, <3>4, <3>5, <3>6 DEF Arrival
  <2>7. Own(w)'
    BY <2>2, <2>5, <2>6 DEF Own, Rest, Built, Owned, BeforeDrop, Orphaning
  <2>8. ASSUME NEW v \in Workers, pc'[v] # "idle" PROVE Own(v)'
    BY <2>1, <2>7, <2>8 DEF Frame, SameRequest
  <2>. QED
    BY <2>5, <2>8 DEF HistoryInv
<1>3. CASE PodUp
  <2>1. PICK n \in Namespaces, k \in Nodes :
          /\ k \in sts[n] /\ nsPhase[n] = "active" /\ pods' = [pods EXCEPT ![n] = @ \cup {k}]
          /\ UNCHANGED <<nsPhase, born, sts, history, deploys, pc, op, at, tracked, ran>>
    BY <1>3 DEF PodUp, tables, request, TypeOK, ClusterOK
  <2>2. pods'[n] = pods[n] \cup {k} /\ \A i \in Namespaces \ {n} : pods'[i] = pods[i]
    BY <2>1 DEF TypeOK, ClusterOK
  <2>3. ASSUME NEW w \in Workers, Own(w) PROVE Own(w)'
    <3>1. CASE at[w] = n
      <4>1. NoneOld(n)
        BY <2>1, <2>3, <3>1 DEF Own, Rows, Bare, Active
      <4>2. Rows(at[w])'
        BY <2>1, <2>3, <3>1, <4>1 DEF Own, Rows, Dated, NoneOld, Active
      <4>3. Built(at[w], pc[w])'
        BY <2>1, <2>3, <3>1 DEF Own, Built, NoneNew, Active
      <4>4. Owned(at[w], pc[w])'
        BY <2>1, <2>2, <2>3, <3>1 DEF Own, Owned
      <4>5. HistoryFor(w)'
        BY <2>1, <2>2, <2>3, <3>1 DEF Own, HistoryFor, Purged, NoneOld, NoneNew, Active
      <4>. QED
        BY <4>2, <4>3, <4>4, <4>5 DEF Own
    <3>2. CASE at[w] # n
      BY <1>0, <2>1, <2>2, <2>3, <3>2 DEF Own, Rows, Dated, Bare, Built, Owned, HistoryFor, Purged,
         NoneOld, NoneNew, Active
    <3>. QED
      BY <3>1, <3>2
  <2>4. ASSUME NEW i \in Namespaces, Rest(i) PROVE Rest(i)'
    <3>1. CASE i = n
      <4>1. NoneOld(n)
        BY <2>1, <2>4, <3>1 DEF Rest, Rows, Bare, Active
      <4>. QED
        BY <2>1, <2>2, <2>4, <3>1, <4>1 DEF Rest, Rows, Dated, Built, Owned, NoneOld, NoneNew, Active
    <3>2. CASE i # n
      BY <2>1, <2>2, <2>4, <3>2 DEF Rest, Rows, Dated, Bare, Built, Owned, NoneOld, NoneNew, Active
    <3>. QED
      BY <3>1, <3>2
  <2>. QED
    BY <2>1, <2>3, <2>4 DEF HistoryInv, Unattended
<1>4. CASE PodDown
  <2>1. /\ \A n \in Namespaces : pods'[n] \subseteq pods[n]
        /\ UNCHANGED <<nsPhase, born, sts, history, deploys, pc, op, at, tracked, ran>>
    BY <1>4 DEF PodDown, tables, request, TypeOK, ClusterOK
  <2>2. ASSUME NEW n \in Namespaces, Rows(n) PROVE Rows(n)'
    BY <2>1, <2>2 DEF Rows, Dated, Bare, NoneOld, Active
  <2>3. ASSUME NEW w \in Workers, Own(w) PROVE Own(w)'
    BY <1>0, <2>1, <2>2, <2>3 DEF Own, Built, Owned, HistoryFor, Purged, NoneOld, NoneNew, Active
  <2>4. ASSUME NEW n \in Namespaces, Rest(n) PROVE Rest(n)'
    BY <2>1, <2>2, <2>4 DEF Rest, Built, Owned, NoneNew, Active
  <2>. QED
    BY <2>1, <2>3, <2>4 DEF HistoryInv, Unattended
<1>5. CASE NamespaceGone
  <2>1. PICK n \in Namespaces :
          /\ nsPhase[n] = "terminating" /\ nsPhase' = [nsPhase EXCEPT ![n] = "absent"]
          /\ sts' = [sts EXCEPT ![n] = {}] /\ pods' = [pods EXCEPT ![n] = {}]
          /\ UNCHANGED <<born, history, deploys, pc, op, at, tracked, ran>>
    BY <1>5 DEF NamespaceGone, tables, request
  <2>2. /\ nsPhase'[n] = "absent" /\ sts'[n] = {} /\ pods'[n] = {}
        /\ \A i \in Namespaces \ {n} : nsPhase'[i] = nsPhase[i] /\ sts'[i] = sts[i] /\ pods'[i] = pods[i]
    BY <2>1 DEF TypeOK, ClusterOK
  <2>3. ASSUME NEW w \in Workers, Own(w) PROVE Own(w)'
    <3>1. CASE at[w] = n
      <4>1. pc[w] \notin Held \cup {"purge", "acquire"}
        BY <2>1, <3>1 DEF SerialInv, Admitted, AdmittedFor, Active
      <4>2. HistoryFor(w)'
        BY <2>1, <2>2, <2>3, <3>1, <4>1 DEF Own, HistoryFor, Purged, Orphaning, Held, Active
      <4>. QED
        BY <2>1, <2>2, <2>3, <3>1, <4>2 DEF Own, Rows, Dated, Built, Owned, Active
    <3>2. CASE at[w] # n
      BY <1>0, <2>1, <2>2, <2>3, <3>2 DEF Own, Rows, Dated, Bare, Built, Owned, HistoryFor, Purged,
         NoneOld, NoneNew, Active
    <3>. QED
      BY <3>1, <3>2
  <2>4. ASSUME NEW i \in Namespaces, Rest(i) PROVE Rest(i)'
    <3>1. CASE i = n
      BY <2>1, <2>2, <2>4, <3>1 DEF Rest, Rows, Dated, Built, Owned, Active
    <3>2. CASE i # n
      BY <2>1, <2>2, <2>4, <3>2 DEF Rest, Rows, Dated, Bare, Built, Owned, NoneOld, NoneNew, Active
    <3>. QED
      BY <3>1, <3>2
  <2>. QED
    BY <2>1, <2>3, <2>4 DEF HistoryInv, Unattended
<1>6. CASE DeletedOutside \/ CreatedOutside
  <2>1. UNCHANGED <<sts, pods, history, deploys, pc>> /\ \A v \in Workers : pc[v] = "idle"
    BY <1>6 DEF DeletedOutside, CreatedOutside, tables, Quiet
  <2>2. \A n \in Namespaces : Rest(n)
    BY <2>1 DEF HistoryInv, Unattended
  <2>3. ASSUME NEW n \in Namespaces
        PROVE  \/ nsPhase'[n] = nsPhase[n] /\ born'[n] = born[n]
               \/ nsPhase'[n] # "active" /\ born'[n] = born[n]
               \/ nsPhase[n] = "absent" /\ born'[n] = born[n] + 1
    BY <1>6 DEF DeletedOutside, CreatedOutside, TypeOK, ClusterOK
  <2>4. \A n \in Namespaces : Rest(n)'
    BY <1>0, <2>1, <2>2, <2>3, RestBecomes
  <2>. QED
    BY <2>1, <2>4 DEF HistoryInv
<1>7. CASE Crash
  BY <1>7 DEF Crash, Fail
<1>8. CASE Startup \/ UNCHANGED vars
  <2>1. UNCHANGED <<nsPhase, born, sts, pods, history, deploys, pc, op, at, tracked, ran>>
    BY <1>8 DEF Startup, vars, cluster, request
  <2>. QED
    BY <2>1 DEF HistoryInv, Unattended, Own, Rest, Rows, Dated, Bare, Built, Owned, HistoryFor, Purged,
       NoneOld, NoneNew, Active
<1>. QED
  BY <1>1, <1>2, <1>3, <1>4, <1>5, <1>6, <1>7, <1>8 DEF Next, World

\* Nothing of a predecessor is replayed onto a namespace's pods: with requests
\* that come one at a time, and failures other than the loss of namespaces left
\* out, the operations on record for a namespace with pods ran on the deploy
\* they belong to, however often it was cleared, deleted and created again by
\* the API or by kubectl under the same name.
THEOREM HistoryStaysWithItsDeploy ==
  ASSUME Serial, Faults \subseteq {"loss"}
  PROVE  Spec => []HistoryOfThisDeploy
<1>1. Init => HistoryInv
  BY DEF Init, HistoryInv, Unattended, Rest, Rows, Dated, NoneOld, NoneNew, Built, Owned
<1>2. TypeOK /\ SerialInv /\ HistoryInv /\ [Next]_vars => HistoryInv'
  BY HistoryNext
<1>3. HistoryInv => HistoryOfThisDeploy
  <2>1. ASSUME HistoryInv, NEW n \in Namespaces, Quiet, nsPhase[n] = "active", pods[n] # {},
               NEW h \in history[n]
        PROVE  h.deploy = deploys[n]
    <3>1. Rest(n)
      BY <2>1 DEF HistoryInv, Unattended, Quiet
    <3>. QED
      BY <2>1, <3>1 DEF Rest, Rows, Dated, Bare, NoneOld, Active
  <2>. QED
    BY <2>1 DEF HistoryOfThisDeploy
<1>. QED
  BY <1>1, <1>2, <1>3, LifecycleTypes, SerialHolds, PTL DEF Spec

=============================================================================
