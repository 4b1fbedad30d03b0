---------------------------- MODULE AccessProofs ----------------------------
(***************************************************************************)
(* Proofs about who a request comes from and where its work goes.           *)
(*                                                                         *)
(* ClusterConnection: for any kubeconfigs, clusters and contexts, any       *)
(* number of requests at a time and any number of them.                     *)
(*                                                                         *)
(* Authentication, as the instance Auth: for any number of workers,         *)
(* clients, passwords, sessions and tokens and any timeouts.  API tokens    *)
(* carry a prefix that cookies do not (apiTokenPrefix), so the two sets are *)
(* apart.                                                                   *)
(***************************************************************************)
EXTENDS ClusterConnection, FiniteSetTheorems, TLAPS

----------------------------------------------------------------------------
(* The inductive invariant.                                                 *)

SwitchSteps == {"load", "unset", "init", "apply", "drop", "env", "record", "ask",
                "name"}
UserSteps   == {"record", "ask", "use"}

Job == [at : {"idle", "label", "use"} \cup SwitchSteps,
        ctx : Contexts \cup {None}, conf : Kubeconfigs \cup {None},
        from : Clusters \cup {None}, id : Clusters \cup {None}, alone : BOOLEAN]

Entry == [name : Contexts, led : Clusters \cup {None}, alone : BOOLEAN]

\* The step of a request says what it carries.
Carries(j) ==
  /\ j.at = "idle" => j = Idle
  /\ j.at = "load" => j.conf \in Kubeconfigs
  /\ j.at \in {"load", "unset", "init"} => j.ctx = None
  /\ j.at \in {"apply", "env", "label"} => j.ctx \in Contexts
  /\ j.at \in {"ask", "label"} => j.from \in Clusters
  /\ j.at \in {"use", "name"} => j.id \in Clusters

Typed ==
  /\ TypeOK
  /\ registry \in [Clusters -> {None} \cup Entry]
  /\ job \in [Workers -> Job]
  /\ tainted \in BOOLEAN /\ mixed \in BOOLEAN
  /\ \A w \in Workers : Carries(job[w])
  /\ \A w \in Switchers : job[w].at \notin {"label", "use"}
  /\ \A u \in Users : job[u].at \in {"idle", "label"} \cup UserSteps

\* Two switches that overlap are known to: neither is alone, and the state
\* they leave is a mixed one.
Overlapping ==
  \A v, w \in Switchers :
    v # w /\ Switching(v) /\ Switching(w) => mixed /\ ~ job[v].alone

\* A request that is alone on the active cluster runs beside no switch.
Undisturbed ==
  \A u \in Users : job[u].at \in UserSteps /\ job[u].alone => ~ Underway

\* Such a request has the id of the cluster the clients talk to.
UserFacts ==
  \A u \in Users :
    job[u].alone /\ client # None =>
      /\ job[u].at = "ask" => job[u].from = client
      /\ job[u].at = "use" => job[u].id = client

\* Where a switch that no other one overlaps has got to.
Clear(w) == job[w].alone \/ ~ mixed

Follows == client = InitClient(saved, env)

SwitchFacts ==
  \A w \in Switchers :
    /\ ~ mixed /\ job[w].at = "apply" /\ client # None => Follows
    /\ Clear(w) /\ job[w].at \in {"drop", "env"} /\ job[w].ctx # None =>
         job[w].ctx \in DOMAIN saved.leads /\ client = saved.leads[job[w].ctx]
    /\ Clear(w) /\ job[w].at = "drop" /\ job[w].ctx = None => Follows /\ client # None
    /\ Clear(w) /\ job[w].at \in {"record", "ask", "name"} => Follows /\ client # None
    /\ job[w].alone /\ job[w].at = "ask" => job[w].from = client
    /\ job[w].alone /\ job[w].at = "name" => job[w].id = client

\* All but the types.
Rest ==
  /\ Overlapping /\ Undisturbed /\ UserFacts /\ SwitchFacts
  /\ IDsOfTheirCluster /\ ContextIsActive /\ RecordedUnderItsContext


----------------------------------------------------------------------------
(* Types.                                                                   *)

\* A request that has ended carries nothing.
LEMMA IdleJob == Idle \in Job /\ Carries(Idle) /\ Idle.at = "idle"
  BY DEF Idle, Job, Carries, SwitchSteps

\* The clients lead to a cluster or there are none; the context that is active
\* is one of the contexts.
LEMMA ActiveTypes ==
  ASSUME NEW k \in Kubeconfigs, NEW e \in Contexts \cup {None}
  PROVE  /\ InitClient(k, e) \in Clusters \cup {None}
         /\ ActiveIn(k, e) \in Contexts
  BY ConnectionAssumption DEF InitClient, ActiveIn

\* A job replaced by a well-typed one leaves the jobs well-typed.
LEMMA OneJob ==
  ASSUME Typed, NEW w \in Workers, NEW r, r \in Job, Carries(r),
         w \in Switchers => r.at \notin {"label", "use"},
         w \in Users => r.at \in {"idle", "label"} \cup UserSteps,
         job' = [job EXCEPT ![w] = r]
  PROVE  /\ job' \in [Workers -> Job]
         /\ \A v \in Workers : Carries(job'[v])
         /\ \A v \in Switchers : job'[v].at \notin {"label", "use"}
         /\ \A u \in Users : job'[u].at \in {"idle", "label"} \cup UserSteps
  BY DEF Typed, Workers

\* The first state is well-typed.
LEMMA TypedInit == Init => Typed
<1> SUFFICES ASSUME Init PROVE Typed
  OBVIOUS
<1>1. saved \in Kubeconfigs /\ env = None /\ client \in Clusters \cup {None}
  BY ActiveTypes DEF Init
<1>2. job \in [Workers -> Job] /\ \A w \in Workers : job[w] = Idle
  BY IdleJob DEF Init
<1>3. TypeOK
  BY <1>1, ConnectionAssumption DEF Init, TypeOK
<1> QED
  BY <1>2, <1>3, IdleJob DEF Init, Typed, Workers, UserSteps

\* A step that begins a switch has a well-typed job for every worker.
LEMMA BeginTyped ==
  ASSUME Typed, NEW w \in Switchers, NEW step \in {"apply", "load"},
         NEW c \in Contexts \cup {None}, NEW k \in Kubeconfigs,
         IF step = "apply" THEN c \in Contexts ELSE c = None, Begin(w, step, c, k)
  PROVE  /\ job' \in [Workers -> Job]
         /\ \A v \in Workers : Carries(job'[v])
         /\ \A v \in Switchers : job'[v].at \notin {"label", "use"}
         /\ \A u \in Users : job'[u].at \in {"idle", "label"} \cup UserSteps
         /\ mixed' \in BOOLEAN
<1> DEFINE others == {v \in Switchers \ {w} : Switching(v)}
           new == [Idle EXCEPT !.at = step, !.ctx = c, !.conf = k, !.alone = others = {}]
<1>1. job' = [v \in Workers |-> IF v = w THEN new
                ELSE IF job[v] = Idle THEN Idle ELSE [job[v] EXCEPT !.alone = FALSE]]
  BY DEF Begin
<1>2. new \in Job /\ Carries(new) /\ new.at = step
  BY DEF Idle, Job, Carries, SwitchSteps
<1>3. ASSUME NEW v \in Workers
      PROVE  LET r == [job[v] EXCEPT !.alone = FALSE]
             IN  r \in Job /\ (job[v] # Idle => Carries(r)) /\ r.at = job[v].at
  <2>1. job[v] \in Job /\ Carries(job[v])
    BY DEF Typed
  <2> QED
    BY <2>1 DEF Job, Carries
<1>4. job' \in [Workers -> Job]
  BY <1>1, <1>2, <1>3, IdleJob
<1>5. \A v \in Workers : Carries(job'[v])
  BY <1>1, <1>2, <1>3, IdleJob
<1>6. \A v \in Workers : v # w => job'[v].at = job[v].at
  BY <1>1, <1>3, IdleJob
<1>7. job'[w].at = step /\ w \in Workers /\ w \notin Users
  BY <1>1, <1>2, ConnectionAssumption DEF Workers
<1>8. mixed' \in BOOLEAN
  BY DEF Begin, Typed
<1> QED
  BY <1>4, <1>5, <1>6, <1>7, <1>8 DEF Typed, Workers

\* Every step of a switch keeps the types.
LEMMA TypedSwitch ==
  ASSUME Typed, NEW w \in Switchers, Switch(w)
  PROVE  Typed'
<1>0. w \in Workers /\ w \notin Users /\ job[w] \in Job /\ Carries(job[w])
  BY ConnectionAssumption DEF Workers, Typed
<1> DEFINE JobsOK == /\ job' \in [Workers -> Job]
                     /\ \A v \in Workers : Carries(job'[v])
                     /\ \A v \in Switchers : job'[v].at \notin {"label", "use"}
                     /\ \A u \in Users : job'[u].at \in {"idle", "label"} \cup UserSteps
<1>1. ASSUME Done(w) PROVE JobsOK
  BY <1>0, <1>1, IdleJob, OneJob DEF Done
<1>2. ASSUME NEW step \in SwitchSteps, Go(w, step),
             step \notin {"apply", "load", "ask", "name"},
             step = "env" => job[w].ctx \in Contexts,
             step \in {"unset", "init"} => job[w].ctx = None
      PROVE  JobsOK
  <2> DEFINE r == [job[w] EXCEPT !.at = step]
  <2>1. job' = [job EXCEPT ![w] = r]
    BY <1>0, <1>2 DEF Go, Typed
  <2>2. r \in Job /\ Carries(r) /\ r.at = step
    BY <1>0, <1>2 DEF Job, Carries, SwitchSteps
  <2> QED
    BY <1>0, <2>1, <2>2, OneJob DEF SwitchSteps
<1>3. ASSUME NEW c \in Contexts, SetKubeContext(w, c) PROVE Typed'
  <2>1. saved \in Kubeconfigs
    BY DEF Typed, TypeOK
  <2>2. JobsOK /\ mixed' \in BOOLEAN
    BY <1>3, <2>1, BeginTyped DEF SetKubeContext
  <2> QED
    BY <1>3, <2>2, ConnectionAssumption DEF SetKubeContext, Start, Typed, TypeOK
<1>4. ASSUME NEW k \in Kubeconfigs, LoadKubeConfig(w, k) PROVE Typed'
  <2>2. JobsOK /\ mixed' \in BOOLEAN
    BY <1>4, BeginTyped DEF LoadKubeConfig
  <2> QED
    BY <1>4, <2>2, ConnectionAssumption DEF LoadKubeConfig, Start, Typed, TypeOK
<1>5. ASSUME SaveKubeconfig(w) PROVE Typed'
  <2>1. JobsOK
    BY <1>0, <1>2, <1>5 DEF SaveKubeconfig, At, Carries, SwitchSteps
  <2> QED
    BY <1>0, <1>5, <2>1 DEF SaveKubeconfig, At, Carries, Typed, TypeOK
<1>6. ASSUME UnsetContext(w) PROVE Typed'
  <2>1. JobsOK
    BY <1>0, <1>2, <1>6 DEF UnsetContext, At, Carries, SwitchSteps
  <2> QED
    BY <1>0, <1>6, <2>1 DEF UnsetContext, Typed, TypeOK
<1>7. ASSUME ReloadClient(w) PROVE Typed'
  <2>1. JobsOK
    BY <1>1, <1>2, <1>7 DEF ReloadClient, SwitchSteps
  <2>2. client' \in Clusters \cup {None}
    BY <1>7, ActiveTypes DEF ReloadClient, Typed, TypeOK
  <2> QED
    BY <1>0, <1>7, <2>1, <2>2 DEF ReloadClient, Typed, TypeOK
<1>8. ASSUME ApplyContext(w) PROVE Typed'
  <2>1. JobsOK
    BY <1>1, <1>2, <1>8 DEF ApplyContext, SwitchSteps
  <2>2. client' \in Clusters \cup {None}
    BY <1>8, ConnectionAssumption DEF ApplyContext, Typed, TypeOK
  <2> QED
    BY <1>0, <1>8, <2>1, <2>2 DEF ApplyContext, Typed, TypeOK
<1>9. ASSUME InvalidateClusterID(w) PROVE Typed'
  <2>1. JobsOK
    BY <1>0, <1>2, <1>9 DEF InvalidateClusterID, SwitchSteps, Job
  <2> QED
    BY <1>0, <1>9, <2>1 DEF InvalidateClusterID, Typed, TypeOK
<1>10. ASSUME SetContext(w) PROVE Typed'
  <2>1. JobsOK
    BY <1>2, <1>10 DEF SetContext, SwitchSteps
  <2> QED
    BY <1>0, <1>10, <2>1 DEF SetContext, At, Carries, Typed, TypeOK
<1>11. ASSUME RecordActiveCluster(w) PROVE Typed'
  <2>1. JobsOK
    BY <1>1, <1>11 DEF RecordActiveCluster
  <2>2. job[w].id \in Clusters /\ job[w].alone \in BOOLEAN
    BY <1>0, <1>11 DEF RecordActiveCluster, At, Carries, Job
  <2> DEFINE e == [name |-> ActiveContextName, led |-> InitClient(saved, env),
                   alone |-> job[w].alone]
  <2>3. e \in Entry
    BY <2>2, ActiveTypes DEF Entry, Typed, TypeOK, ActiveContextName
  <2>4. registry' = [registry EXCEPT ![job[w].id] = e]
    BY <1>11 DEF RecordActiveCluster
  <2>5. registry' \in [Clusters -> {None} \cup Entry]
    BY <2>2, <2>3, <2>4 DEF Typed
  <2>6. \A c \in Clusters : registry'[c] = None \/ registry'[c].name \in Contexts
    BY <2>5 DEF Entry
  <2> QED
    BY <1>11, <2>1, <2>2, <2>5, <2>6 DEF RecordActiveCluster, Typed, TypeOK
<1> QED
  BY <1>3, <1>4, <1>5, <1>6, <1>7, <1>8, <1>9, <1>10, <1>11 DEF Switch

\* Every step of a request on the active cluster keeps the types.
LEMMA TypedWork ==
  ASSUME Typed, NEW u \in Users, Work(u)
  PROVE  Typed'
<1>0. u \in Workers /\ u \notin Switchers /\ job[u] \in Job /\ Carries(job[u])
  BY ConnectionAssumption DEF Workers, Typed
<1>1. Done(u) => /\ job' \in [Workers -> Job]
                 /\ \A v \in Workers : Carries(job'[v])
                 /\ \A v \in Switchers : job'[v].at \notin {"label", "use"}
                 /\ \A v \in Users : job'[v].at \in {"idle", "label"} \cup UserSteps
  BY <1>0, IdleJob, OneJob DEF Done
<1>2. ASSUME Request(u) PROVE Typed'
  <2> DEFINE r == [Idle EXCEPT !.at = "record", !.alone = ~ Underway]
  <2>1. job' = [job EXCEPT ![u] = r]
    BY <1>2 DEF Request
  <2>2. r \in Job /\ Carries(r) /\ r.at = "record"
    BY DEF Idle, Job, Carries, SwitchSteps
  <2> QED
    BY <1>0, <1>2, <2>1, <2>2, OneJob, ConnectionAssumption
    DEF Request, Start, Typed, TypeOK, UserSteps
<1>3. ASSUME Use(u) PROVE Typed'
  <2>1. job[u].id \in Clusters /\ job[u].alone \in BOOLEAN
    BY <1>0, <1>3 DEF Use, At, Carries, Job
  <2>2. rows' \subseteq [id : Clusters, on : Clusters, quiet : BOOLEAN]
    BY <1>3, <2>1 DEF Use, Typed, TypeOK
  <2> QED
    BY <1>1, <1>3, <2>2 DEF Use, Typed, TypeOK
<1>4. ASSUME Labelled(u) PROVE Typed'
  <2>1. job[u].from \in Clusters /\ job[u].ctx \in Contexts
    BY <1>0, <1>4 DEF Labelled, At, Carries
  <2>2. memo' \in [Contexts -> Clusters \cup {None}]
    BY <1>4, <2>1 DEF Labelled, Typed, TypeOK
  <2> QED
    BY <1>1, <1>4, <2>2 DEF Labelled, Typed, TypeOK
<1>5. ASSUME NEW c \in Contexts, LabelContext(u, c) PROVE Typed'
  <2> DEFINE r == [Idle EXCEPT !.at = "label", !.ctx = c, !.from = saved.leads[c]]
  <2>1. job' = [job EXCEPT ![u] = r]
    BY <1>5 DEF LabelContext
  <2>2. saved.leads[c] \in Clusters
    BY <1>5, ConnectionAssumption DEF LabelContext, Typed, TypeOK
  <2>3. r \in Job /\ Carries(r) /\ r.at = "label"
    BY <2>2 DEF Idle, Job, Carries
  <2> QED
    BY <1>0, <1>5, <2>1, <2>3, OneJob, ConnectionAssumption
    DEF LabelContext, Start, Typed, TypeOK
<1> QED
  BY <1>2, <1>3, <1>4, <1>5 DEF Work

\* Asking for the id of the active cluster keeps the types.
LEMMA TypedAsk ==
  ASSUME Typed, NEW w \in Workers, CurrentClusterID(w) \/ Answer(w) \/ NoAnswer(w)
  PROVE  Typed'
<1>0. job[w] \in Job /\ Carries(job[w])
  BY DEF Typed
<1> DEFINE JobsOK == /\ job' \in [Workers -> Job]
                     /\ \A v \in Workers : Carries(job'[v])
                     /\ \A v \in Switchers : job'[v].at \notin {"label", "use"}
                     /\ \A u \in Users : job'[u].at \in {"idle", "label"} \cup UserSteps
<1>1. Done(w) => JobsOK
  BY <1>0, IdleJob, OneJob DEF Done
<1>2. /\ After(w) \in {"use", "name"}
      /\ w \in Switchers => After(w) = "name"
      /\ w \in Users => After(w) = "use"
  BY ConnectionAssumption DEF After
<1>3. ASSUME CurrentClusterID(w) PROVE Typed'
  <2>1. CASE cache # None /\ job' = [job EXCEPT ![w].at = After(w), ![w].id = cache,
                                                ![w].alone = @ /\ ~ tainted]
    <3> DEFINE r == [job[w] EXCEPT !.at = After(w), !.id = cache,
                                   !.alone = @ /\ ~ tainted]
    <3>1. job' = [job EXCEPT ![w] = r]
      BY <2>1
    <3> DEFINE b == job[w].alone /\ ~ tainted
    <3>2. b \in BOOLEAN /\ cache \in Clusters
      BY <2>1 DEF Typed, TypeOK
    <3>3. r = [job[w] EXCEPT !.at = After(w), !.id = cache, !.alone = b]
      OBVIOUS
    <3> HIDE DEF b, r
    <3>4. r \in Job /\ Carries(r) /\ r.at = After(w)
      BY <1>0, <1>2, <3>2, <3>3 DEF Job, Carries, SwitchSteps
    <3>5. JobsOK
      BY <1>2, <3>1, <3>4, OneJob DEF UserSteps
    <3> QED
      BY <1>3, <3>5 DEF CurrentClusterID, Typed, TypeOK
  <2>2. CASE client # None /\ job' = [job EXCEPT ![w].at = "ask", ![w].from = client]
    <3> DEFINE r == [job[w] EXCEPT !.at = "ask", !.from = client]
    <3>1. job' = [job EXCEPT ![w] = r]
      BY <1>0, <2>2 DEF Typed, Job
    <3>2. r \in Job /\ Carries(r) /\ r.at = "ask"
      BY <1>0, <2>2 DEF Job, Carries, SwitchSteps, Typed, TypeOK
    <3>3. JobsOK
      BY <3>1, <3>2, OneJob DEF UserSteps
    <3> QED
      BY <1>3, <3>3 DEF CurrentClusterID, Typed, TypeOK
  <2>3. CASE Done(w)
    BY <1>1, <1>3, <2>3 DEF CurrentClusterID, Typed, TypeOK
  <2> QED
    BY <1>3, <2>1, <2>2, <2>3 DEF CurrentClusterID
<1>4. ASSUME Answer(w) PROVE Typed'
  <2> DEFINE r == [job[w] EXCEPT !.at = After(w), !.id = job[w].from]
  <2>1. job' = [job EXCEPT ![w] = r]
    BY <1>0, <1>4 DEF Answer, Typed, Job
  <2>2. r \in Job /\ Carries(r) /\ r.at = After(w) /\ job[w].from \in Clusters
    BY <1>0, <1>2, <1>4 DEF Answer, At, Job, Carries, SwitchSteps
  <2>3. JobsOK
    BY <1>2, <2>1, <2>2, OneJob DEF UserSteps
  <2> QED
    BY <1>4, <2>2, <2>3 DEF Answer, Typed, TypeOK
<1>5. ASSUME NoAnswer(w) PROVE Typed'
  BY <1>1, <1>5 DEF NoAnswer, Typed, TypeOK
<1> QED
  BY <1>3, <1>4, <1>5

\* A restart keeps the types.
LEMMA TypedRestart ==
  ASSUME Typed, Restart
  PROVE  Typed'
<1>1. client' \in Clusters \cup {None}
  BY ActiveTypes DEF Restart, Typed, TypeOK
<1>2. job' \in [Workers -> Job] /\ \A w \in Workers : job'[w] = Idle
  BY IdleJob DEF Restart
<1>3. TypeOK'
  BY <1>1, ConnectionAssumption DEF Restart, Typed, TypeOK
<1> QED
  BY <1>2, <1>3, IdleJob DEF Restart, Typed, Workers, UserSteps

\* Every step keeps the types.
LEMMA TypedNext == Typed /\ [Next]_vars => Typed'
<1> SUFFICES ASSUME Typed, [Next]_vars PROVE Typed'
  OBVIOUS
<1>1. CASE UNCHANGED vars
  BY <1>1 DEF vars, Typed, TypeOK
<1> QED
  BY <1>1, TypedSwitch, TypedWork, TypedAsk, TypedRestart DEF Next

----------------------------------------------------------------------------
(* The steps of a switch.                                                   *)

\* Saving the kubeconfig keeps the invariant.
LEMMA SaveKubeconfigKeeps ==
  ASSUME Typed, Typed', Rest, NEW w \in Switchers, SaveKubeconfig(w)
  PROVE  Rest'
<1>0. /\ w \in Workers /\ w \notin Users /\ job[w] \in Job
      /\ Users \subseteq Workers /\ Switchers \subseteq Workers
  BY ConnectionAssumption DEF Workers, Typed
<1>1. /\ \A v \in Workers : v # w => job'[v] = job[v]
      /\ job[w].at = "load" /\ job'[w].at = "unset"
      /\ job'[w].at # "idle" =>
           /\ job'[w].ctx = job[w].ctx /\ job'[w].from = job[w].from
           /\ job'[w].id = job[w].id /\ job'[w].alone = job[w].alone
  BY <1>0 DEF SaveKubeconfig, Go, At, Typed, Job, Idle
<1>2. Overlapping'
  BY <1>0, <1>1 DEF SaveKubeconfig, Rest, Overlapping, Switching
<1>3. Undisturbed'
  BY <1>0, <1>1 DEF SaveKubeconfig, Rest, Undisturbed, Underway, Switching, UserSteps
<1>4. UserFacts'
  BY <1>0, <1>1 DEF SaveKubeconfig, Rest, UserFacts, Undisturbed, Underway, Switching, UserSteps
<1>5. SwitchFacts'
  BY <1>0, <1>1 DEF SaveKubeconfig, Rest, SwitchFacts, Clear, Follows, Overlapping, Switching
<1>6. CachedIDIsActive'
  BY <1>0, <1>1 DEF SaveKubeconfig, Rest, IDsOfTheirCluster, CachedIDIsActive, Dropping, At
<1>7. RowsOfTheirCluster'
  BY DEF SaveKubeconfig, Rest, IDsOfTheirCluster, RowsOfTheirCluster
<1>8. ContextIsActive'
  BY <1>0, <1>1 DEF SaveKubeconfig, Rest, ContextIsActive, SwitchFacts, Clear, Follows, Underway,
     Switching, Overlapping
<1>9. RecordedUnderItsContext'
  BY <1>0, <1>1 DEF SaveKubeconfig, Rest, RecordedUnderItsContext, SwitchFacts, Clear, Follows
<1> QED
  BY <1>2, <1>3, <1>4, <1>5, <1>6, <1>7, <1>8, <1>9 DEF Rest, IDsOfTheirCluster

\* Unsetting KUBE_CONTEXT keeps the invariant.
LEMMA UnsetContextKeeps ==
  ASSUME Typed, Typed', Rest, NEW w \in Switchers, UnsetContext(w)
  PROVE  Rest'
<1>0. /\ w \in Workers /\ w \notin Users /\ job[w] \in Job
      /\ Users \subseteq Workers /\ Switchers \subseteq Workers
  BY ConnectionAssumption DEF Workers, Typed
<1>1. /\ \A v \in Workers : v # w => job'[v] = job[v]
      /\ job[w].at = "unset" /\ job'[w].at = "init"
      /\ job'[w].at # "idle" =>
           /\ job'[w].ctx = job[w].ctx /\ job'[w].from = job[w].from
           /\ job'[w].id = job[w].id /\ job'[w].alone = job[w].alone
  BY <1>0 DEF UnsetContext, Go, At, Typed, Job, Idle
<1>2. Overlapping'
  BY <1>0, <1>1 DEF UnsetContext, Rest, Overlapping, Switching
<1>3. Undisturbed'
  BY <1>0, <1>1 DEF UnsetContext, Rest, Undisturbed, Underway, Switching, UserSteps
<1>4. UserFacts'
  BY <1>0, <1>1 DEF UnsetContext, Rest, UserFacts, Undisturbed, Underway, Switching, UserSteps
<1>5. SwitchFacts'
  BY <1>0, <1>1 DEF UnsetContext, Rest, SwitchFacts, Clear, Follows, Overlapping, Switching
<1>6. CachedIDIsActive'
  BY <1>0, <1>1 DEF UnsetContext, Rest, IDsOfTheirCluster, CachedIDIsActive, Dropping, At
<1>7. RowsOfTheirCluster'
  BY DEF UnsetContext, Rest, IDsOfTheirCluster, RowsOfTheirCluster
<1>8. ContextIsActive'
  BY <1>0, <1>1 DEF UnsetContext, Rest, ContextIsActive, SwitchFacts, Clear, Follows, Underway,
     Switching, Overlapping
<1>9. RecordedUnderItsContext'
  BY <1>0, <1>1 DEF UnsetContext, Rest, RecordedUnderItsContext, SwitchFacts, Clear, Follows
<1> QED
  BY <1>2, <1>3, <1>4, <1>5, <1>6, <1>7, <1>8, <1>9 DEF Rest, IDsOfTheirCluster

\* Making the clients anew keeps the invariant.
LEMMA ReloadClientKeeps ==
  ASSUME Typed, Typed', Rest, NEW w \in Switchers, ReloadClient(w)
  PROVE  Rest'
<1>0. /\ w \in Workers /\ w \notin Users /\ job[w] \in Job
      /\ Users \subseteq Workers /\ Switchers \subseteq Workers
  BY ConnectionAssumption DEF Workers, Typed
<1>1. /\ \A v \in Workers : v # w => job'[v] = job[v]
      /\ job[w].at = "init" /\ job'[w].at = IF client' = None THEN "idle" ELSE "drop"
      /\ job'[w].at # "idle" =>
           /\ job'[w].ctx = job[w].ctx /\ job'[w].from = job[w].from
           /\ job'[w].id = job[w].id /\ job'[w].alone = job[w].alone
  BY <1>0 DEF ReloadClient, Go, Done, At, Typed, Job, Idle
<1>2. Overlapping'
  BY <1>0, <1>1 DEF ReloadClient, Rest, Overlapping, Switching
<1>3. Undisturbed'
  BY <1>0, <1>1 DEF ReloadClient, Rest, Undisturbed, Underway, Switching, UserSteps
<1>4. UserFacts'
  BY <1>0, <1>1 DEF ReloadClient, Rest, UserFacts, Undisturbed, Underway, Switching, UserSteps
<1>5. SwitchFacts'
  <2> SUFFICES ASSUME NEW v \in Switchers PROVE SwitchFacts!(v)'
    BY DEF SwitchFacts
  <2>1. CASE v = w
    <3>1. Carries(job[w])
      BY <1>0 DEF Typed
    <3> QED
      BY <1>0, <1>1, <2>1, <3>1, ConnectionAssumption DEF ReloadClient, Carries, Follows
  <2>2. CASE v # w
    <3>1. Switching(v) => ~ Clear(v) /\ mixed
      BY <1>1, <2>2 DEF Rest, Overlapping, Switching, Clear
    <3> QED
      BY <1>0, <1>1, <2>2, <3>1 DEF ReloadClient, Clear, Switching
  <2> QED
    BY <2>1, <2>2
<1>6. CachedIDIsActive'
  BY <1>0, <1>1 DEF ReloadClient, Rest, IDsOfTheirCluster, CachedIDIsActive, Dropping, At
<1>7. RowsOfTheirCluster'
  BY DEF ReloadClient, Rest, IDsOfTheirCluster, RowsOfTheirCluster
<1>8. ContextIsActive'
  BY <1>0, <1>1 DEF ReloadClient, Rest, ContextIsActive, SwitchFacts, Clear, Follows, Underway,
     Switching, Overlapping
<1>9. RecordedUnderItsContext'
  BY <1>0, <1>1 DEF ReloadClient, Rest, RecordedUnderItsContext, SwitchFacts, Clear, Follows
<1> QED
  BY <1>2, <1>3, <1>4, <1>5, <1>6, <1>7, <1>8, <1>9 DEF Rest, IDsOfTheirCluster

\* Making the clients of a context keeps the invariant.
LEMMA ApplyContextKeeps ==
  ASSUME Typed, Typed', Rest, NEW w \in Switchers, ApplyContext(w)
  PROVE  Rest'
<1>0. /\ w \in Workers /\ w \notin Users /\ job[w] \in Job
      /\ Users \subseteq Workers /\ Switchers \subseteq Workers
  BY ConnectionAssumption DEF Workers, Typed
<1>1. /\ \A v \in Workers : v # w => job'[v] = job[v]
      /\ job[w].at = "apply" /\ job'[w].at = IF job[w].ctx \in DOMAIN saved.leads THEN "drop" ELSE "idle"
      /\ job'[w].at # "idle" =>
           /\ job'[w].ctx = job[w].ctx /\ job'[w].from = job[w].from
           /\ job'[w].id = job[w].id /\ job'[w].alone = job[w].alone
  BY <1>0 DEF ApplyContext, Go, Done, At, Typed, Job, Idle
<1>2. Overlapping'
  BY <1>0, <1>1 DEF ApplyContext, Rest, Overlapping, Switching
<1>3. Undisturbed'
  BY <1>0, <1>1 DEF ApplyContext, Rest, Undisturbed, Underway, Switching, UserSteps
<1>4. UserFacts'
  BY <1>0, <1>1 DEF ApplyContext, Rest, UserFacts, Undisturbed, Underway, Switching, UserSteps
<1>5. SwitchFacts'
  <2> SUFFICES ASSUME NEW v \in Switchers PROVE SwitchFacts!(v)'
    BY DEF SwitchFacts
  <2>1. CASE v = w
    <3>1. Carries(job[w])
      BY <1>0 DEF Typed
    <3> QED
      BY <1>0, <1>1, <2>1, <3>1, ConnectionAssumption DEF ApplyContext, Carries, Follows
  <2>2. CASE v # w
    <3>1. Switching(v) => ~ Clear(v) /\ mixed
      BY <1>1, <2>2 DEF Rest, Overlapping, Switching, Clear
    <3> QED
      BY <1>0, <1>1, <2>2, <3>1 DEF ApplyContext, Clear, Switching
  <2> QED
    BY <2>1, <2>2
<1>6. CachedIDIsActive'
  BY <1>0, <1>1 DEF ApplyContext, Rest, IDsOfTheirCluster, CachedIDIsActive, Dropping, At
<1>7. RowsOfTheirCluster'
  BY DEF ApplyContext, Rest, IDsOfTheirCluster, RowsOfTheirCluster
<1>8. ContextIsActive'
  BY <1>0, <1>1 DEF ApplyContext, Rest, ContextIsActive, SwitchFacts, Clear, Follows, Underway,
     Switching, Overlapping
<1>9. RecordedUnderItsContext'
  BY <1>0, <1>1 DEF ApplyContext, Rest, RecordedUnderItsContext, SwitchFacts, Clear, Follows
<1> QED
  BY <1>2, <1>3, <1>4, <1>5, <1>6, <1>7, <1>8, <1>9 DEF Rest, IDsOfTheirCluster

\* Dropping the cached id keeps the invariant.
LEMMA InvalidateClusterIDKeeps ==
  ASSUME Typed, Typed', Rest, NEW w \in Switchers, InvalidateClusterID(w)
  PROVE  Rest'
<1>0. /\ w \in Workers /\ w \notin Users /\ job[w] \in Job
      /\ Users \subseteq Workers /\ Switchers \subseteq Workers
  BY ConnectionAssumption DEF Workers, Typed
<1>1. /\ \A v \in Workers : v # w => job'[v] = job[v]
      /\ job[w].at = "drop" /\ job'[w].at = IF job[w].ctx # None THEN "env" ELSE "record"
      /\ job'[w].at # "idle" =>
           /\ job'[w].ctx = job[w].ctx /\ job'[w].from = job[w].from
           /\ job'[w].id = job[w].id /\ job'[w].alone = job[w].alone
  BY <1>0 DEF InvalidateClusterID, Go, At, Typed, Job, Idle
<1>2. Overlapping'
  BY <1>0, <1>1 DEF InvalidateClusterID, Rest, Overlapping, Switching
<1>3. Undisturbed'
  BY <1>0, <1>1 DEF InvalidateClusterID, Rest, Undisturbed, Underway, Switching, UserSteps
<1>4. UserFacts'
  BY <1>0, <1>1 DEF InvalidateClusterID, Rest, UserFacts, Undisturbed, Underway, Switching,
     UserSteps
<1>5. SwitchFacts'
  BY <1>0, <1>1 DEF InvalidateClusterID, Rest, SwitchFacts, Clear, Follows, Overlapping, Switching
<1>6. CachedIDIsActive'
  BY <1>0, <1>1 DEF InvalidateClusterID, Rest, IDsOfTheirCluster, CachedIDIsActive, Dropping, At
<1>7. RowsOfTheirCluster'
  BY DEF InvalidateClusterID, Rest, IDsOfTheirCluster, RowsOfTheirCluster
<1>8. ContextIsActive'
  BY <1>0, <1>1 DEF InvalidateClusterID, Rest, ContextIsActive, SwitchFacts, Clear, Follows,
     Underway,
     Switching, Overlapping
<1>9. RecordedUnderItsContext'
  BY <1>0, <1>1 DEF InvalidateClusterID, Rest, RecordedUnderItsContext, SwitchFacts, Clear,
     Follows
<1> QED
  BY <1>2, <1>3, <1>4, <1>5, <1>6, <1>7, <1>8, <1>9 DEF Rest, IDsOfTheirCluster

\* Setting KUBE_CONTEXT keeps the invariant.
LEMMA SetContextKeeps ==
  ASSUME Typed, Typed', Rest, NEW w \in Switchers, SetContext(w)
  PROVE  Rest'
<1>0. /\ w \in Workers /\ w \notin Users /\ job[w] \in Job
      /\ Users \subseteq Workers /\ Switchers \subseteq Workers
  BY ConnectionAssumption DEF Workers, Typed
<1>1. /\ \A v \in Workers : v # w => job'[v] = job[v]
      /\ job[w].at = "env" /\ job'[w].at = "record"
      /\ job'[w].at # "idle" =>
           /\ job'[w].ctx = job[w].ctx /\ job'[w].from = job[w].from
           /\ job'[w].id = job[w].id /\ job'[w].alone = job[w].alone
  BY <1>0 DEF SetContext, Go, At, Typed, Job, Idle
<1>2. Overlapping'
  BY <1>0, <1>1 DEF SetContext, Rest, Overlapping, Switching
<1>3. Undisturbed'
  BY <1>0, <1>1 DEF SetContext, Rest, Undisturbed, Underway, Switching, UserSteps
<1>4. UserFacts'
  BY <1>0, <1>1 DEF SetContext, Rest, UserFacts, Undisturbed, Underway, Switching, UserSteps
<1>5. SwitchFacts'
  <2> SUFFICES ASSUME NEW v \in Switchers PROVE SwitchFacts!(v)'
    BY DEF SwitchFacts
  <2>1. CASE v = w
    <3>1. job[w].ctx \in Contexts /\ job[w].ctx # None
      BY <1>0, <1>1, ConnectionAssumption DEF Typed, Carries
    <3>2. Clear(w) => InitClient(saved, job[w].ctx) = client /\ client # None
      BY <1>1, <3>1, ConnectionAssumption
      DEF Rest, SwitchFacts, InitClient, ActiveIn, Typed, TypeOK
    <3> QED
      BY <1>0, <1>1, <2>1, <3>2 DEF SetContext, Clear, Follows
  <2>2. CASE v # w
    <3>1. Switching(v) => ~ Clear(v) /\ mixed
      BY <1>1, <2>2 DEF Rest, Overlapping, Switching, Clear
    <3> QED
      BY <1>0, <1>1, <2>2, <3>1 DEF SetContext, Clear, Switching
  <2> QED
    BY <2>1, <2>2
<1>6. CachedIDIsActive'
  BY <1>0, <1>1 DEF SetContext, Rest, IDsOfTheirCluster, CachedIDIsActive, Dropping, At
<1>7. RowsOfTheirCluster'
  BY DEF SetContext, Rest, IDsOfTheirCluster, RowsOfTheirCluster
<1>8. ContextIsActive'
  BY <1>0, <1>1 DEF SetContext, Rest, ContextIsActive, SwitchFacts, Clear, Follows, Underway,
     Switching, Overlapping
<1>9. RecordedUnderItsContext'
  BY <1>0, <1>1 DEF SetContext, Rest, RecordedUnderItsContext, SwitchFacts, Clear, Follows
<1> QED
  BY <1>2, <1>3, <1>4, <1>5, <1>6, <1>7, <1>8, <1>9 DEF Rest, IDsOfTheirCluster

\* Putting the cluster on record keeps the invariant.
LEMMA RecordActiveClusterKeeps ==
  ASSUME Typed, Typed', Rest, NEW w \in Switchers, RecordActiveCluster(w)
  PROVE  Rest'
<1>0. /\ w \in Workers /\ w \notin Users /\ job[w] \in Job
      /\ Users \subseteq Workers /\ Switchers \subseteq Workers
  BY ConnectionAssumption DEF Workers, Typed
<1>1. /\ \A v \in Workers : v # w => job'[v] = job[v]
      /\ job[w].at = "name" /\ job'[w].at = "idle"
      /\ job'[w].at # "idle" =>
           /\ job'[w].ctx = job[w].ctx /\ job'[w].from = job[w].from
           /\ job'[w].id = job[w].id /\ job'[w].alone = job[w].alone
  BY <1>0 DEF RecordActiveCluster, Done, At, Typed, Job, Idle
<1>2. Overlapping'
  BY <1>0, <1>1 DEF RecordActiveCluster, Rest, Overlapping, Switching
<1>3. Undisturbed'
  BY <1>0, <1>1 DEF RecordActiveCluster, Rest, Undisturbed, Underway, Switching, UserSteps
<1>4. UserFacts'
  BY <1>0, <1>1 DEF RecordActiveCluster, Rest, UserFacts, Undisturbed, Underway, Switching,
     UserSteps
<1>5. SwitchFacts'
  <2>1. /\ SwitchFacts /\ Overlapping /\ UNCHANGED <<saved, env, client>>
        /\ mixed' = (mixed /\ ~ job[w].alone)
    BY DEF RecordActiveCluster, Rest
  <2>2. Follows' <=> Follows
    BY <2>1 DEF Follows, InitClient, ActiveIn
  <2>3. ASSUME NEW v \in Switchers, Switching(v)'
        PROVE  v # w /\ job'[v] = job[v] /\ Switching(v) /\ Switching(w)
    <3>1. v # w
      BY <1>1, <2>3 DEF Switching
    <3>2. job'[v] = job[v]
      BY <1>0, <1>1, <3>1
    <3> QED
      BY <1>1, <2>3, <3>1, <3>2 DEF Switching
  <2>4. ASSUME NEW v \in Switchers, Switching(v)'
        PROVE  mixed' /\ mixed /\ job'[v] = job[v] /\ (Clear(v)' <=> Clear(v))
    <3>1. v # w /\ job'[v] = job[v] /\ Switching(v) /\ Switching(w)
      BY <2>3, <2>4
    <3>2. mixed /\ ~ job[w].alone
      BY <2>1, <3>1 DEF Overlapping
    <3> QED
      BY <2>1, <3>1, <3>2 DEF Clear
  <2>5. ASSUME NEW v \in Switchers PROVE SwitchFacts!(v)'
    <3>1. CASE Switching(v)'
      BY <2>1, <2>2, <2>4, <3>1 DEF SwitchFacts
    <3>2. CASE ~ Switching(v)'
      BY <3>2 DEF Switching
    <3> QED
      BY <3>1, <3>2
  <2> QED
    BY <2>5 DEF SwitchFacts
<1>6. CachedIDIsActive'
  <2>1. CachedIDIsActive /\ UNCHANGED <<client, cache, tainted>>
    BY DEF RecordActiveCluster, Rest, IDsOfTheirCluster
  <2>2. ASSUME NEW v \in Switchers, job[v].at = "drop" PROVE job'[v].at = "drop"
    BY <1>0, <1>1, <2>2
  <2>3. Dropping => Dropping'
    BY <2>2 DEF Dropping, At
  <2> QED
    BY <2>1, <2>3 DEF CachedIDIsActive
<1>7. RowsOfTheirCluster'
  BY DEF RecordActiveCluster, Rest, IDsOfTheirCluster, RowsOfTheirCluster
<1>8. ContextIsActive'
  BY <1>0, <1>1 DEF RecordActiveCluster, Rest, ContextIsActive, SwitchFacts, Clear, Follows,
     Underway,
     Switching, Overlapping
<1>9. RecordedUnderItsContext'
  BY <1>0, <1>1 DEF RecordActiveCluster, Rest, RecordedUnderItsContext, SwitchFacts, Clear,
     Follows
<1> QED
  BY <1>2, <1>3, <1>4, <1>5, <1>6, <1>7, <1>8, <1>9 DEF Rest, IDsOfTheirCluster

\* A switch that begins keeps the invariant: from now on neither it nor the
\* others under way are alone, unless it is the only one.
LEMMA BeginKeeps ==
  ASSUME Typed, Typed', Rest, NEW w \in Switchers, NEW step \in {"apply", "load"},
         NEW c, NEW k, job[w] = Idle, Begin(w, step, c, k),
         UNCHANGED <<saved, env, client, cache, registry, rows, tainted>>
  PROVE  Rest'
<1> DEFINE others == {v \in Switchers \ {w} : Switching(v)}
<1>0. /\ w \in Workers /\ w \notin Users
      /\ Users \subseteq Workers /\ Switchers \subseteq Workers
  BY ConnectionAssumption DEF Workers
<1>1. ASSUME NEW v \in Workers, v # w
      PROVE  /\ job'[v].at = job[v].at
             /\ job'[v].at # "idle" => ~ job'[v].alone
  <2>1. job[v] \in Job /\ Carries(job[v])
    BY DEF Typed
  <2>2. CASE job[v] = Idle
    BY <1>1, <2>2, IdleJob DEF Begin
  <2>3. CASE job[v] # Idle
    <3>1. job'[v] = [job[v] EXCEPT !.alone = FALSE]
      BY <1>1, <2>3 DEF Begin
    <3> QED
      BY <2>1, <3>1 DEF Job
  <2> QED
    BY <2>2, <2>3
<1>2. job'[w].at = step /\ (job'[w].alone <=> others = {})
  BY <1>0 DEF Begin, Idle
<1>3. mixed' <=> (mixed \/ others # {})
  BY DEF Begin
<1>4. \A v \in Switchers : v # w => (Switching(v)' <=> Switching(v))
  BY <1>0, <1>1 DEF Switching
<1>5. Switching(w)' /\ ~ Switching(w)
  BY <1>2, IdleJob DEF Switching
<1>6. Overlapping'
  BY <1>0, <1>1, <1>2, <1>3, <1>4, <1>5 DEF Rest, Overlapping, Switching
<1>7. Undisturbed' /\ UserFacts'
  BY <1>0, <1>1 DEF Undisturbed, UserFacts, UserSteps
<1>8. ~ mixed' => ~ Underway /\ ~ mixed
  BY <1>3, <1>5 DEF Underway
<1>9. SwitchFacts'
  <2> SUFFICES ASSUME NEW v \in Switchers PROVE SwitchFacts!(v)'
    BY DEF SwitchFacts
  <2>1. CASE v = w
    BY <1>2, <1>8, <2>1 DEF Rest, ContextIsActive, Follows
  <2>2. CASE v # w
    <3>1. v \in Workers /\ (Switching(v) => v \in others)
      BY <1>0, <2>2
    <3> QED
      BY <1>1, <1>3, <2>2, <3>1 DEF Clear, Switching
  <2> QED
    BY <2>1, <2>2
<1>10. IDsOfTheirCluster'
  <2>1. Dropping' <=> Dropping
    BY <1>0, <1>1, <1>2, IdleJob DEF Dropping, At
  <2> QED
    BY <2>1 DEF Rest, IDsOfTheirCluster, CachedIDIsActive, RowsOfTheirCluster
<1>11. ContextIsActive' /\ RecordedUnderItsContext'
  BY <1>5 DEF Rest, ContextIsActive, Underway, RecordedUnderItsContext
<1> QED
  BY <1>6, <1>7, <1>9, <1>10, <1>11 DEF Rest

\* Every step of a switch keeps the invariant.
LEMMA SwitchKeeps ==
  ASSUME Typed, Typed', Rest, NEW w \in Switchers, Switch(w)
  PROVE  Rest'
<1>1. ASSUME NEW c \in Contexts, SetKubeContext(w, c) PROVE Rest'
  BY <1>1, BeginKeeps DEF SetKubeContext, Start
<1>2. ASSUME NEW k \in Kubeconfigs, LoadKubeConfig(w, k) PROVE Rest'
  BY <1>2, BeginKeeps DEF LoadKubeConfig, Start
<1> QED
  BY <1>1, <1>2, SaveKubeconfigKeeps, UnsetContextKeeps, ReloadClientKeeps,
     ApplyContextKeeps, InvalidateClusterIDKeeps, SetContextKeeps,
     RecordActiveClusterKeeps
  DEF Switch

----------------------------------------------------------------------------
(* The other requests.                                                      *)

\* A step of a request that leaves the connection and the cached id alone and
\* is no switch keeps what holds of the switches.
LEMMA UserStepKeeps ==
  ASSUME Typed, Typed', Rest, NEW u \in Users,
         \A v \in Workers : v # u => job'[v] = job[v],
         UNCHANGED <<saved, env, client, cache, registry, tainted, mixed>>
  PROVE  /\ Overlapping' /\ SwitchFacts' /\ CachedIDIsActive'
         /\ ContextIsActive' /\ RecordedUnderItsContext' /\ (Underway' <=> Underway)
<1>0. \A w \in Switchers : job'[w] = job[w]
  BY ConnectionAssumption DEF Workers
<1>1. \A w \in Switchers : Switching(w)' <=> Switching(w)
  BY <1>0 DEF Switching
<1>2. (Underway' <=> Underway) /\ (Dropping' <=> Dropping)
  BY <1>0, <1>1 DEF Underway, Dropping, At
<1>3. Overlapping'
  BY <1>0, <1>1 DEF Rest, Overlapping
<1>4. SwitchFacts'
  BY <1>0 DEF Rest, SwitchFacts, Clear, Follows
<1>5. CachedIDIsActive'
  BY <1>2 DEF Rest, IDsOfTheirCluster, CachedIDIsActive
<1>6. ContextIsActive' /\ RecordedUnderItsContext'
  BY <1>2 DEF Rest, ContextIsActive, RecordedUnderItsContext
<1> QED
  BY <1>2, <1>3, <1>4, <1>5, <1>6

\* Every step of a request on the active cluster keeps the invariant.
LEMMA WorkKeeps ==
  ASSUME Typed, Typed', Rest, NEW u \in Users, Work(u)
  PROVE  Rest'
<1>0. u \in Workers /\ job[u] \in Job /\ Users \subseteq Workers
  BY DEF Workers, Typed
<1>1. \A v \in Workers : v # u => job'[v] = job[v]
  BY DEF Work, Request, Use, Labelled, LabelContext, Done, Typed
<1>2. UNCHANGED <<saved, env, client, cache, registry, tainted, mixed>>
  BY DEF Work, Request, Use, Labelled, LabelContext
<1>3. /\ Overlapping' /\ SwitchFacts' /\ CachedIDIsActive'
      /\ ContextIsActive' /\ RecordedUnderItsContext' /\ (Underway' <=> Underway)
  BY <1>1, <1>2, UserStepKeeps
<1>4. /\ job'[u].at \in {"idle", "label", "record"}
      /\ job'[u].at = "record" => (job'[u].alone <=> ~ Underway)
  <2>1. CASE Request(u)
    <3>1. job'[u] = [Idle EXCEPT !.at = "record", !.alone = ~ Underway]
      BY <1>0, <2>1 DEF Request, Typed
    <3> QED
      BY <3>1 DEF Idle
  <2>2. CASE Use(u) \/ Labelled(u)
    BY <1>0, <2>2, IdleJob DEF Use, Labelled, Done, Typed
  <2>3. ASSUME NEW c \in Contexts, LabelContext(u, c) PROVE job'[u].at = "label"
    BY <1>0, <2>3 DEF LabelContext, Idle, Typed
  <2> QED
    BY <2>1, <2>2, <2>3 DEF Work
<1>5. Undisturbed' /\ UserFacts'
  BY <1>0, <1>1, <1>2, <1>3, <1>4 DEF Rest, Undisturbed, UserFacts, UserSteps
<1>6. RowsOfTheirCluster'
  <2>1. CASE Use(u)
    BY <2>1 DEF Use, At, Rest, UserFacts, IDsOfTheirCluster, RowsOfTheirCluster
  <2>2. CASE ~ Use(u)
    BY <2>2 DEF Work, Request, Labelled, LabelContext, Rest, IDsOfTheirCluster,
       RowsOfTheirCluster
  <2> QED
    BY <2>1, <2>2
<1> QED
  BY <1>3, <1>5, <1>6 DEF Rest, IDsOfTheirCluster

\* Asking for the id of the active cluster keeps the invariant.
LEMMA AskKeeps ==
  ASSUME Typed, Typed', Rest, NEW w \in Workers,
         CurrentClusterID(w) \/ Answer(w) \/ NoAnswer(w)
  PROVE  Rest'
<1>0. /\ job[w] \in Job /\ Users \subseteq Workers /\ Switchers \subseteq Workers
      /\ w \in Users \/ w \in Switchers
      /\ \A u \in Users : u \notin Switchers
  BY ConnectionAssumption DEF Workers, Typed
<1>1. \A v \in Workers : v # w => job'[v] = job[v]
  BY DEF CurrentClusterID, Answer, NoAnswer, Done, Typed
<1>2. UNCHANGED <<saved, env, client, registry, rows, mixed>>
  BY DEF CurrentClusterID, Answer, NoAnswer
<1>3. /\ job[w].at \in {"record", "ask"}
      /\ job'[w].at \in {"idle", "ask", After(w)}
      /\ job'[w].at # "idle" => /\ job'[w].alone => job[w].alone
                                /\ job'[w].ctx = job[w].ctx
  <2>1. ASSUME CurrentClusterID(w) PROVE <1>3!:
    BY <1>0, <2>1, IdleJob DEF CurrentClusterID, At, Done, Typed, Job
  <2>2. ASSUME Answer(w) PROVE <1>3!:
    BY <1>0, <2>2 DEF Answer, At, Typed, Job
  <2>3. ASSUME NoAnswer(w) PROVE <1>3!:
    BY <1>0, <2>3, IdleJob DEF NoAnswer, At, Done, Typed
  <2> QED
    BY <2>1, <2>2, <2>3
<1>4. After(w) = IF w \in Users THEN "use" ELSE "name"
  BY DEF After
<1>5. /\ \A v \in Switchers : Switching(v)' => Switching(v)
      /\ Dropping' <=> Dropping
  BY <1>0, <1>1, <1>3, <1>4 DEF Switching, Dropping, At
<1>6. Underway' => Underway
  BY <1>5 DEF Underway
<1>7. w \in Switchers => Switching(w) /\ Underway
  BY <1>3 DEF Switching, Underway
<1>8. ~ Dropping /\ ~ tainted /\ cache # None /\ client # None => cache = client
  BY DEF Rest, IDsOfTheirCluster, CachedIDIsActive
<1>9. job[w].alone => ~ Dropping
  <2>1. CASE w \in Users
    BY <1>3, <2>1 DEF Rest, Undisturbed, UserSteps, Underway, Switching, Dropping, At
  <2>2. CASE w \in Switchers
    BY <1>3, <1>7, <2>2 DEF Rest, Overlapping, Switching, Dropping, At
  <2> QED
    BY <1>0, <2>1, <2>2
\* What the request got is the id of the active cluster, if it is alone.
<1>10. job'[w].alone /\ client # None =>
         /\ job'[w].at = "ask" => job'[w].from = client
         /\ job'[w].at = After(w) => job'[w].id = client
  <2>1. ASSUME CurrentClusterID(w) PROVE <1>10!:
    <3>1. CASE cache # None /\ job' = [job EXCEPT ![w].at = After(w), ![w].id = cache,
                                                  ![w].alone = @ /\ ~ tainted]
      <4>1. /\ job'[w].at = After(w) /\ job'[w].id = cache
            /\ job'[w].alone => job[w].alone /\ ~ tainted
        BY <1>0, <3>1 DEF Typed, Job
      <4> QED
        BY <1>4, <1>8, <1>9, <3>1, <4>1
    <3>2. CASE job' = [job EXCEPT ![w].at = "ask", ![w].from = client]
      BY <1>0, <1>4, <3>2 DEF Typed, Job
    <3>3. CASE Done(w)
      BY <1>0, <1>4, <3>3, IdleJob DEF Done, Typed
    <3> QED
      BY <2>1, <3>1, <3>2, <3>3 DEF CurrentClusterID
  <2>2. ASSUME Answer(w) PROVE <1>10!:
    <3>1. /\ job[w].at = "ask" /\ job'[w].at = After(w)
          /\ job'[w].id = job[w].from /\ job'[w].alone = job[w].alone
      BY <1>0, <2>2 DEF Answer, At, Typed, Job
    <3> QED
      BY <1>0, <1>4, <3>1 DEF Rest, UserFacts, SwitchFacts
  <2>3. ASSUME NoAnswer(w) PROVE <1>10!:
    BY <1>0, <1>4, <2>3, IdleJob DEF NoAnswer, Done, Typed
  <2> QED
    BY <2>1, <2>2, <2>3
<1>11. Overlapping'
  BY <1>0, <1>1, <1>2, <1>3, <1>5 DEF Rest, Overlapping, Switching
<1>12. Undisturbed'
  BY <1>0, <1>1, <1>3, <1>4, <1>6 DEF Rest, Undisturbed, UserSteps
<1>13. UserFacts'
  BY <1>0, <1>1, <1>2, <1>4, <1>10 DEF Rest, UserFacts
<1>14. SwitchFacts'
  <2> SUFFICES ASSUME NEW v \in Switchers PROVE SwitchFacts!(v)'
    BY DEF SwitchFacts
  <2>1. CASE v # w
    BY <1>0, <1>1, <1>2, <2>1 DEF Rest, SwitchFacts, Clear, Follows
  <2>2. CASE v = w
    <3>1. Clear(w) => Follows /\ client # None
      BY <1>3, <2>2 DEF Rest, SwitchFacts
    <3>2. job'[w].at # "idle" /\ Clear(w)' => Clear(w)
      BY <1>2, <1>3 DEF Clear
    <3> QED
      BY <1>0, <1>2, <1>3, <1>4, <1>10, <2>2, <3>1, <3>2 DEF Follows, Clear
  <2> QED
    BY <2>1, <2>2
<1>15. CachedIDIsActive'
  <2>1. (cache' = cache /\ tainted' = tainted) \/ tainted' = (cache' # client)
    BY DEF CurrentClusterID, Answer, NoAnswer
  <2> QED
    BY <1>2, <1>5, <1>8, <2>1 DEF CachedIDIsActive
<1>16. ContextIsActive'
  <2>1. ~ Underway => Underway' = FALSE
    BY <1>6
  <2>2. CASE w \in Switchers
    BY <1>2, <1>3, <2>2 DEF Rest, SwitchFacts, Clear, Follows, ContextIsActive
  <2>3. CASE w \in Users
    <3>1. \A v \in Switchers : job'[v] = job[v]
      BY <1>0, <1>1, <2>3
    <3>2. Underway => Underway'
      BY <3>1 DEF Underway, Switching
    <3> QED
      BY <1>2, <3>2 DEF Rest, ContextIsActive
  <2> QED
    BY <1>0, <2>2, <2>3
<1>17. RowsOfTheirCluster' /\ RecordedUnderItsContext'
  BY <1>2 DEF Rest, IDsOfTheirCluster, RowsOfTheirCluster, RecordedUnderItsContext
<1> QED
  BY <1>11, <1>12, <1>13, <1>14, <1>15, <1>16, <1>17 DEF Rest, IDsOfTheirCluster

----------------------------------------------------------------------------
(* Theorems about the cluster connection.                                   *)

\* The invariant holds in the first state, and after every restart.
LEMMA RestInit == (Init => Rest) /\ (Typed /\ Rest /\ Restart => Rest')
<1>1. ASSUME Init PROVE Rest
  <2>1. \A w \in Workers : job[w] = Idle /\ ~ Switching(w) /\ job[w].at = "idle"
    BY <1>1, IdleJob DEF Init, Switching
  <2>2. Users \subseteq Workers /\ Switchers \subseteq Workers /\ env = None
    BY <1>1 DEF Workers, Init
  <2>3. Overlapping /\ Undisturbed /\ UserFacts /\ SwitchFacts
    BY <2>1, <2>2 DEF Overlapping, Undisturbed, UserFacts, SwitchFacts, UserSteps
  <2>4. IDsOfTheirCluster /\ ContextIsActive /\ RecordedUnderItsContext
    BY <1>1 DEF Init, IDsOfTheirCluster, CachedIDIsActive, RowsOfTheirCluster,
       ContextIsActive, RecordedUnderItsContext
  <2> QED
    BY <2>3, <2>4 DEF Rest
<1>2. ASSUME Typed, Rest, Restart PROVE Rest'
  <2>1. \A w \in Workers : job'[w] = Idle /\ Switching(w)' = FALSE /\ job'[w].at = "idle"
    BY <1>2, IdleJob DEF Restart, Switching
  <2>2. Users \subseteq Workers /\ Switchers \subseteq Workers
    BY DEF Workers
  <2>3. Overlapping' /\ Undisturbed' /\ UserFacts' /\ SwitchFacts'
    BY <2>1, <2>2 DEF Overlapping, Undisturbed, UserFacts, SwitchFacts, UserSteps
  <2>4. IDsOfTheirCluster' /\ ContextIsActive' /\ RecordedUnderItsContext'
    BY <1>2 DEF Restart, Rest, IDsOfTheirCluster, CachedIDIsActive, RowsOfTheirCluster,
       ContextIsActive, RecordedUnderItsContext
  <2> QED
    BY <2>3, <2>4 DEF Rest
<1> QED
  BY <1>1, <1>2

\* The invariant is inductive.
LEMMA ConnectionInvariant == Spec => [](Typed /\ Rest)
<1>1. Init => Typed /\ Rest
  BY TypedInit, RestInit
<1>2. Typed /\ Rest /\ [Next]_vars => (Typed /\ Rest)'
  <2> SUFFICES ASSUME Typed, Rest, [Next]_vars PROVE (Typed /\ Rest)'
    OBVIOUS
  <2>1. Typed'
    BY TypedNext
  <2>2. CASE UNCHANGED vars
    <3>1. Overlapping' /\ Undisturbed'
      BY <2>2 DEF vars, Rest, Overlapping, Undisturbed, Underway, Switching
    <3>2. UserFacts' /\ SwitchFacts'
      BY <2>2 DEF vars, Rest, UserFacts, SwitchFacts, Clear, Follows
    <3>3. IDsOfTheirCluster'
      BY <2>2 DEF vars, Rest, IDsOfTheirCluster, CachedIDIsActive, RowsOfTheirCluster,
         Dropping, At
    <3>4. ContextIsActive' /\ RecordedUnderItsContext'
      BY <2>2 DEF vars, Rest, Underway, Switching, ContextIsActive,
         RecordedUnderItsContext
    <3> QED
      BY <2>1, <3>1, <3>2, <3>3, <3>4 DEF Rest
  <2>3. CASE Next
    BY <2>1, <2>3, SwitchKeeps, WorkKeeps, AskKeeps, RestInit DEF Next
  <2> QED
    BY <2>1, <2>2, <2>3
<1> QED
  BY <1>1, <1>2, PTL DEF Spec

\* The id CurrentClusterID answers from its cache is the one of the cluster the
\* clients talk to, and a request no switch overlapped files its rows under the
\* id of the cluster it worked on, however switches, failed loads, restarts and
\* late answers interleave.
THEOREM IDsFollowTheCluster == Spec => []IDsOfTheirCluster
<1>1. Rest => IDsOfTheirCluster
  BY DEF Rest
<1> QED
  BY <1>1, ConnectionInvariant, PTL

\* The context shown as current leads to the cluster the clients talk to, and a
\* cluster is on record under a context that led to it, between switches that
\* did not overlap.
THEOREM ContextsFollowTheCluster == Spec => []ContextsOfTheirCluster
<1>1. Typed /\ Rest => ContextsOfTheirCluster
  BY DEF Typed, Rest, ContextsOfTheirCluster
<1> QED
  BY <1>1, ConnectionInvariant, PTL

----------------------------------------------------------------------------
(* Authentication.  Its workers, environment and requests are named apart    *)
(* from those of ClusterConnection.                                         *)

CONSTANTS
  Servers, Clients, Passwords, Sessions, Tokens, Names, IdleTimeout, Lifetime, LoginMaxAttempts,
  LoginWindow, Expiries, MaxClock

VARIABLES now, phase, given, stored, admin, session, token, attempt, call, issued, ended

Auth == INSTANCE Authentication WITH
  Workers <- Servers, Idle <- IdleTimeout, env <- given, job <- call

\* What the theorems assume of the parameters.
AuthParameters ==
  /\ Sessions \cap Tokens = {}
  /\ None \notin Sessions \cup Tokens \cup Passwords \cup Clients \cup Names
  /\ LoginWindow \in Nat /\ Expiries \subseteq Nat /\ IdleTimeout \in Nat /\ Lifetime \in Nat

----------------------------------------------------------------------------
(* Types.                                                                   *)

\* The stage of a request says what it carries.
AuthCarries(j) ==
  /\ j.pc = "password" => j.client \in Clients
  /\ j.pc = "create" => j.made \in Passwords
  /\ j.pc \in {"select", "check", "expire", "touch"} => j.cookie \in Sessions
  /\ j.pc = "insert" => j.name \in Names

Sound ==
  /\ Auth!TypeOK
  /\ \A w \in Servers : AuthCarries(call[w])
  /\ \A s \in Sessions : session[s] # None => s \in issued
  /\ \A t \in Tokens : token[t] # None => t \in issued

\* A request that has ended, and one that moves on, has the type of a request.
LEMMA FreeJob == Auth!Free \in Auth!Job /\ AuthCarries(Auth!Free)
  BY DEF Auth!Free, Auth!Job, Auth!States, AuthCarries

\* The first state is well-typed.
LEMMA AuthInit == Auth!Init => Sound
<1> SUFFICES ASSUME Auth!Init PROVE Sound
  OBVIOUS
<1>1. call \in [Servers -> Auth!Job] /\ \A w \in Servers : AuthCarries(call[w])
  BY FreeJob DEF Auth!Init
<1>2. Auth!TypeOK
  BY <1>1 DEF Auth!Init, Auth!TypeOK, Auth!NoAttempt
<1> QED
  BY <1>1, <1>2 DEF Auth!Init, Sound

\* A job replaced by a well-typed one leaves the jobs well-typed.
LEMMA AuthOneJob ==
  ASSUME Sound, NEW w \in Servers, NEW r, r \in Auth!Job, AuthCarries(r),
         call' = [call EXCEPT ![w] = r]
  PROVE  call' \in [Servers -> Auth!Job] /\ \A v \in Servers : AuthCarries(call'[v])
  BY DEF Sound, Auth!TypeOK

\* Every step of a request keeps the types.
LEMMA TypedStep ==
  ASSUME AuthParameters, Sound, NEW w \in Servers, Auth!Step(w)
  PROVE  Sound'
<1> USE DEF AuthParameters
<1>0. call \in [Servers -> Auth!Job] /\ AuthCarries(call[w]) /\ call[w] \in Auth!Job
  BY DEF Sound, Auth!TypeOK
<1>1. ASSUME NEW c \in Clients, Auth!Login(w, c) PROVE Sound'
  <2> DEFINE r == [Auth!Free EXCEPT !.pc = "password", !.client = c]
  <2>1. r \in Auth!Job /\ AuthCarries(r)
    BY DEF Auth!Free, Auth!Job, Auth!States, AuthCarries
  <2>2. call' \in [Servers -> Auth!Job] /\ \A v \in Servers : AuthCarries(call'[v])
    BY <1>1, <2>1, AuthOneJob DEF Auth!Login
  <2> QED
    BY <1>1, <2>2 DEF Auth!Login, Auth!process, Auth!tables, Sound, Auth!TypeOK
<1>2. CASE Auth!LoginUnparsed(w)
  <2>1. call' \in [Servers -> Auth!Job] /\ \A v \in Servers : AuthCarries(call'[v])
    BY <1>2, FreeJob, AuthOneJob DEF Auth!LoginUnparsed
  <2> QED
    BY <1>2, <2>1 DEF Auth!LoginUnparsed, Auth!process, Auth!tables, Sound, Auth!TypeOK
<1>3. CASE Auth!LoginSucceeds(w)
  <2> DEFINE r == [Auth!Free EXCEPT !.pc = "create", !.made = admin]
  <2>1. r \in Auth!Job /\ AuthCarries(r)
    BY <1>3 DEF Auth!Free, Auth!Job, Auth!States, AuthCarries, Auth!LoginSucceeds, Sound,
       Auth!TypeOK
  <2>2. call' \in [Servers -> Auth!Job] /\ \A v \in Servers : AuthCarries(call'[v])
    BY <1>3, <2>1, AuthOneJob DEF Auth!LoginSucceeds
  <2>3. attempt' \in [Clients -> [fails : Nat, resetAt : Nat]]
    BY <1>3 DEF Auth!LoginSucceeds, Auth!NoAttempt, Sound, Auth!TypeOK
  <2> QED
    BY <1>3, <2>2, <2>3 DEF Auth!LoginSucceeds, Auth!process, Auth!tables, Sound, Auth!TypeOK
<1>4. CASE Auth!CreateSession(w)
  <2>1. call' \in [Servers -> Auth!Job] /\ \A v \in Servers : AuthCarries(call'[v])
    BY <1>4, FreeJob, AuthOneJob DEF Auth!CreateSession
  <2>2. call[w].made \in Passwords
    BY <1>0, <1>4 DEF Auth!CreateSession, AuthCarries
  <2>3. ASSUME NEW s \in Sessions \ issued,
               session' = [session EXCEPT ![s] =
                             [made |-> call[w].made, created |-> now, seen |-> now]],
               issued' = issued \cup {s}
        PROVE  Sound'
    <3>1. session' \in [Sessions -> Auth!SessionRow \cup {None}]
      BY <2>2, <2>3 DEF Auth!SessionRow, Sound, Auth!TypeOK
    <3> QED
      BY <1>4, <2>1, <2>3, <3>1 DEF Auth!CreateSession, Auth!process, Sound, Auth!TypeOK
  <2>4. CASE UNCHANGED <<session, issued>>
    BY <1>4, <2>1, <2>4 DEF Auth!CreateSession, Auth!process, Sound, Auth!TypeOK
  <2> QED
    BY <1>4, <2>3, <2>4 DEF Auth!CreateSession
<1>5. ASSUME NEW p \in Passwords, Auth!LoginFails(w, p) PROVE Sound'
  <2>1. call' \in [Servers -> Auth!Job] /\ \A v \in Servers : AuthCarries(call'[v])
    BY <1>5, FreeJob, AuthOneJob DEF Auth!LoginFails
  <2>2. call[w].client \in Clients
    BY <1>0, <1>5 DEF Auth!LoginFails, AuthCarries
  <2>3. Auth!Fails(call[w].client) \in Nat
    BY <2>2 DEF Auth!Fails, Sound, Auth!TypeOK
  <2>4. attempt' \in [Clients -> [fails : Nat, resetAt : Nat]]
    BY <1>5, <2>3 DEF Auth!LoginFails, Auth!NoAttempt, Sound, Auth!TypeOK
  <2> QED
    BY <1>5, <2>1, <2>4 DEF Auth!LoginFails, Auth!process, Auth!tables, Sound, Auth!TypeOK
<1>6. ASSUME NEW s \in Sessions, Auth!Logout(w, s) PROVE Sound'
  BY <1>6 DEF Auth!Logout, Auth!process, Sound, Auth!TypeOK
<1>7. ASSUME NEW s \in Sessions \cup {None}, NEW t \in Tokens \cup {None}, Auth!Request(w, s, t)
      PROVE  Sound'
  <2> DEFINE r == [Auth!Free EXCEPT !.pc = IF s = None THEN "bearer" ELSE "select",
                               !.cookie = s, !.bearer = t, !.late = {s, t} \cap ended]
  <2>1. {s, t} \cap ended \in SUBSET (Sessions \cup Tokens)
    BY DEF Sound, Auth!TypeOK
  <2>2. r \in Auth!Job /\ AuthCarries(r)
    BY <2>1 DEF Auth!Free, Auth!Job, Auth!States, AuthCarries
  <2>3. call' \in [Servers -> Auth!Job] /\ \A v \in Servers : AuthCarries(call'[v])
    BY <1>7, <2>2, AuthOneJob DEF Auth!Request
  <2> QED
    BY <1>7, <2>3 DEF Auth!Request, Auth!process, Auth!tables, Sound, Auth!TypeOK
<1>8. CASE Auth!PasswordRequest(w)
  <2> DEFINE r == [Auth!Free EXCEPT !.pc = "admitted", !.by = "password"]
  <2>1. r \in Auth!Job /\ AuthCarries(r)
    BY DEF Auth!Free, Auth!Job, Auth!States, AuthCarries
  <2>2. call' \in [Servers -> Auth!Job] /\ \A v \in Servers : AuthCarries(call'[v])
    BY <1>8, <2>1, AuthOneJob DEF Auth!PasswordRequest
  <2> QED
    BY <1>8, <2>2 DEF Auth!PasswordRequest, Auth!process, Auth!tables, Sound, Auth!TypeOK
<1>9. CASE Auth!SelectSession(w)
  <2>1. call[w].cookie \in Sessions
    BY <1>0, <1>9 DEF Auth!SelectSession, AuthCarries
  <2>2. session[call[w].cookie] # None => session[call[w].cookie] \in Auth!SessionRow
    BY <2>1 DEF Sound, Auth!TypeOK
  <2>3. call' \in [Servers -> Auth!Job] /\ \A v \in Servers : AuthCarries(call'[v])
    <3> DEFINE r == [call[w] EXCEPT !.pc = "bearer"]
               q == [call[w] EXCEPT !.pc = "check", !.created = session[call[w].cookie].created,
                                   !.seen = session[call[w].cookie].seen]
    <3>1. r \in Auth!Job /\ AuthCarries(r)
      BY <1>0 DEF Auth!Job, Auth!States, AuthCarries
    <3>2. session[call[w].cookie] # None => q \in Auth!Job /\ AuthCarries(q)
      BY <1>0, <2>1, <2>2 DEF Auth!Job, Auth!States, Auth!SessionRow, AuthCarries
    <3>3. \/ call' = [call EXCEPT ![w] = r]
          \/ session[call[w].cookie] # None /\ call' = [call EXCEPT ![w] = q]
      BY <1>0, <1>9 DEF Auth!SelectSession
    <3> QED
      BY <3>1, <3>2, <3>3, AuthOneJob
  <2> QED
    BY <1>9, <2>3 DEF Auth!SelectSession, Auth!process, Auth!tables, Sound, Auth!TypeOK
<1>10. CASE Auth!CheckSession(w)
  <2>1. call' \in [Servers -> Auth!Job] /\ \A v \in Servers : AuthCarries(call'[v])
    <3> DEFINE r == [call[w] EXCEPT !.pc = IF Auth!Lapsed(call[w]) THEN "expire" ELSE "touch",
                                    !.at = now]
    <3>1. now \in Nat /\ call[w].pc = "check"
      BY <1>10 DEF Auth!CheckSession, Sound, Auth!TypeOK
    <3>a. call[w].cookie \in Sessions
      BY <1>0, <3>1 DEF AuthCarries
    <3> DEFINE next == IF Auth!Lapsed(call[w]) THEN "expire" ELSE "touch"
    <3>c. next \in {"expire", "touch"}
      OBVIOUS
    <3> HIDE DEF next
    <3>b. /\ [call[w] EXCEPT !.pc = next, !.at = now] \in Auth!Job
          /\ [call[w] EXCEPT !.pc = next, !.at = now].pc = next
          /\ [call[w] EXCEPT !.pc = next, !.at = now].cookie = call[w].cookie
      BY <1>0, <3>1, <3>c DEF Auth!Job, Auth!States
    <3>d. r = [call[w] EXCEPT !.pc = next, !.at = now]
      BY DEF next
    <3> HIDE DEF r
    <3>2. r \in Auth!Job /\ AuthCarries(r)
      BY <3>a, <3>b, <3>c, <3>d DEF AuthCarries
    <3>3. call' = [call EXCEPT ![w] = r]
      BY <1>0, <1>10 DEF Auth!CheckSession, r
    <3> QED
      BY <3>2, <3>3, AuthOneJob
  <2> QED
    BY <1>10, <2>1 DEF Auth!CheckSession, Auth!process, Auth!tables, Sound, Auth!TypeOK
<1>11. CASE Auth!ExpireSession(w)
  <2>1. call' \in [Servers -> Auth!Job] /\ \A v \in Servers : AuthCarries(call'[v])
    <3> DEFINE r == [call[w] EXCEPT !.pc = "bearer"]
    <3>1. now \in Nat /\ call[w].pc = "expire"
      BY <1>11 DEF Auth!ExpireSession, Sound, Auth!TypeOK
    <3>2. r \in Auth!Job /\ AuthCarries(r)
      BY <1>0, <3>1 DEF Auth!Job, Auth!States, AuthCarries
    <3>3. call' = [call EXCEPT ![w] = r]
      BY <1>0, <1>11 DEF Auth!ExpireSession
    <3> QED
      BY <3>2, <3>3, AuthOneJob
  <2>2. call[w].cookie \in Sessions
    BY <1>0, <1>11 DEF Auth!ExpireSession, AuthCarries
  <2> QED
    BY <1>11, <2>1, <2>2 DEF Auth!ExpireSession, Auth!process, Sound, Auth!TypeOK
<1>12. CASE Auth!TouchSession(w)
  <2>1. call' \in [Servers -> Auth!Job] /\ \A v \in Servers : AuthCarries(call'[v])
    <3> DEFINE r == [call[w] EXCEPT !.pc = "admitted", !.by = "session"]
    <3>1. now \in Nat /\ call[w].pc = "touch"
      BY <1>12 DEF Auth!TouchSession, Sound, Auth!TypeOK
    <3>2. r \in Auth!Job /\ AuthCarries(r)
      BY <1>0, <3>1 DEF Auth!Job, Auth!States, AuthCarries
    <3>3. call' = [call EXCEPT ![w] = r]
      BY <1>0, <1>12 DEF Auth!TouchSession
    <3> QED
      BY <3>2, <3>3, AuthOneJob
  <2>2. call[w].cookie \in Sessions /\ call[w].at \in Nat
    BY <1>0, <1>12 DEF Auth!TouchSession, AuthCarries, Auth!Job
  <2>3. Auth!Touched(call[w].cookie, call[w]) \in Auth!SessionRow \cup {None}
    BY <2>2 DEF Auth!Touched, Auth!SessionRow, Sound, Auth!TypeOK
  <2>4. session' \in [Sessions -> Auth!SessionRow \cup {None}]
    BY <1>12, <2>2, <2>3 DEF Auth!TouchSession, Sound, Auth!TypeOK
  <2>5. \A s \in Sessions : session'[s] # None => session[s] # None
    BY <1>12, <2>2 DEF Auth!TouchSession, Auth!Touched, Sound, Auth!TypeOK
  <2> QED
    BY <1>12, <2>1, <2>4, <2>5 DEF Auth!TouchSession, Auth!process, Sound, Auth!TypeOK
<1>13. CASE Auth!SelectToken(w)
  <2> DEFINE r == [call[w] EXCEPT !.pc = "admitted", !.by = "token"]
  <2>1. r \in Auth!Job
    BY <1>0 DEF Auth!Job, Auth!States
  <2>2. AuthCarries(r)
    BY <1>0 DEF Auth!Job, AuthCarries
  <2>3. call' = [call EXCEPT ![w] = r] \/ call' = [call EXCEPT ![w] = Auth!Free]
    BY <1>0, <1>13 DEF Auth!SelectToken
  <2>4. call' \in [Servers -> Auth!Job] /\ \A v \in Servers : AuthCarries(call'[v])
    BY <2>1, <2>2, <2>3, FreeJob, AuthOneJob
  <2> QED
    BY <1>13, <2>4 DEF Auth!SelectToken, Auth!process, Auth!tables, Sound, Auth!TypeOK
<1>14. CASE Auth!Handle(w)
  <2>1. call' \in [Servers -> Auth!Job] /\ \A v \in Servers : AuthCarries(call'[v])
    BY <1>14, FreeJob, AuthOneJob DEF Auth!Handle
  <2> QED
    BY <1>14, <2>1 DEF Auth!Handle, Auth!process, Auth!tables, Sound, Auth!TypeOK
<1>15. ASSUME NEW name \in Names, NEW days \in Expiries, Auth!CountNames(w, name, days)
       PROVE  Sound'
  <2> DEFINE e == IF days > 0 THEN now + days ELSE 0
  <2>1. e \in Nat
    BY DEF Sound, Auth!TypeOK
  <2> HIDE DEF e
  <2>2. [call[w] EXCEPT !.pc = "insert", !.name = name, !.exp = e] \in Auth!Job
    BY <1>0, <2>1 DEF Auth!Job, Auth!States
  <2>3. AuthCarries([call[w] EXCEPT !.pc = "insert", !.name = name, !.exp = e])
    BY <1>0, <2>1 DEF Auth!Job, Auth!States, AuthCarries
  <2>4. call' \in [Servers -> Auth!Job] /\ \A v \in Servers : AuthCarries(call'[v])
    <3>1. \/ call' = [call EXCEPT ![w] = Auth!Free]
          \/ call' = [call EXCEPT ![w] = [call[w] EXCEPT !.pc = "insert", !.name = name, !.exp = e]]
      BY <1>0, <1>15 DEF Auth!CountNames, e
    <3> QED
      BY <2>2, <2>3, <3>1, FreeJob, AuthOneJob
  <2> QED
    BY <1>15, <2>4 DEF Auth!CountNames, Auth!process, Auth!tables, Sound, Auth!TypeOK
<1>16. CASE Auth!InsertToken(w)
  <2>1. call' \in [Servers -> Auth!Job] /\ \A v \in Servers : AuthCarries(call'[v])
    BY <1>16, FreeJob, AuthOneJob DEF Auth!InsertToken
  <2>2. call[w].name \in Names /\ call[w].exp \in Nat
    BY <1>0, <1>16 DEF Auth!InsertToken, AuthCarries, Auth!Job
  <2>3. ASSUME NEW t \in Tokens \ issued,
               token' = [token EXCEPT ![t] = [name |-> call[w].name, exp |-> call[w].exp]],
               issued' = issued \cup {t}
        PROVE  Sound'
    <3>1. token' \in [Tokens -> Auth!TokenRow \cup {None}]
      BY <2>2, <2>3 DEF Auth!TokenRow, Sound, Auth!TypeOK
    <3> QED
      BY <1>16, <2>1, <2>3, <3>1 DEF Auth!InsertToken, Auth!process, Sound, Auth!TypeOK
  <2>4. CASE UNCHANGED <<token, issued>>
    BY <1>16, <2>1, <2>4 DEF Auth!InsertToken, Auth!process, Sound, Auth!TypeOK
  <2> QED
    BY <1>16, <2>3, <2>4 DEF Auth!InsertToken
<1>17. ASSUME NEW t \in Tokens, Auth!DeleteAPIToken(w, t) PROVE Sound'
  <2>1. call' \in [Servers -> Auth!Job] /\ \A v \in Servers : AuthCarries(call'[v])
    BY <1>17, FreeJob, AuthOneJob DEF Auth!DeleteAPIToken
  <2> QED
    BY <1>17, <2>1 DEF Auth!DeleteAPIToken, Auth!process, Sound, Auth!TypeOK
<1> QED
  BY <1>1, <1>2, <1>3, <1>4, <1>5, <1>6, <1>7, <1>8, <1>9, <1>10, <1>11, <1>12, <1>13, <1>14,
     <1>15, <1>16, <1>17 DEF Auth!Step

\* Every step keeps the types.
LEMMA AuthNext == ASSUME AuthParameters, Sound, [Auth!Next]_(Auth!vars) PROVE Sound'
<1>1. ASSUME NEW p \in Passwords \cup {None}, NEW d \in BOOLEAN, Auth!Boot(p, d) PROVE Sound'
  BY <1>1 DEF Auth!Boot, Auth!tables, Sound, Auth!TypeOK
<1>2. CASE Auth!ResolveAdminPassword
  BY <1>2 DEF Auth!ResolveAdminPassword, Auth!tables, Sound, Auth!TypeOK
<1>3. CASE Auth!ClearSessions
  BY <1>3 DEF Auth!ClearSessions, Auth!InvalidateAllSessions, Sound, Auth!TypeOK
<1>4. CASE Auth!Crash
  <2>1. call' \in [Servers -> Auth!Job] /\ \A v \in Servers : AuthCarries(call'[v])
    BY <1>4, FreeJob DEF Auth!Crash
  <2>2. attempt' \in [Clients -> [fails : Nat, resetAt : Nat]]
    BY <1>4 DEF Auth!Crash, Auth!NoAttempt
  <2> QED
    BY <1>4, <2>1, <2>2 DEF Auth!Crash, Auth!tables, Sound, Auth!TypeOK
<1>5. CASE Auth!Tick
  BY <1>5 DEF Auth!Tick, Auth!process, Auth!tables, Sound, Auth!TypeOK
<1>6. ASSUME NEW w \in Servers, Auth!Step(w) PROVE Sound'
  BY <1>6, TypedStep
<1>7. CASE UNCHANGED Auth!vars
  BY <1>7 DEF Auth!vars, Sound, Auth!TypeOK
<1> QED
  BY <1>1, <1>2, <1>3, <1>4, <1>5, <1>6, <1>7 DEF Auth!Next

----------------------------------------------------------------------------
(* Credentials that ended stay out.                                         *)

\* Of the requests, only w's moves, and nothing else does.
OneMoves(w) ==
  /\ UNCHANGED <<now, phase, given, stored, admin, session, token, issued, ended, attempt>>
  /\ \A v \in Servers : v # w => call'[v] = call[v]

\* A request with the password is let in.
LEMMA PasswordAdmits ==
  ASSUME Sound, NEW w \in Servers, Auth!PasswordRequest(w)
  PROVE  /\ OneMoves(w) /\ call[w].pc = "free" /\ Auth!Serving
         /\ call'[w].pc = "admitted" /\ call'[w].by = "password" /\ call'[w].late = {}
<1> DEFINE r == [Auth!Free EXCEPT !.pc = "admitted", !.by = "password"]
<1>1. call \in [Servers -> Auth!Job]
  BY DEF Sound, Auth!TypeOK
<1>2. r.pc = "admitted" /\ r.by = "password" /\ r.late = {}
  BY DEF Auth!Free
<1>3. call' = [call EXCEPT ![w] = r] /\ call[w].pc = "free" /\ Auth!Serving
  BY DEF Auth!PasswordRequest
<1>4. UNCHANGED <<now, phase, given, stored, admin, session, token, issued, ended, attempt>>
  BY DEF Auth!PasswordRequest, Auth!process, Auth!tables
<1> HIDE DEF r
<1> QED
  BY <1>1, <1>2, <1>3, <1>4 DEF OneMoves

\* The SELECT of a session finds its row, or the bearer token is tried next.
LEMMA SelectReads ==
  ASSUME Sound, NEW w \in Servers, Auth!SelectSession(w)
  PROVE  /\ OneMoves(w) /\ call[w].pc = "select" /\ call[w].cookie \in Sessions
         /\ call'[w].cookie = call[w].cookie /\ call'[w].late = call[w].late
         /\ \/ call'[w].pc = "bearer"
            \/ /\ session[call[w].cookie] # None /\ call'[w].pc = "check"
               /\ call'[w].created = session[call[w].cookie].created
<1> DEFINE c == session[call[w].cookie].created
           s == session[call[w].cookie].seen
           r == [call[w] EXCEPT !.pc = "bearer"]
           q == [call[w] EXCEPT !.pc = "check", !.created = c, !.seen = s]
<1>1. call \in [Servers -> Auth!Job] /\ call[w] \in Auth!Job /\ AuthCarries(call[w])
  BY DEF Sound, Auth!TypeOK
<1>2. call[w].pc = "select" /\ call[w].cookie \in Sessions
  BY <1>1 DEF Auth!SelectSession, AuthCarries
<1>3. \/ call' = [call EXCEPT ![w] = r]
      \/ session[call[w].cookie] # None /\ call' = [call EXCEPT ![w] = q]
  BY <1>1 DEF Auth!SelectSession
<1>4. UNCHANGED <<now, phase, given, stored, admin, session, token, issued, ended, attempt>>
  BY DEF Auth!SelectSession, Auth!process, Auth!tables
<1> HIDE DEF c, s
<1>5. /\ r.pc = "bearer" /\ r.cookie = call[w].cookie /\ r.late = call[w].late
      /\ q.pc = "check" /\ q.cookie = call[w].cookie /\ q.late = call[w].late /\ q.created = c
  BY <1>1 DEF Auth!Job
<1> HIDE DEF r, q
<1> QED
  BY <1>1, <1>2, <1>3, <1>4, <1>5 DEF OneMoves, c

\* A bearer token that has a row lets its request in; else the request is over.
LEMMA TokenReads ==
  ASSUME Sound, NEW w \in Servers, Auth!SelectToken(w)
  PROVE  /\ OneMoves(w) /\ call[w].pc = "bearer"
         /\ \/ /\ call'[w].pc = "free" /\ call'[w].by = "none" /\ call'[w].late = {}
            \/ /\ call[w].bearer \in Tokens /\ token[call[w].bearer] # None
               /\ call'[w].pc = "admitted" /\ call'[w].by = "token"
               /\ call'[w].bearer = call[w].bearer /\ call'[w].late = call[w].late
<1> DEFINE r == [call[w] EXCEPT !.pc = "admitted", !.by = "token"]
<1>1. call \in [Servers -> Auth!Job] /\ call[w] \in Auth!Job
  BY DEF Sound, Auth!TypeOK
<1>2. call[w].pc = "bearer"
  BY DEF Auth!SelectToken
<1>3. \/ call' = [call EXCEPT ![w] = Auth!Free]
      \/ /\ call[w].bearer # None /\ token[call[w].bearer] # None
         /\ call' = [call EXCEPT ![w] = r]
  BY <1>1 DEF Auth!SelectToken
<1>4. UNCHANGED <<now, phase, given, stored, admin, session, token, issued, ended, attempt>>
  BY DEF Auth!SelectToken, Auth!process, Auth!tables
<1>5. /\ Auth!Free.pc = "free" /\ Auth!Free.by = "none" /\ Auth!Free.late = {}
      /\ r.pc = "admitted" /\ r.by = "token" /\ r.bearer = call[w].bearer
      /\ r.late = call[w].late /\ call[w].bearer \in Tokens \cup {None}
  BY <1>1 DEF Auth!Job, Auth!Free
<1> HIDE DEF r
<1> QED
  BY <1>1, <1>2, <1>3, <1>4, <1>5 DEF OneMoves

\* A credential that ended has no row; a request knows the ones that had ended
\* when it began, and is past its SELECT only with a cookie that had not.
Out ==
  /\ \A s \in Sessions : s \in ended => session[s] = None
  /\ \A t \in Tokens : t \in ended => token[t] = None
  /\ \A w \in Servers : call[w].late \subseteq ended
  /\ \A w \in Servers : call[w].pc \in {"check", "expire", "touch"} =>
       call[w].cookie \notin call[w].late
  /\ Auth!EndedStaysOut

\* No step of a request lets an ended credential in.
LEMMA OutStep ==
  ASSUME AuthParameters, Sound, Out, NEW w \in Servers, Auth!Step(w)
  PROVE  Out'
<1> USE DEF AuthParameters, Auth!EndedStaysOut
<1>1. ASSUME NEW c \in Clients, Auth!Login(w, c) PROVE Out'
  BY <1>1 DEF Auth!Login, Auth!process, Auth!tables, Sound, Auth!TypeOK, AuthCarries,
     Auth!Job, Out, Auth!Free
<1>2. CASE Auth!LoginUnparsed(w)
  BY <1>2 DEF Auth!LoginUnparsed, Auth!process, Auth!tables, Sound, Auth!TypeOK, AuthCarries,
     Auth!Job, Out, Auth!Free
<1>3. CASE Auth!LoginSucceeds(w)
  BY <1>3 DEF Auth!LoginSucceeds, Auth!process, Auth!tables, Sound, Auth!TypeOK, AuthCarries,
     Auth!Job, Out, Auth!Free
<1>4. CASE Auth!CreateSession(w)
  BY <1>4 DEF Auth!CreateSession, Auth!process, Sound, Auth!TypeOK, AuthCarries, Auth!Job,
     Out, Auth!Free
<1>5. ASSUME NEW p \in Passwords, Auth!LoginFails(w, p) PROVE Out'
  BY <1>5 DEF Auth!LoginFails, Auth!process, Auth!tables, Sound, Auth!TypeOK, AuthCarries,
     Auth!Job, Out, Auth!Free
<1>6. ASSUME NEW s \in Sessions, Auth!Logout(w, s) PROVE Out'
  BY <1>6 DEF Auth!Logout, Auth!process, Sound, Auth!TypeOK, AuthCarries, Auth!Job, Out
<1>7. ASSUME NEW s \in Sessions \cup {None}, NEW t \in Tokens \cup {None}, Auth!Request(w, s, t)
      PROVE  Out'
  BY <1>7 DEF Auth!Request, Auth!process, Auth!tables, Sound, Auth!TypeOK, AuthCarries,
     Auth!Job, Out, Auth!Free
<1>8. CASE Auth!PasswordRequest(w)
  BY <1>8, PasswordAdmits DEF OneMoves, Out
<1>9. CASE Auth!SelectSession(w)
  BY <1>9, SelectReads DEF OneMoves, Out
<1>10. CASE Auth!CheckSession(w)
  BY <1>10 DEF Auth!CheckSession, Auth!process, Auth!tables, Sound, Auth!TypeOK, AuthCarries,
     Auth!Job, Out
<1>11. CASE Auth!ExpireSession(w)
  BY <1>11 DEF Auth!ExpireSession, Auth!process, Sound, Auth!TypeOK, AuthCarries, Auth!Job,
     Out
<1>12. CASE Auth!TouchSession(w)
  BY <1>12 DEF Auth!TouchSession, Auth!Touched, Auth!process, Sound, Auth!TypeOK,
     AuthCarries, Auth!Job, Out
<1>13. CASE Auth!SelectToken(w)
  BY <1>13, TokenReads DEF OneMoves, Out
<1>14. CASE Auth!Handle(w)
  BY <1>14 DEF Auth!Handle, Auth!process, Auth!tables, Sound, Auth!TypeOK, AuthCarries,
     Auth!Job, Out, Auth!Free
<1>15. ASSUME NEW name \in Names, NEW days \in Expiries, Auth!CountNames(w, name, days) PROVE Out'
  BY <1>15 DEF Auth!CountNames, Auth!process, Auth!tables, Sound, Auth!TypeOK, AuthCarries,
     Auth!Job, Out, Auth!Free
<1>16. CASE Auth!InsertToken(w)
  BY <1>16 DEF Auth!InsertToken, Auth!process, Sound, Auth!TypeOK, AuthCarries, Auth!Job,
     Out, Auth!Free
<1>17. ASSUME NEW t \in Tokens, Auth!DeleteAPIToken(w, t) PROVE Out'
  BY <1>17 DEF Auth!DeleteAPIToken, Auth!process, Sound, Auth!TypeOK, AuthCarries, Auth!Job,
     Out, Auth!Free
<1> QED
  BY <1>1, <1>2, <1>3, <1>4, <1>5, <1>6, <1>7, <1>8, <1>9, <1>10, <1>11, <1>12, <1>13,
     <1>14, <1>15, <1>16, <1>17 DEF Auth!Step

\* No step lets an ended credential in.
LEMMA OutNext == ASSUME AuthParameters, Sound, Out, [Auth!Next]_(Auth!vars) PROVE Out'
<1> USE DEF AuthParameters, Auth!EndedStaysOut
<1>1. ASSUME NEW p \in Passwords \cup {None}, NEW d \in BOOLEAN, Auth!Boot(p, d) PROVE Out'
  BY <1>1 DEF Auth!Boot, Auth!tables, Sound, Auth!TypeOK, AuthCarries, Auth!Job, Out
<1>2. CASE Auth!ResolveAdminPassword
  BY <1>2 DEF Auth!ResolveAdminPassword, Auth!tables, Sound, Auth!TypeOK, AuthCarries,
     Auth!Job, Out
<1>3. CASE Auth!ClearSessions
  BY <1>3 DEF Auth!ClearSessions, Auth!InvalidateAllSessions, Sound, Auth!TypeOK,
     AuthCarries, Auth!Job, Out
<1>4. CASE Auth!Crash
  BY <1>4 DEF Auth!Crash, Auth!tables, Auth!Free, Auth!NoAttempt, Sound, Auth!TypeOK,
     AuthCarries, Auth!Job, Out, Auth!Free
<1>5. CASE Auth!Tick
  BY <1>5 DEF Auth!Tick, Auth!process, Auth!tables, Sound, Auth!TypeOK, AuthCarries,
     Auth!Job, Out
<1>6. ASSUME NEW w \in Servers, Auth!Step(w) PROVE Out'
  BY <1>6, OutStep
<1>7. CASE UNCHANGED Auth!vars
  BY <1>7 DEF Auth!vars, Sound, Auth!TypeOK, AuthCarries, Auth!Job, Out, Auth!Free
<1> QED
  BY <1>1, <1>2, <1>3, <1>4, <1>5, <1>6, <1>7 DEF Auth!Next

----------------------------------------------------------------------------
(* Sessions are those of the password in force.                             *)

\* Requests run only while the process serves, and a login that was granted
\* was granted for the password in memory.
Granted ==
  /\ ~Auth!Serving => \A w \in Servers : call[w].pc = "free"
  /\ \A w \in Servers : call[w].pc = "create" => call[w].made = admin
  /\ Auth!SessionsOfThisPassword

\* No step of a request makes a session for another password.
LEMMA GrantedStep ==
  ASSUME AuthParameters, Sound, Granted, NEW w \in Servers, Auth!Step(w)
  PROVE  Granted'
<1> USE DEF AuthParameters, Auth!SessionsOfThisPassword, Auth!Serving
<1>1. ASSUME NEW c \in Clients, Auth!Login(w, c) PROVE Granted'
  BY <1>1 DEF Auth!Login, Auth!process, Auth!tables, Sound, Auth!TypeOK, AuthCarries,
     Auth!Job, Granted, Auth!Free
<1>2. CASE Auth!LoginUnparsed(w)
  BY <1>2 DEF Auth!LoginUnparsed, Auth!process, Auth!tables, Sound, Auth!TypeOK, AuthCarries,
     Auth!Job, Granted, Auth!Free
<1>3. CASE Auth!LoginSucceeds(w)
  BY <1>3 DEF Auth!LoginSucceeds, Auth!process, Auth!tables, Sound, Auth!TypeOK, AuthCarries,
     Auth!Job, Granted, Auth!Free
<1>4. CASE Auth!CreateSession(w)
  BY <1>4 DEF Auth!CreateSession, Auth!process, Sound, Auth!TypeOK, AuthCarries, Auth!Job,
     Granted, Auth!Free
<1>5. ASSUME NEW p \in Passwords, Auth!LoginFails(w, p) PROVE Granted'
  BY <1>5 DEF Auth!LoginFails, Auth!process, Auth!tables, Sound, Auth!TypeOK, AuthCarries,
     Auth!Job, Granted, Auth!Free
<1>6. ASSUME NEW s \in Sessions, Auth!Logout(w, s) PROVE Granted'
  BY <1>6 DEF Auth!Logout, Auth!process, Sound, Auth!TypeOK, AuthCarries, Auth!Job, Granted
<1>7. ASSUME NEW s \in Sessions \cup {None}, NEW t \in Tokens \cup {None}, Auth!Request(w, s, t)
      PROVE  Granted'
  BY <1>7 DEF Auth!Request, Auth!process, Auth!tables, Sound, Auth!TypeOK, AuthCarries,
     Auth!Job, Granted, Auth!Free
<1>8. CASE Auth!PasswordRequest(w)
  BY <1>8, PasswordAdmits DEF OneMoves, Granted
<1>9. CASE Auth!SelectSession(w)
  BY <1>9, SelectReads DEF OneMoves, Granted
<1>10. CASE Auth!CheckSession(w)
  BY <1>10 DEF Auth!CheckSession, Auth!process, Auth!tables, Sound, Auth!TypeOK, AuthCarries,
     Auth!Job, Granted
<1>11. CASE Auth!ExpireSession(w)
  BY <1>11 DEF Auth!ExpireSession, Auth!process, Sound, Auth!TypeOK, AuthCarries, Auth!Job,
     Granted
<1>12. CASE Auth!TouchSession(w)
  BY <1>12, SMTT(30) DEF Auth!TouchSession, Auth!process, Sound, Auth!TypeOK, AuthCarries,
     Auth!Job, Granted, Auth!Touched,
        Auth!SessionRow
<1>13. CASE Auth!SelectToken(w)
  BY <1>13, TokenReads DEF OneMoves, Granted
<1>14. CASE Auth!Handle(w)
  BY <1>14 DEF Auth!Handle, Auth!process, Auth!tables, Sound, Auth!TypeOK, AuthCarries,
     Auth!Job, Granted, Auth!Free
<1>15. ASSUME NEW name \in Names, NEW days \in Expiries, Auth!CountNames(w, name, days)
       PROVE  Granted'
  BY <1>15 DEF Auth!CountNames, Auth!process, Auth!tables, Sound, Auth!TypeOK, AuthCarries,
     Auth!Job, Granted, Auth!Free
<1>16. CASE Auth!InsertToken(w)
  BY <1>16 DEF Auth!InsertToken, Auth!process, Sound, Auth!TypeOK, AuthCarries, Auth!Job,
     Granted, Auth!Free
<1>17. ASSUME NEW t \in Tokens, Auth!DeleteAPIToken(w, t) PROVE Granted'
  BY <1>17 DEF Auth!DeleteAPIToken, Auth!process, Sound, Auth!TypeOK, AuthCarries, Auth!Job,
     Granted, Auth!Free
<1> QED
  BY <1>1, <1>2, <1>3, <1>4, <1>5, <1>6, <1>7, <1>8, <1>9, <1>10, <1>11, <1>12, <1>13,
     <1>14, <1>15, <1>16, <1>17 DEF Auth!Step

\* No step leaves a session of another password while the process serves.
LEMMA GrantedNext == ASSUME AuthParameters, Sound, Granted, [Auth!Next]_(Auth!vars) PROVE Granted'
<1> USE DEF AuthParameters, Auth!SessionsOfThisPassword, Auth!Serving
<1>1. ASSUME NEW p \in Passwords \cup {None}, NEW d \in BOOLEAN, Auth!Boot(p, d) PROVE Granted'
  BY <1>1 DEF Auth!Boot, Auth!tables, Sound, Auth!TypeOK, AuthCarries, Auth!Job, Granted
<1>2. CASE Auth!ResolveAdminPassword
  BY <1>2 DEF Auth!ResolveAdminPassword, Auth!tables, Sound, Auth!TypeOK, AuthCarries,
     Auth!Job, Granted
<1>3. CASE Auth!ClearSessions
  BY <1>3 DEF Auth!ClearSessions, Auth!InvalidateAllSessions, Sound, Auth!TypeOK,
     AuthCarries, Auth!Job, Granted
<1>4. CASE Auth!Crash
  BY <1>4 DEF Auth!Crash, Auth!tables, Auth!Free, Auth!NoAttempt, Sound, Auth!TypeOK,
     AuthCarries, Auth!Job, Granted, Auth!Free
<1>5. CASE Auth!Tick
  BY <1>5 DEF Auth!Tick, Auth!process, Auth!tables, Sound, Auth!TypeOK, AuthCarries,
     Auth!Job, Granted
<1>6. ASSUME NEW w \in Servers, Auth!Step(w) PROVE Granted'
  BY <1>6, GrantedStep
<1>7. CASE UNCHANGED Auth!vars
  BY <1>7 DEF Auth!vars, Sound, Auth!TypeOK, AuthCarries, Auth!Job, Granted, Auth!Free
<1> QED
  BY <1>1, <1>2, <1>3, <1>4, <1>5, <1>6, <1>7 DEF Auth!Next

----------------------------------------------------------------------------
(* Times of a session.                                                      *)

\* A request that has read a row knows when the row was made, for the row is
\* never made again, and has taken the time after that.
Read(j) ==
  /\ j.cookie \in issued /\ j.created <= now
  /\ session[j.cookie] # None => session[j.cookie].created = j.created
  /\ j.pc = "touch" => j.created <= j.at /\ j.at <= now

Timed ==
  /\ \A w \in Servers : call[w].pc \in {"check", "expire", "touch"} => Read(call[w])
  /\ Auth!SeenInOrder

\* A step of a request keeps the times of the rows in order.
LEMMA TimedStep ==
  ASSUME AuthParameters, Sound, Timed, NEW w \in Servers, Auth!Step(w)
  PROVE  Timed'
<1> USE DEF AuthParameters, Auth!SeenInOrder, Read
<1>1. ASSUME NEW c \in Clients, Auth!Login(w, c) PROVE Timed'
  BY <1>1 DEF Auth!Login, Auth!process, Auth!tables, Sound, Auth!TypeOK, AuthCarries,
     Auth!Job, Timed, Auth!Free
<1>2. CASE Auth!LoginUnparsed(w)
  BY <1>2 DEF Auth!LoginUnparsed, Auth!process, Auth!tables, Sound, Auth!TypeOK, AuthCarries,
     Auth!Job, Timed, Auth!Free
<1>3. CASE Auth!LoginSucceeds(w)
  BY <1>3 DEF Auth!LoginSucceeds, Auth!process, Auth!tables, Sound, Auth!TypeOK, AuthCarries,
     Auth!Job, Timed, Auth!Free
<1>4. CASE Auth!CreateSession(w)
  BY <1>4 DEF Auth!CreateSession, Auth!process, Sound, Auth!TypeOK, AuthCarries, Auth!Job,
     Timed, Auth!Free
<1>5. ASSUME NEW p \in Passwords, Auth!LoginFails(w, p) PROVE Timed'
  BY <1>5 DEF Auth!LoginFails, Auth!process, Auth!tables, Sound, Auth!TypeOK, AuthCarries,
     Auth!Job, Timed, Auth!Free
<1>6. ASSUME NEW s \in Sessions, Auth!Logout(w, s) PROVE Timed'
  BY <1>6 DEF Auth!Logout, Auth!process, Sound, Auth!TypeOK, AuthCarries, Auth!Job, Timed
<1>7. ASSUME NEW s \in Sessions \cup {None}, NEW t \in Tokens \cup {None}, Auth!Request(w, s, t)
      PROVE  Timed'
  BY <1>7 DEF Auth!Request, Auth!process, Auth!tables, Sound, Auth!TypeOK, AuthCarries,
     Auth!Job, Timed, Auth!Free
<1>8. CASE Auth!PasswordRequest(w)
  BY <1>8, PasswordAdmits DEF OneMoves, Timed
<1>9. CASE Auth!SelectSession(w)
  <2>1. /\ UNCHANGED <<now, session, issued>>
        /\ \A v \in Servers : v # w => call'[v] = call[v]
        /\ call'[w].cookie = call[w].cookie
        /\ \/ call'[w].pc = "bearer"
           \/ /\ session[call[w].cookie] # None /\ call'[w].pc = "check"
              /\ call[w].cookie \in Sessions
              /\ call'[w].created = session[call[w].cookie].created
    BY <1>9, SelectReads DEF OneMoves
  <2>2. Auth!SeenInOrder'
    BY <2>1 DEF Timed
  <2>3. ASSUME call'[w].pc = "check" PROVE Read(call[w])'
    <3>1. LET row == session[call[w].cookie]
          IN row.created \in Nat /\ row.seen \in Nat /\ row.created <= row.seen /\ row.seen <= now
      BY <2>1, <2>3 DEF Timed, Sound, Auth!TypeOK, Auth!SessionRow
    <3>2. now \in Nat /\ call[w].cookie \in issued
      BY <2>1, <2>3 DEF Sound, Auth!TypeOK
    <3> QED
      BY <2>1, <2>3, <3>1, <3>2
  <2>4. ASSUME NEW v \in Servers, v # w, call'[v].pc \in {"check", "expire", "touch"}
        PROVE  Read(call[v])'
    BY <2>1, <2>4 DEF Timed
  <2> QED
    BY <2>1, <2>2, <2>3, <2>4 DEF Timed
<1>10. CASE Auth!CheckSession(w)
  BY <1>10 DEF Auth!CheckSession, Auth!process, Auth!tables, Sound, Auth!TypeOK, AuthCarries,
     Auth!Job, Timed
<1>11. CASE Auth!ExpireSession(w)
  BY <1>11 DEF Auth!ExpireSession, Auth!process, Sound, Auth!TypeOK, AuthCarries, Auth!Job,
     Timed
<1>12. CASE Auth!TouchSession(w)
  BY <1>12, SMTT(30) DEF Auth!TouchSession, Auth!process, Sound, Auth!TypeOK, AuthCarries, Auth!Job,
     Timed, Auth!Touched,
        Auth!SessionRow
<1>13. CASE Auth!SelectToken(w)
  BY <1>13, TokenReads DEF OneMoves, Timed
<1>14. CASE Auth!Handle(w)
  BY <1>14 DEF Auth!Handle, Auth!process, Auth!tables, Sound, Auth!TypeOK, AuthCarries,
     Auth!Job, Timed, Auth!Free
<1>15. ASSUME NEW name \in Names, NEW days \in Expiries, Auth!CountNames(w, name, days) PROVE Timed'
  BY <1>15 DEF Auth!CountNames, Auth!process, Auth!tables, Sound, Auth!TypeOK, AuthCarries,
     Auth!Job, Timed, Auth!Free
<1>16. CASE Auth!InsertToken(w)
  BY <1>16 DEF Auth!InsertToken, Auth!process, Sound, Auth!TypeOK, AuthCarries, Auth!Job,
     Timed, Auth!Free
<1>17. ASSUME NEW t \in Tokens, Auth!DeleteAPIToken(w, t) PROVE Timed'
  BY <1>17 DEF Auth!DeleteAPIToken, Auth!process, Sound, Auth!TypeOK, AuthCarries, Auth!Job,
     Timed, Auth!Free
<1> QED
  BY <1>1, <1>2, <1>3, <1>4, <1>5, <1>6, <1>7, <1>8, <1>9, <1>10, <1>11, <1>12, <1>13,
     <1>14, <1>15, <1>16, <1>17 DEF Auth!Step

\* Every step keeps the times of the rows in order.
LEMMA TimedNext == ASSUME AuthParameters, Sound, Timed, [Auth!Next]_(Auth!vars) PROVE Timed'
<1> USE DEF AuthParameters, Auth!SeenInOrder, Read, Auth!SessionRow
<1>1. ASSUME NEW p \in Passwords \cup {None}, NEW d \in BOOLEAN, Auth!Boot(p, d) PROVE Timed'
  BY <1>1 DEF Auth!Boot, Auth!tables, Sound, Auth!TypeOK, AuthCarries, Auth!Job, Timed
<1>2. CASE Auth!ResolveAdminPassword
  BY <1>2 DEF Auth!ResolveAdminPassword, Auth!tables, Sound, Auth!TypeOK, AuthCarries,
     Auth!Job, Timed
<1>3. CASE Auth!ClearSessions
  BY <1>3 DEF Auth!ClearSessions, Auth!InvalidateAllSessions, Sound, Auth!TypeOK,
     AuthCarries, Auth!Job, Timed
<1>4. CASE Auth!Crash
  BY <1>4 DEF Auth!Crash, Auth!tables, Auth!Free, Auth!NoAttempt, Sound, Auth!TypeOK,
     AuthCarries, Auth!Job, Timed, Auth!Free
<1>5. CASE Auth!Tick
  BY <1>5 DEF Auth!Tick, Auth!process, Auth!tables, Sound, Auth!TypeOK, AuthCarries,
     Auth!Job, Timed
<1>6. ASSUME NEW w \in Servers, Auth!Step(w) PROVE Timed'
  BY <1>6, TimedStep
<1>7. CASE UNCHANGED Auth!vars
  BY <1>7 DEF Auth!vars, Sound, Auth!TypeOK, AuthCarries, Auth!Job, Timed, Auth!Free
<1> QED
  BY <1>1, <1>2, <1>3, <1>4, <1>5, <1>6, <1>7 DEF Auth!Next

----------------------------------------------------------------------------
(* The limit on login attempts.                                             *)

\* Requests of client c that passed LoginAllowed and have no verdict yet.
Trying(c) == {w \in Servers : call[w].pc = "password" /\ call[w].client = c}

\* Each of them may add one failure.
Limited ==
  \A c \in Clients :
    Auth!Fails(c) + Cardinality(Trying(c)) < LoginMaxAttempts + Cardinality(Servers)

\* Nobody new is trying for c, and its failures have not grown.
Calmer(c) == Trying(c)' \subseteq Trying(c) /\ Auth!Fails(c)' <= Auth!Fails(c)

\* The workers that are trying are finitely many.
LEMMA TryingFinite ==
  ASSUME IsFiniteSet(Servers), NEW c \in Clients
  PROVE  /\ IsFiniteSet(Trying(c)) /\ Cardinality(Trying(c)) \in Nat
         /\ Cardinality(Servers) \in Nat /\ Cardinality(Trying(c)) <= Cardinality(Servers)
  BY FS_Subset, FS_CardinalityType DEF Trying

\* Failures are counted in natural numbers.
LEMMA FailsNat == ASSUME Sound, NEW c \in Clients PROVE Auth!Fails(c) \in Nat
  BY DEF Sound, Auth!TypeOK, Auth!Fails

\* A step that is calmer for a client keeps its bound.
LEMMA CalmerLimited ==
  ASSUME IsFiniteSet(Servers), LoginMaxAttempts \in Nat, Sound, Sound', Limited,
         NEW c \in Clients, Calmer(c)
  PROVE  (Auth!Fails(c) + Cardinality(Trying(c)) < LoginMaxAttempts + Cardinality(Servers))'
<1>1. IsFiniteSet(Trying(c)) /\ Cardinality(Trying(c)) \in Nat /\ Cardinality(Servers) \in Nat
  BY TryingFinite
<1>2. Cardinality(Trying(c)') \in Nat /\ Cardinality(Trying(c)') <= Cardinality(Trying(c))
  BY <1>1, FS_Subset, FS_CardinalityType DEF Calmer
<1>3. Auth!Fails(c) \in Nat
  BY FailsNat
<1>4. Auth!Fails(c)' \in Nat
  BY DEF Sound, Auth!TypeOK, Auth!Fails
<1>5. Auth!Fails(c) + Cardinality(Trying(c)) < LoginMaxAttempts + Cardinality(Servers)
  BY DEF Limited
<1>6. Auth!Fails(c)' <= Auth!Fails(c)
  BY DEF Calmer
<1>7. Auth!Fails(c)' + Cardinality(Trying(c)') < LoginMaxAttempts + Cardinality(Servers)
  BY <1>1, <1>2, <1>3, <1>4, <1>5, <1>6
<1> QED
  BY <1>7

\* The steps of a request other than its being let through and its failing are
\* calmer for every client.
LEMMA CalmSteps ==
  ASSUME AuthParameters, Sound, Sound', NEW w \in Servers, Auth!Step(w),
         \A c \in Clients : ~Auth!Login(w, c), \A p \in Passwords : ~Auth!LoginFails(w, p)
  PROVE  \A c \in Clients : Calmer(c)
<1> USE DEF Calmer, Trying, Auth!Fails
<1>1. CASE Auth!LoginUnparsed(w)
  BY <1>1 DEF Auth!LoginUnparsed, Auth!process, Auth!tables, Sound, Auth!TypeOK, AuthCarries,
     Auth!Job, Auth!Free
<1>2. CASE Auth!LoginSucceeds(w)
  BY <1>2 DEF Auth!LoginSucceeds, Auth!process, Auth!tables, Sound, Auth!TypeOK, AuthCarries,
     Auth!Job, Auth!Free, Auth!NoAttempt
<1>3. CASE Auth!CreateSession(w)
  BY <1>3 DEF Auth!CreateSession, Auth!process, Sound, Auth!TypeOK, AuthCarries, Auth!Job,
     Auth!Free
<1>4. ASSUME NEW s \in Sessions, Auth!Logout(w, s) PROVE \A c \in Clients : Calmer(c)
  BY <1>4 DEF Auth!Logout, Auth!process, Sound, Auth!TypeOK, AuthCarries, Auth!Job
<1>5. ASSUME NEW s \in Sessions \cup {None}, NEW t \in Tokens \cup {None}, Auth!Request(w, s, t)
      PROVE  \A c \in Clients : Calmer(c)
  BY <1>5 DEF Auth!Request, Auth!process, Auth!tables, Sound, Auth!TypeOK, AuthCarries,
     Auth!Job, Auth!Free
<1>6. CASE Auth!PasswordRequest(w)
  BY <1>6, PasswordAdmits, FailsNat DEF OneMoves
<1>7. CASE Auth!SelectSession(w)
  BY <1>7, SelectReads, FailsNat DEF OneMoves
<1>8. CASE Auth!CheckSession(w)
  BY <1>8 DEF Auth!CheckSession, Auth!process, Auth!tables, Sound, Auth!TypeOK, AuthCarries,
     Auth!Job
<1>9. CASE Auth!ExpireSession(w)
  BY <1>9 DEF Auth!ExpireSession, Auth!process, Sound, Auth!TypeOK, AuthCarries, Auth!Job
<1>10. CASE Auth!TouchSession(w)
  BY <1>10 DEF Auth!TouchSession, Auth!process, Sound, Auth!TypeOK, AuthCarries, Auth!Job
<1>11. CASE Auth!SelectToken(w)
  BY <1>11, TokenReads, FailsNat DEF OneMoves
<1>12. CASE Auth!Handle(w)
  BY <1>12 DEF Auth!Handle, Auth!process, Auth!tables, Sound, Auth!TypeOK, AuthCarries,
     Auth!Job, Auth!Free
<1>13. ASSUME NEW name \in Names, NEW days \in Expiries, Auth!CountNames(w, name, days)
       PROVE  \A c \in Clients : Calmer(c)
  BY <1>13 DEF Auth!CountNames, Auth!process, Auth!tables, Sound, Auth!TypeOK, AuthCarries,
     Auth!Job, Auth!Free
<1>14. CASE Auth!InsertToken(w)
  BY <1>14 DEF Auth!InsertToken, Auth!process, Sound, Auth!TypeOK, AuthCarries, Auth!Job,
     Auth!Free
<1>15. ASSUME NEW t \in Tokens, Auth!DeleteAPIToken(w, t) PROVE \A c \in Clients : Calmer(c)
  BY <1>15 DEF Auth!DeleteAPIToken, Auth!process, Sound, Auth!TypeOK, AuthCarries, Auth!Job,
     Auth!Free
<1> QED
  BY <1>1, <1>2, <1>3, <1>4, <1>5, <1>6, <1>7, <1>8, <1>9, <1>10, <1>11, <1>12, <1>13,
     <1>14, <1>15 DEF Auth!Step

\* The steps of the process are calmer for every client.
LEMMA CalmProcess ==
  ASSUME Sound, Sound', [Auth!Next]_(Auth!vars), \A w \in Servers : ~Auth!Step(w)
  PROVE  \A c \in Clients : Calmer(c)
<1> USE DEF Calmer, Trying, Auth!Fails, Sound, Auth!TypeOK
<1>1. ASSUME NEW p \in Passwords \cup {None}, NEW d \in BOOLEAN, Auth!Boot(p, d)
      PROVE  \A c \in Clients : Calmer(c)
  BY <1>1 DEF Auth!Boot
<1>2. CASE Auth!ResolveAdminPassword
  BY <1>2 DEF Auth!ResolveAdminPassword
<1>3. CASE Auth!ClearSessions
  BY <1>3 DEF Auth!ClearSessions
<1>4. CASE Auth!Crash
  BY <1>4 DEF Auth!Crash, Auth!Free, Auth!NoAttempt
<1>5. CASE Auth!Tick
  BY <1>5 DEF Auth!Tick
<1>6. CASE UNCHANGED Auth!vars
  BY <1>6 DEF Auth!vars
<1> QED
  BY <1>1, <1>2, <1>3, <1>4, <1>5, <1>6 DEF Auth!Next

\* A client that is let through has failures to spare.
LEMMA LoginLimited ==
  ASSUME IsFiniteSet(Servers), LoginMaxAttempts \in Nat, Sound, Sound', Limited,
         NEW w \in Servers, NEW d \in Clients, Auth!Login(w, d)
  PROVE  Limited'
<1> SUFFICES ASSUME NEW c \in Clients
             PROVE  (Auth!Fails(c) + Cardinality(Trying(c))
                       < LoginMaxAttempts + Cardinality(Servers))'
  BY DEF Limited
<1>1. CASE c # d
  <2>1. Calmer(c)
    BY <1>1 DEF Auth!Login, Calmer, Trying, Auth!Fails, Sound, Auth!TypeOK, Auth!Free
  <2> QED
    BY <2>1, CalmerLimited
<1>2. CASE c = d
  <2>1. Auth!Fails(c)' = Auth!Fails(c) /\ Auth!Fails(c) < LoginMaxAttempts
    BY <1>2 DEF Auth!Login, Auth!Fails
  <2>2. Trying(c)' \subseteq Servers
    BY DEF Trying
  <2>3. Cardinality(Trying(c)') \in Nat /\ Cardinality(Servers) \in Nat
        /\ Cardinality(Trying(c)') <= Cardinality(Servers)
    BY <2>2, FS_Subset, FS_CardinalityType
  <2>4. Auth!Fails(c) \in Nat
    BY FailsNat
  <2>5. Auth!Fails(c)' + Cardinality(Trying(c)') < LoginMaxAttempts + Cardinality(Servers)
    BY <2>1, <2>3, <2>4
  <2> QED
    BY <2>5
<1> QED
  BY <1>1, <1>2

\* A failure is one more, and one fewer that is trying.
LEMMA FailsLimited ==
  ASSUME IsFiniteSet(Servers), LoginMaxAttempts \in Nat, AuthParameters, Sound, Sound', Limited,
         NEW w \in Servers, NEW p \in Passwords, Auth!LoginFails(w, p)
  PROVE  Limited'
<1> SUFFICES ASSUME NEW c \in Clients
             PROVE  (Auth!Fails(c) + Cardinality(Trying(c))
                       < LoginMaxAttempts + Cardinality(Servers))'
  BY DEF Limited
<1>1. CASE c # call[w].client
  <2>1. Calmer(c)
    BY <1>1 DEF Auth!LoginFails, Calmer, Trying, Auth!Fails, Sound, Auth!TypeOK, Auth!Free,
       Auth!NoAttempt
  <2> QED
    BY <2>1, CalmerLimited
<1>2. CASE c = call[w].client
  <2>1. Auth!Fails(c) \in Nat
    BY FailsNat
  <2>2. Auth!Fails(c)' = Auth!Fails(c) + 1
    BY <1>2, <2>1 DEF Auth!LoginFails, Auth!Fails, Sound, Auth!TypeOK, AuthParameters
  <2>3. w \in Trying(c) /\ Trying(c)' = Trying(c) \ {w}
    BY <1>2 DEF Auth!LoginFails, Trying, Sound, Auth!TypeOK, Auth!Free
  <2>4. IsFiniteSet(Trying(c)) /\ Cardinality(Trying(c)) \in Nat /\ Cardinality(Servers) \in Nat
    BY TryingFinite
  <2>5. Cardinality(Trying(c)') = Cardinality(Trying(c)) - 1
    BY <2>3, <2>4, FS_RemoveElement
  <2>6. Auth!Fails(c) + Cardinality(Trying(c)) < LoginMaxAttempts + Cardinality(Servers)
    BY DEF Limited
  <2>7. Auth!Fails(c)' + Cardinality(Trying(c)') < LoginMaxAttempts + Cardinality(Servers)
    BY <2>1, <2>2, <2>4, <2>5, <2>6
  <2> QED
    BY <2>7
<1> QED
  BY <1>1, <1>2

\* Every step keeps the bound.
LEMMA LimitedNext ==
  ASSUME IsFiniteSet(Servers), LoginMaxAttempts \in Nat, AuthParameters, Sound, Sound', Limited,
         [Auth!Next]_(Auth!vars)
  PROVE  Limited'
<1>1. CASE \E w \in Servers : \E d \in Clients : Auth!Login(w, d)
  BY <1>1, LoginLimited
<1>2. CASE \E w \in Servers : \E p \in Passwords : Auth!LoginFails(w, p)
  BY <1>2, FailsLimited
<1>3. CASE /\ \A w \in Servers : \A d \in Clients : ~Auth!Login(w, d)
           /\ \A w \in Servers : \A p \in Passwords : ~Auth!LoginFails(w, p)
  <2>1. \A c \in Clients : Calmer(c)
    BY <1>3, CalmSteps, CalmProcess
  <2> QED
    BY <2>1, CalmerLimited DEF Limited
<1> QED
  BY <1>1, <1>2, <1>3

----------------------------------------------------------------------------
(* Theorems about authentication.                                           *)

\* The tables of package auth, the memory of the process and its requests keep
\* their types.
THEOREM AuthenticationTypes == ASSUME AuthParameters PROVE Auth!Spec => []Auth!TypeOK
<1>1. Auth!Init => Sound
  BY AuthInit
<1>2. Sound /\ [Auth!Next]_(Auth!vars) => Sound'
  BY AuthNext
<1>3. Sound => Auth!TypeOK
  BY DEF Sound
<1> QED
  BY <1>1, <1>2, <1>3, PTL DEF Auth!Spec

\* A session that was logged out, lapsed or cleared, and a token that was
\* deleted, let no request in that began after that: ValidateSession's UPDATE
\* never brings a row back.
THEOREM EndedCredentialsStayOut == ASSUME AuthParameters PROVE Auth!Spec => []Auth!EndedStaysOut
<1>1. Auth!Init => Sound /\ Out
  BY AuthInit DEF Auth!Init, Out, Auth!EndedStaysOut, Auth!Free
<1>2. Sound /\ Out /\ [Auth!Next]_(Auth!vars) => (Sound /\ Out)'
  BY AuthNext, OutNext
<1>3. Out => Auth!EndedStaysOut
  BY DEF Out
<1> QED
  BY <1>1, <1>2, <1>3, PTL DEF Auth!Spec

\* A process that serves holds sessions of its own password only: auth.Init
\* clears them after the password is resolved and before the first request,
\* and a crash between those steps changes nothing.
THEOREM OnlyThisPassword == ASSUME AuthParameters PROVE Auth!Spec => []Auth!SessionsOfThisPassword
<1>1. Auth!Init => Sound /\ Granted
  BY AuthInit DEF Auth!Init, Granted, Auth!SessionsOfThisPassword, Auth!Free
<1>2. Sound /\ Granted /\ [Auth!Next]_(Auth!vars) => (Sound /\ Granted)'
  BY AuthNext, GrantedNext
<1>3. Granted => Auth!SessionsOfThisPassword
  BY DEF Granted
<1> QED
  BY <1>1, <1>2, <1>3, PTL DEF Auth!Spec

\* However requests of one session interleave, last_seen_at stays between
\* created_at and the clock.
THEOREM SeenStaysInOrder == ASSUME AuthParameters PROVE Auth!Spec => []Auth!SeenInOrder
<1>1. Auth!Init => Sound /\ Timed
  BY AuthInit DEF Auth!Init, Timed, Auth!SeenInOrder, Auth!Free
<1>2. Sound /\ Timed /\ [Auth!Next]_(Auth!vars) => (Sound /\ Timed)'
  BY AuthNext, TimedNext
<1>3. Timed => Auth!SeenInOrder
  BY DEF Timed
<1> QED
  BY <1>1, <1>2, <1>3, PTL DEF Auth!Spec

\* LoginAllowed and RegisterLoginFailure are two critical sections with the
\* slow comparison between them: the failures of a client in a window exceed
\* loginMaxAttempts by less than the requests that can be under way.
THEOREM FailuresBounded ==
  ASSUME AuthParameters, IsFiniteSet(Servers), LoginMaxAttempts \in Nat \ {0}
  PROVE  Auth!Spec => []Auth!AttemptsBounded
<1>1. Auth!Init => Sound /\ Limited
  <2> SUFFICES ASSUME Auth!Init, NEW c \in Clients
               PROVE  Auth!Fails(c) + Cardinality(Trying(c))
                        < LoginMaxAttempts + Cardinality(Servers)
    BY AuthInit DEF Limited
  <2>1. Auth!Fails(c) = 0 /\ Trying(c) = {}
    BY DEF Auth!Init, Auth!Fails, Trying, Auth!Free, Auth!NoAttempt
  <2>2. Cardinality(Servers) \in Nat
    BY FS_CardinalityType
  <2> QED
    BY <2>1, <2>2, FS_EmptySet
<1>2. Sound /\ Limited /\ [Auth!Next]_(Auth!vars) => (Sound /\ Limited)'
  BY AuthNext, LimitedNext
<1>3. Sound /\ Limited => Auth!AttemptsBounded
  <2> SUFFICES ASSUME Sound, Limited, NEW c \in Clients
               PROVE  Auth!Fails(c) < LoginMaxAttempts + Cardinality(Servers)
    <3>1. Auth!Cardinality(Servers) = Cardinality(Servers)
      BY Zenon DEF Cardinality, Auth!Cardinality
    <3> QED
      BY <3>1 DEF Auth!AttemptsBounded
  <2>1. Auth!Fails(c) \in Nat
    BY FailsNat
  <2>2. Cardinality(Trying(c)) \in Nat /\ Cardinality(Servers) \in Nat
    BY TryingFinite
  <2>3. Auth!Fails(c) + Cardinality(Trying(c)) < LoginMaxAttempts + Cardinality(Servers)
    BY DEF Limited
  <2> QED
    BY <2>1, <2>2, <2>3
<1> QED
  BY <1>1, <1>2, <1>3, PTL DEF Auth!Spec
=============================================================================
