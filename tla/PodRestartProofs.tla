-------------------------- MODULE PodRestartProofs --------------------------
(***************************************************************************)
(* Proofs about PodRestart, for any pods, links, guests and tunnels, any    *)
(* interfaces Meshnet missed, any workers and any number of requests and   *)
(* rounds: types, with requests that overlap as they come; and, with       *)
(* restarts of pods that are no neighbours and heal passes alone, that     *)
(* both ends of a link never skip it, that a pod's interfaces are out of   *)
(* its way when it is started, and that restarts and heal passes leave the *)
(* operations on record, the redirects and the MTU in force.  The last two *)
(* rest on an account of who has still to restore what: each interface     *)
(* that lost something is owed it by a worker that has not passed the      *)
(* point where it runs it again.                                           *)
(***************************************************************************)
EXTENDS PodRestart, FiniteSetTheorems, TLAPS

-----------------------------------------------------------------------------
(* The inductive invariant.                                                 *)

Steps  == {"idle", "restart", "inject", "veths", "wait", "late", "mtu", "replay", "check",
           "decide"}
Phases == {"ready", "terminating", "starting", "booting"}
AnyPod == CHOOSE p \in Pods : TRUE   \* what pod[w] is before there is one

\* The variables are functions: what TypeOK says of each pod and of each
\* worker's pc is about functions on the pods and on the workers.
Shapes ==
  /\ phase \in [Pods -> Phases]
  /\ dev \in [Pods -> SUBSET Links] /\ mtu \in [Pods -> SUBSET Links]
  /\ taps \in [Pods -> SUBSET Links] /\ tc \in [Pods -> SUBSET Links]
  /\ conf \in [Pods -> SUBSET Links] /\ rows \in [Pods -> SUBSET Links]
  /\ skipped \in [Pods -> SUBSET Links]
  /\ pc \in [Workers -> Steps] /\ pod \in [Workers -> Pods \cup {AnyPod}]
  /\ batch \in [Workers -> SUBSET Pods] /\ todo \in [Workers -> SUBSET Pods]
  /\ visit \in [Workers -> SUBSET Links] /\ issues \in [Workers -> SUBSET LinkEnds]

\* Only guests boot.  A worker that prepares a pod's neighbours has that pod
\* still to delete and visits links to neighbours, a restart that is late has
\* failed, only heal passes check and decide, a restart is about one pod, and
\* the rounds of a heal pass stay within its bound.
WorkerOK ==
  /\ \A p \in Pods : phase[p] = "booting" => p \in Guests
  /\ \A w \in Workers :
       /\ pc[w] \in {"inject", "veths"} => pod[w] \in todo[w] /\ visit[w] \subseteq Inner
       /\ pc[w] = "late" => w \in Restarters /\ dirty
       /\ pc[w] \in {"check", "decide"} => w \in Healers
       /\ w \in Restarters /\ pc[w] # "idle" => \E p \in Pods : batch[w] = {p}
       /\ w \in Healers /\ pc[w] # "idle" => round[w] \in 1 .. MaxRounds
Typing == Shapes /\ TypeOK /\ WorkerOK

\* Two workers at work are restarts of pods that are not neighbours.
Exclusive ==
  \A v, w \in Workers : v # w /\ pc[v] # "idle" /\ pc[w] # "idle" =>
    /\ v \in Restarters /\ w \in Restarters
    /\ \A p \in batch[v] : batch[w] \cap Near(p) = {}

\* A pod has its peers skip only links it does not skip itself, though it read
\* its own status before it wrote theirs.
InjectOK == \A w \in Workers : pc[w] = "inject" => visit[w] \cap skipped[pod[w]] = {}
Skips    == InjectOK /\ OneSideSkips

\* Worker w has deleted p and has not seen it Ready again.
Recreating(w, p) ==
  /\ p \in batch[w]
  /\ \/ pc[w] \in {"restart", "inject", "veths"} /\ p \notin todo[w]
     \/ pc[w] = "wait" /\ p \in todo[w]
\* A pod that is not Ready is being recreated by a request that knows.
DownOK == \A p \in Pods : phase[p] # "ready" => \E w \in Workers : Recreating(w, p)

\* The links between two pods of the round a heal pass is in are accounted for.
TwinOK ==
  \A w \in Healers : pc[w] \notin {"idle", "check", "decide"} =>
    \A l \in Inner : Ends[l] \subseteq batch[w] => l \in twin

\* A veth has no end while one of its pods has no network namespace.
VethOK == \A l \in Inner \ Tunnels : \A p, q \in Ends[l] : phase[p] = "starting" => l \notin dev[q]

\* A tunnel's end in a neighbour is gone once deletePeerVethsForPod has been
\* there, and from then on until the pod is back.
CutOK ==
  \A w \in Workers : pc[w] = "veths" =>
    \A l \in LinksOf(pod[w]) \cap Inner \cap Tunnels : l \notin visit[w] \cup twin =>
      \A q \in Peers(pod[w], l) : l \notin dev[q]
GoneOK ==
  \A l \in Inner \cap Tunnels : l \notin twin =>
    \A p \in Ends[l] : phase[p] \in {"terminating", "starting"} =>
      \A q \in Peers(p, l) : l \notin dev[q]

\* A guest has no tap between the end of its VM and the launch of the next.
FreshOK == \A p \in Pods : phase[p] \in {"starting", "booting"} => taps[p] = {}

\* Worker w has its MTU pass and its replay before it, and owes p its
\* operations on l: by the replay, or by the neighbours' pass after it.
Before(w) == pc[w] \in {"restart", "inject", "veths", "wait", "mtu"}
Owes(w, p, l) ==
  \/ Before(w) /\ p \in batch[w]
  \/ pc[w] = "replay" /\ p \in todo[w]
  \/ (Before(w) \/ pc[w] = "replay") /\ p \notin batch[w] \cup Guests /\ l \in Facing(w, p)
ConfOK ==
  \A p \in Pods : \A l \in (Has(p) \cap rows[p]) \ conf[p] : \E w \in Workers : Owes(w, p, l)

\* The same for a guest's redirects, which only the neighbours' pass restores,
\* and for the MTU.
Wires(w, p, l) == (Before(w) \/ pc[w] = "replay") /\ p \notin batch[w] /\ l \in Facing(w, p)
TcOK ==
  \A p \in Pods : \A l \in ((dev[p] \cap taps[p]) \ twin) \ tc[p] :
    \E w \in Workers : Wires(w, p, l)
MtuOK ==
  \A p \in Pods : \A l \in (dev[p] \cap Inner) \ mtu[p] :
    \E w \in Workers : Before(w) /\ Ends[l] \cap batch[w] # {}

\* What holds as long as no call failed and no wait ran out, and the whole.
Clean == DownOK /\ CutOK /\ GoneOK /\ ConfOK /\ TcOK /\ MtuOK
RestartInv ==
  Typing /\ Exclusive /\ Skips /\ VethOK /\ FreshOK /\ TwinOK /\ (~ dirty => Clean)

-----------------------------------------------------------------------------
(* Links, their ends and what a pod is next to.                             *)

\* A link that is no host uplink joins two different pods, each the other's peer.
LEMMA TwoEnds ==
  /\ \A l \in Links : Ends[l] \subseteq Pods
  /\ \A l \in Inner : \A p \in Ends[l] : \E q \in Pods :
       q # p /\ Ends[l] = {p, q} /\ Peers(p, l) = {q}
  /\ \A l \in Links : \A p, q \in Ends[l] : p # q => l \in Inner
<1>1. ASSUME NEW l \in Inner, NEW p \in Ends[l]
      PROVE  \E q \in Pods : q # p /\ Ends[l] = {p, q} /\ Peers(p, l) = {q}
  <2>1. PICK a, b \in Pods : Ends[l] = {a, b}
    BY RestartAssumption DEF Inner
  <2>2. a # b
    <3>1. ASSUME a = b PROVE Ends[l] = {a}
      BY <2>1, <3>1
    <3>2. Cardinality({a}) = 1
      BY FS_Singleton
    <3> QED
      BY <3>1, <3>2 DEF Inner
  <2> QED
    BY <2>1, <2>2 DEF Peers
<1>2. ASSUME NEW l \in Links, NEW p \in Ends[l], NEW q \in Ends[l], p # q
      PROVE  l \in Inner
  <2>1. Ends[l] = {q} \cup {p}
    BY <1>2, RestartAssumption
  <2>2. IsFiniteSet({q}) /\ Cardinality({q}) = 1 /\ p \notin {q}
    BY <1>2, FS_Singleton
  <2>3. Cardinality({q} \cup {p}) = 2
    BY <2>2, FS_AddElement
  <2> QED
    BY <2>1, <2>3 DEF Inner
<1> QED
  BY <1>1, <1>2, RestartAssumption

\* The link a loop visits next is one it has still to visit.
LEMMA FirstIn ==
  ASSUME NEW L, L # {}
  PROVE  First(L) \in L
  BY DEF First

\* Being next to each other goes both ways.
LEMMA NearIs ==
  /\ \A p \in Pods : p \in Near(p)
  /\ \A p, q \in Pods : q \in Near(p) => p \in Near(q)
  /\ \A l \in Links : \A p, q \in Ends[l] : q \in Near(p)
  BY RestartAssumption DEF Near, LinksOf

-----------------------------------------------------------------------------
(* What serial requests give.                                               *)

\* Two pods next to each other are recreated by one worker.
LEMMA SameWorker ==
  ASSUME Exclusive, NEW v \in Workers, NEW w \in Workers, pc[v] # "idle", pc[w] # "idle",
         NEW p \in batch[v], NEW q \in batch[w], q \in Near(p)
  PROVE  v = w
  BY DEF Exclusive

\* A pod next to one that worker w recreates is Ready, unless w deleted it too.
LEMMA ReadyBeside ==
  ASSUME Exclusive, DownOK, NEW w \in Workers, pc[w] # "idle", batch[w] \subseteq Pods,
         NEW q \in batch[w], NEW p \in Pods, p \in Near(q), ~ Recreating(w, p)
  PROVE  phase[p] = "ready"
<1>1. ASSUME NEW v \in Workers, Recreating(v, p)
      PROVE  v = w
  <2>1. p \in batch[v] /\ pc[v] # "idle"
    BY <1>1 DEF Recreating
  <2> QED
    BY <2>1, SameWorker, NearIs
<1> QED
  BY <1>1 DEF DownOK

\* A link whose two ends are recreated in one batch is a heal round's.
LEMMA TwinsOf ==
  ASSUME Typing, TwinOK, NEW w \in Workers, pc[w] \notin {"idle", "check", "decide"},
         NEW l \in Inner, Ends[l] \subseteq batch[w]
  PROVE  l \in twin
<1>1. CASE w \in Restarters
  <2>1. PICK p \in Pods : batch[w] = {p}
    BY <1>1 DEF Typing, WorkerOK
  <2>2. p \in Ends[l]
    BY <2>1, RestartAssumption DEF Inner
  <2> QED
    BY <2>1, <2>2, TwoEnds
<1>2. CASE w \in Healers
  BY <1>2 DEF TwinOK
<1> QED
  BY <1>1, <1>2 DEF Workers

\* So is a link whose two ends are down.
LEMMA BothDown ==
  ASSUME Typing, Exclusive, DownOK, TwinOK, NEW l \in Inner, NEW p \in Ends[l],
         NEW q \in Peers(p, l), phase[p] # "ready", phase[q] # "ready"
  PROVE  l \in twin
<1>1. p \in Pods /\ q \in Pods /\ Ends[l] = {p, q} /\ q \in Near(p)
  BY TwoEnds, NearIs DEF Inner, Peers
<1>2. PICK v \in Workers : Recreating(v, p)
  BY <1>1 DEF DownOK
<1>3. PICK w \in Workers : Recreating(w, q)
  BY <1>1 DEF DownOK
<1>4. v = w
  BY <1>1, <1>2, <1>3, SameWorker DEF Recreating
<1> QED
  BY <1>1, <1>2, <1>3, <1>4, TwinsOf DEF Recreating

\* While a pod's neighbours are prepared the pod is up, and so is the far end of
\* each of its links but those within the heal round.
LEMMA PeersReady ==
  ASSUME Typing, Exclusive, DownOK, TwinOK, NEW w \in Workers, pc[w] \in {"inject", "veths"}
  PROVE  /\ pod[w] \in batch[w] /\ pod[w] \in Pods /\ phase[pod[w]] = "ready"
         /\ \A l \in LinksOf(pod[w]) \cap Inner :
              l \notin twin => \A q \in Peers(pod[w], l) : phase[q] = "ready"
<1>1. pod[w] \in batch[w] /\ pod[w] \in todo[w] /\ batch[w] \subseteq Pods /\ pc[w] # "idle"
  BY DEF Typing, Shapes, TypeOK, WorkerOK
<1>2. phase[pod[w]] = "ready"
  BY <1>1, ReadyBeside, NearIs DEF Recreating
<1>3. ASSUME NEW l \in LinksOf(pod[w]) \cap Inner, NEW q \in Peers(pod[w], l), phase[q] # "ready"
      PROVE  l \in twin
  <2>1. q \in Pods /\ pod[w] \in Ends[l] /\ Ends[l] = {pod[w], q} /\ q \in Near(pod[w])
    BY <1>1, TwoEnds, NearIs DEF Inner, Peers, LinksOf
  <2>2. Recreating(w, q)
    BY <1>1, <1>3, <2>1, ReadyBeside
  <2> QED
    BY <1>1, <2>1, <2>2, TwinsOf DEF Recreating
<1> QED
  BY <1>1, <1>2, <1>3

-----------------------------------------------------------------------------
(* What two handlers do to the kernels.                                     *)

\* The CNI ADD gives every pod the links it made, new and bare.
LEMMA PodUpMakes ==
  ASSUME Typing, NEW p \in Pods, PodUp(p)
  PROVE  /\ phase[p] = "starting" /\ phase'[p] \in {"ready", "booting"}
         /\ \A q \in Pods \ {p} : phase'[q] = phase[q]
         /\ \E made \in SUBSET LinksOf(p) : \A q \in Pods :
              /\ dev'[q] = dev[q] \cup (made \cap LinksOf(q))
              /\ mtu'[q] = mtu[q] \ (made \cap LinksOf(q))
              /\ tc'[q] = tc[q] \ (made \cap LinksOf(q))
              /\ conf'[q] = IF q \in Guests THEN conf[q] ELSE conf[q] \ (made \cap LinksOf(q))
<1>1. PICK made \in SUBSET LinksOf(p) :
        LET New(q) == IF q = p THEN made ELSE made \cap LinksOf(q)
        IN  /\ dev' = [q \in Pods |-> dev[q] \cup New(q)]
            /\ mtu' = [q \in Pods |-> mtu[q] \ New(q)]
            /\ tc' = [q \in Pods |-> tc[q] \ New(q)]
            /\ conf' = [q \in Pods |-> IF q \in Guests THEN conf[q] ELSE conf[q] \ New(q)]
  BY DEF PodUp
<1>2. made \cap LinksOf(p) = made
  OBVIOUS
<1>3. /\ phase[p] = "starting" /\ phase'[p] \in {"ready", "booting"}
      /\ \A q \in Pods \ {p} : phase'[q] = phase[q]
  BY DEF PodUp, Typing, Shapes
<1> QED
  BY <1>1, <1>2, <1>3

\* One deletion in a neighbour: a tunnel's end is gone if the neighbour's container
\* ran, and no pod gains an interface.
LEMMA VethCut ==
  ASSUME Typing, NEW w \in Workers, DeletePeerVeth(w)
  PROVE  \E l \in visit[w] : \E q \in Peers(pod[w], l) :
           /\ visit' = [visit EXCEPT ![w] = @ \ {l}]
           /\ \A p \in Pods : dev'[p] \subseteq dev[p]
           /\ l \in Tunnels /\ Running(q) => l \notin dev'[q]
<1> DEFINE l == First(visit[w])
<1>1. l \in visit[w] /\ l \in Links
  BY FirstIn DEF DeletePeerVeth, Typing, Shapes
<1>2. PICK q \in Peers(pod[w], l) :
        LET hit == IF ~Running(q) \/ l \notin dev[q] THEN {}
                   ELSE IF l \in Tunnels THEN {q} ELSE Ends[l]
        IN  /\ visit' = [visit EXCEPT ![w] = @ \ {l}]
            /\ Lose([p \in Pods |-> IF p \in hit THEN {l} ELSE {}])
  BY DEF DeletePeerVeth
<1> HIDE DEF l
<1>3. q \in Pods
  BY <1>1, TwoEnds DEF Peers
<1> QED
  BY <1>1, <1>2, <1>3 DEF Lose

-----------------------------------------------------------------------------
(* Types.                                                                   *)

\* Every step keeps the variables functions of the expected kinds.
LEMMA ShapeStep ==
  ASSUME Typing, [Next]_vars
  PROVE  Shapes'
<1>1. ASSUME NEW w \in Workers, ReadSkipped(w)
      PROVE  Shapes'
  <2>1. PICK p \in todo[w] : /\ pod' = [pod EXCEPT ![w] = p]
                             /\ visit' = [visit EXCEPT ![w] = CreatorOf(p)]
    BY <1>1 DEF ReadSkipped
  <2>2. p \in Pods /\ CreatorOf(p) \subseteq Links
    BY <2>1 DEF Typing, Shapes, CreatorOf, LinksOf
  <2> QED
    BY <1>1, <2>1, <2>2 DEF ReadSkipped, Goto, node, Typing, Shapes, Steps
<1>2. ASSUME NEW w \in Workers, InjectSkip(w)
      PROVE  Shapes'
  <2>1. CASE visit[w] = {}
    BY <1>2, <2>1 DEF InjectSkip, Goto, Devices, Typing, Shapes, Steps, LinksOf
  <2>2. CASE visit[w] # {}
    <3> DEFINE l == First(visit[w])
    <3>1. l \in Links
      BY <2>2, FirstIn DEF Typing, Shapes
    <3>2. /\ visit' = [visit EXCEPT ![w] = @ \ {l}] /\ UNCHANGED pc
          /\ skipped' = [p \in Pods |-> IF p \in Peers(pod[w], l)
                                        THEN skipped[p] \cup {l} ELSE skipped[p]]
      BY <1>2, <2>2 DEF InjectSkip
    <3> HIDE DEF l
    <3> QED
      BY <1>2, <3>1, <3>2 DEF InjectSkip, Devices, Typing, Shapes, Steps
  <2> QED
    BY <2>1, <2>2
<1>3. ASSUME NEW w \in Workers, DeletePeerVeth(w)
      PROVE  Shapes'
  BY <1>3 DEF DeletePeerVeth, Lose, Typing, Shapes
<1>4. ASSUME NEW w \in Workers, DeletePod(w)
      PROVE  Shapes'
  BY <1>4 DEF DeletePod, Goto, Devices, Typing, Shapes, Steps, Phases
<1>5. ASSUME NEW w \in Workers, RestartFails(w)
      PROVE  Shapes'
  BY <1>5 DEF RestartFails, CallFails, Fails, node, Typing, Shapes, Steps
<1>6. ASSUME NEW w \in Workers, Deleted(w)
      PROVE  Shapes'
  BY <1>6 DEF Deleted, Goto, node, Typing, Shapes, Steps
<1>7. ASSUME NEW w \in Workers, SeePodReady(w)
      PROVE  Shapes'
  BY <1>7 DEF SeePodReady, node, Typing, Shapes
<1>8. ASSUME NEW w \in Workers, PodsReady(w)
      PROVE  Shapes'
  BY <1>8 DEF PodsReady, Goto, node, Typing, Shapes, Steps
<1>9. ASSUME NEW w \in Workers, WaitTimesOut(w)
      PROVE  Shapes'
  BY <1>9 DEF WaitTimesOut, Goto, node, Typing, Shapes, Steps
<1>10. ASSUME NEW w \in Workers, MTUPass(w)
      PROVE  Shapes'
  BY <1>10 DEF MTUPass, Goto, Typing, Shapes, Steps
<1>11. ASSUME NEW w \in Workers, MTUPassFails(w)
      PROVE  Shapes'
  BY <1>11 DEF MTUPassFails, CallFails, Fails, node, Typing, Shapes, Steps
<1>12. ASSUME NEW w \in Workers, Replay(w)
      PROVE  Shapes'
  BY <1>12, FirstIn, SMTT(30) DEF Replay, Fails, Typing, Shapes, Steps, Phases
<1>13. ASSUME NEW w \in Workers, EndRestart(w)
      PROVE  Shapes'
  BY <1>13 DEF EndRestart, Goto, ReapplyPeers, Rewired, Typing, Shapes, Steps
<1>14. ASSUME NEW w \in Workers, Check(w)
      PROVE  Shapes'
  <2>1. PICK found : issues' = [issues EXCEPT ![w] = MissingEnds(found)]
    BY <1>14 DEF Check
  <2>2. MissingEnds(found) \subseteq LinkEnds
    BY DEF MissingEnds
  <2>3. pc' \in [Workers -> Steps]
    BY <1>14 DEF Check, Goto, Typing, Shapes, Steps
  <2> QED
    BY <1>14, <2>1, <2>2, <2>3 DEF Check, node, Typing, Shapes
<1>15. ASSUME NEW w \in Workers, Decide(w)
      PROVE  Shapes'
  <2>1. \A l \in Links : RestartFor(w, l) \subseteq Ends[l]
    BY DEF RestartFor
  <2>3. UNION {RestartFor(w, l) : l \in Links} \subseteq Pods
    BY <2>1, TwoEnds
  <2> QED
    BY <1>15, <2>3 DEF Decide, Goto, node, Typing, Shapes, Steps
<1>16. ASSUME NEW w \in Workers, EndRound(w)
      PROVE  Shapes'
  BY <1>16 DEF EndRound, Goto, ReapplyPeers, Rewired, Typing, Shapes, Steps
<1>17. ASSUME NEW w \in Workers, RestartRequest(w)
      PROVE  Shapes'
  <2>1. PICK p \in Targets : /\ batch' = [batch EXCEPT ![w] = {p}]
                             /\ todo' = [todo EXCEPT ![w] = {p}]
    BY <1>17 DEF RestartRequest
  <2> QED
    BY <1>17, <2>1, RestartAssumption DEF RestartRequest, Goto, node, Typing, Shapes, Steps
<1>18. ASSUME NEW w \in Workers, HealRequest(w)
      PROVE  Shapes'
  BY <1>18 DEF HealRequest, Goto, node, Typing, Shapes, Steps
<1>19. ASSUME NEW p \in Pods, PodGone(p)
      PROVE  Shapes'
  BY <1>19 DEF PodGone, Lose, worker, Typing, Shapes, Phases
<1>20. ASSUME NEW p \in Pods, PodUp(p)
      PROVE  Shapes'
  <2>1. PICK made \in SUBSET LinksOf(p) :
          LET New(q) == IF q = p THEN made ELSE made \cap LinksOf(q)
          IN  /\ dev' = [q \in Pods |-> dev[q] \cup New(q)]
              /\ mtu' = [q \in Pods |-> mtu[q] \ New(q)]
              /\ tc' = [q \in Pods |-> tc[q] \ New(q)]
              /\ conf' = [q \in Pods |-> IF q \in Guests THEN conf[q] ELSE conf[q] \ New(q)]
    BY <1>20 DEF PodUp
  <2>2. made \subseteq Links
    BY DEF LinksOf
  <2>3. phase' \in [Pods -> Phases]
    BY <1>20 DEF PodUp, Typing, Shapes, Phases
  <2> QED
    BY <1>20, <2>1, <2>2, <2>3 DEF PodUp, worker, Typing, Shapes
<1>21. ASSUME NEW p \in Pods, Launch(p)
      PROVE  Shapes'
  BY <1>21 DEF Launch, worker, Typing, Shapes, Phases
<1>22. CASE UNCHANGED vars
  BY <1>22 DEF vars, node, worker, Typing, Shapes
<1> QED
  BY <1>1, <1>2, <1>3, <1>4, <1>5, <1>6, <1>7, <1>8, <1>9, <1>10, <1>11, <1>12, <1>13, <1>14,
         <1>15, <1>16, <1>17, <1>18, <1>19, <1>20, <1>21, <1>22 DEF Next, RestartStep, PodStep

\* Every step keeps TypeOK: no handler leaves its tables, its links or its rounds.
LEMMA TypeStep ==
  ASSUME Typing, [Next]_vars
  PROVE  TypeOK'
<1>1. ASSUME NEW w \in Workers, ReadSkipped(w)
      PROVE  TypeOK'
  <2>1. PICK p \in todo[w] : /\ pod' = [pod EXCEPT ![w] = p]
                             /\ visit' = [visit EXCEPT ![w] = CreatorOf(p)]
    BY <1>1 DEF ReadSkipped
  <2>2. p \in Pods /\ CreatorOf(p) \subseteq LinksOf(p)
    BY <2>1 DEF Typing, Shapes, CreatorOf
  <2> QED
    BY <1>1, <2>1, <2>2, ShapeStep
       DEF ReadSkipped, Goto, node, Typing, Shapes, Steps, TypeOK, Phases
<1>2. ASSUME NEW w \in Workers, InjectSkip(w)
      PROVE  TypeOK'
  <2>1. CASE visit[w] = {}
    BY <1>2, <2>1, ShapeStep, SMTT(30) DEF InjectSkip, Goto, Devices, Typing, Shapes, Steps, Phases, TypeOK
  <2>2. CASE visit[w] # {}
    <3> DEFINE l == First(visit[w])
    <3>1. l \in Links /\ l \in visit[w]
      BY <2>2, FirstIn DEF Typing, Shapes
    <3>2. /\ visit' = [visit EXCEPT ![w] = @ \ {l}] /\ UNCHANGED pc
          /\ skipped' = [p \in Pods |-> IF p \in Peers(pod[w], l)
                                        THEN skipped[p] \cup {l} ELSE skipped[p]]
      BY <1>2, <2>2 DEF InjectSkip
    <3> HIDE DEF l
    <3>3. \A p \in Pods : skipped'[p] \subseteq LinksOf(p)
      BY <3>1, <3>2 DEF Typing, TypeOK, Peers, LinksOf
    <3>4. \A v \in Workers : visit'[v] \subseteq LinksOf(pod[v])
      BY <3>2 DEF Typing, Shapes, TypeOK
    <3> QED
      BY <1>2, <3>2, <3>3, <3>4 DEF InjectSkip, Devices, Typing, TypeOK
  <2> QED
    BY <2>1, <2>2
<1>3. ASSUME NEW w \in Workers, DeletePeerVeth(w)
      PROVE  TypeOK'
  BY <1>3 DEF DeletePeerVeth, Lose, Typing, Shapes, TypeOK
<1>4. ASSUME NEW w \in Workers, DeletePod(w)
      PROVE  TypeOK'
  BY <1>4 DEF DeletePod, Goto, Devices, Typing, Shapes, TypeOK
<1>5. ASSUME NEW w \in Workers, RestartFails(w)
      PROVE  TypeOK'
  <2>1. todo' \in [Workers -> SUBSET Pods] /\ \A v \in Workers : todo'[v] \subseteq todo[v]
    BY <1>5 DEF RestartFails, Typing, Shapes
  <2>2. pc' \in [Workers -> Steps]
    BY <1>5 DEF RestartFails, Fails, Typing, Shapes, Steps
  <2> QED
    BY <1>5, <2>1, <2>2 DEF RestartFails, Fails, node, Typing, TypeOK, Steps
<1>6. ASSUME NEW w \in Workers, Deleted(w)
      PROVE  TypeOK'
  BY <1>6 DEF Deleted, Goto, node, Typing, Shapes, TypeOK
<1>7. ASSUME NEW w \in Workers, SeePodReady(w)
      PROVE  TypeOK'
  BY <1>7 DEF SeePodReady, node, Typing, Shapes, TypeOK
<1>8. ASSUME NEW w \in Workers, PodsReady(w)
      PROVE  TypeOK'
  BY <1>8 DEF PodsReady, Goto, node, Typing, Shapes, TypeOK
<1>9. ASSUME NEW w \in Workers, WaitTimesOut(w)
      PROVE  TypeOK'
  BY <1>9, RestartAssumption DEF WaitTimesOut, Goto, node, Typing, Shapes, TypeOK
<1>10. ASSUME NEW w \in Workers, MTUPass(w)
      PROVE  TypeOK'
  BY <1>10 DEF MTUPass, Goto, Typing, Shapes, TypeOK
<1>11. ASSUME NEW w \in Workers, MTUPassFails(w)
      PROVE  TypeOK'
  BY <1>11 DEF MTUPassFails, CallFails, Fails, node, Typing, Shapes, TypeOK
<1>12. ASSUME NEW w \in Workers, Replay(w)
      PROVE  TypeOK'
  <2>1. PICK p \in todo[w] :
       /\ todo' = [todo EXCEPT ![w] = @ \ {p}]
       /\ \/ /\ conf' = [conf EXCEPT ![p] = @ \cup (rows[p] \cap Has(p))]
             /\ rows' = [rows EXCEPT ![p] = @ \cap Has(p)]
             /\ UNCHANGED <<pc, dirty>>
          \/ UNCHANGED <<conf, rows>> /\ Fails(w, "replay")
    BY <1>12 DEF Replay
  <2>2. \A q \in Pods : rows'[q] \subseteq rows[q] /\ conf'[q] \subseteq conf[q] \cup rows[q]
    BY <2>1 DEF Typing, Shapes
  <2>3. \A v \in Workers : todo'[v] \subseteq todo[v]
    BY <2>1 DEF Typing, Shapes
  <2>4. pc' \in [Workers -> Steps] /\ dirty' \in BOOLEAN
    BY <2>1 DEF Fails, Typing, Shapes, Steps, TypeOK
  <2> QED
    BY <1>12, <2>2, <2>3, <2>4 DEF Replay, Typing, TypeOK, Steps
<1>13. ASSUME NEW w \in Workers, EndRestart(w)
      PROVE  TypeOK'
  BY <1>13 DEF EndRestart, Goto, ReapplyPeers, Rewired, Typing, Shapes, TypeOK
<1>14. ASSUME NEW w \in Workers, Check(w)
      PROVE  TypeOK'
  BY <1>14, ShapeStep DEF Check, Goto, node, Typing, Shapes, TypeOK
<1>15. ASSUME NEW w \in Workers, Decide(w)
      PROVE  TypeOK'
  BY <1>15, ShapeStep DEF Decide, Goto, node, Typing, Shapes, TypeOK
<1>16. ASSUME NEW w \in Workers, EndRound(w)
      PROVE  TypeOK'
  <2>1. round' \in [Workers -> 0 .. MaxRounds + 1]
    BY <1>16, RestartAssumption DEF EndRound, Typing, TypeOK, WorkerOK
  <2>2. pc' \in [Workers -> Steps]
    BY <1>16 DEF EndRound, Goto, Typing, Shapes, Steps
  <2>3. /\ \A p \in Pods : conf'[p] \subseteq conf[p] \cup rows[p]
        /\ \A p \in Pods : tc'[p] \subseteq tc[p] \cup (dev[p] \cap taps[p])
    BY <1>16 DEF EndRound, ReapplyPeers, Restored, Rewired
  <2> QED
    BY <1>16, <2>1, <2>2, <2>3 DEF EndRound, ReapplyPeers, Typing, TypeOK, Steps
<1>17. ASSUME NEW w \in Workers, RestartRequest(w)
      PROVE  TypeOK'
  BY <1>17, RestartAssumption DEF RestartRequest, Goto, node, Typing, Shapes, TypeOK
<1>18. ASSUME NEW w \in Workers, HealRequest(w)
      PROVE  TypeOK'
  BY <1>18, RestartAssumption DEF HealRequest, Goto, node, Typing, Shapes, TypeOK
<1>19. ASSUME NEW p \in Pods, PodGone(p)
      PROVE  TypeOK'
  BY <1>19 DEF PodGone, Lose, worker, Typing, Shapes, TypeOK
<1>20. ASSUME NEW p \in Pods, PodUp(p)
      PROVE  TypeOK'
  BY <1>20 DEF PodUp, worker, Typing, Shapes, TypeOK
<1>21. ASSUME NEW p \in Pods, Launch(p)
      PROVE  TypeOK'
  <2>1. phase' \in [Pods -> Phases]
    BY <1>21 DEF Launch, Typing, Shapes, Phases
  <2>2. p \in Guests
    BY <1>21 DEF Launch, Typing, WorkerOK
  <2> QED
    BY <1>21, <2>1, <2>2 DEF Launch, worker, Typing, Shapes, TypeOK, Phases
<1>22. CASE UNCHANGED vars
  BY <1>22 DEF vars, node, worker, Typing, Shapes, TypeOK
<1> QED
  BY <1>1, <1>2, <1>3, <1>4, <1>5, <1>6, <1>7, <1>8, <1>9, <1>10, <1>11, <1>12, <1>13, <1>14,
         <1>15, <1>16, <1>17, <1>18, <1>19, <1>20, <1>21, <1>22 DEF Next, RestartStep, PodStep

\* Every step keeps what a worker's place says about its pod, its links and its rounds.
LEMMA WorkerStep ==
  ASSUME Typing, [Next]_vars
  PROVE  WorkerOK'
<1>1. ASSUME NEW w \in Workers, ReadSkipped(w)
      PROVE  WorkerOK'
  <2>1. PICK p \in todo[w] : /\ pod' = [pod EXCEPT ![w] = p]
                             /\ visit' = [visit EXCEPT ![w] = CreatorOf(p)]
    BY <1>1 DEF ReadSkipped
  <2>2. CreatorOf(p) \subseteq Inner
    BY DEF CreatorOf
  <2> QED
    BY <1>1, <2>1, <2>2, ShapeStep DEF ReadSkipped, Goto, node, Typing, Shapes, Steps, WorkerOK
<1>2. ASSUME NEW w \in Workers, InjectSkip(w)
      PROVE  WorkerOK'
  <2>1. PICK V : visit' = [visit EXCEPT ![w] = V] /\ V \subseteq Inner
    BY <1>2 DEF InjectSkip, Typing, WorkerOK
  <2> QED
    BY <1>2, <2>1 DEF InjectSkip, Goto, Devices, Typing, Shapes, Steps, WorkerOK
<1>3. ASSUME NEW w \in Workers, DeletePeerVeth(w)
      PROVE  WorkerOK'
  BY <1>3 DEF DeletePeerVeth, Lose, Typing, Shapes, WorkerOK
<1>4. ASSUME NEW w \in Workers, DeletePod(w)
      PROVE  WorkerOK'
  BY <1>4 DEF DeletePod, Goto, Devices, Typing, Shapes, WorkerOK
<1>5. ASSUME NEW w \in Workers, RestartFails(w)
      PROVE  WorkerOK'
  BY <1>5 DEF RestartFails, CallFails, Fails, node, Typing, Shapes, WorkerOK
<1>6. ASSUME NEW w \in Workers, Deleted(w)
      PROVE  WorkerOK'
  BY <1>6 DEF Deleted, Goto, node, Typing, Shapes, WorkerOK
<1>7. ASSUME NEW w \in Workers, SeePodReady(w)
      PROVE  WorkerOK'
  BY <1>7 DEF SeePodReady, node, Typing, Shapes, WorkerOK
<1>8. ASSUME NEW w \in Workers, PodsReady(w)
      PROVE  WorkerOK'
  BY <1>8 DEF PodsReady, Goto, node, Typing, Shapes, WorkerOK
<1>9. ASSUME NEW w \in Workers, WaitTimesOut(w)
      PROVE  WorkerOK'
  BY <1>9 DEF WaitTimesOut, Goto, node, Typing, Shapes, WorkerOK, Workers
<1>10. ASSUME NEW w \in Workers, MTUPass(w)
      PROVE  WorkerOK'
  BY <1>10 DEF MTUPass, Goto, Typing, Shapes, WorkerOK
<1>11. ASSUME NEW w \in Workers, MTUPassFails(w)
      PROVE  WorkerOK'
  BY <1>11 DEF MTUPassFails, CallFails, Fails, node, Typing, Shapes, WorkerOK
<1>12. ASSUME NEW w \in Workers, Replay(w)
      PROVE  WorkerOK'
  BY <1>12 DEF Replay, Fails, Typing, Shapes, WorkerOK
<1>13. ASSUME NEW w \in Workers, EndRestart(w)
      PROVE  WorkerOK'
  BY <1>13 DEF EndRestart, Goto, ReapplyPeers, Typing, Shapes, WorkerOK
<1>14. ASSUME NEW w \in Workers, Check(w)
      PROVE  WorkerOK'
  BY <1>14 DEF Check, Goto, node, Typing, Shapes, WorkerOK
<1>15. ASSUME NEW w \in Workers, Decide(w)
      PROVE  WorkerOK'
  BY <1>15, RestartAssumption DEF Decide, Goto, node, Typing, Shapes, WorkerOK
<1>16. ASSUME NEW w \in Workers, EndRound(w)
      PROVE  WorkerOK'
  <2>1. round[w] \in 1 .. MaxRounds /\ round[w] # MaxRounds => round[w] + 1 \in 1 .. MaxRounds
    BY RestartAssumption
  <2>2. pc' = [pc EXCEPT ![w] = IF round[w] = MaxRounds THEN "idle" ELSE "check"]
    BY <1>16 DEF EndRound, Goto
  <2> QED
    BY <1>16, <2>1, <2>2, RestartAssumption
       DEF EndRound, ReapplyPeers, Typing, Shapes, Steps, TypeOK, WorkerOK, Workers
<1>17. ASSUME NEW w \in Workers, RestartRequest(w)
      PROVE  WorkerOK'
  BY <1>17, RestartAssumption, SMTT(30) DEF RestartRequest, Goto, node, Typing, Shapes, WorkerOK
<1>18. ASSUME NEW w \in Workers, HealRequest(w)
      PROVE  WorkerOK'
  BY <1>18, RestartAssumption DEF HealRequest, Goto, node, Typing, Shapes, TypeOK, WorkerOK
<1>19. ASSUME NEW p \in Pods, PodGone(p)
      PROVE  WorkerOK'
  BY <1>19 DEF PodGone, Lose, worker, Typing, Shapes, WorkerOK
<1>20. ASSUME NEW p \in Pods, PodUp(p)
      PROVE  WorkerOK'
  BY <1>20 DEF PodUp, worker, Typing, Shapes, WorkerOK
<1>21. ASSUME NEW p \in Pods, Launch(p)
      PROVE  WorkerOK'
  BY <1>21 DEF Launch, worker, Typing, Shapes, WorkerOK
<1>22. CASE UNCHANGED vars
  BY <1>22 DEF vars, node, worker, Typing, Shapes, WorkerOK
<1> QED
  BY <1>1, <1>2, <1>3, <1>4, <1>5, <1>6, <1>7, <1>8, <1>9, <1>10, <1>11, <1>12, <1>13, <1>14,
         <1>15, <1>16, <1>17, <1>18, <1>19, <1>20, <1>21, <1>22 DEF Next, RestartStep, PodStep

\* The deployed topology is well typed.
LEMMA TypingInit ==
  ASSUME Init
  PROVE  Typing
<1>1. dev \in [Pods -> SUBSET Links] /\ \A p \in Pods : dev[p] \subseteq LinksOf(p)
  BY DEF Init, LinksOf
<1>2. \A p \in Pods : Ops[p] \subseteq LinksOf(p)
  BY RestartAssumption DEF LinksOf
<1>3. Shapes
  BY <1>1, RestartAssumption DEF Init, Shapes, Steps, Phases, AnyPod
<1>4. TypeOK
  <2>1. /\ \A p \in Pods : /\ dev[p] \cup rows[p] \cup skipped[p] \cup taps[p] \subseteq LinksOf(p)
                           /\ mtu[p] \subseteq dev[p] /\ conf[p] \subseteq LinksOf(p)
                           /\ tc[p] \subseteq dev[p] \cap taps[p]
                           /\ (p \notin Guests => taps[p] = {})
    BY <1>1, <1>2 DEF Init
  <2>2. round \in [Workers -> 0 .. MaxRounds + 1] /\ left \in 0 .. MaxRequests
    BY RestartAssumption DEF Init
  <2>3. \A w \in Workers : /\ todo[w] \subseteq batch[w] /\ batch[w] \subseteq Pods
                          /\ visit[w] \subseteq LinksOf(pod[w]) /\ issues[w] \subseteq LinkEnds
    BY DEF Init
  <2> QED
    BY <1>3, <2>1, <2>2, <2>3 DEF Init, Shapes, Phases, Steps, TypeOK
<1>5. WorkerOK
  BY DEF Init, WorkerOK
<1> QED
  BY <1>3, <1>4, <1>5 DEF Typing

\* TypeOK is an invariant whatever requests overlap: restarts and heal passes keep
\* interfaces, redirects, operations and skip entries on the links of their own pods.
THEOREM RestartTypes == Spec => []TypeOK
<1>1. Init => Typing
  BY TypingInit
<1>2. Typing /\ [Next]_vars => Typing'
  BY ShapeStep, TypeStep, WorkerStep DEF Typing
<1>3. Typing => TypeOK
  BY DEF Typing
<1> QED
  BY <1>1, <1>2, <1>3, PTL DEF Spec

-----------------------------------------------------------------------------
(* Requests and skip entries.                                               *)

\* A request that is let in is the only one next to its pods.
LEMMA ExclusiveStep ==
  ASSUME ~ Overlap, Typing, Exclusive, [Next]_vars
  PROVE  Exclusive'
<1>1. ASSUME NEW w \in Workers, ReadSkipped(w)
      PROVE  Exclusive'
  BY <1>1 DEF ReadSkipped, Goto, node, Typing, Shapes, Exclusive
<1>2. ASSUME NEW w \in Workers, InjectSkip(w)
      PROVE  Exclusive'
  BY <1>2 DEF InjectSkip, Goto, Devices, Typing, Shapes, Exclusive
<1>3. ASSUME NEW w \in Workers, DeletePeerVeth(w)
      PROVE  Exclusive'
  BY <1>3 DEF DeletePeerVeth, Lose, Typing, Shapes, Exclusive
<1>4. ASSUME NEW w \in Workers, DeletePod(w)
      PROVE  Exclusive'
  BY <1>4 DEF DeletePod, Goto, Devices, Typing, Shapes, Exclusive
<1>5. ASSUME NEW w \in Workers, RestartFails(w)
      PROVE  Exclusive'
  BY <1>5 DEF RestartFails, CallFails, Fails, node, Typing, Shapes, Exclusive
<1>6. ASSUME NEW w \in Workers, Deleted(w)
      PROVE  Exclusive'
  BY <1>6 DEF Deleted, Goto, node, Typing, Shapes, Exclusive
<1>7. ASSUME NEW w \in Workers, SeePodReady(w)
      PROVE  Exclusive'
  BY <1>7 DEF SeePodReady, node, Typing, Shapes, Exclusive
<1>8. ASSUME NEW w \in Workers, PodsReady(w)
      PROVE  Exclusive'
  BY <1>8 DEF PodsReady, Goto, node, Typing, Shapes, Exclusive
<1>9. ASSUME NEW w \in Workers, WaitTimesOut(w)
      PROVE  Exclusive'
  BY <1>9 DEF WaitTimesOut, Goto, node, Typing, Shapes, Exclusive
<1>10. ASSUME NEW w \in Workers, MTUPass(w)
      PROVE  Exclusive'
  BY <1>10 DEF MTUPass, Goto, Typing, Shapes, Exclusive
<1>11. ASSUME NEW w \in Workers, MTUPassFails(w)
      PROVE  Exclusive'
  BY <1>11 DEF MTUPassFails, CallFails, Fails, node, Typing, Shapes, Exclusive
<1>12. ASSUME NEW w \in Workers, Replay(w)
      PROVE  Exclusive'
  BY <1>12 DEF Replay, Fails, Typing, Shapes, Exclusive
<1>13. ASSUME NEW w \in Workers, EndRestart(w)
      PROVE  Exclusive'
  BY <1>13 DEF EndRestart, Goto, ReapplyPeers, Typing, Shapes, Exclusive
<1>14. ASSUME NEW w \in Workers, Check(w)
      PROVE  Exclusive'
  BY <1>14 DEF Check, Goto, node, Typing, Shapes, Exclusive
<1>15. ASSUME NEW w \in Workers, Decide(w)
      PROVE  Exclusive'
  BY <1>15, RestartAssumption DEF Decide, Goto, node, Typing, Shapes, WorkerOK, Exclusive
<1>16. ASSUME NEW w \in Workers, EndRound(w)
      PROVE  Exclusive'
  BY <1>16 DEF EndRound, Goto, ReapplyPeers, Typing, Shapes, Exclusive
<1>17. ASSUME NEW w \in Workers, RestartRequest(w)
      PROVE  Exclusive'
  <2>1. PICK p \in Pods : Clear(w, p) /\ batch' = [batch EXCEPT ![w] = {p}]
    BY <1>17, RestartAssumption DEF RestartRequest
  <2>2. \A v \in Workers \ {w} : pc'[v] = pc[v] /\ batch'[v] = batch[v]
    BY <1>17, <2>1 DEF RestartRequest, Goto, Typing, Shapes
  <2>3. batch'[w] = {p} /\ w \in Restarters
    BY <1>17, <2>1 DEF RestartRequest, Typing, Shapes
  <2>4. ASSUME NEW v \in Workers \ {w}, pc[v] # "idle"
        PROVE  /\ v \in Restarters /\ batch[v] \cap Near(p) = {}
               /\ \A q \in batch[v] : p \notin Near(q)
    <3>1. v \in Restarters /\ batch[v] \cap Near(p) = {}
      BY <2>1, <2>4 DEF Clear
    <3> QED
      BY <3>1, NearIs DEF Typing, Shapes
  <2> QED
    BY <2>2, <2>3, <2>4 DEF Exclusive
<1>18. ASSUME NEW w \in Workers, HealRequest(w)
      PROVE  Exclusive'
  <2>1. \A v \in Workers \ {w} : pc'[v] = "idle"
    BY <1>18 DEF HealRequest, Quiet, Goto, Typing, Shapes
  <2> QED
    BY <2>1 DEF Exclusive
<1>19. ASSUME NEW p \in Pods, PodGone(p)
      PROVE  Exclusive'
  BY <1>19 DEF PodGone, Lose, worker, Typing, Shapes, Exclusive
<1>20. ASSUME NEW p \in Pods, PodUp(p)
      PROVE  Exclusive'
  BY <1>20 DEF PodUp, worker, Typing, Shapes, Exclusive
<1>21. ASSUME NEW p \in Pods, Launch(p)
      PROVE  Exclusive'
  BY <1>21 DEF Launch, worker, Typing, Shapes, Exclusive
<1>22. CASE UNCHANGED vars
  BY <1>22 DEF vars, node, worker, Typing, Shapes, Exclusive
<1> QED
  BY <1>1, <1>2, <1>3, <1>4, <1>5, <1>6, <1>7, <1>8, <1>9, <1>10, <1>11, <1>12, <1>13, <1>14,
         <1>15, <1>16, <1>17, <1>18, <1>19, <1>20, <1>21, <1>22 DEF Next, RestartStep, PodStep

\* No other request writes the skip entries of a pod whose peers are being told to skip.
LEMMA InjectStep ==
  ASSUME ~ Overlap, Typing, Exclusive, Skips, [Next]_vars
  PROVE  InjectOK'
<1>1. ASSUME NEW w \in Workers, ReadSkipped(w)
      PROVE  InjectOK'
  <2>1. PICK p \in todo[w] : /\ pod' = [pod EXCEPT ![w] = p]
                             /\ visit' = [visit EXCEPT ![w] = CreatorOf(p)]
    BY <1>1 DEF ReadSkipped
  <2>2. CreatorOf(p) \cap skipped[p] = {}
    BY DEF CreatorOf
  <2> QED
    BY <1>1, <2>1, <2>2 DEF ReadSkipped, Goto, node, Typing, Shapes, Skips, InjectOK
<1>2. ASSUME NEW w \in Workers, InjectSkip(w)
      PROVE  InjectOK'
  <2>1. CASE visit[w] = {}
    BY <1>2, <2>1 DEF InjectSkip, Goto, Typing, Shapes, Skips, InjectOK
  <2>2. CASE visit[w] # {}
    <3>1. PICK l \in visit[w] :
            /\ visit' = [visit EXCEPT ![w] = @ \ {l}]
            /\ skipped' = [p \in Pods |-> IF p \in Peers(pod[w], l)
                                          THEN skipped[p] \cup {l} ELSE skipped[p]]
      BY <1>2, <2>2, FirstIn DEF InjectSkip
    <3>2. UNCHANGED <<pc, pod>>
      BY <1>2, <2>2 DEF InjectSkip
    <3>3. l \in Links /\ pod[w] \in Ends[l] /\ pod[w] \in batch[w]
      BY <1>2 DEF InjectSkip, Typing, Shapes, TypeOK, WorkerOK, LinksOf
    <3>4. ASSUME NEW v \in Workers, pc[v] = "inject"
          PROVE  visit'[v] \cap skipped'[pod[v]] = {}
      <4>1. pod[v] \in batch[v] /\ pod[v] \in Pods
        BY <3>4 DEF Typing, Shapes, TypeOK, WorkerOK
      <4>2. pod[v] \notin Peers(pod[w], l)
        BY <1>2, <3>3, <3>4, <4>1, NearIs DEF InjectSkip, Peers, Exclusive
      <4> QED
        BY <3>1, <3>4, <4>1, <4>2 DEF Typing, Shapes, Skips, InjectOK
    <3> QED
      BY <3>2, <3>4 DEF InjectOK
  <2> QED
    BY <2>1, <2>2
<1>3. ASSUME NEW w \in Workers, DeletePeerVeth(w)
      PROVE  InjectOK'
  BY <1>3 DEF DeletePeerVeth, Lose, Typing, Shapes, InjectOK, Skips
<1>4. ASSUME NEW w \in Workers, DeletePod(w)
      PROVE  InjectOK'
  BY <1>4 DEF DeletePod, Goto, Devices, Typing, Shapes, InjectOK, Skips
<1>5. ASSUME NEW w \in Workers, RestartFails(w)
      PROVE  InjectOK'
  BY <1>5 DEF RestartFails, CallFails, Fails, node, Typing, Shapes, InjectOK, Skips
<1>6. ASSUME NEW w \in Workers, Deleted(w)
      PROVE  InjectOK'
  BY <1>6 DEF Deleted, Goto, node, Typing, Shapes, InjectOK, Skips
<1>7. ASSUME NEW w \in Workers, SeePodReady(w)
      PROVE  InjectOK'
  BY <1>7 DEF SeePodReady, node, Typing, Shapes, InjectOK, Skips
<1>8. ASSUME NEW w \in Workers, PodsReady(w)
      PROVE  InjectOK'
  BY <1>8 DEF PodsReady, Goto, node, Typing, Shapes, InjectOK, Skips
<1>9. ASSUME NEW w \in Workers, WaitTimesOut(w)
      PROVE  InjectOK'
  BY <1>9 DEF WaitTimesOut, Goto, node, Typing, Shapes, InjectOK, Skips
<1>10. ASSUME NEW w \in Workers, MTUPass(w)
      PROVE  InjectOK'
  BY <1>10 DEF MTUPass, Goto, Typing, Shapes, InjectOK, Skips
<1>11. ASSUME NEW w \in Workers, MTUPassFails(w)
      PROVE  InjectOK'
  BY <1>11 DEF MTUPassFails, CallFails, Fails, node, Typing, Shapes, InjectOK, Skips
<1>12. ASSUME NEW w \in Workers, Replay(w)
      PROVE  InjectOK'
  BY <1>12 DEF Replay, Fails, Typing, Shapes, InjectOK, Skips
<1>13. ASSUME NEW w \in Workers, EndRestart(w)
      PROVE  InjectOK'
  BY <1>13 DEF EndRestart, Goto, ReapplyPeers, Typing, Shapes, InjectOK, Skips
<1>14. ASSUME NEW w \in Workers, Check(w)
      PROVE  InjectOK'
  BY <1>14 DEF Check, Goto, node, Typing, Shapes, InjectOK, Skips
<1>15. ASSUME NEW w \in Workers, Decide(w)
      PROVE  InjectOK'
  BY <1>15 DEF Decide, Goto, node, Typing, Shapes, InjectOK, Skips
<1>16. ASSUME NEW w \in Workers, EndRound(w)
      PROVE  InjectOK'
  BY <1>16 DEF EndRound, Goto, ReapplyPeers, Typing, Shapes, InjectOK, Skips
<1>17. ASSUME NEW w \in Workers, RestartRequest(w)
      PROVE  InjectOK'
  BY <1>17 DEF RestartRequest, Goto, node, Typing, Shapes, InjectOK, Skips
<1>18. ASSUME NEW w \in Workers, HealRequest(w)
      PROVE  InjectOK'
  BY <1>18 DEF HealRequest, Goto, node, Typing, Shapes, InjectOK, Skips
<1>19. ASSUME NEW p \in Pods, PodGone(p)
      PROVE  InjectOK'
  BY <1>19 DEF PodGone, Lose, worker, Typing, Shapes, InjectOK, Skips
<1>20. ASSUME NEW p \in Pods, PodUp(p)
      PROVE  InjectOK'
  BY <1>20 DEF PodUp, worker, Typing, Shapes, InjectOK, Skips
<1>21. ASSUME NEW p \in Pods, Launch(p)
      PROVE  InjectOK'
  BY <1>21 DEF Launch, worker, Typing, Shapes, InjectOK, Skips
<1>22. CASE UNCHANGED vars
  BY <1>22 DEF vars, node, worker, Typing, Shapes, InjectOK, Skips
<1> QED
  BY <1>1, <1>2, <1>3, <1>4, <1>5, <1>6, <1>7, <1>8, <1>9, <1>10, <1>11, <1>12, <1>13, <1>14,
         <1>15, <1>16, <1>17, <1>18, <1>19, <1>20, <1>21, <1>22 DEF Next, RestartStep, PodStep

\* injectPeerSkipEntries never makes both ends of a link skip it.
LEMMA OneSideStep ==
  ASSUME Typing, Skips, [Next]_vars
  PROVE  OneSideSkips'
<1>1. ASSUME NEW w \in Workers, ReadSkipped(w)
      PROVE  OneSideSkips'
  BY <1>1 DEF ReadSkipped, Goto, node, Skips, OneSideSkips, BothSkip
<1>2. ASSUME NEW w \in Workers, InjectSkip(w)
      PROVE  OneSideSkips'
  <2>1. CASE visit[w] = {}
    BY <1>2, <2>1 DEF InjectSkip, Skips, OneSideSkips, BothSkip
  <2>2. CASE visit[w] # {}
    <3>1. PICK l \in visit[w] :
            skipped' = [p \in Pods |-> IF p \in Peers(pod[w], l)
                                       THEN skipped[p] \cup {l} ELSE skipped[p]]
      BY <1>2, <2>2, FirstIn DEF InjectSkip
    <3>2. l \in Links /\ pod[w] \in Ends[l] /\ l \notin skipped[pod[w]]
      BY <1>2 DEF InjectSkip, Typing, Shapes, TypeOK, WorkerOK, LinksOf, Skips, InjectOK
    <3>3. l \notin skipped'[pod[w]]
      BY <3>1, <3>2, TwoEnds DEF Peers
    <3>4. \A k \in Inner \ {l} : \A p \in Ends[k] : k \in skipped'[p] => k \in skipped[p]
      BY <3>1, TwoEnds DEF Inner
    <3> QED
      BY <3>2, <3>3, <3>4 DEF Skips, OneSideSkips, BothSkip
  <2> QED
    BY <2>1, <2>2
<1>3. ASSUME NEW w \in Workers, DeletePeerVeth(w)
      PROVE  OneSideSkips'
  BY <1>3 DEF DeletePeerVeth, Lose, Skips, OneSideSkips, BothSkip
<1>4. ASSUME NEW w \in Workers, DeletePod(w)
      PROVE  OneSideSkips'
  BY <1>4 DEF DeletePod, Goto, Devices, Skips, OneSideSkips, BothSkip
<1>5. ASSUME NEW w \in Workers, RestartFails(w)
      PROVE  OneSideSkips'
  BY <1>5 DEF RestartFails, CallFails, Fails, node, Skips, OneSideSkips, BothSkip
<1>6. ASSUME NEW w \in Workers, Deleted(w)
      PROVE  OneSideSkips'
  BY <1>6 DEF Deleted, Goto, node, Skips, OneSideSkips, BothSkip
<1>7. ASSUME NEW w \in Workers, SeePodReady(w)
      PROVE  OneSideSkips'
  BY <1>7 DEF SeePodReady, node, Skips, OneSideSkips, BothSkip
<1>8. ASSUME NEW w \in Workers, PodsReady(w)
      PROVE  OneSideSkips'
  BY <1>8 DEF PodsReady, Goto, node, Skips, OneSideSkips, BothSkip
<1>9. ASSUME NEW w \in Workers, WaitTimesOut(w)
      PROVE  OneSideSkips'
  BY <1>9 DEF WaitTimesOut, Goto, node, Skips, OneSideSkips, BothSkip
<1>10. ASSUME NEW w \in Workers, MTUPass(w)
      PROVE  OneSideSkips'
  BY <1>10 DEF MTUPass, Goto, Skips, OneSideSkips, BothSkip
<1>11. ASSUME NEW w \in Workers, MTUPassFails(w)
      PROVE  OneSideSkips'
  BY <1>11 DEF MTUPassFails, CallFails, Fails, node, Skips, OneSideSkips, BothSkip
<1>12. ASSUME NEW w \in Workers, Replay(w)
      PROVE  OneSideSkips'
  BY <1>12 DEF Replay, Fails, Skips, OneSideSkips, BothSkip
<1>13. ASSUME NEW w \in Workers, EndRestart(w)
      PROVE  OneSideSkips'
  BY <1>13 DEF EndRestart, Goto, ReapplyPeers, Skips, OneSideSkips, BothSkip
<1>14. ASSUME NEW w \in Workers, Check(w)
      PROVE  OneSideSkips'
  BY <1>14 DEF Check, Goto, node, Skips, OneSideSkips, BothSkip
<1>15. ASSUME NEW w \in Workers, Decide(w)
      PROVE  OneSideSkips'
  BY <1>15 DEF Decide, Goto, node, Skips, OneSideSkips, BothSkip
<1>16. ASSUME NEW w \in Workers, EndRound(w)
      PROVE  OneSideSkips'
  BY <1>16 DEF EndRound, Goto, ReapplyPeers, Skips, OneSideSkips, BothSkip
<1>17. ASSUME NEW w \in Workers, RestartRequest(w)
      PROVE  OneSideSkips'
  BY <1>17 DEF RestartRequest, Goto, node, Skips, OneSideSkips, BothSkip
<1>18. ASSUME NEW w \in Workers, HealRequest(w)
      PROVE  OneSideSkips'
  BY <1>18 DEF HealRequest, Goto, node, Skips, OneSideSkips, BothSkip
<1>19. ASSUME NEW p \in Pods, PodGone(p)
      PROVE  OneSideSkips'
  BY <1>19 DEF PodGone, Lose, worker, Skips, OneSideSkips, BothSkip
<1>20. ASSUME NEW p \in Pods, PodUp(p)
      PROVE  OneSideSkips'
  BY <1>20 DEF PodUp, worker, Skips, OneSideSkips, BothSkip
<1>21. ASSUME NEW p \in Pods, Launch(p)
      PROVE  OneSideSkips'
  BY <1>21 DEF Launch, worker, Skips, OneSideSkips, BothSkip
<1>22. CASE UNCHANGED vars
  BY <1>22 DEF vars, node, worker, Skips, OneSideSkips, BothSkip
<1> QED
  BY <1>1, <1>2, <1>3, <1>4, <1>5, <1>6, <1>7, <1>8, <1>9, <1>10, <1>11, <1>12, <1>13, <1>14,
         <1>15, <1>16, <1>17, <1>18, <1>19, <1>20, <1>21, <1>22 DEF Next, RestartStep, PodStep

-----------------------------------------------------------------------------
(* Interfaces.                                                              *)

\* A veth goes with either of its pods, and is made when both have a namespace.
LEMMA VethStep ==
  ASSUME Typing, VethOK, [Next]_vars
  PROVE  VethOK'
<1>1. ASSUME NEW w \in Workers, ReadSkipped(w)
      PROVE  VethOK'
  BY <1>1 DEF ReadSkipped, Goto, node, Typing, Shapes, VethOK
<1>2. ASSUME NEW w \in Workers, InjectSkip(w)
      PROVE  VethOK'
  BY <1>2 DEF InjectSkip, Goto, Devices, Typing, Shapes, VethOK
<1>3. ASSUME NEW w \in Workers, DeletePeerVeth(w)
      PROVE  VethOK'
  <2>1. PICK gone : Lose(gone)
    BY <1>3 DEF DeletePeerVeth
  <2>2. phase' = phase /\ \A p \in Pods : dev'[p] \subseteq dev[p]
    BY <1>3, <2>1 DEF DeletePeerVeth, Lose
  <2> QED
    BY <2>2, TwoEnds DEF VethOK, Inner
<1>4. ASSUME NEW w \in Workers, DeletePod(w)
      PROVE  VethOK'
  BY <1>4 DEF DeletePod, Goto, Devices, Typing, Shapes, VethOK
<1>5. ASSUME NEW w \in Workers, RestartFails(w)
      PROVE  VethOK'
  BY <1>5 DEF RestartFails, CallFails, Fails, node, Typing, Shapes, VethOK
<1>6. ASSUME NEW w \in Workers, Deleted(w)
      PROVE  VethOK'
  BY <1>6 DEF Deleted, Goto, node, Typing, Shapes, VethOK
<1>7. ASSUME NEW w \in Workers, SeePodReady(w)
      PROVE  VethOK'
  BY <1>7 DEF SeePodReady, node, Typing, Shapes, VethOK
<1>8. ASSUME NEW w \in Workers, PodsReady(w)
      PROVE  VethOK'
  BY <1>8 DEF PodsReady, Goto, node, Typing, Shapes, VethOK
<1>9. ASSUME NEW w \in Workers, WaitTimesOut(w)
      PROVE  VethOK'
  BY <1>9 DEF WaitTimesOut, Goto, node, Typing, Shapes, VethOK
<1>10. ASSUME NEW w \in Workers, MTUPass(w)
      PROVE  VethOK'
  BY <1>10 DEF MTUPass, Goto, Typing, Shapes, VethOK
<1>11. ASSUME NEW w \in Workers, MTUPassFails(w)
      PROVE  VethOK'
  BY <1>11 DEF MTUPassFails, CallFails, Fails, node, Typing, Shapes, VethOK
<1>12. ASSUME NEW w \in Workers, Replay(w)
      PROVE  VethOK'
  BY <1>12 DEF Replay, Fails, Typing, Shapes, VethOK
<1>13. ASSUME NEW w \in Workers, EndRestart(w)
      PROVE  VethOK'
  BY <1>13 DEF EndRestart, Goto, ReapplyPeers, Typing, Shapes, VethOK
<1>14. ASSUME NEW w \in Workers, Check(w)
      PROVE  VethOK'
  BY <1>14 DEF Check, Goto, node, Typing, Shapes, VethOK
<1>15. ASSUME NEW w \in Workers, Decide(w)
      PROVE  VethOK'
  BY <1>15 DEF Decide, Goto, node, Typing, Shapes, VethOK
<1>16. ASSUME NEW w \in Workers, EndRound(w)
      PROVE  VethOK'
  BY <1>16 DEF EndRound, Goto, ReapplyPeers, Typing, Shapes, VethOK
<1>17. ASSUME NEW w \in Workers, RestartRequest(w)
      PROVE  VethOK'
  BY <1>17 DEF RestartRequest, Goto, node, Typing, Shapes, VethOK
<1>18. ASSUME NEW w \in Workers, HealRequest(w)
      PROVE  VethOK'
  BY <1>18 DEF HealRequest, Goto, node, Typing, Shapes, VethOK
<1>19. ASSUME NEW p \in Pods, PodGone(p)
      PROVE  VethOK'
  BY <1>19, TwoEnds DEF PodGone, Lose, worker, Typing, Shapes, VethOK, LinksOf
<1>20. ASSUME NEW p \in Pods, PodUp(p)
      PROVE  VethOK'
  <2>1. PICK made \in SUBSET LinksOf(p) :
          /\ \A l \in made : ~ Absent(p, l) \/ l \notin Inner
          /\ dev' = [q \in Pods |-> dev[q] \cup (IF q = p THEN made ELSE made \cap LinksOf(q))]
    BY <1>20 DEF PodUp
  <2>2. /\ phase'[p] # "starting" /\ \A q \in Pods \ {p} : phase'[q] = phase[q]
    BY <1>20 DEF PodUp, Typing, Shapes
  <2>3. ASSUME NEW l \in Inner \ Tunnels, NEW q \in Ends[l], NEW r \in Ends[l],
               phase'[q] = "starting"
        PROVE  l \notin dev'[r]
    <3>1. q \in Pods /\ r \in Pods /\ q # p /\ phase[q] = "starting"
      BY <2>2, <2>3, TwoEnds DEF Inner
    <3>2. l \notin made
      <4>1. ASSUME l \in made
            PROVE  FALSE
        <5>1. p \in Ends[l]
          BY <4>1 DEF LinksOf
        <5>2. Peers(p, l) = {q}
          BY <3>1, <5>1, TwoEnds
        <5> QED
          BY <2>1, <3>1, <4>1, <5>2 DEF Absent
      <4> QED
        BY <4>1
    <3> QED
      BY <2>1, <3>1, <3>2 DEF VethOK
  <2> QED
    BY <2>3 DEF VethOK
<1>21. ASSUME NEW p \in Pods, Launch(p)
      PROVE  VethOK'
  BY <1>21 DEF Launch, worker, Typing, Shapes, VethOK
<1>22. CASE UNCHANGED vars
  BY <1>22 DEF vars, node, worker, Typing, Shapes, VethOK
<1> QED
  BY <1>1, <1>2, <1>3, <1>4, <1>5, <1>6, <1>7, <1>8, <1>9, <1>10, <1>11, <1>12, <1>13, <1>14,
         <1>15, <1>16, <1>17, <1>18, <1>19, <1>20, <1>21, <1>22 DEF Next, RestartStep, PodStep

\* A guest's taps go with its VM and come with its launch.
LEMMA FreshStep ==
  ASSUME Typing, FreshOK, [Next]_vars
  PROVE  FreshOK'
<1>1. ASSUME NEW w \in Workers, ReadSkipped(w)
      PROVE  FreshOK'
  BY <1>1 DEF ReadSkipped, Goto, node, Typing, Shapes, FreshOK
<1>2. ASSUME NEW w \in Workers, InjectSkip(w)
      PROVE  FreshOK'
  BY <1>2 DEF InjectSkip, Goto, Devices, Typing, Shapes, FreshOK
<1>3. ASSUME NEW w \in Workers, DeletePeerVeth(w)
      PROVE  FreshOK'
  BY <1>3 DEF DeletePeerVeth, Lose, Typing, Shapes, FreshOK
<1>4. ASSUME NEW w \in Workers, DeletePod(w)
      PROVE  FreshOK'
  BY <1>4 DEF DeletePod, Goto, Devices, Typing, Shapes, FreshOK
<1>5. ASSUME NEW w \in Workers, RestartFails(w)
      PROVE  FreshOK'
  BY <1>5 DEF RestartFails, CallFails, Fails, node, Typing, Shapes, FreshOK
<1>6. ASSUME NEW w \in Workers, Deleted(w)
      PROVE  FreshOK'
  BY <1>6 DEF Deleted, Goto, node, Typing, Shapes, FreshOK
<1>7. ASSUME NEW w \in Workers, SeePodReady(w)
      PROVE  FreshOK'
  BY <1>7 DEF SeePodReady, node, Typing, Shapes, FreshOK
<1>8. ASSUME NEW w \in Workers, PodsReady(w)
      PROVE  FreshOK'
  BY <1>8 DEF PodsReady, Goto, node, Typing, Shapes, FreshOK
<1>9. ASSUME NEW w \in Workers, WaitTimesOut(w)
      PROVE  FreshOK'
  BY <1>9 DEF WaitTimesOut, Goto, node, Typing, Shapes, FreshOK
<1>10. ASSUME NEW w \in Workers, MTUPass(w)
      PROVE  FreshOK'
  BY <1>10 DEF MTUPass, Goto, Typing, Shapes, FreshOK
<1>11. ASSUME NEW w \in Workers, MTUPassFails(w)
      PROVE  FreshOK'
  BY <1>11 DEF MTUPassFails, CallFails, Fails, node, Typing, Shapes, FreshOK
<1>12. ASSUME NEW w \in Workers, Replay(w)
      PROVE  FreshOK'
  BY <1>12 DEF Replay, Fails, Typing, Shapes, FreshOK
<1>13. ASSUME NEW w \in Workers, EndRestart(w)
      PROVE  FreshOK'
  BY <1>13 DEF EndRestart, Goto, ReapplyPeers, Typing, Shapes, FreshOK
<1>14. ASSUME NEW w \in Workers, Check(w)
      PROVE  FreshOK'
  BY <1>14 DEF Check, Goto, node, Typing, Shapes, FreshOK
<1>15. ASSUME NEW w \in Workers, Decide(w)
      PROVE  FreshOK'
  BY <1>15 DEF Decide, Goto, node, Typing, Shapes, FreshOK
<1>16. ASSUME NEW w \in Workers, EndRound(w)
      PROVE  FreshOK'
  BY <1>16 DEF EndRound, Goto, ReapplyPeers, Typing, Shapes, FreshOK
<1>17. ASSUME NEW w \in Workers, RestartRequest(w)
      PROVE  FreshOK'
  BY <1>17 DEF RestartRequest, Goto, node, Typing, Shapes, FreshOK
<1>18. ASSUME NEW w \in Workers, HealRequest(w)
      PROVE  FreshOK'
  BY <1>18 DEF HealRequest, Goto, node, Typing, Shapes, FreshOK
<1>19. ASSUME NEW p \in Pods, PodGone(p)
      PROVE  FreshOK'
  BY <1>19 DEF PodGone, Lose, worker, Typing, Shapes, FreshOK
<1>20. ASSUME NEW p \in Pods, PodUp(p)
      PROVE  FreshOK'
  BY <1>20 DEF PodUp, worker, Typing, Shapes, FreshOK
<1>21. ASSUME NEW p \in Pods, Launch(p)
      PROVE  FreshOK'
  BY <1>21 DEF Launch, worker, Typing, Shapes, FreshOK
<1>22. CASE UNCHANGED vars
  BY <1>22 DEF vars, node, worker, Typing, Shapes, FreshOK
<1> QED
  BY <1>1, <1>2, <1>3, <1>4, <1>5, <1>6, <1>7, <1>8, <1>9, <1>10, <1>11, <1>12, <1>13, <1>14,
         <1>15, <1>16, <1>17, <1>18, <1>19, <1>20, <1>21, <1>22 DEF Next, RestartStep, PodStep

\* Decide records the links within the round, and no pod joins it later.
LEMMA TwinStep ==
  ASSUME Typing, TwinOK, [Next]_vars
  PROVE  TwinOK'
<1>1. ASSUME NEW w \in Workers, ReadSkipped(w)
      PROVE  TwinOK'
  BY <1>1 DEF ReadSkipped, Goto, node, Typing, Shapes, TwinOK
<1>2. ASSUME NEW w \in Workers, InjectSkip(w)
      PROVE  TwinOK'
  BY <1>2 DEF InjectSkip, Goto, Devices, Typing, Shapes, TwinOK, Workers
<1>3. ASSUME NEW w \in Workers, DeletePeerVeth(w)
      PROVE  TwinOK'
  BY <1>3 DEF DeletePeerVeth, Lose, Typing, Shapes, TwinOK
<1>4. ASSUME NEW w \in Workers, DeletePod(w)
      PROVE  TwinOK'
  BY <1>4 DEF DeletePod, Goto, Devices, Typing, Shapes, TwinOK
<1>5. ASSUME NEW w \in Workers, RestartFails(w)
      PROVE  TwinOK'
  BY <1>5 DEF RestartFails, CallFails, Fails, node, Typing, Shapes, TwinOK
<1>6. ASSUME NEW w \in Workers, Deleted(w)
      PROVE  TwinOK'
  BY <1>6 DEF Deleted, Goto, node, Typing, Shapes, TwinOK
<1>7. ASSUME NEW w \in Workers, SeePodReady(w)
      PROVE  TwinOK'
  BY <1>7 DEF SeePodReady, node, Typing, Shapes, TwinOK
<1>8. ASSUME NEW w \in Workers, PodsReady(w)
      PROVE  TwinOK'
  BY <1>8 DEF PodsReady, Goto, node, Typing, Shapes, TwinOK
<1>9. ASSUME NEW w \in Workers, WaitTimesOut(w)
      PROVE  TwinOK'
  BY <1>9 DEF WaitTimesOut, Goto, node, Typing, Shapes, TwinOK
<1>10. ASSUME NEW w \in Workers, MTUPass(w)
      PROVE  TwinOK'
  BY <1>10 DEF MTUPass, Goto, Typing, Shapes, TwinOK
<1>11. ASSUME NEW w \in Workers, MTUPassFails(w)
      PROVE  TwinOK'
  BY <1>11 DEF MTUPassFails, CallFails, Fails, node, Typing, Shapes, TwinOK
<1>12. ASSUME NEW w \in Workers, Replay(w)
      PROVE  TwinOK'
  BY <1>12 DEF Replay, Fails, Typing, Shapes, TwinOK, Workers
<1>13. ASSUME NEW w \in Workers, EndRestart(w)
      PROVE  TwinOK'
  BY <1>13 DEF EndRestart, Goto, ReapplyPeers, Typing, Shapes, TwinOK
<1>14. ASSUME NEW w \in Workers, Check(w)
      PROVE  TwinOK'
  BY <1>14 DEF Check, Goto, node, Typing, Shapes, TwinOK
<1>15. ASSUME NEW w \in Workers, Decide(w)
      PROVE  TwinOK'
  BY <1>15 DEF Decide, Goto, node, Typing, Shapes, TwinOK
<1>16. ASSUME NEW w \in Workers, EndRound(w)
      PROVE  TwinOK'
  BY <1>16 DEF EndRound, Goto, ReapplyPeers, Typing, Shapes, TwinOK
<1>17. ASSUME NEW w \in Workers, RestartRequest(w)
      PROVE  TwinOK'
  BY <1>17, RestartAssumption DEF RestartRequest, Goto, node, Typing, Shapes, TwinOK
<1>18. ASSUME NEW w \in Workers, HealRequest(w)
      PROVE  TwinOK'
  BY <1>18 DEF HealRequest, Goto, node, Typing, Shapes, TwinOK
<1>19. ASSUME NEW p \in Pods, PodGone(p)
      PROVE  TwinOK'
  BY <1>19 DEF PodGone, Lose, worker, Typing, Shapes, TwinOK
<1>20. ASSUME NEW p \in Pods, PodUp(p)
      PROVE  TwinOK'
  BY <1>20 DEF PodUp, worker, Typing, Shapes, TwinOK
<1>21. ASSUME NEW p \in Pods, Launch(p)
      PROVE  TwinOK'
  BY <1>21 DEF Launch, worker, Typing, Shapes, TwinOK
<1>22. CASE UNCHANGED vars
  BY <1>22 DEF vars, node, worker, Typing, Shapes, TwinOK
<1> QED
  BY <1>1, <1>2, <1>3, <1>4, <1>5, <1>6, <1>7, <1>8, <1>9, <1>10, <1>11, <1>12, <1>13, <1>14,
         <1>15, <1>16, <1>17, <1>18, <1>19, <1>20, <1>21, <1>22 DEF Next, RestartStep, PodStep

\* A pod leaves Ready through DeletePod alone, and its worker waits for it to be back.
LEMMA DownStep ==
  ASSUME ~ Overlap, Typing, Exclusive, DownOK, ~ dirty', [Next]_vars
  PROVE  DownOK'
<1>1. ASSUME NEW w \in Workers, ReadSkipped(w)
      PROVE  DownOK'
  BY <1>1 DEF ReadSkipped, Goto, node, Typing, Shapes, DownOK, Recreating
<1>2. ASSUME NEW w \in Workers, InjectSkip(w)
      PROVE  DownOK'
  BY <1>2 DEF InjectSkip, Goto, Devices, Typing, Shapes, DownOK, Recreating
<1>3. ASSUME NEW w \in Workers, DeletePeerVeth(w)
      PROVE  DownOK'
  BY <1>3 DEF DeletePeerVeth, Lose, Typing, Shapes, DownOK, Recreating
<1>4. ASSUME NEW w \in Workers, DeletePod(w)
      PROVE  DownOK'
  <2>1. /\ pod[w] \in batch[w] /\ pod[w] \in todo[w] /\ pc'[w] = "restart"
        /\ todo'[w] = todo[w] \ {pod[w]}
    BY <1>4 DEF DeletePod, Goto, Typing, Shapes, TypeOK, WorkerOK
  <2>2. \A q \in Pods \ {pod[w]} : phase'[q] = phase[q]
    BY <1>4 DEF DeletePod, Typing, Shapes
  <2>3. /\ batch' = batch /\ pod' = pod
        /\ \A v \in Workers \ {w} : pc'[v] = pc[v] /\ todo'[v] = todo[v]
    BY <1>4 DEF DeletePod, Goto, Typing, Shapes
  <2>4. \A q \in Pods, v \in Workers : Recreating(v, q) => Recreating(v, q)'
    BY <1>4, <2>1, <2>3 DEF DeletePod, Recreating
  <2>5. Recreating(w, pod[w])'
    BY <1>4, <2>1, <2>3 DEF DeletePod, Recreating
  <2> QED
    BY <2>2, <2>3, <2>4, <2>5 DEF DownOK
<1>5. ASSUME NEW w \in Workers, RestartFails(w)
      PROVE  DownOK'
  BY <1>5 DEF RestartFails, CallFails, Fails, node, Typing, Shapes, DownOK
<1>6. ASSUME NEW w \in Workers, Deleted(w)
      PROVE  DownOK'
  BY <1>6 DEF Deleted, Goto, node, Typing, Shapes, DownOK, Recreating
<1>7. ASSUME NEW w \in Workers, SeePodReady(w)
      PROVE  DownOK'
  BY <1>7 DEF SeePodReady, node, Typing, Shapes, DownOK, Recreating
<1>8. ASSUME NEW w \in Workers, PodsReady(w)
      PROVE  DownOK'
  BY <1>8 DEF PodsReady, Goto, node, Typing, Shapes, DownOK, Recreating
<1>9. ASSUME NEW w \in Workers, WaitTimesOut(w)
      PROVE  DownOK'
  BY <1>9 DEF WaitTimesOut, Goto, node, Typing, Shapes, DownOK
<1>10. ASSUME NEW w \in Workers, MTUPass(w)
      PROVE  DownOK'
  BY <1>10 DEF MTUPass, Goto, Typing, Shapes, DownOK, Recreating
<1>11. ASSUME NEW w \in Workers, MTUPassFails(w)
      PROVE  DownOK'
  BY <1>11 DEF MTUPassFails, CallFails, Fails, node, Typing, Shapes, DownOK
<1>12. ASSUME NEW w \in Workers, Replay(w)
      PROVE  DownOK'
  BY <1>12 DEF Replay, Fails, Typing, Shapes, DownOK, Recreating
<1>13. ASSUME NEW w \in Workers, EndRestart(w)
      PROVE  DownOK'
  BY <1>13 DEF EndRestart, Goto, ReapplyPeers, Typing, Shapes, DownOK, Recreating
<1>14. ASSUME NEW w \in Workers, Check(w)
      PROVE  DownOK'
  BY <1>14 DEF Check, Goto, node, Typing, Shapes, DownOK, Recreating
<1>15. ASSUME NEW w \in Workers, Decide(w)
      PROVE  DownOK'
  BY <1>15 DEF Decide, Goto, node, Typing, Shapes, DownOK, Recreating
<1>16. ASSUME NEW w \in Workers, EndRound(w)
      PROVE  DownOK'
  BY <1>16 DEF EndRound, Goto, ReapplyPeers, Typing, Shapes, DownOK, Recreating
<1>17. ASSUME NEW w \in Workers, RestartRequest(w)
      PROVE  DownOK'
  BY <1>17 DEF RestartRequest, Goto, node, Typing, Shapes, DownOK, Recreating
<1>18. ASSUME NEW w \in Workers, HealRequest(w)
      PROVE  DownOK'
  BY <1>18 DEF HealRequest, Goto, node, Typing, Shapes, DownOK, Recreating
<1>19. ASSUME NEW p \in Pods, PodGone(p)
      PROVE  DownOK'
  BY <1>19 DEF PodGone, Lose, worker, Typing, Shapes, DownOK, Recreating
<1>20. ASSUME NEW p \in Pods, PodUp(p)
      PROVE  DownOK'
  BY <1>20 DEF PodUp, worker, Typing, Shapes, DownOK, Recreating
<1>21. ASSUME NEW p \in Pods, Launch(p)
      PROVE  DownOK'
  BY <1>21 DEF Launch, worker, Typing, Shapes, DownOK, Recreating
<1>22. CASE UNCHANGED vars
  BY <1>22 DEF vars, node, worker, Typing, Shapes, DownOK, Recreating
<1> QED
  BY <1>1, <1>2, <1>3, <1>4, <1>5, <1>6, <1>7, <1>8, <1>9, <1>10, <1>11, <1>12, <1>13, <1>14,
         <1>15, <1>16, <1>17, <1>18, <1>19, <1>20, <1>21, <1>22 DEF Next, RestartStep, PodStep

\* What deletePeerVethsForPod has removed stays away while it visits the other links:
\* no pod is started beside the one whose neighbours are being prepared.
LEMMA CutStep ==
  ASSUME ~ Overlap, Typing, Exclusive, DownOK, TwinOK, ~ dirty', CutOK, [Next]_vars
  PROVE  CutOK'
<1>1. ASSUME NEW w \in Workers, ReadSkipped(w)
      PROVE  CutOK'
  BY <1>1 DEF ReadSkipped, Goto, node, Typing, Shapes, CutOK
<1>2. ASSUME NEW w \in Workers, InjectSkip(w)
      PROVE  CutOK'
  BY <1>2 DEF InjectSkip, Goto, Devices, Typing, Shapes, CutOK
<1>3. ASSUME NEW w \in Workers, DeletePeerVeth(w)
      PROVE  CutOK'
  <2>1. PICK k \in visit[w] : \E r \in Peers(pod[w], k) :
          /\ visit' = [visit EXCEPT ![w] = @ \ {k}]
          /\ \A p \in Pods : dev'[p] \subseteq dev[p]
          /\ k \in Tunnels /\ Running(r) => k \notin dev'[r]
    BY <1>3, VethCut
  <2>2. PICK r \in Peers(pod[w], k) :
          /\ visit' = [visit EXCEPT ![w] = @ \ {k}]
          /\ \A p \in Pods : dev'[p] \subseteq dev[p]
          /\ k \in Tunnels /\ Running(r) => k \notin dev'[r]
    BY <2>1
  <2>3. pc[w] = "veths" /\ UNCHANGED <<phase, pc, pod, twin>>
    BY <1>3 DEF DeletePeerVeth
  <2>4. ASSUME NEW v \in Workers, pc[v] = "veths",
               NEW l \in LinksOf(pod[v]) \cap Inner \cap Tunnels,
               l \notin visit'[v], l \notin twin, NEW q \in Peers(pod[v], l)
        PROVE  l \notin dev'[q]
    <3>1. q \in Pods
      BY <2>4, TwoEnds DEF Peers, Inner
    <3>2. CASE l \notin visit[v]
      BY <2>2, <2>3, <2>4, <3>1, <3>2 DEF CutOK
    <3>3. CASE l \in visit[v]
      <4>1. v = w /\ l = k
        BY <2>2, <2>4, <3>3 DEF Typing, Shapes
      <4>2. q = r
        BY <2>2, <2>3, <2>4, <4>1, TwoEnds DEF LinksOf
      <4>3. Running(q)
        BY <2>3, <2>4, <4>1, PeersReady DEF Running
      <4> QED
        BY <2>2, <2>4, <4>1, <4>2, <4>3
    <3> QED
      BY <3>2, <3>3
  <2> QED
    BY <2>3, <2>4 DEF CutOK, LinksOf, Peers
<1>4. ASSUME NEW w \in Workers, DeletePod(w)
      PROVE  CutOK'
  BY <1>4 DEF DeletePod, Goto, Devices, Typing, Shapes, CutOK
<1>5. ASSUME NEW w \in Workers, RestartFails(w)
      PROVE  CutOK'
  BY <1>5 DEF RestartFails, CallFails, Fails, node, Typing, Shapes, CutOK
<1>6. ASSUME NEW w \in Workers, Deleted(w)
      PROVE  CutOK'
  BY <1>6 DEF Deleted, Goto, node, Typing, Shapes, CutOK
<1>7. ASSUME NEW w \in Workers, SeePodReady(w)
      PROVE  CutOK'
  BY <1>7 DEF SeePodReady, node, Typing, Shapes, CutOK
<1>8. ASSUME NEW w \in Workers, PodsReady(w)
      PROVE  CutOK'
  BY <1>8 DEF PodsReady, Goto, node, Typing, Shapes, CutOK
<1>9. ASSUME NEW w \in Workers, WaitTimesOut(w)
      PROVE  CutOK'
  BY <1>9 DEF WaitTimesOut, Goto, node, Typing, Shapes, CutOK
<1>10. ASSUME NEW w \in Workers, MTUPass(w)
      PROVE  CutOK'
  BY <1>10 DEF MTUPass, Goto, Typing, Shapes, CutOK
<1>11. ASSUME NEW w \in Workers, MTUPassFails(w)
      PROVE  CutOK'
  BY <1>11 DEF MTUPassFails, CallFails, Fails, node, Typing, Shapes, CutOK
<1>12. ASSUME NEW w \in Workers, Replay(w)
      PROVE  CutOK'
  BY <1>12 DEF Replay, Fails, Typing, Shapes, CutOK
<1>13. ASSUME NEW w \in Workers, EndRestart(w)
      PROVE  CutOK'
  BY <1>13 DEF EndRestart, Goto, ReapplyPeers, Typing, Shapes, CutOK
<1>14. ASSUME NEW w \in Workers, Check(w)
      PROVE  CutOK'
  BY <1>14 DEF Check, Goto, node, Typing, Shapes, CutOK
<1>15. ASSUME NEW w \in Workers, Decide(w)
      PROVE  CutOK'
  BY <1>15 DEF Decide, Goto, node, Typing, Shapes, CutOK
<1>16. ASSUME NEW w \in Workers, EndRound(w)
      PROVE  CutOK'
  BY <1>16 DEF EndRound, Goto, ReapplyPeers, Typing, Shapes, CutOK
<1>17. ASSUME NEW w \in Workers, RestartRequest(w)
      PROVE  CutOK'
  BY <1>17 DEF RestartRequest, Goto, node, Typing, Shapes, CutOK
<1>18. ASSUME NEW w \in Workers, HealRequest(w)
      PROVE  CutOK'
  BY <1>18 DEF HealRequest, Goto, node, Typing, Shapes, CutOK
<1>19. ASSUME NEW p \in Pods, PodGone(p)
      PROVE  CutOK'
  <2>1. (\A q \in Pods : dev'[q] \subseteq dev[q]) /\ UNCHANGED <<worker, twin>>
    BY <1>19 DEF PodGone, Lose

  <2> QED
    BY <2>1, TwoEnds DEF worker, CutOK, Inner, Peers
<1>20. ASSUME NEW p \in Pods, PodUp(p)
      PROVE  CutOK'
  <2>1. UNCHANGED <<worker, twin>>
    BY <1>20 DEF PodUp
  <2>2. PICK made \in SUBSET LinksOf(p) :
          \A q \in Pods : dev'[q] = dev[q] \cup (made \cap LinksOf(q))
    BY <1>20, PodUpMakes
  <2>3. ASSUME NEW v \in Workers, pc[v] = "veths",
               NEW l \in LinksOf(pod[v]) \cap Inner \cap Tunnels,
               l \notin visit[v], l \notin twin, NEW q \in Peers(pod[v], l)
        PROVE  l \notin dev'[q]
    <3>1. q \in Pods /\ pod[v] \in Pods /\ Ends[l] = {pod[v], q}
      BY <2>3, TwoEnds DEF Peers, Inner, LinksOf
    <3>2. l \notin dev[q]
      BY <2>3 DEF CutOK
    <3>3. phase[p] = "starting"
      BY <1>20, PodUpMakes
    <3>4. p \notin Ends[l]
      BY <2>3, <3>1, <3>3, PeersReady
    <3> QED
      BY <2>2, <3>1, <3>2, <3>4 DEF LinksOf
  <2> QED
    BY <2>1, <2>3 DEF worker, CutOK, LinksOf, Peers
<1>21. ASSUME NEW p \in Pods, Launch(p)
      PROVE  CutOK'
  BY <1>21 DEF Launch, worker, Typing, Shapes, CutOK
<1>22. CASE UNCHANGED vars
  BY <1>22 DEF vars, node, worker, Typing, Shapes, CutOK
<1> QED
  BY <1>1, <1>2, <1>3, <1>4, <1>5, <1>6, <1>7, <1>8, <1>9, <1>10, <1>11, <1>12, <1>13, <1>14,
         <1>15, <1>16, <1>17, <1>18, <1>19, <1>20, <1>21, <1>22 DEF Next, RestartStep, PodStep

\* Nor does it come back before the pod's own CNI ADD makes it.
LEMMA GoneStep ==
  ASSUME ~ Overlap, Typing, Exclusive, DownOK, TwinOK, ~ dirty', CutOK, GoneOK, [Next]_vars
  PROVE  GoneOK'
<1>1. ASSUME NEW w \in Workers, ReadSkipped(w)
      PROVE  GoneOK'
  BY <1>1 DEF ReadSkipped, Goto, node, Typing, Shapes, GoneOK
<1>2. ASSUME NEW w \in Workers, InjectSkip(w)
      PROVE  GoneOK'
  BY <1>2 DEF InjectSkip, Goto, Devices, Typing, Shapes, GoneOK
<1>3. ASSUME NEW w \in Workers, DeletePeerVeth(w)
      PROVE  GoneOK'
  <2>1. PICK gone : Lose(gone)
    BY <1>3 DEF DeletePeerVeth
  <2>2. (\A q \in Pods : dev'[q] \subseteq dev[q]) /\ UNCHANGED <<phase, twin>>
    BY <1>3, <2>1 DEF DeletePeerVeth, Lose
  <2> QED
    BY <2>2, TwoEnds DEF GoneOK, Inner, Peers
<1>4. ASSUME NEW w \in Workers, DeletePod(w)
      PROVE  GoneOK'
  <2>1. /\ pc[w] = "veths" /\ visit[w] = {} /\ dev' = dev /\ twin' = twin
        /\ \A q \in Pods \ {pod[w]} : phase'[q] = phase[q]
    BY <1>4 DEF DeletePod, Devices, Typing, Shapes
  <2>2. \A l \in Inner \cap Tunnels : \A p \in Ends[l] : p \in Pods
    BY TwoEnds DEF Inner
  <2>3. \A l \in Inner \cap Tunnels : l \notin twin /\ pod[w] \in Ends[l] =>
          \A q \in Peers(pod[w], l) : l \notin dev[q]
    BY <2>1 DEF CutOK, LinksOf, Inner
  <2> QED
    BY <2>1, <2>2, <2>3 DEF GoneOK, Peers
<1>5. ASSUME NEW w \in Workers, RestartFails(w)
      PROVE  GoneOK'
  BY <1>5 DEF RestartFails, CallFails, Fails, node, Typing, Shapes, GoneOK
<1>6. ASSUME NEW w \in Workers, Deleted(w)
      PROVE  GoneOK'
  BY <1>6 DEF Deleted, Goto, node, Typing, Shapes, GoneOK
<1>7. ASSUME NEW w \in Workers, SeePodReady(w)
      PROVE  GoneOK'
  BY <1>7 DEF SeePodReady, node, Typing, Shapes, GoneOK
<1>8. ASSUME NEW w \in Workers, PodsReady(w)
      PROVE  GoneOK'
  BY <1>8 DEF PodsReady, Goto, node, Typing, Shapes, GoneOK
<1>9. ASSUME NEW w \in Workers, WaitTimesOut(w)
      PROVE  GoneOK'
  BY <1>9 DEF WaitTimesOut, Goto, node, Typing, Shapes, GoneOK
<1>10. ASSUME NEW w \in Workers, MTUPass(w)
      PROVE  GoneOK'
  BY <1>10 DEF MTUPass, Goto, Typing, Shapes, GoneOK
<1>11. ASSUME NEW w \in Workers, MTUPassFails(w)
      PROVE  GoneOK'
  BY <1>11 DEF MTUPassFails, CallFails, Fails, node, Typing, Shapes, GoneOK
<1>12. ASSUME NEW w \in Workers, Replay(w)
      PROVE  GoneOK'
  BY <1>12 DEF Replay, Fails, Typing, Shapes, GoneOK
<1>13. ASSUME NEW w \in Workers, EndRestart(w)
      PROVE  GoneOK'
  BY <1>13 DEF EndRestart, Goto, ReapplyPeers, Typing, Shapes, GoneOK
<1>14. ASSUME NEW w \in Workers, Check(w)
      PROVE  GoneOK'
  BY <1>14 DEF Check, Goto, node, Typing, Shapes, GoneOK
<1>15. ASSUME NEW w \in Workers, Decide(w)
      PROVE  GoneOK'
  BY <1>15 DEF Decide, Goto, node, Typing, Shapes, GoneOK
<1>16. ASSUME NEW w \in Workers, EndRound(w)
      PROVE  GoneOK'
  BY <1>16 DEF EndRound, Goto, ReapplyPeers, Typing, Shapes, GoneOK
<1>17. ASSUME NEW w \in Workers, RestartRequest(w)
      PROVE  GoneOK'
  BY <1>17 DEF RestartRequest, Goto, node, Typing, Shapes, GoneOK
<1>18. ASSUME NEW w \in Workers, HealRequest(w)
      PROVE  GoneOK'
  BY <1>18 DEF HealRequest, Goto, node, Typing, Shapes, GoneOK
<1>19. ASSUME NEW p \in Pods, PodGone(p)
      PROVE  GoneOK'
  <2>1. (\A q \in Pods : dev'[q] \subseteq dev[q]) /\ UNCHANGED twin
    BY <1>19 DEF PodGone, Lose

  <2>2. /\ phase[p] = "terminating" /\ \A q \in Pods \ {p} : phase'[q] = phase[q]
    BY <1>19 DEF PodGone, Typing, Shapes
  <2> QED
    BY <2>1, <2>2, TwoEnds DEF GoneOK, Inner, Peers
<1>20. ASSUME NEW p \in Pods, PodUp(p)
      PROVE  GoneOK'
  <2>1. UNCHANGED twin
    BY <1>20 DEF PodUp
  <2>2. PICK made \in SUBSET LinksOf(p) :
          \A q \in Pods : dev'[q] = dev[q] \cup (made \cap LinksOf(q))
    BY <1>20, PodUpMakes
  <2>3. ASSUME NEW l \in Inner \cap Tunnels, l \notin twin, NEW r \in Ends[l],
               phase'[r] \in {"terminating", "starting"}, NEW q \in Peers(r, l)
        PROVE  l \notin dev'[q]
    <3>1. q \in Pods /\ r \in Pods /\ Ends[l] = {r, q} /\ q # r
      BY <2>3, TwoEnds DEF Peers, Inner
    <3>2. r # p /\ phase[r] = phase'[r]
      BY <1>20, <2>3, <3>1, PodUpMakes
    <3>3. l \notin dev[q]
      BY <2>3, <3>2 DEF GoneOK
    <3>4. p \notin Ends[l]
      <4>1. phase[r] # "ready" /\ phase[p] # "ready"
        BY <1>20, <2>3, <3>2, PodUpMakes
      <4> QED
        BY <2>3, <3>1, <3>2, <4>1, BothDown
    <3> QED
      BY <2>2, <3>1, <3>3, <3>4 DEF LinksOf
  <2> QED
    BY <2>1, <2>3 DEF GoneOK, Peers
<1>21. ASSUME NEW p \in Pods, Launch(p)
      PROVE  GoneOK'
  BY <1>21 DEF Launch, worker, Typing, Shapes, GoneOK
<1>22. CASE UNCHANGED vars
  BY <1>22 DEF vars, node, worker, Typing, Shapes, GoneOK
<1> QED
  BY <1>1, <1>2, <1>3, <1>4, <1>5, <1>6, <1>7, <1>8, <1>9, <1>10, <1>11, <1>12, <1>13, <1>14,
         <1>15, <1>16, <1>17, <1>18, <1>19, <1>20, <1>21, <1>22 DEF Next, RestartStep, PodStep

-----------------------------------------------------------------------------
(* What is in force.                                                        *)

\* Operations that go out of force are owed by a worker until they are run again.
LEMMA ConfStep ==
  ASSUME ~ Overlap, Typing, Exclusive, DownOK, TwinOK, ~ dirty', ConfOK, [Next]_vars
  PROVE  ConfOK'
<1>1. ASSUME NEW w \in Workers, ReadSkipped(w)
      PROVE  ConfOK'
  BY <1>1 DEF ReadSkipped, Goto, node, Typing, Shapes, ConfOK, Owes, Before, Has, Facing
<1>2. ASSUME NEW w \in Workers, InjectSkip(w)
      PROVE  ConfOK'
  BY <1>2 DEF InjectSkip, Goto, Devices, Typing, Shapes, ConfOK, Owes, Before, Has, Facing
<1>3. ASSUME NEW w \in Workers, DeletePeerVeth(w)
      PROVE  ConfOK'
  BY <1>3 DEF DeletePeerVeth, Lose, Typing, Shapes, ConfOK, Owes, Before, Has, Facing
<1>4. ASSUME NEW w \in Workers, DeletePod(w)
      PROVE  ConfOK'
  BY <1>4 DEF DeletePod, Goto, Devices, Typing, Shapes, ConfOK, Owes, Before, Has, Facing
<1>5. ASSUME NEW w \in Workers, RestartFails(w)
      PROVE  ConfOK'
  BY <1>5 DEF RestartFails, CallFails, Fails, node, Typing, Shapes, ConfOK
<1>6. ASSUME NEW w \in Workers, Deleted(w)
      PROVE  ConfOK'
  BY <1>6 DEF Deleted, Goto, node, Typing, Shapes, ConfOK, Owes, Before, Has, Facing
<1>7. ASSUME NEW w \in Workers, SeePodReady(w)
      PROVE  ConfOK'
  BY <1>7 DEF SeePodReady, node, Typing, Shapes, ConfOK, Owes, Before, Has, Facing
<1>8. ASSUME NEW w \in Workers, PodsReady(w)
      PROVE  ConfOK'
  BY <1>8 DEF PodsReady, Goto, node, Typing, Shapes, ConfOK, Owes, Before, Has, Facing
<1>9. ASSUME NEW w \in Workers, WaitTimesOut(w)
      PROVE  ConfOK'
  BY <1>9 DEF WaitTimesOut, Goto, node, Typing, Shapes, ConfOK
<1>10. ASSUME NEW w \in Workers, MTUPass(w)
      PROVE  ConfOK'
  BY <1>10 DEF MTUPass, Goto, Typing, Shapes, ConfOK, Owes, Before, Has, Facing
<1>11. ASSUME NEW w \in Workers, MTUPassFails(w)
      PROVE  ConfOK'
  BY <1>11 DEF MTUPassFails, CallFails, Fails, node, Typing, Shapes, ConfOK
<1>12. ASSUME NEW w \in Workers, Replay(w)
      PROVE  ConfOK'
  BY <1>12, SMTT(30) DEF Replay, Fails, Has, Typing, Shapes, ConfOK, Owes, Before, Facing
<1>13. ASSUME NEW w \in Workers, EndRestart(w)
      PROVE  ConfOK'
  <2>1. /\ pc[w] = "replay" /\ todo[w] = {} /\ dirty' = dirty
        /\ UNCHANGED <<phase, dev, mtu, taps, rows, batch, todo, twin>>
        /\ \A v \in Workers \ {w} : pc'[v] = pc[v]
    BY <1>13 DEF EndRestart, ReapplyPeers, Goto, Typing, Shapes, WorkerOK
  <2>2. \A q \in Pods : \A l \in Facing(w, q) : phase[q] = "ready"
    <3>1. ASSUME NEW q \in Pods, NEW l \in Facing(w, q)
          PROVE  phase[q] = "ready"
      <4>1. PICK b \in batch[w] : b \in Ends[l] /\ q \in Ends[l] /\ l \in Links
        BY DEF Facing, LinksOf
      <4>2. q \in Near(b) /\ batch[w] \subseteq Pods
        BY <4>1, TwoEnds, NearIs DEF Typing, Shapes
      <4> QED
        BY <2>1, <4>1, <4>2, ReadyBeside DEF Recreating
    <3> QED
      BY <3>1

  <2>3. \A q \in Pods \ Guests : q \notin batch[w] =>
          conf'[q] = conf[q] \cup ((dev[q] \cap Facing(w, q)) \cap rows[q])
    BY <1>13, <2>2 DEF EndRestart, ReapplyPeers, Restored, Rewired
  <2>4. \A q \in Pods : conf[q] \subseteq conf'[q]
    BY <1>13 DEF EndRestart, ReapplyPeers
  <2>5. ASSUME NEW q \in Pods, NEW l \in (Has(q) \cap rows[q]) \ conf'[q]
        PROVE  \E v \in Workers \ {w} : Owes(v, q, l)
    <3>1. PICK v \in Workers : Owes(v, q, l)
      BY <2>4 DEF ConfOK
    <3>2. ~ Owes(w, q, l)
      BY <2>1, <2>3, <2>5 DEF Owes, Before, Has
    <3> QED
      BY <3>1, <3>2
  <2>6. \A q \in Pods, v \in Workers \ {w}, l \in Links : Owes(v, q, l) => Owes(v, q, l)'
    BY <2>1 DEF Owes, Before, Facing, LinksOf
  <2>7. \A q \in Pods : Has(q)' = Has(q) /\ Has(q) \subseteq Links
    BY <2>1 DEF Has, Typing, Shapes
  <2> QED
    BY <2>1, <2>5, <2>6, <2>7 DEF ConfOK
<1>14. ASSUME NEW w \in Workers, Check(w)
      PROVE  ConfOK'
  BY <1>14, SMTT(30) DEF Check, Goto, node, Typing, Shapes, ConfOK, Owes, Before, Has, Facing
<1>15. ASSUME NEW w \in Workers, Decide(w)
      PROVE  ConfOK'
  BY <1>15 DEF Decide, Goto, node, Typing, Shapes, ConfOK, Owes, Before, Has, Facing
<1>16. ASSUME NEW w \in Workers, EndRound(w)
      PROVE  ConfOK'
  <2>1. /\ pc[w] = "replay" /\ todo[w] = {} /\ dirty' = dirty
        /\ UNCHANGED <<phase, dev, mtu, taps, rows, batch, todo, twin>>
        /\ \A v \in Workers \ {w} : pc'[v] = pc[v]
    BY <1>16 DEF EndRound, ReapplyPeers, Goto, Typing, Shapes, WorkerOK
  <2>2. \A q \in Pods : \A l \in Facing(w, q) : phase[q] = "ready"
    <3>1. ASSUME NEW q \in Pods, NEW l \in Facing(w, q)
          PROVE  phase[q] = "ready"
      <4>1. PICK b \in batch[w] : b \in Ends[l] /\ q \in Ends[l] /\ l \in Links
        BY DEF Facing, LinksOf
      <4>2. q \in Near(b) /\ batch[w] \subseteq Pods
        BY <4>1, TwoEnds, NearIs DEF Typing, Shapes
      <4> QED
        BY <2>1, <4>1, <4>2, ReadyBeside DEF Recreating
    <3> QED
      BY <3>1

  <2>3. \A q \in Pods \ Guests : q \notin batch[w] =>
          conf'[q] = conf[q] \cup ((dev[q] \cap Facing(w, q)) \cap rows[q])
    BY <1>16, <2>2 DEF EndRound, ReapplyPeers, Restored, Rewired
  <2>4. \A q \in Pods : conf[q] \subseteq conf'[q]
    BY <1>16 DEF EndRound, ReapplyPeers
  <2>5. ASSUME NEW q \in Pods, NEW l \in (Has(q) \cap rows[q]) \ conf'[q]
        PROVE  \E v \in Workers \ {w} : Owes(v, q, l)
    <3>1. PICK v \in Workers : Owes(v, q, l)
      BY <2>4 DEF ConfOK
    <3>2. ~ Owes(w, q, l)
      BY <2>1, <2>3, <2>5 DEF Owes, Before, Has
    <3> QED
      BY <3>1, <3>2
  <2>6. \A q \in Pods, v \in Workers \ {w}, l \in Links : Owes(v, q, l) => Owes(v, q, l)'
    BY <2>1 DEF Owes, Before, Facing, LinksOf
  <2>7. \A q \in Pods : Has(q)' = Has(q) /\ Has(q) \subseteq Links
    BY <2>1 DEF Has, Typing, Shapes
  <2> QED
    BY <2>1, <2>5, <2>6, <2>7 DEF ConfOK
<1>17. ASSUME NEW w \in Workers, RestartRequest(w)
      PROVE  ConfOK'
  BY <1>17, SMTT(30) DEF RestartRequest, Goto, node, Typing, Shapes, ConfOK, Owes, Before, Has, Facing
<1>18. ASSUME NEW w \in Workers, HealRequest(w)
      PROVE  ConfOK'
  BY <1>18, SMTT(30) DEF HealRequest, Goto, node, Typing, Shapes, ConfOK, Owes, Before, Has, Facing
<1>19. ASSUME NEW p \in Pods, PodGone(p)
      PROVE  ConfOK'
  BY <1>19 DEF PodGone, Lose, worker, Typing, Shapes, ConfOK, Owes, Before, Has, Facing
<1>20. ASSUME NEW p \in Pods, PodUp(p)
      PROVE  ConfOK'
  <2>1. UNCHANGED <<worker, rows, taps>>
    BY <1>20 DEF PodUp
  <2>2. PICK made \in SUBSET LinksOf(p) : \A q \in Pods :
          /\ dev'[q] = dev[q] \cup (made \cap LinksOf(q))
          /\ conf'[q] = IF q \in Guests THEN conf[q] ELSE conf[q] \ (made \cap LinksOf(q))
    BY <1>20, PodUpMakes, ZenonT(40)
  <2>3. PICK w \in Workers : Recreating(w, p)
    BY <1>20, PodUpMakes DEF DownOK
  <2>4. ASSUME NEW q \in Pods, NEW l \in (Has(q)' \cap rows[q]) \ conf'[q]
        PROVE  \E v \in Workers : Owes(v, q, l)
    <3>1. CASE l \in Has(q) /\ l \notin conf[q]
      BY <2>4, <3>1 DEF ConfOK
    <3>2. CASE ~ (l \in Has(q) /\ l \notin conf[q])
      <4>1. q \notin Guests /\ l \in made /\ l \in LinksOf(q)
        BY <2>1, <2>2, <2>4, <3>2 DEF Has
      <4>2. p \in batch[w] /\ Before(w)
        BY <2>3 DEF Recreating, Before
      <4>3. CASE q = p
        BY <4>2, <4>3 DEF Owes
      <4>4. CASE q # p
        <5>1. l \in Links /\ p \in Ends[l] /\ q \in Ends[l] /\ l \in Inner
          BY <4>1, <4>4, TwoEnds DEF LinksOf
        <5>2. l \in Facing(w, q)
          BY <4>2, <5>1 DEF Facing, LinksOf
        <5> QED
          BY <4>1, <4>2, <5>2 DEF Owes
      <4> QED
        BY <4>3, <4>4
    <3> QED
      BY <3>1, <3>2
  <2> QED
    BY <2>1, <2>4 DEF ConfOK, worker, Owes, Before, Facing, LinksOf
<1>21. ASSUME NEW p \in Pods, Launch(p)
      PROVE  ConfOK'
  <2>1. UNCHANGED <<worker, rows, dev, conf>> /\ \A q \in Pods \ {p} : taps'[q] = taps[q]
    BY <1>21 DEF Launch, Typing, Shapes
  <2>2. PICK w \in Workers : Recreating(w, p)
    BY <1>21 DEF Launch, DownOK
  <2>3. \A l \in Links : Owes(w, p, l)
    BY <2>2 DEF Recreating, Owes, Before
  <2>4. \A q \in Pods \ {p} : Has(q)' = Has(q)
    BY <2>1 DEF Has
  <2>5. Has(p)' \subseteq Links
    BY ShapeStep DEF Shapes, Has
  <2>6. \A q \in Pods, v \in Workers, l \in Links : Owes(v, q, l)' = Owes(v, q, l)
    BY <2>1 DEF worker, Owes, Before, Facing, LinksOf
  <2>7. ASSUME NEW q \in Pods, NEW l \in (Has(q)' \cap rows[q]) \ conf[q]
        PROVE  l \in Links /\ \E v \in Workers : Owes(v, q, l)
    BY <2>3, <2>4, <2>5, <2>7 DEF ConfOK, Typing, Shapes
  <2> QED
    BY <2>1, <2>6, <2>7 DEF ConfOK
<1>22. CASE UNCHANGED vars
  BY <1>22 DEF vars, node, worker, Typing, Shapes, ConfOK, Owes, Before, Has, Facing
<1> QED
  BY <1>1, <1>2, <1>3, <1>4, <1>5, <1>6, <1>7, <1>8, <1>9, <1>10, <1>11, <1>12, <1>13, <1>14,
         <1>15, <1>16, <1>17, <1>18, <1>19, <1>20, <1>21, <1>22 DEF Next, RestartStep, PodStep

\* A redirect that goes with its interface is owed by the neighbours' pass.
LEMMA TcStep ==
  ASSUME ~ Overlap, Typing, Exclusive, DownOK, TwinOK, ~ dirty', FreshOK, TcOK, [Next]_vars
  PROVE  TcOK'
<1>1. ASSUME NEW w \in Workers, ReadSkipped(w)
      PROVE  TcOK'
  BY <1>1 DEF ReadSkipped, Goto, node, Typing, Shapes, TcOK, Wires, Before, Facing
<1>2. ASSUME NEW w \in Workers, InjectSkip(w)
      PROVE  TcOK'
  BY <1>2 DEF InjectSkip, Goto, Devices, Typing, Shapes, TcOK, Wires, Before, Facing
<1>3. ASSUME NEW w \in Workers, DeletePeerVeth(w)
      PROVE  TcOK'
  BY <1>3 DEF DeletePeerVeth, Lose, Typing, Shapes, TcOK, Wires, Before, Facing
<1>4. ASSUME NEW w \in Workers, DeletePod(w)
      PROVE  TcOK'
  BY <1>4 DEF DeletePod, Goto, Devices, Typing, Shapes, TcOK, Wires, Before, Facing
<1>5. ASSUME NEW w \in Workers, RestartFails(w)
      PROVE  TcOK'
  BY <1>5 DEF RestartFails, CallFails, Fails, node, Typing, Shapes, TcOK
<1>6. ASSUME NEW w \in Workers, Deleted(w)
      PROVE  TcOK'
  BY <1>6 DEF Deleted, Goto, node, Typing, Shapes, TcOK, Wires, Before, Facing
<1>7. ASSUME NEW w \in Workers, SeePodReady(w)
      PROVE  TcOK'
  BY <1>7 DEF SeePodReady, node, Typing, Shapes, TcOK, Wires, Before, Facing
<1>8. ASSUME NEW w \in Workers, PodsReady(w)
      PROVE  TcOK'
  BY <1>8, SMTT(30) DEF PodsReady, Goto, node, Typing, Shapes, TcOK, Wires, Before, Facing
<1>9. ASSUME NEW w \in Workers, WaitTimesOut(w)
      PROVE  TcOK'
  BY <1>9 DEF WaitTimesOut, Goto, node, Typing, Shapes, TcOK
<1>10. ASSUME NEW w \in Workers, MTUPass(w)
      PROVE  TcOK'
  BY <1>10 DEF MTUPass, Goto, Typing, Shapes, TcOK, Wires, Before, Facing
<1>11. ASSUME NEW w \in Workers, MTUPassFails(w)
      PROVE  TcOK'
  BY <1>11 DEF MTUPassFails, CallFails, Fails, node, Typing, Shapes, TcOK
<1>12. ASSUME NEW w \in Workers, Replay(w)
      PROVE  TcOK'
  BY <1>12 DEF Replay, Fails, Typing, Shapes, TcOK, Wires, Before, Facing
<1>13. ASSUME NEW w \in Workers, EndRestart(w)
      PROVE  TcOK'
  <2>1. /\ pc[w] = "replay" /\ todo[w] = {} /\ dirty' = dirty
        /\ UNCHANGED <<phase, dev, mtu, taps, rows, batch, todo, twin>>
        /\ \A v \in Workers \ {w} : pc'[v] = pc[v]
    BY <1>13 DEF EndRestart, ReapplyPeers, Goto, Typing, Shapes, WorkerOK
  <2>2. \A q \in Pods : \A l \in Facing(w, q) : phase[q] = "ready"
    <3>1. ASSUME NEW q \in Pods, NEW l \in Facing(w, q)
          PROVE  phase[q] = "ready"
      <4>1. PICK b \in batch[w] : b \in Ends[l] /\ q \in Ends[l] /\ l \in Links
        BY DEF Facing, LinksOf
      <4>2. q \in Near(b) /\ batch[w] \subseteq Pods
        BY <4>1, TwoEnds, NearIs DEF Typing, Shapes
      <4> QED
        BY <2>1, <4>1, <4>2, ReadyBeside DEF Recreating
    <3> QED
      BY <3>1

  <2>3. \A q \in Pods : /\ tc[q] \subseteq tc'[q]
                        /\ q \notin batch[w] =>
                             (dev[q] \cap Facing(w, q)) \cap taps[q] \subseteq tc'[q]
    BY <1>13, <2>2 DEF EndRestart, ReapplyPeers, Restored, Rewired
  <2>4. ASSUME NEW q \in Pods, NEW l \in ((dev[q] \cap taps[q]) \ twin) \ tc'[q]
        PROVE  \E v \in Workers \ {w} : Wires(v, q, l)
    <3>1. PICK v \in Workers : Wires(v, q, l)
      BY <2>3 DEF TcOK
    <3>2. ~ Wires(w, q, l)
      BY <2>1, <2>3, <2>4 DEF Wires
    <3> QED
      BY <3>1, <3>2
  <2>5. \A q \in Pods, v \in Workers \ {w}, l \in Links : Wires(v, q, l) => Wires(v, q, l)'
    BY <2>1 DEF Wires, Before, Facing, LinksOf
  <2> QED
    BY <2>1, <2>4, <2>5 DEF TcOK, Typing, Shapes
<1>14. ASSUME NEW w \in Workers, Check(w)
      PROVE  TcOK'
  BY <1>14, SMTT(30) DEF Check, Goto, node, Typing, Shapes, TcOK, Wires, Before, Facing
<1>15. ASSUME NEW w \in Workers, Decide(w)
      PROVE  TcOK'
  BY <1>15, SMTT(30) DEF Decide, Goto, node, Typing, Shapes, TcOK, Wires, Before, Facing
<1>16. ASSUME NEW w \in Workers, EndRound(w)
      PROVE  TcOK'
  <2>1. /\ pc[w] = "replay" /\ todo[w] = {} /\ dirty' = dirty
        /\ UNCHANGED <<phase, dev, mtu, taps, rows, batch, todo, twin>>
        /\ \A v \in Workers \ {w} : pc'[v] = pc[v]
    BY <1>16 DEF EndRound, ReapplyPeers, Goto, Typing, Shapes, WorkerOK
  <2>2. \A q \in Pods : \A l \in Facing(w, q) : phase[q] = "ready"
    <3>1. ASSUME NEW q \in Pods, NEW l \in Facing(w, q)
          PROVE  phase[q] = "ready"
      <4>1. PICK b \in batch[w] : b \in Ends[l] /\ q \in Ends[l] /\ l \in Links
        BY DEF Facing, LinksOf
      <4>2. q \in Near(b) /\ batch[w] \subseteq Pods
        BY <4>1, TwoEnds, NearIs DEF Typing, Shapes
      <4> QED
        BY <2>1, <4>1, <4>2, ReadyBeside DEF Recreating
    <3> QED
      BY <3>1

  <2>3. \A q \in Pods : /\ tc[q] \subseteq tc'[q]
                        /\ q \notin batch[w] =>
                             (dev[q] \cap Facing(w, q)) \cap taps[q] \subseteq tc'[q]
    BY <1>16, <2>2 DEF EndRound, ReapplyPeers, Restored, Rewired
  <2>4. ASSUME NEW q \in Pods, NEW l \in ((dev[q] \cap taps[q]) \ twin) \ tc'[q]
        PROVE  \E v \in Workers \ {w} : Wires(v, q, l)
    <3>1. PICK v \in Workers : Wires(v, q, l)
      BY <2>3 DEF TcOK
    <3>2. ~ Wires(w, q, l)
      BY <2>1, <2>3, <2>4 DEF Wires
    <3> QED
      BY <3>1, <3>2
  <2>5. \A q \in Pods, v \in Workers \ {w}, l \in Links : Wires(v, q, l) => Wires(v, q, l)'
    BY <2>1 DEF Wires, Before, Facing, LinksOf
  <2> QED
    BY <2>1, <2>4, <2>5 DEF TcOK, Typing, Shapes
<1>17. ASSUME NEW w \in Workers, RestartRequest(w)
      PROVE  TcOK'
  BY <1>17 DEF RestartRequest, Goto, node, Typing, Shapes, TcOK, Wires, Before, Facing
<1>18. ASSUME NEW w \in Workers, HealRequest(w)
      PROVE  TcOK'
  BY <1>18, SMTT(30) DEF HealRequest, Goto, node, Typing, Shapes, TcOK, Wires, Before, Facing
<1>19. ASSUME NEW p \in Pods, PodGone(p)
      PROVE  TcOK'
  BY <1>19 DEF PodGone, Lose, worker, Typing, Shapes, TcOK, Wires, Before, Facing
<1>20. ASSUME NEW p \in Pods, PodUp(p)
      PROVE  TcOK'
  <2>1. UNCHANGED <<worker, taps, twin>>
    BY <1>20 DEF PodUp
  <2>2. PICK made \in SUBSET LinksOf(p) : \A q \in Pods :
          /\ dev'[q] = dev[q] \cup (made \cap LinksOf(q))
          /\ tc'[q] = tc[q] \ (made \cap LinksOf(q))
    BY <1>20, PodUpMakes, ZenonT(40)
  <2>3. PICK w \in Workers : Recreating(w, p)
    BY <1>20, PodUpMakes DEF DownOK
  <2>4. ASSUME NEW q \in Pods, NEW l \in ((dev'[q] \cap taps[q]) \ twin) \ tc'[q]
        PROVE  \E v \in Workers : Wires(v, q, l)
    <3>1. CASE l \in dev[q] /\ l \notin tc[q]
      BY <2>4, <3>1 DEF TcOK
    <3>2. CASE ~ (l \in dev[q] /\ l \notin tc[q])
      <4>1. l \in made /\ l \in LinksOf(q)
        BY <2>2, <2>4, <3>2
      <4>2. p \in batch[w] /\ Before(w)
        BY <2>3 DEF Recreating, Before
      <4>3. q # p
        BY <1>20, <2>4, PodUpMakes DEF FreshOK
      <4>4. l \in Inner /\ p \in Ends[l] /\ Ends[l] = {p, q}
        BY <4>1, <4>3, TwoEnds DEF LinksOf
      <4>5. l \in Facing(w, q)
        BY <4>1, <4>2, <4>4 DEF Facing, LinksOf
      <4>6. q \notin batch[w]
        BY <2>4, <4>2, <4>4, TwinsOf DEF Before
      <4> QED
        BY <4>2, <4>5, <4>6 DEF Wires
    <3> QED
      BY <3>1, <3>2
  <2> QED
    BY <2>1, <2>4 DEF TcOK, worker, Wires, Before, Facing, LinksOf
<1>21. ASSUME NEW p \in Pods, Launch(p)
      PROVE  TcOK'
  BY <1>21 DEF Launch, worker, Typing, Shapes, TcOK, Wires, Before, Facing
<1>22. CASE UNCHANGED vars
  BY <1>22 DEF vars, node, worker, Typing, Shapes, TcOK, Wires, Before, Facing
<1> QED
  BY <1>1, <1>2, <1>3, <1>4, <1>5, <1>6, <1>7, <1>8, <1>9, <1>10, <1>11, <1>12, <1>13, <1>14,
         <1>15, <1>16, <1>17, <1>18, <1>19, <1>20, <1>21, <1>22 DEF Next, RestartStep, PodStep

\* A new interface is owed the MTU pass of the worker that recreates one of its pods.
LEMMA MtuStep ==
  ASSUME ~ Overlap, Typing, Exclusive, DownOK, TwinOK, ~ dirty', MtuOK, [Next]_vars
  PROVE  MtuOK'
<1>1. ASSUME NEW w \in Workers, ReadSkipped(w)
      PROVE  MtuOK'
  BY <1>1 DEF ReadSkipped, Goto, node, Typing, Shapes, MtuOK, Before
<1>2. ASSUME NEW w \in Workers, InjectSkip(w)
      PROVE  MtuOK'
  BY <1>2 DEF InjectSkip, Goto, Devices, Typing, Shapes, MtuOK, Before
<1>3. ASSUME NEW w \in Workers, DeletePeerVeth(w)
      PROVE  MtuOK'
  BY <1>3 DEF DeletePeerVeth, Lose, Typing, Shapes, MtuOK, Before
<1>4. ASSUME NEW w \in Workers, DeletePod(w)
      PROVE  MtuOK'
  BY <1>4 DEF DeletePod, Goto, Devices, Typing, Shapes, MtuOK, Before
<1>5. ASSUME NEW w \in Workers, RestartFails(w)
      PROVE  MtuOK'
  BY <1>5 DEF RestartFails, CallFails, Fails, node, Typing, Shapes, MtuOK
<1>6. ASSUME NEW w \in Workers, Deleted(w)
      PROVE  MtuOK'
  BY <1>6 DEF Deleted, Goto, node, Typing, Shapes, MtuOK, Before
<1>7. ASSUME NEW w \in Workers, SeePodReady(w)
      PROVE  MtuOK'
  BY <1>7 DEF SeePodReady, node, Typing, Shapes, MtuOK, Before
<1>8. ASSUME NEW w \in Workers, PodsReady(w)
      PROVE  MtuOK'
  BY <1>8 DEF PodsReady, Goto, node, Typing, Shapes, MtuOK, Before
<1>9. ASSUME NEW w \in Workers, WaitTimesOut(w)
      PROVE  MtuOK'
  BY <1>9 DEF WaitTimesOut, Goto, node, Typing, Shapes, MtuOK
<1>10. ASSUME NEW w \in Workers, MTUPass(w)
      PROVE  MtuOK'
  <2>1. /\ pc[w] = "mtu" /\ UNCHANGED <<phase, dev, batch>>
        /\ mtu' = [q \in Pods |-> mtu[q] \cup {l \in dev[q] : Passed(w, q, l)}]
        /\ \A v \in Workers \ {w} : pc'[v] = pc[v]
    BY <1>10 DEF MTUPass, Goto, Typing, Shapes
  <2>2. ASSUME NEW l \in Inner, Ends[l] \cap batch[w] # {}
        PROVE  \A q \in Pods : Passed(w, q, l)
    <3>1. ASSUME NEW q \in Ends[l]
          PROVE  phase[q] = "ready"
      <4>1. PICK b \in batch[w] : b \in Ends[l]
        BY <2>2
      <4>2. q \in Near(b) /\ batch[w] \subseteq Pods /\ q \in Pods
        BY <4>1, TwoEnds, NearIs DEF Typing, Shapes, Inner
      <4> QED
        BY <2>1, <4>1, <4>2, ReadyBeside DEF Recreating
    <3> QED
      BY <2>2, <3>1 DEF Passed
  <2>3. ASSUME NEW q \in Pods, NEW l \in (dev[q] \cap Inner) \ mtu'[q]
        PROVE  \E v \in Workers \ {w} : Before(v) /\ Ends[l] \cap batch[v] # {}
    <3>1. PICK v \in Workers : Before(v) /\ Ends[l] \cap batch[v] # {}
      BY <2>1, <2>3 DEF MtuOK
    <3>2. v # w
      BY <2>1, <2>2, <2>3, <3>1
    <3> QED
      BY <3>1, <3>2
  <2> QED
    BY <2>1, <2>3 DEF MtuOK, Before
<1>11. ASSUME NEW w \in Workers, MTUPassFails(w)
      PROVE  MtuOK'
  BY <1>11 DEF MTUPassFails, CallFails, Fails, node, Typing, Shapes, MtuOK
<1>12. ASSUME NEW w \in Workers, Replay(w)
      PROVE  MtuOK'
  BY <1>12 DEF Replay, Fails, Typing, Shapes, MtuOK, Before
<1>13. ASSUME NEW w \in Workers, EndRestart(w)
      PROVE  MtuOK'
  BY <1>13 DEF EndRestart, Goto, ReapplyPeers, Typing, Shapes, MtuOK, Before
<1>14. ASSUME NEW w \in Workers, Check(w)
      PROVE  MtuOK'
  BY <1>14, SMTT(30) DEF Check, Goto, node, Typing, Shapes, MtuOK, Before
<1>15. ASSUME NEW w \in Workers, Decide(w)
      PROVE  MtuOK'
  BY <1>15 DEF Decide, Goto, node, Typing, Shapes, MtuOK, Before
<1>16. ASSUME NEW w \in Workers, EndRound(w)
      PROVE  MtuOK'
  BY <1>16 DEF EndRound, Goto, ReapplyPeers, Typing, Shapes, MtuOK, Before
<1>17. ASSUME NEW w \in Workers, RestartRequest(w)
      PROVE  MtuOK'
  BY <1>17, SMTT(30) DEF RestartRequest, Goto, node, Typing, Shapes, MtuOK, Before
<1>18. ASSUME NEW w \in Workers, HealRequest(w)
      PROVE  MtuOK'
  BY <1>18 DEF HealRequest, Goto, node, Typing, Shapes, MtuOK, Before
<1>19. ASSUME NEW p \in Pods, PodGone(p)
      PROVE  MtuOK'
  BY <1>19 DEF PodGone, Lose, worker, Typing, Shapes, MtuOK, Before
<1>20. ASSUME NEW p \in Pods, PodUp(p)
      PROVE  MtuOK'
  <2>1. UNCHANGED worker
    BY <1>20 DEF PodUp
  <2>2. PICK made \in SUBSET LinksOf(p) : \A q \in Pods :
          /\ dev'[q] = dev[q] \cup (made \cap LinksOf(q))
          /\ mtu'[q] = mtu[q] \ (made \cap LinksOf(q))
    BY <1>20, PodUpMakes
  <2>3. PICK w \in Workers : Recreating(w, p)
    BY <1>20, PodUpMakes DEF DownOK
  <2>4. \A l \in made : Before(w) /\ Ends[l] \cap batch[w] # {}
    BY <2>3 DEF Recreating, Before, LinksOf
  <2>5. \A q \in Pods : \A l \in (dev'[q] \cap Inner) \ mtu'[q] :
          \E v \in Workers : Before(v) /\ Ends[l] \cap batch[v] # {}
    BY <2>2, <2>4 DEF MtuOK
  <2> QED
    BY <2>1, <2>5 DEF MtuOK, worker, Before
<1>21. ASSUME NEW p \in Pods, Launch(p)
      PROVE  MtuOK'
  BY <1>21 DEF Launch, worker, Typing, Shapes, MtuOK, Before
<1>22. CASE UNCHANGED vars
  BY <1>22 DEF vars, node, worker, Typing, Shapes, MtuOK, Before
<1> QED
  BY <1>1, <1>2, <1>3, <1>4, <1>5, <1>6, <1>7, <1>8, <1>9, <1>10, <1>11, <1>12, <1>13, <1>14,
         <1>15, <1>16, <1>17, <1>18, <1>19, <1>20, <1>21, <1>22 DEF Next, RestartStep, PodStep

-----------------------------------------------------------------------------
(* The theorems.                                                            *)

\* A failure is not forgotten.
LEMMA DirtyStays ==
  ASSUME [Next]_vars, ~ dirty'
  PROVE  ~ dirty
<1>1. ASSUME NEW w \in Workers, RestartStep(w)
      PROVE  ~ dirty
  BY <1>1 DEF RestartStep, ReadSkipped, InjectSkip, DeletePeerVeth, DeletePod, RestartFails,
     Deleted, SeePodReady, PodsReady, WaitTimesOut, MTUPass, MTUPassFails, Replay, EndRestart,
     Check, Decide, EndRound, Fails
<1>2. ASSUME NEW w \in Workers, RestartRequest(w) \/ HealRequest(w)
      PROVE  ~ dirty
  BY <1>2 DEF RestartRequest, HealRequest
<1>3. ASSUME NEW p \in Pods, PodStep(p)
      PROVE  ~ dirty
  BY <1>3 DEF PodStep, PodGone, PodUp, Launch
<1>4. CASE UNCHANGED vars
  BY <1>4 DEF vars
<1> QED
  BY <1>1, <1>2, <1>3, <1>4 DEF Next

\* The deployed topology satisfies the invariant, whatever ends Meshnet missed.
LEMMA RestartInvInit ==
  ASSUME Init
  PROVE  RestartInv
<1>1. Typing
  BY TypingInit
<1>2. Exclusive /\ TwinOK
  BY DEF Init, Exclusive, TwinOK, Workers
<1>3. Skips
  <2>1. \A l \in Inner : \A p \in Ends[l] : p \in Pods /\ l \notin skipped[p]
    BY TwoEnds DEF Init, Inner
  <2>2. OneSideSkips
    BY <2>1 DEF OneSideSkips, BothSkip
  <2>3. InjectOK
    BY DEF Init, InjectOK
  <2> QED
    BY <2>2, <2>3 DEF Skips
<1>4. VethOK /\ FreshOK /\ DownOK
  BY TwoEnds DEF Init, VethOK, FreshOK, DownOK, Inner
<1>5. CutOK
  BY DEF Init, CutOK
<1>6. GoneOK
  BY TwoEnds DEF Init, GoneOK, Inner
<1>7. ConfOK
  BY <1>1 DEF Init, ConfOK, Has, Typing, Shapes
<1>8. TcOK /\ MtuOK
  BY DEF Init, TcOK, MtuOK
<1> QED
  BY <1>1, <1>2, <1>3, <1>4, <1>5, <1>6, <1>7, <1>8 DEF RestartInv, Clean

\* Every step keeps it.
LEMMA RestartInvStep ==
  ASSUME ~ Overlap, RestartInv, [Next]_vars
  PROVE  RestartInv'
<1>1. Typing'
  BY ShapeStep, TypeStep, WorkerStep DEF RestartInv, Typing
<1>2. Exclusive' /\ Skips'
  BY ExclusiveStep, InjectStep, OneSideStep DEF RestartInv, Skips
<1>3. VethOK' /\ FreshOK' /\ TwinOK'
  BY VethStep, FreshStep, TwinStep DEF RestartInv
<1>4. ASSUME ~ dirty'
      PROVE  Clean'
  <2>1. Clean
    BY <1>4, DirtyStays DEF RestartInv
  <2>2. DownOK' /\ CutOK' /\ GoneOK'
    BY <1>4, <2>1, DownStep, CutStep, GoneStep DEF RestartInv, Clean
  <2>3. ConfOK' /\ TcOK' /\ MtuOK'
    BY <1>4, <2>1, ConfStep, TcStep, MtuStep DEF RestartInv, Clean
  <2> QED
    BY <2>2, <2>3 DEF Clean
<1> QED
  BY <1>1, <1>2, <1>3, <1>4 DEF RestartInv

\* RestartInv is an invariant when restarts that overlap are not of neighbours and heal
\* passes run alone.
THEOREM RestartInvariant ==
  ASSUME ~ Overlap
  PROVE  Spec => []RestartInv
<1>1. Init => RestartInv
  BY RestartInvInit
<1>2. RestartInv /\ [Next]_vars => RestartInv'
  BY RestartInvStep
<1> QED
  BY <1>1, <1>2, PTL DEF Spec

\* OneSideSkips is an invariant: of the two ends of a link, one is always free to make
\* it, however restarts, heal rounds and failing calls follow one another.
THEOREM NeverBothSkip ==
  ASSUME ~ Overlap
  PROVE  Spec => []OneSideSkips
<1>1. RestartInv => OneSideSkips
  BY DEF RestartInv, Skips
<1> QED
  BY <1>1, RestartInvariant, PTL

\* CleanRename is an invariant: without a failed call, a pod is started only when no
\* neighbour still holds an interface its CNI ADD will make, tunnels within a heal round
\* excepted.
THEOREM RenameIsClean ==
  ASSUME ~ Overlap
  PROVE  Spec => []CleanRename
<1>1. RestartInv => CleanRename
  <2> SUFFICES ASSUME RestartInv, ~ dirty, NEW p \in Pods, phase[p] = "starting",
                      NEW l \in Clash(p)
               PROVE  l \in Tunnels /\ l \in twin
    BY DEF CleanRename
  <2>1. PICK q \in Peers(p, l) : l \in dev[q]
    BY DEF Clash
  <2>2. l \in Inner /\ p \in Ends[l] /\ q \in Ends[l]
    BY <2>1 DEF Clash, LinksOf, Peers
  <2>3. l \in Tunnels
    BY <2>1, <2>2 DEF RestartInv, VethOK
  <2>4. l \in twin
    BY <2>1, <2>2, <2>3 DEF RestartInv, Clean, GoneOK
  <2> QED
    BY <2>3, <2>4
<1> QED
  BY <1>1, RestartInvariant, PTL

\* NetworkRestored is an invariant: without a failed call, once every request has ended
\* and every pod is Ready, the operations on record and the platform's MTU are in force
\* on every interface, and every tap that faces no pod of its own heal round is wired.
THEOREM RestartsRestore ==
  ASSUME ~ Overlap
  PROVE  Spec => []NetworkRestored
<1>1. RestartInv => NetworkRestored
  <2> SUFFICES ASSUME RestartInv
               PROVE  /\ TypeOK
                      /\ Quiet /\ ~ dirty =>
                           InForce /\ \A p \in Pods : dev[p] \cap Inner \subseteq mtu[p]
    BY DEF NetworkRestored, HistoryInForce, MTUInForce
  <2>1. TypeOK
    BY DEF RestartInv, Typing
  <2>2. ASSUME Quiet, ~ dirty
        PROVE  InForce /\ \A p \in Pods : dev[p] \cap Inner \subseteq mtu[p]
    <3>1. \A w \in Workers : pc[w] = "idle"
      BY <2>2 DEF Quiet
    <3>2. \A p \in Pods : Has(p) \cap rows[p] \subseteq conf[p]
      BY <2>2, <3>1 DEF RestartInv, Clean, ConfOK, Owes, Before
    <3>3. \A p \in Pods : (dev[p] \cap taps[p]) \ twin \subseteq tc[p]
      BY <2>2, <3>1 DEF RestartInv, Clean, TcOK, Wires, Before
    <3>4. \A p \in Pods : dev[p] \cap Inner \subseteq mtu[p]
      BY <2>2, <3>1 DEF RestartInv, Clean, MtuOK, Before
    <3> QED
      BY <3>2, <3>3, <3>4 DEF InForce
  <2> QED
    BY <2>1, <2>2
<1> QED
  BY <1>1, RestartInvariant, PTL

=============================================================================
