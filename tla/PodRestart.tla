----------------------------- MODULE PodRestart -----------------------------
(***************************************************************************)
(* Recreating pods of a deployed topology: the restart request, which takes *)
(* no lock, and the heal pass at the end of a deploy or a modify.  Both    *)
(* prepare the pod's neighbours, delete the pod, wait for its replacement, *)
(* run the MTU pass, replay the pod's operations and re-apply those of its *)
(* neighbours that lived on the interfaces facing it.                      *)
(*                                                                         *)
(* A link joins the pods Ends[l] (one for a host uplink).  What a driver   *)
(* put on an interface, and the TC redirect to the tap of a guest, die     *)
(* with the interface; what a driver put inside a guest dies with its VM.  *)
(***************************************************************************)
EXTENDS Integers, FiniteSets

CONSTANTS
  Pods,         \* pods of the topology
  Rank,         \* Rank[p]: the place of p's name in lexicographic order
  Type,         \* Type[p]: "host", "router", "switch" or another node type
  Guests,       \* pods that run a guest VM
  Links,        \* links of the topology
  Ends,         \* Ends[l]: the pods link l joins
  Tunnels,      \* links over VXLAN, whose two ends are two devices
  Broken,       \* link ends <<p, l>> Meshnet may have missed when it all began
  Ops,          \* Ops[p]: links whose end in p has operations on record
  Targets,      \* pods that restart requests name
  Restarters,   \* workers serving restart requests
  Healers,      \* the worker of the request whose heal pass runs, or none
  MaxRounds,    \* maxRounds of the heal pass
  Overlap,      \* TRUE: requests overlap as they come; FALSE: only restarts of
                \* pods that are not neighbours do
  Faults,       \* which of {"timeout", "unwired", "api", "exec"} occur
  MaxRequests   \* bound: restart requests and heal passes in a behaviour

Workers == Restarters \cup Healers

ASSUME RestartAssumption ==
  /\ \A l \in Links : \E p, q \in Pods : Ends[l] = {p, q}
  /\ Guests \subseteq Pods /\ Targets \subseteq Pods /\ Tunnels \subseteq Links
  /\ Ops \in [Pods -> SUBSET Links] /\ Restarters \cap Healers = {}
  /\ \A p \in Pods : \A l \in Ops[p] : p \in Ends[l]
  /\ MaxRounds \in Nat \ {0} /\ MaxRequests \in Nat /\ Overlap \in BOOLEAN
  /\ Faults \subseteq {"timeout", "unwired", "api", "exec"}

VARIABLES
  phase,    \* phase[p]: "ready", "terminating", "starting", or "booting" for a
            \* guest whose container runs and whose VM does not
  dev,      \* dev[p]: links with an interface in p's network namespace
  mtu,      \* mtu[p]: of these, the ones at the platform's MTU
  taps,     \* taps[p]: links the VM of guest p has a tap for, since its launch
  tc,       \* tc[p]: interfaces of guest p that are redirected to their tap
  conf,     \* conf[p]: interfaces on which p's operations on record are in force
  rows,     \* rows[p]: links whose end in p has operations on record
  skipped,  \* skipped[p]: links in status.skipped of p's Topology CRD
  pc,       \* where each worker is, "idle" between requests
  batch,    \* batch[w]: the pods it recreates
  todo,     \* todo[w]: those of them it has not deleted yet
  pod,      \* pod[w]: the pod it is deleting
  visit,    \* visit[w]: links of that pod a loop has still to visit
  issues,   \* issues[w]: link ends the heal pass found missing
  round,    \* round[w]: the heal pass's round
  dirty,    \* (history variable) a call failed or a wait ran out
  twin,     \* (history variable) links with both ends in one round of a heal
  left      \* requests still to come

node   == <<phase, dev, mtu, taps, tc, conf, rows, skipped>>
worker == <<pc, batch, todo, pod, visit, issues, round>>
vars   == <<node, worker, dirty, twin, left>>

LinksOf(p)   == {l \in Links : p \in Ends[l]}
Peers(p, l)  == Ends[l] \ {p}
Inner        == {l \in Links : Cardinality(Ends[l]) = 2}   \* not a host uplink
LinkEnds     == {e \in Pods \X Links : e[1] \in Ends[e[2]]}

Init ==
  /\ phase = [p \in Pods |-> "ready"]
  /\ \E missed \in SUBSET Broken :
       dev = [p \in Pods |-> {l \in LinksOf(p) : <<p, l>> \notin missed}]
  /\ mtu = dev /\ rows = Ops
  /\ taps = [p \in Pods |-> IF p \in Guests THEN dev[p] ELSE {}] /\ tc = taps
  /\ conf = [p \in Pods |-> dev[p] \cap Ops[p]]
  /\ skipped = [p \in Pods |-> {}]
  /\ pc = [w \in Workers |-> "idle"]
  /\ batch = [w \in Workers |-> {}] /\ todo = batch
  /\ pod = [w \in Workers |-> CHOOSE p \in Pods : TRUE]
  /\ visit = [w \in Workers |-> {}] /\ issues = [w \in Workers |-> {}]
  /\ round = [w \in Workers |-> 0]
  /\ dirty = FALSE /\ twin = {} /\ left = MaxRequests

\* Bound: one call that fails, and none after a wait that ran out.
CallFails   == "api" \in Faults /\ ~dirty
\* A failure ends a restart request; a heal pass logs it and goes on at c.
Fails(w, c) == /\ pc' = [pc EXCEPT ![w] = IF w \in Healers THEN c ELSE "idle"]
               /\ dirty' = TRUE
Goto(w, c) == pc' = [pc EXCEPT ![w] = c]
Devices    == <<dev, mtu, taps, tc, conf>>

\* Its container runs: there is a network namespace to enter.
Running(p) == phase[p] \in {"ready", "booting"}
\* The interfaces p's operations find: a guest's are the ones of its VM.
Has(p)     == IF p \in Guests THEN taps[p] ELSE dev[p]
\* What was on the interfaces gone[p] goes with them.
Lose(gone) ==
  /\ dev' = [p \in Pods |-> dev[p] \ gone[p]]
  /\ mtu' = [p \in Pods |-> mtu[p] \ gone[p]]
  /\ tc'  = [p \in Pods |-> tc[p] \ gone[p]]

\* Links are visited in the order the CRD lists them, whatever that is.
First(L)   == CHOOSE l \in L : TRUE

-----------------------------------------------------------------------------
(* helpers.RestartPod, for the pods of batch[w] one after the other.        *)

\* Variants for the mutants: a pod names itself creator of every link, and
\* the neighbours' interfaces are left in place.
CreatorAlways(p) == LinksOf(p) \cap Inner
VethsKept(w) ==
  /\ pc[w] = "veths" /\ visit[w] # {}
  /\ visit' = [visit EXCEPT ![w] = {}]
  /\ UNCHANGED <<node, pc, batch, todo, pod, issues, round, dirty, twin, left>>

\* The pod exists and its Topology is read: injectPeerSkipEntries visits
\* the links this pod is the creator of, the ones it does not itself skip.
CreatorOf(p)    == {l \in LinksOf(p) \cap Inner : l \notin skipped[p]}
ReadSkipped(w) ==
  /\ pc[w] = "restart" /\ todo[w] # {}
  /\ \E p \in todo[w] :
       /\ \A q \in todo[w] : Rank[p] <= Rank[q]
       /\ pod' = [pod EXCEPT ![w] = p]
       /\ visit' = [visit EXCEPT ![w] = CreatorOf(p)]
  /\ Goto(w, "inject")
  /\ UNCHANGED <<node, batch, todo, issues, round, dirty, twin, left>>

\* addTopologySkipEntry on the peer, then deletePeerVethsForPod over every link.
InjectSkip(w) ==
  /\ pc[w] = "inject"
  /\ IF visit[w] = {}
     THEN /\ visit' = [visit EXCEPT ![w] = LinksOf(pod[w]) \cap Inner]
          /\ Goto(w, "veths") /\ UNCHANGED skipped
     ELSE LET l == First(visit[w]) IN
            /\ visit' = [visit EXCEPT ![w] = @ \ {l}]
            /\ skipped' = [p \in Pods |-> IF p \in Peers(pod[w], l)
                                          THEN skipped[p] \cup {l} ELSE skipped[p]]
            /\ UNCHANGED pc
  /\ UNCHANGED <<phase, Devices, rows, batch, todo, pod, issues, round, dirty, twin, left>>

\* ip link del in the peer: a veth takes its pair with it, a VXLAN end goes
\* alone.  A peer without a running container has nothing to delete.
DeletePeerVeth(w) ==
  /\ pc[w] = "veths" /\ visit[w] # {}
  /\ LET l == First(visit[w]) IN \E q \in Peers(pod[w], l) :
       /\ visit' = [visit EXCEPT ![w] = @ \ {l}]
       /\ LET hit == IF ~Running(q) \/ l \notin dev[q] THEN {}
                     ELSE IF l \in Tunnels THEN {q} ELSE Ends[l]
          IN  /\ Lose([p \in Pods |-> IF p \in hit THEN {l} ELSE {}])
              /\ conf' = [p \in Pods |-> IF p \in hit \ Guests THEN conf[p] \ {l} ELSE conf[p]]
  /\ UNCHANGED <<phase, taps, rows, skipped, pc, batch, todo, pod, issues, round, dirty, twin,
                 left>>

\* Pods.Delete: the pod is terminating before the call returns.
DeletePod(w) ==
  /\ pc[w] = "veths" /\ visit[w] = {}
  /\ phase' = [phase EXCEPT ![pod[w]] = IF Running(pod[w]) THEN "terminating" ELSE @]
  /\ todo' = [todo EXCEPT ![w] = @ \ {pod[w]}]
  /\ Goto(w, "restart")
  /\ UNCHANGED <<Devices, rows, skipped, batch, pod, visit, issues, round, dirty, twin, left>>

\* The pod is not there, between two incarnations, or its delete is refused
\* when its neighbours have been prepared.
RestartFails(w) ==
  /\ \/ /\ pc[w] = "restart"
        /\ \E p \in todo[w] : phase[p] = "starting" /\ todo' = [todo EXCEPT ![w] = @ \ {p}]
     \/ /\ pc[w] = "veths" /\ visit[w] = {} /\ CallFails
        /\ todo' = [todo EXCEPT ![w] = @ \ {pod[w]}]
  /\ Fails(w, "restart")
  /\ UNCHANGED <<node, batch, pod, visit, issues, round, twin, left>>

Deleted(w) ==
  /\ pc[w] = "restart" /\ todo[w] = {}
  /\ todo' = [todo EXCEPT ![w] = batch[w]]      \* the pods the wait has pending
  /\ Goto(w, "wait")
  /\ UNCHANGED <<node, batch, pod, visit, issues, round, dirty, twin, left>>

-----------------------------------------------------------------------------
(* Kubernetes and Meshnet.                                                 *)

\* The pod's network namespace goes and with it its VM and the far end of a
\* veth, while the far end of a tunnel stays where it is.
PodGone(p) ==
  /\ phase[p] = "terminating"
  /\ phase' = [phase EXCEPT ![p] = "starting"]
  /\ taps' = [taps EXCEPT ![p] = {}]
  /\ LET Gone(q) == IF q = p THEN Links ELSE LinksOf(p) \ Tunnels
     IN  /\ Lose([q \in Pods |-> Gone(q)])
         /\ conf' = [q \in Pods |-> IF q = p \/ q \notin Guests THEN conf[q] \ Gone(q) ELSE conf[q]]
  /\ UNCHANGED <<rows, skipped, worker, dirty, twin, left>>

\* The CNI ADD of the new pod.  It makes both ends of each link whose
\* peer has a network namespace, unless both sides skip the link, and dies
\* with "file exists" on an end the peer still has.  A link only this side
\* skips is the peer's to make: whether it gets made is Meshnet's affair.
Absent(p, l)  == \A q \in Peers(p, l) : phase[q] = "starting"
BothSkip(l)   == Ends[l] # {} /\ \A p \in Ends[l] : l \in skipped[p]
Clash(p)      == {l \in LinksOf(p) \cap Inner :
                    \E q \in Peers(p, l) : Running(q) /\ l \in dev[q]}
PodUp(p) ==
  /\ phase[p] = "starting" /\ Clash(p) = {}
  /\ phase' = [phase EXCEPT ![p] = IF p \in Guests THEN "booting" ELSE "ready"]
  /\ \E made \in SUBSET LinksOf(p) :
       /\ \A l \in made : ~Absent(p, l) \/ l \notin Inner
       /\ \A l \in made : l \in Inner => ~BothSkip(l)
       /\ \A l \in LinksOf(p) \ made :
            l \in Inner /\ (Absent(p, l) \/ BothSkip(l)
                            \/ ("unwired" \in Faults /\ l \in skipped[p]))
       /\ LET New(q) == IF q = p THEN made ELSE made \cap LinksOf(q)
          IN  /\ dev' = [q \in Pods |-> dev[q] \cup New(q)]
              /\ mtu' = [q \in Pods |-> mtu[q] \ New(q)]
              /\ tc' = [q \in Pods |-> tc[q] \ New(q)]
              /\ conf' = [q \in Pods |-> IF q \in Guests THEN conf[q] ELSE conf[q] \ New(q)]
  /\ UNCHANGED <<taps, rows, skipped, worker, dirty, twin, left>>

\* The entrypoint of a guest makes a tap and a redirect for each interface
\* there is, and starts the VM with these: it waits for the others a minute,
\* and goes on without those that have not come.
Launch(p) ==
  /\ phase[p] = "booting"
  /\ phase' = [phase EXCEPT ![p] = "ready"]
  /\ taps' = [taps EXCEPT ![p] = dev[p]] /\ tc' = [tc EXCEPT ![p] = dev[p]]
  /\ UNCHANGED <<dev, mtu, conf, rows, skipped, worker, dirty, twin, left>>

-----------------------------------------------------------------------------
(* What follows the wait.                                                  *)

\* WaitForPodsReadyTimeline: each pod leaves the pending set once seen Ready.
SeePodReady(w) ==
  /\ pc[w] = "wait"
  /\ \E p \in todo[w] : phase[p] = "ready" /\ todo' = [todo EXCEPT ![w] = @ \ {p}]
  /\ UNCHANGED <<node, pc, batch, pod, visit, issues, round, dirty, twin, left>>

PodsReady(w) ==
  /\ pc[w] = "wait" /\ todo[w] = {}
  /\ Goto(w, "mtu")
  /\ UNCHANGED <<node, batch, todo, pod, visit, issues, round, dirty, twin, left>>

\* The wait's deadline: a restart request re-applies its neighbours' state and
\* answers with an error, the heal pass logs it and goes on.
WaitTimesOut(w) ==
  /\ pc[w] = "wait" /\ "timeout" \in Faults /\ todo[w] # {}
  /\ \E p \in todo[w] : phase[p] # "ready"
  /\ Goto(w, IF w \in Healers THEN "mtu" ELSE "late")
  /\ dirty' = TRUE /\ left' = 0   \* bound: no request after a wait that ran out
  /\ UNCHANGED <<node, batch, todo, pod, visit, issues, round, twin>>

\* Variant for the mutants: no interface of a neighbour counts as facing a
\* recreated pod.
FacingNothing(w, q) == {}
\* ApplyPlatformMTU, over the links of the pods recreated in a heal pass.
Passed(w, p, l) == /\ l \in Inner /\ \A q \in Ends[l] : phase[q] = "ready"
                   /\ w \in Healers => Ends[l] \cap batch[w] # {}
MTUPass(w) ==
  /\ pc[w] = "mtu"
  /\ mtu' = [p \in Pods |-> mtu[p] \cup {l \in dev[p] : Passed(w, p, l)}]
  /\ todo' = [todo EXCEPT ![w] = batch[w]]      \* the pods to replay
  /\ Goto(w, "replay")
  /\ UNCHANGED <<phase, dev, taps, tc, conf, rows, skipped, batch, pod, visit, issues, round,
                 dirty, twin, left>>

\* Its error ends a restart before the replay; the heal pass logs it.
MTUPassFails(w) ==
  /\ pc[w] = "mtu" /\ CallFails
  /\ todo' = [todo EXCEPT ![w] = batch[w]]
  /\ Fails(w, "replay")
  /\ UNCHANGED <<node, batch, pod, visit, issues, round, twin, left>>

\* ReplayDriverOperationsForPods: a pod that is not up keeps its rows (the
\* error is transient), one that lacks the interface loses them.
Replay(w) ==
  /\ pc[w] = "replay" /\ todo[w] # {}
  /\ \E p \in todo[w] :
       /\ todo' = [todo EXCEPT ![w] = @ \ {p}]
       /\ IF phase[p] = "ready"
          THEN /\ conf' = [conf EXCEPT ![p] = @ \cup (rows[p] \cap Has(p))]
               /\ rows' = [rows EXCEPT ![p] = @ \cap Has(p)]
               /\ UNCHANGED <<pc, dirty>>
          ELSE UNCHANGED <<conf, rows>> /\ Fails(w, "replay")
  /\ UNCHANGED <<phase, dev, mtu, taps, tc, skipped, batch, pod, visit, issues, round, twin, left>>

\* ReapplyPeerInterfaceState: the neighbours that were not recreated run
\* their operations on the interfaces facing a recreated pod again, and a
\* guest among them all the redirects it made at its launch, if both devices
\* are there.  Nothing is pruned.
Facing(w, q)      == {l \in LinksOf(q) : Ends[l] \cap batch[w] # {}} \cap Inner
Restored(w, q)    == IF q \in batch[w] \/ phase[q] # "ready" THEN {}
                     ELSE dev[q] \cap Facing(w, q)
Rewired(w, q)     == IF q \in batch[w] \/ phase[q] # "ready" \/ Facing(w, q) = {} THEN {}
                     ELSE dev[q] \cap taps[q]
ReapplyPeers(w) ==
  /\ conf' = [q \in Pods |-> IF q \in Guests THEN conf[q]
                             ELSE conf[q] \cup (Restored(w, q) \cap rows[q])]
  /\ tc' = [q \in Pods |-> tc[q] \cup Rewired(w, q)]
  /\ UNCHANGED <<phase, dev, mtu, taps, rows, skipped>>

\* The restart request answers; its reconcile nudges change annotations only.
EndRestart(w) ==
  /\ w \in Restarters
  /\ \/ pc[w] = "replay" /\ todo[w] = {}
     \/ pc[w] = "late"
  /\ ReapplyPeers(w)
  /\ Goto(w, "idle")
  /\ UNCHANGED <<batch, todo, pod, visit, issues, round, dirty, twin, left>>

-----------------------------------------------------------------------------
(* handlers.RestartPod and HealMissingInterfaces.                          *)

\* Nothing takes a lock here: the requests that overlap are the users' choice.
Near(p)     == {p} \cup UNION {Ends[l] : l \in LinksOf(p)}
Clear(w, p) == \A v \in Workers \ {w} :
                 pc[v] = "idle" \/ (v \in Restarters /\ batch[v] \cap Near(p) = {})
Quiet == (\A w \in Workers : pc[w] = "idle") /\ (\A p \in Pods : phase[p] = "ready")

RestartRequest(w) ==
  /\ w \in Restarters /\ left > 0
  /\ pc[w] = "idle" /\ w = CHOOSE v \in Restarters : pc[v] = "idle"
  /\ left' = left - 1
  /\ \E p \in Targets : /\ Overlap \/ (Clear(w, p) /\ \A q \in Near(p) : phase[q] = "ready")
                        /\ batch' = [batch EXCEPT ![w] = {p}]
                        /\ todo' = [todo EXCEPT ![w] = {p}]
  /\ Goto(w, "restart")
  /\ UNCHANGED <<node, pod, visit, issues, round, dirty, twin>>

\* The pods whose interfaces cannot be read although there is a pod: it is not
\* Ready, or the exec failed each time.
Unreadable ==
  {p \in Pods : \/ phase[p] \in {"starting", "booting"}
                \/ phase[p] = "ready" /\ "exec" \in Faults}

\* collectLinkIssues: an interface a Ready pod lacks, or any interface of a pod
\* found unreadable, is missing.  A pod that is terminating, that was not found or
\* whose container has exited is left alone.
MissingEnds(found) ==
  {e \in LinkEnds : \/ phase[e[1]] = "ready" /\ e[2] \notin dev[e[1]]
                    \/ e[1] \in found}

HealRequest(w) ==
  /\ pc[w] = "idle" /\ w \in Healers /\ left > 0 /\ (Overlap \/ Quiet)
  /\ left' = left - 1
  /\ round' = [round EXCEPT ![w] = 1]
  /\ Goto(w, "check")
  /\ UNCHANGED <<node, batch, todo, pod, visit, issues, dirty, twin>>

\* A round's check; round one re-checks what was missing before it acts.
Check(w) ==
  /\ pc[w] = "check"
  /\ \E found \in SUBSET Unreadable :
       /\ issues' = [issues EXCEPT ![w] = MissingEnds(found)]
       /\ Goto(w, IF MissingEnds(found) = {} THEN "idle" ELSE "decide")
  /\ UNCHANGED <<node, batch, todo, pod, visit, round, dirty, twin, left>>

TypeRank(p) == CASE Type[p] = "host" -> 1 [] Type[p] = "router" -> 2
                 [] Type[p] = "switch" -> 3 [] OTHER -> 9
MissingOf(w, p) == Cardinality({e \in issues[w] : e[1] = p})

\* chooseRestartEndpoint for a link both ends of which are missing: the
\* switch, the end that misses more, the lower type, the first name.
Prefer(w, p, q) ==
  IF (Type[p] = "switch") # (Type[q] = "switch") THEN Type[p] = "switch"
  ELSE IF MissingOf(w, p) # MissingOf(w, q) THEN MissingOf(w, p) > MissingOf(w, q)
  ELSE IF TypeRank(p) # TypeRank(q) THEN TypeRank(p) < TypeRank(q)
  ELSE Rank[p] <= Rank[q]

\* The pods a broken link sends into the restart: its missing side, from
\* round two on both sides, and one of the two when both miss it.
RestartFor(w, l) ==
  LET miss == {p \in Ends[l] : <<p, l>> \in issues[w]}
  IN IF miss = Ends[l] THEN {p \in miss : \A q \in miss : Prefer(w, p, q)}
     ELSE IF miss = {} THEN {} ELSE IF round[w] = 1 THEN miss ELSE Ends[l]

Decide(w) ==
  /\ pc[w] = "decide"
  /\ LET chosen == UNION {RestartFor(w, l) : l \in Links}
     IN  /\ batch' = [batch EXCEPT ![w] = chosen] /\ todo' = [todo EXCEPT ![w] = chosen]
         /\ twin' = twin \cup {l \in Inner : Ends[l] \subseteq chosen}
  /\ Goto(w, "restart")
  /\ UNCHANGED <<node, pod, visit, issues, round, dirty, left>>

\* A variant for the mutants: the pass goes on until nothing is missing.
EndRoundForever(w) ==
  /\ w \in Healers /\ pc[w] = "replay" /\ todo[w] = {}
  /\ ReapplyPeers(w)
  /\ Goto(w, "check")
  /\ UNCHANGED <<batch, todo, pod, visit, issues, round, dirty, twin, left>>

\* The end of a round: the neighbours, then the next round, or a last
\* validation whose error is only logged.
EndRound(w) ==
  /\ w \in Healers /\ pc[w] = "replay" /\ todo[w] = {}
  /\ ReapplyPeers(w)
  /\ round' = [round EXCEPT ![w] = @ + 1]
  /\ Goto(w, IF round[w] = MaxRounds THEN "idle" ELSE "check")
  /\ UNCHANGED <<batch, todo, pod, visit, issues, dirty, twin, left>>

-----------------------------------------------------------------------------
RestartStep(w) == \/ ReadSkipped(w) \/ InjectSkip(w) \/ DeletePeerVeth(w) \/ DeletePod(w)
                  \/ RestartFails(w) \/ Deleted(w) \/ SeePodReady(w) \/ PodsReady(w)
                  \/ WaitTimesOut(w) \/ MTUPass(w) \/ MTUPassFails(w) \/ Replay(w) \/ EndRestart(w)
                  \/ Check(w) \/ Decide(w) \/ EndRound(w)
PodStep(p)     == PodGone(p) \/ PodUp(p) \/ Launch(p)

Next == \/ \E w \in Workers : RestartStep(w) \/ RestartRequest(w) \/ HealRequest(w)
        \/ \E p \in Pods : PodStep(p)

\* The backend runs a request it has accepted, the kubelet and Meshnet run.
Fairness == /\ \A w \in Workers : WF_vars(RestartStep(w))
            /\ \A p \in Pods : WF_vars(PodStep(p))
Spec == Init /\ [][Next]_vars /\ Fairness

-----------------------------------------------------------------------------
\* The variables have the types of the tables, the kernel and the requests.
TypeOK ==
  /\ phase \in [Pods -> {"ready", "terminating", "starting", "booting"}]
  /\ \A p \in Pods : /\ dev[p] \cup rows[p] \cup skipped[p] \cup taps[p] \subseteq LinksOf(p)
                     /\ mtu[p] \subseteq dev[p] /\ conf[p] \subseteq LinksOf(p)
                     /\ tc[p] \subseteq dev[p] \cap taps[p] /\ (p \notin Guests => taps[p] = {})
  /\ pc \in [Workers -> {"idle", "restart", "inject", "veths", "wait", "late", "mtu",
                         "replay", "check", "decide"}]
  /\ \A w \in Workers : /\ todo[w] \subseteq batch[w] /\ batch[w] \subseteq Pods
                        /\ visit[w] \subseteq LinksOf(pod[w]) /\ issues[w] \subseteq LinkEnds
  /\ round \in [Workers -> 0 .. MaxRounds + 1]
  /\ dirty \in BOOLEAN /\ twin \subseteq Inner /\ left \in 0 .. MaxRequests

\* injectPeerSkipEntries (pods.go): both ends of a link are never told to
\* leave its wiring to the other, which would leave it broken for good.
OneSideSkips == \A l \in Inner : ~BothSkip(l)

\* deletePeerVethsForPod (pods.go): when a pod's replacement is being wired,
\* no neighbour still has the interface its CNI ADD is about to make, so it
\* is not stuck in ContainerCreating.  Not so for a tunnel between two pods
\* of one heal round: the first may be back, with the tunnel, between the
\* exec of the second that found its container gone and the second's delete.
CleanRename ==
  ~dirty => \A p \in Pods : phase[p] = "starting" => Clash(p) \subseteq Tunnels \cap twin

\* What RestartPod says of its deletions and of the redirects of its peers,
\* without the exception.
RenameGuaranteed == ~dirty => \A p \in Pods : phase[p] = "starting" => Clash(p) = {}
NoStaleRedirect  == Quiet /\ ~dirty => \A p \in Pods : dev[p] \cap taps[p] \subseteq tc[p]

\* RestartPod and HealMissingInterfaces with ReapplyPeerInterfaceState: once
\* all is quiet, every operation on record is in force on its interface, and
\* every tap a guest was launched with is wired to its interface, on the
\* recreated pods and on the neighbours whose ends Meshnet made again.  Not
\* so for a link between two pods of one heal round, whose redirect nobody
\* makes anew: RewireQemuPeersAfterRestart leaves recreated guests out.
InForce == \A p \in Pods : /\ Has(p) \cap rows[p] \subseteq conf[p]
                           /\ (dev[p] \cap taps[p]) \ twin \subseteq tc[p]
HistoryInForce == Quiet /\ ~dirty => InForce

\* The MTU pass of a restart or of a heal round (pods.go, heal.go): once all is
\* quiet, both ends of every link that is wired are at the platform's MTU.
MTUInForce == Quiet /\ ~dirty => \A p \in Pods : dev[p] \cap Inner \subseteq mtu[p]

\* A restart ends and so does a heal pass, whose rounds are bounded.
RequestsEnd == \A w \in Workers : pc[w] # "idle" ~> pc[w] = "idle"

\* RestartPod and HealMissingInterfaces as a whole: in well-typed states, once
\* all is quiet, the operations on record and the MTU are in force on every
\* end, the recreated ones and their neighbours'.
NetworkRestored == TypeOK /\ HistoryInForce /\ MTUInForce

=============================================================================
