------------------------------ MODULE LinkMTU ------------------------------
(***************************************************************************)
(* The MTU and the extra addresses of the links: the rows a configure       *)
(* request keeps them in, and the MTU pass that writes them on the pods     *)
(* after each wiring.  A pass lists the namespace, reads what the           *)
(* interfaces have, settles one value for the links that declare none from  *)
(* the VXLAN ceilings it remembers, and writes what differs, pod by pod; a  *)
(* refusal of the kernel lowers the value and starts a second round.  Passes *)
(* of a restart, a heal round and a configure may overlap.                  *)
(*                                                                         *)
(* The tap of a guest's interface is written with the interface, so the two *)
(* are one here.                                                            *)
(***************************************************************************)
EXTENDS Integers, FiniteSets, FiniteSetsExt

CONSTANTS
  Pods, Guests,   \* pods, and those of them that run a guest VM
  Links,          \* links between pods (a host uplink is not the pass's)
  Joins,          \* Joins[l]: the pods of its two ends, in name order
  Workers,
  Worker,         \* Worker[pod]: the worker it is scheduled on
  Cap,            \* Cap[w]: the most a VXLAN device carries on w
  VethMTU,        \* what Meshnet creates a veth with
  Target,         \* PlatformLinkMTU
  Explicit,       \* TRUE: the operator set it
  Extra,          \* ends <<l, side>> that declare an address beyond Meshnet's
  Named,          \* ends configure requests name
  Asked,          \* MTUs configure requests ask for, 0 to clear
  Procs,          \* workers serving requests
  Kinds,          \* of {"restart", "heal", "configure", "deploy"}: requests
  Faults,         \* of {"crash", "list", "attrs", "read", "history", "write", "guest"}
  Given,          \* row sets a behaviour may start with
  MaxEvents       \* bound: requests, address operations and failures in a behaviour

Ends == Links \X {1, 2}
PodOf(e) == Joins[e[1]][e[2]]
Facing(e) == <<e[1], 3 - e[2]>>
Cross(l) == Worker[Joins[l][1]] # Worker[Joins[l][2]]

ASSUME MTUAssumption ==
  /\ \A l \in Links : Joins[l] \in Pods \X Pods
  /\ Worker \in [Pods -> Workers] /\ Cap \in [Workers -> Nat \ {0}]
  /\ VethMTU \in Nat \ {0} /\ Target \in Nat \ {0} /\ VethMTU >= Target
  /\ Explicit \in BOOLEAN /\ Asked \subseteq Nat /\ Extra \subseteq Ends /\ Named \subseteq Ends
  /\ Guests \subseteq Pods /\ MaxEvents \in Nat

VARIABLES
  mtu,       \* mtu[e]: the MTU of the pod interface of end e
  guest,     \* guest[e]: the MTU inside the guest, for an end in a guest pod
  addr,      \* ends whose extra address is set
  removed,   \* ends whose extra address the pod's history removes
  running,   \* pods that run
  fresh,     \* pods created after this backend started
  rows,      \* link_attributes: records [end, mtu]
  ceiling,   \* workerCeiling, 0 for none
  namespaceMTU,
  pass,      \* pass[p]: the request p serves
  misled,    \* (history variable) of {"read", "wiring", "address"}: what a pass
             \* took for true and was not (ReadPods, Settle, SetPod, SetGuest)
  left       \* requests, address operations and failures still to come

vars == <<mtu, guest, addr, removed, running, fresh, rows, ceiling,
          namespaceMTU, pass, misled, left>>
devices == <<mtu, guest, addr>>
backend == <<ceiling, namespaceMTU>>

\* A process between requests.  quiet (history): nothing the pass depends on
\* was changed by anybody else since it began; clean (history): no warning,
\* and the attributes were loaded.
Idle == [st |-> "idle", only |-> {}, known |-> FALSE, end |-> <<>>, ask |-> 0,
         ends |-> {}, want |-> <<>>, fresh |-> {}, have |-> <<>>, eff |-> Target,
         round |-> 1, todo |-> {}, guests |-> {}, extra |-> Extra, off |-> {}, refused |-> {},
         quiet |-> TRUE, clean |-> TRUE]

At(p, st) == pass[p].st = st
Active(p) == pass[p].st \notin {"idle", "done", "failed"}

\* A request that is over keeps what its response says of the pass.
Over(r, st) == [r EXCEPT !.st = st, !.have = <<>>, !.off = {}, !.fresh = {},
                         !.only = {}, !.known = FALSE, !.end = <<>>, !.ask = 0]

\* What another's change makes of a request: a pass under way is disturbed, and
\* of one that is over nothing more is claimed.
Disturbed(r) == IF r.st \in {"done", "failed"} THEN Idle ELSE [r EXCEPT !.quiet = FALSE]

\* pass with p's record replaced and every other request disturbed.
Disturb(p, r) == [q \in Procs |-> IF q = p THEN r ELSE Disturbed(pass[q])]

Smallest(S) == CHOOSE x \in S : \A y \in S : x <= y

\* What a freshly wired device of end e has.
Wired(e) == IF Cross(e[1]) THEN Cap[Worker[PodOf(e)]] ELSE VethMTU

\* The value a namespace ends up with when every ceiling is known.
Fits == Smallest({Target} \cup {Cap[Worker[PodOf(e)]] : e \in {x \in Ends : Cross(x[1])}})

\* LoadLinkAttributes: each row under both of its ends, rows in key order, so
\* the last of two rows of a link stands.
WantOf(l) ==
  LET mine == {x \in rows : x.end[1] = l}
  IN IF mine = {} THEN 0
     ELSE (CHOOSE x \in mine : \A y \in mine : y.end[2] <= x.end[2]).mtu

\* A deployed namespace after a pass, in the backend that made it or in one
\* started since.
Init ==
  /\ rows \in Given /\ running = Pods /\ fresh \in {Pods, {}}
  /\ mtu = [e \in Ends |-> IF WantOf(e[1]) > 0 THEN WantOf(e[1]) ELSE Fits]
  /\ guest = [e \in Ends |-> IF PodOf(e) \in Guests THEN mtu[e] ELSE 0]
  /\ addr = Extra /\ removed = {}
  /\ ceiling = [w \in Workers |->
       IF fresh = Pods /\ \E e \in Ends : Cross(e[1]) /\ Worker[PodOf(e)] = w
       THEN Cap[w] ELSE 0]
  /\ namespaceMTU = IF fresh = Pods THEN Fits ELSE 0
  /\ pass = [p \in Procs |-> Idle]
  /\ misled = {} /\ left = MaxEvents

----------------------------------------------------------------------------
(* Requests.                                                                *)

\* Whether a call of this kind fails here.
Fails(f) == f \in Faults /\ left > 0 /\ left' = left - 1

Begin(p, kind) == /\ kind \in Kinds /\ left > 0 /\ ~Active(p)
                  /\ left' = left - 1

\* A restart deletes its pod; its pass covers every link.
RestartRequest(p) ==
  /\ Begin(p, "restart")
  /\ \E x \in running : running' = running \ {x}
  /\ pass' = Disturb(p, [Idle EXCEPT !.st = "list", !.only = Pods])
  /\ UNCHANGED <<devices, removed, fresh, rows, backend, misled>>

\* A heal round recreates pods too; its pass covers their links only.
HealRequest(p) ==
  /\ Begin(p, "heal")
  /\ \E x \in running :
       /\ running' = running \ {x}
       /\ pass' = Disturb(p, [Idle EXCEPT !.st = "list", !.only = {x}])
  /\ UNCHANGED <<devices, removed, fresh, rows, backend, misled>>

\* The pass at the end of a deploy or a modify takes the heal pass's reads.
DeployRequest(p) ==
  /\ Begin(p, "deploy")
  /\ pass' = [pass EXCEPT ![p] =
       [Idle EXCEPT !.st = "list", !.only = Pods, !.known = TRUE, !.have = mtu]]
  /\ UNCHANGED <<devices, removed, running, fresh, rows, backend, misled>>

\* ValidateLinkMTU: 0 clears the link's own MTU, no other may exceed the platform's.
ValidateLinkMTU(m) == m <= Target

\* A configure request that names one end of a link and asks for an MTU.
ConfigureRequest(p) ==
  /\ Begin(p, "configure")
  /\ \E e \in Named, m \in Asked :
       /\ ValidateLinkMTU(m)
       /\ pass' = [pass EXCEPT ![p] =
            [Idle EXCEPT !.st = "update", !.end = e, !.ask = m,
                         !.only = {PodOf(e), PodOf(Facing(e))}]]
  /\ UNCHANGED <<devices, removed, running, fresh, rows, backend, misled>>

\* SetLinkMTU, first statement: update the row of whichever end is named.
UpdateRow(p) ==
  LET r == pass[p]
      mine == {x \in rows : x.end \in {r.end, Facing(r.end)}}
  IN /\ At(p, "update")
     /\ rows' = (rows \ mine) \cup {[x EXCEPT !.mtu = r.ask] : x \in mine}
     /\ pass' = Disturb(p, [r EXCEPT !.st =
          IF mine # {} \/ r.ask = 0 THEN "list" ELSE "insert"])
     /\ UNCHANGED <<devices, removed, running, fresh, backend, misled, left>>

\* Second statement: insert a row keyed by the named end, which the primary
\* key refuses when another request has inserted it meanwhile.
InsertRow(p) ==
  LET r == pass[p]
      taken == \E x \in rows : x.end = r.end
  IN /\ At(p, "insert")
     /\ rows' = IF taken THEN rows ELSE rows \cup {[end |-> r.end, mtu |-> r.ask]}
     /\ pass' = IF taken THEN [pass EXCEPT ![p].st = "failed"]
                         ELSE Disturb(p, [r EXCEPT !.st = "list"])
     /\ UNCHANGED <<devices, removed, running, fresh, backend, misled, left>>

\* remove_ip and set_ip of a declared extra address, through a configure request.
RemoveIP(e) ==
  /\ left > 0 /\ left' = left - 1
  /\ e \in Extra /\ PodOf(e) \in running
  /\ addr' = addr \ {e} /\ removed' = removed \cup {e}
  /\ pass' = [p \in Procs |-> Disturbed(pass[p])]
  /\ UNCHANGED <<mtu, guest, running, fresh, rows, backend, misled>>

SetIP(e) ==
  /\ left > 0 /\ left' = left - 1
  /\ e \in removed /\ PodOf(e) \in running
  /\ addr' = addr \cup {e} /\ removed' = removed \ {e}
  /\ pass' = [p \in Procs |-> Disturbed(pass[p])]
  /\ UNCHANGED <<mtu, guest, running, fresh, rows, backend, misled>>

----------------------------------------------------------------------------
(* The pass.                                                                *)

\* linkEnds: the ends of the links that touch the named pods and whose two
\* pods run.
LinkEnds(only) ==
  {e \in Ends : /\ {PodOf(e), PodOf(Facing(e))} \cap only # {}
                /\ {PodOf(e), PodOf(Facing(e))} \subseteq running}

\* The links or the pods cannot be listed.
ListFails(p) ==
  /\ At(p, "list") /\ Fails("list")
  /\ pass' = [pass EXCEPT ![p] = Over(@, "failed")]
  /\ UNCHANGED <<devices, removed, running, fresh, rows, backend, misled>>

\* ApplyPlatformMTU up to the reads.  When the attributes cannot be loaded
\* every link is given the platform's value and no extra address.
List(p) ==
  \E loaded \in BOOLEAN :
    LET r == pass[p]
        ends == LinkEnds(r.only)
    IN /\ At(p, "list")
       /\ IF loaded THEN UNCHANGED left ELSE Fails("attrs")
       /\ pass' = [pass EXCEPT ![p] =
            [(IF ends = {} THEN Over(r, "done") ELSE [r EXCEPT !.st = "read"]) EXCEPT
                      !.ends = ends, !.fresh = IF ends = {} THEN {} ELSE fresh,
                      !.want = [l \in Links |-> IF loaded THEN WantOf(l) ELSE 0],
                      !.extra = IF loaded THEN @ ELSE {},
                      !.clean = @ /\ loaded, !.quiet = r.known => @]]
       /\ UNCHANGED <<devices, removed, running, fresh, rows, backend, misled>>

\* readPodMTUs: one read per pod, in parallel; a pod that cannot be read has no
\* interfaces.
ReadPods(p) ==
  LET r == pass[p]
  IN /\ At(p, "read")
     /\ \E lost \in {{}} \cup {{PodOf(e)} : e \in r.ends} :
          /\ IF lost = {} THEN UNCHANGED left ELSE ~r.known /\ Fails("read")
          /\ pass' = [pass EXCEPT ![p] =
               [r EXCEPT !.st = "settle",
                         !.have = IF r.known THEN @
                                  ELSE [e \in Ends |-> IF PodOf(e) \in lost THEN 0 ELSE mtu[e]]]]
          /\ misled' = misled \cup (IF lost = {} THEN {} ELSE {"read"})
     /\ UNCHANGED <<devices, removed, running, fresh, rows, ceiling, namespaceMTU>>

\* Whether the device at end e is one the kernel made since the backend started.
FreshEnd(r, e) == {PodOf(e), PodOf(Facing(e))} \cap r.fresh # {}

\* mutant: a veth end teaches too
TeachesVeth(r, e) == FreshEnd(r, e)

\* The ends a worker's ceiling is read off.
Teaches(r, e) == Cross(e[1]) /\ FreshEnd(r, e)


\* recordWorkerCeiling: the largest value seen on the worker.
Recorded(seen) ==
  [w \in Workers |-> Max({ceiling[w]} \cup {x[2] : x \in {y \in seen : y[1] = w}})]

\* settleMTU: the links without an MTU of their own get the platform's, or
\* the least of the known ceilings when the operator did not insist.
Settled(r, known) ==
  LET limits == {known[Worker[PodOf(e)]] : e \in
                   {x \in r.ends : /\ Cross(x[1]) /\ r.want[x[1]] = 0
                                   /\ known[Worker[PodOf(x)]] > 0}}
      over == \E e \in r.ends : LET c == known[Worker[PodOf(e)]] IN
                /\ Cross(e[1]) /\ r.want[e[1]] > 0 /\ c > 0 /\ r.want[e[1]] > c
      eff == Smallest({Target} \cup limits)
  IN [eff |-> eff, err |-> over \/ (Explicit /\ eff < Target)]

\* mutant: the attributes are found from one end of the link only
TargetOneEnd(r, e) == IF r.want[e[1]] > 0 /\ e[2] = 1 THEN r.want[e[1]] ELSE r.eff

\* targetOf
TargetOf(r, e) == IF r.want[e[1]] > 0 THEN r.want[e[1]] ELSE r.eff

\* The items of pod x's script, and what the kernel refuses of them.
Differs(r, x) == {e \in r.ends : PodOf(e) = x /\ r.have[e] # TargetOf(r, e)}
Refuses(e, m) == Cross(e[1]) /\ m > Cap[Worker[PodOf(e)]]

\* The extra addresses the pass puts back on pod x.
Declared(r, x) == {e \in r.ends \cap r.extra : PodOf(e) = x} \ r.off

\* The pods a round has something to write in.
Work(r) == {x \in Pods : \/ Differs(r, x) # {} \/ Declared(r, x) # {}
                         \/ x \in Guests /\ \E e \in r.ends : PodOf(e) = x}

\* A round over the ends of r at the value it has settled on, but for the
\* addresses that are off.
Round(r, eff, n, off) ==
  LET s == [r EXCEPT !.st = "set", !.eff = eff, !.round = n, !.refused = {}, !.off = off]
  IN [s EXCEPT !.todo = Work(s)]

\* removedAddresses, which a round asks of each pod's history; one that cannot
\* be read counts as empty.
HistoryRead(off) ==
  \/ off = removed /\ UNCHANGED left
  \/ /\ Fails("history")
     /\ \E x \in {PodOf(e) : e \in removed} : off = {e \in removed : PodOf(e) # x}

\* (history) The reads a deploy's pass was given are older than the wiring of a
\* tunnel it learns from.
Outdated(r) == r.known /\ \E e \in r.ends : Teaches(r, e) /\ r.have[e] < mtu[e]

\* (history) One of the ends written is a tunnel's, wired since the pass asked
\* which pods are new: the next pass takes what is written for the ceiling.
Rewired(r, written) ==
  \E e \in written : /\ Cross(e[1]) /\ ~FreshEnd(r, e)
                     /\ {PodOf(e), PodOf(Facing(e))} \cap fresh # {}

\* (history) An address removed since the round read the history, or whose
\* history it could not read, is put back.
Revived(r, x) == IF Declared(r, x) \cap removed # {} THEN {"address"} ELSE {}

\* Learns the ceilings from the fresh VXLAN ends, then settles the value.
Settle(p) ==
  LET r == pass[p]
      seen == {<<Worker[PodOf(e)], r.have[e]>> : e \in
                 {x \in r.ends : Teaches(r, x)}}
      known == Recorded(seen)
      s == Settled(r, known)
  IN /\ At(p, "settle")
     /\ ceiling' = known
     /\ \/ s.err /\ pass' = [pass EXCEPT ![p] = Over(r, "failed")] /\ UNCHANGED left
        \/ /\ ~s.err
           /\ \E off \in SUBSET removed :
                HistoryRead(off) /\ pass' = [pass EXCEPT ![p] = Round(r, s.eff, 1, off)]
     /\ misled' = misled \cup (IF Outdated(r) THEN {"wiring"} ELSE {})
     /\ UNCHANGED <<devices, removed, running, fresh, rows, namespaceMTU>>

\* setLinkMTUs, one pod: its script, in which every item stands for itself.
\* An end refused over VXLAN is reported when its MTU was read, else it is a
\* warning; a script that does not run is a warning, and the guest comes next.
SetPod(p, x) ==
  LET r == pass[p]
      todo == Differs(r, x)
      bad == {e \in todo : Refuses(e, TargetOf(r, e))}
      said == {e \in bad : r.have[e] > 0}
      next == IF x \in Guests /\ said = {} THEN {x} ELSE {}
  IN /\ At(p, "set") /\ x \in r.todo
     /\ \/ /\ x \in running /\ UNCHANGED left
           /\ mtu' = [e \in Ends |-> IF e \in todo \ bad THEN TargetOf(r, e) ELSE mtu[e]]
           /\ addr' = IF x \in Guests THEN addr ELSE addr \cup Declared(r, x)
           /\ misled' = misled \cup (IF Rewired(r, todo \ bad) THEN {"wiring"} ELSE {})
                              \cup (IF x \notin Guests THEN Revived(r, x) ELSE {})
           /\ pass' = Disturb(p, [r EXCEPT !.todo = @ \ {x}, !.guests = @ \cup next,
                                          !.refused = @ \cup said,
                                          !.clean = @ /\ bad = said])
        \/ /\ Fails("write") \/ (x \notin running /\ UNCHANGED left)
           /\ pass' = [pass EXCEPT ![p].todo = @ \ {x}, ![p].clean = FALSE,
                                   ![p].guests = @ \cup ({x} \cap Guests)]
           /\ UNCHANGED <<mtu, addr, misled>>
     /\ UNCHANGED <<guest, removed, running, fresh, rows, backend>>

\* setGuestLinks: one commit with the MTUs and the addresses the guest lacks.
SetGuest(p, x) ==
  LET r == pass[p]
      mine == {e \in r.ends : PodOf(e) = x}
  IN /\ At(p, "set") /\ x \in r.guests
     /\ \/ /\ x \in running /\ UNCHANGED left
           /\ guest' = [e \in Ends |-> IF e \in mine THEN TargetOf(r, e) ELSE guest[e]]
           /\ addr' = addr \cup Declared(r, x)
           /\ misled' = misled \cup Revived(r, x)
           /\ pass' = Disturb(p, [r EXCEPT !.guests = @ \ {x}])
        \/ /\ Fails("guest") \/ (x \notin running /\ UNCHANGED left)
           /\ pass' = [pass EXCEPT ![p].guests = @ \ {x}, ![p].clean = FALSE]
           /\ UNCHANGED <<guest, addr, misled>>
     /\ UNCHANGED <<mtu, removed, running, fresh, rows, backend>>

\* Whether a refusal ends the pass: of a value someone asked for.
Insists(r) == Explicit \/ \E e \in r.refused : r.want[e[1]] > 0

\* mutant: the refusal is remembered and the value stays
LoweredNot(r) == r.eff

\* What a refused value is lowered to: the least the refused ends had.
Lowered(r) == Smallest({r.eff} \cup {r.have[e] : e \in r.refused})

\* The end of a round: done when nothing was refused, an error for a value
\* someone asked for, else the value is lowered to what the refused ends had
\* and, after the first round, every link is written again.
EndRound(p) ==
  LET r == pass[p]
      low == Lowered(r)
  IN /\ At(p, "set") /\ r.todo = {} /\ r.guests = {}
     /\ \/ /\ r.refused = {}
           /\ pass' = [pass EXCEPT ![p] = Over(r, "done")]
           /\ namespaceMTU' = r.eff
           /\ UNCHANGED <<ceiling, left>>
        \/ /\ r.refused # {} /\ Insists(r)
           /\ pass' = [pass EXCEPT ![p] = Over(r, "failed")]
           /\ UNCHANGED <<ceiling, namespaceMTU, left>>
        \/ /\ r.refused # {} /\ ~Insists(r)
           /\ ceiling' = Recorded({<<Worker[PodOf(e)], r.have[e]>> : e \in r.refused})
           /\ \/ /\ r.round = 1 /\ UNCHANGED namespaceMTU
                 /\ \E off \in SUBSET removed :
                      HistoryRead(off) /\ pass' = [pass EXCEPT ![p] = Round(r, low, 2, off)]
              \/ /\ r.round = 2 /\ namespaceMTU' = low /\ UNCHANGED left
                 /\ pass' = [pass EXCEPT ![p] = Over([r EXCEPT !.eff = low], "done")]
     /\ UNCHANGED <<devices, removed, running, fresh, rows, misled>>

----------------------------------------------------------------------------
(* Kubernetes, Meshnet and the backend's own process.                       *)

\* The replacement of a deleted pod: Meshnet wires its links anew, both ends,
\* and what had been set on these interfaces is gone with them.
PodUp(x) ==
  LET mine == {e \in Ends : x \in {PodOf(e), PodOf(Facing(e))}}
      lost == {e \in mine : PodOf(e) = x \/ PodOf(e) \notin Guests}
  IN /\ x \in Pods \ running
     /\ running' = running \cup {x} /\ fresh' = fresh \cup {x}
     /\ mtu' = [e \in Ends |-> IF e \in mine THEN Wired(e) ELSE mtu[e]]
     /\ guest' = [e \in Ends |-> IF PodOf(e) = x /\ x \in Guests THEN VethMTU ELSE guest[e]]
     /\ addr' = addr \ lost
     /\ pass' = [p \in Procs |-> Disturbed(pass[p])]
     /\ UNCHANGED <<removed, rows, backend, misled, left>>

\* The backend restarts: requests and what it learned in memory are gone.
Crash ==
  /\ "crash" \in Faults /\ left > 0 /\ left' = left - 1
  /\ ceiling' = [w \in Workers |-> 0] /\ namespaceMTU' = 0 /\ fresh' = {}
  /\ pass' = [p \in Procs |-> Idle]
  /\ UNCHANGED <<devices, removed, running, rows, misled>>

Step(p) ==
  \/ UpdateRow(p) \/ InsertRow(p) \/ List(p) \/ ListFails(p) \/ ReadPods(p) \/ Settle(p) \/ EndRound(p)
  \/ \E x \in Pods : SetPod(p, x) \/ SetGuest(p, x)

Next ==
  \/ \E p \in Procs : \/ RestartRequest(p) \/ HealRequest(p) \/ DeployRequest(p)
                      \/ ConfigureRequest(p) \/ Step(p)
  \/ \E e \in Ends : RemoveIP(e) \/ SetIP(e)
  \/ \E x \in Pods : PodUp(x)
  \/ Crash

Spec == Init /\ [][Next]_vars

----------------------------------------------------------------------------
(* Properties.                                                              *)

Values == {0, VethMTU, Target} \cup {Cap[w] : w \in Workers} \cup Asked

(* Every recorded MTU is one some worker, row or veth can really have: the *)
(* maps of end MTUs and of learnt ceilings hold no invented value.          *)
TypeOK ==
  /\ mtu \in [Ends -> Values \ {0}] /\ guest \in [Ends -> Values]
  /\ addr \subseteq Extra /\ removed \subseteq Extra
  /\ running \subseteq Pods /\ fresh \subseteq Pods
  /\ rows \subseteq [end : Ends, mtu : Asked]
  /\ ceiling \in [Workers -> Values] /\ namespaceMTU \in Values
  /\ misled \subseteq {"read", "wiring", "address"} /\ left \in 0 .. MaxEvents
  /\ \A p \in Procs : pass[p].round \in {1, 2} /\ pass[p].eff \in Values \ {0}

\* Between the end of pass p and any other change of what it covered.
Just(p) == At(p, "done") /\ pass[p].quiet

\* A pass without a warning leaves every link that declares an MTU at it, on
\* both pod interfaces and inside the guests, however many rounds it took.
DeclaredInForce ==
  \A p \in Procs : Just(p) /\ pass[p].clean =>
    \A e \in pass[p].ends : pass[p].want[e[1]] > 0 =>
      /\ mtu[e] = pass[p].want[e[1]]
      /\ PodOf(e) \in Guests => guest[e] = pass[p].want[e[1]]

\* A pass without a warning or a refusal leaves every other link it covered at
\* the value it settled on, pod side and guest side, and reports that value.
SettledInForce ==
  \A p \in Procs : Just(p) /\ pass[p].clean /\ pass[p].round = 1 =>
    \A e \in pass[p].ends : pass[p].want[e[1]] = 0 =>
      /\ mtu[e] = pass[p].eff
      /\ PodOf(e) \in Guests => guest[e] = pass[p].eff

\* What the backend remembers as a worker's VXLAN ceiling is never more than
\* the worker carries.
CeilingSound == \A w \in Workers : ceiling[w] <= Cap[w]

\* As long as every read answered and no pod was wired anew under a pass, a
\* pass lowers the platform's value only if some worker of a VXLAN link it
\* covers cannot carry it.
LoweredOnlyIfNeeded ==
  \A p \in Procs : misled \cap {"read", "wiring"} = {} /\ pass[p].eff < Target =>
    \E e \in pass[p].ends : Cross(e[1]) /\ Cap[Worker[PodOf(e)]] < Target

\* The second round settles it: a pass without a warning meets no refusal in it,
\* whatever the others write meanwhile.
TwoRoundsEnough == \A p \in Procs : At(p, "done") /\ pass[p].clean => pass[p].refused = {}

\* A pass without a warning leaves on each end it covered the extra address the
\* topology declares, unless the pod's history removed it; and a removed one
\* stays off unless it was removed while a pass was about to put it back, or
\* the pass could not read that it was.
AddressesInForce ==
  \A p \in Procs : Just(p) /\ pass[p].clean =>
    \A e \in pass[p].ends \cap Extra :
      /\ e \notin removed => e \in addr
      /\ "address" \notin misled => (e \in addr => e \notin removed)

\* Once a pass is over without a warning, the links it covered that declare no
\* MTU all have the same, on both ends, however many rounds it took.
LinksAgree ==
  \A p \in Procs : Just(p) /\ pass[p].clean =>
    \A e, f \in pass[p].ends :
      pass[p].want[e[1]] = 0 /\ pass[p].want[f[1]] = 0 => mtu[e] = mtu[f]

\* ApplyPlatformMTU as a whole: in well-typed states a pass that ended without
\* a warning leaves each end it covered at the MTU and with the addresses that
\* the topology, the settled value and the pod's history ask for.
PassInForce == TypeOK /\ DeclaredInForce /\ SettledInForce /\ AddressesInForce

\* The platform's value is given up only where a worker cannot carry it, and
\* what is remembered of a worker for the next pass is true of it.
LoweringJustified == CeilingSound /\ LoweredOnlyIfNeeded

=============================================================================
