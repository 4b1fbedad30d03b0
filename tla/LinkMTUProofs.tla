--------------------------- MODULE LinkMTUProofs ---------------------------
(***************************************************************************)
(* Proofs about module LinkMTU, for any pods, links and workers, any        *)
(* ceilings, any number of requests at a time and any number of them.       *)
(***************************************************************************)
EXTENDS LinkMTU, WellFoundedInduction, TLAPS

\* The rows a behaviour starts with are rows, and the pass before it could set
\* what they ask for.
Parameters ==
  \A G \in Given :
    /\ G \subseteq [end : Ends, mtu : Asked]
    /\ \A x \in G, e \in Ends : e[1] = x.end[1] => ~Refuses(e, x.mtu)

\* The most the device of end e carries.
Carried(e) == Cap[Worker[PodOf(e)]]

----------------------------------------------------------------------------
(* Numbers: least and greatest elements.                                    *)

\* Smallest picks the least element of a nonempty set of numbers.
LEMMA SmallestIs ==
  ASSUME NEW S \in SUBSET Nat, S # {}
  PROVE  Smallest(S) \in S /\ \A y \in S : Smallest(S) <= y
<1>1. PICK x \in S : \A y \in S : ~(<<y, x>> \in OpToRel(<, Nat))
  BY NatLessThanWellFounded, WFMin
<1>2. \A y \in S : x <= y
  <2> SUFFICES ASSUME NEW y \in S PROVE x <= y OBVIOUS
  <2>1. x \in Nat /\ y \in Nat
    OBVIOUS
  <2>2. ~(<<y, x>> \in OpToRel(<, Nat))
    BY <1>1
  <2>3. ~(y < x)
    BY <2>1, <2>2, SMT DEF OpToRel
  <2> QED BY <2>1, <2>3
<1> QED BY <1>2 DEF Smallest

\* Max picks the greatest of a nonempty set of numbers that has a bound.
LEMMA MaxIs ==
  ASSUME NEW S \in SUBSET Nat, S # {}, NEW n \in Nat, \A x \in S : x <= n
  PROVE  Max(S) \in S /\ \A y \in S : y <= Max(S)
<1> DEFINE T == {n - x : x \in S}
<1>1. T \in SUBSET Nat /\ T # {}
  <2>1. \A x \in S : n - x \in Nat
    OBVIOUS
  <2> QED BY <2>1
<1>2. PICK t \in T : \A u \in T : t <= u
  <2> HIDE DEF T
  <2> QED BY <1>1, SmallestIs
<1>3. PICK x \in S : t = n - x
  BY <1>2
<1>4. \A y \in S : x >= y
  <2> SUFFICES ASSUME NEW y \in S PROVE x >= y OBVIOUS
  <2>1. n - x <= n - y
    BY <1>2, <1>3
  <2>2. x \in Nat /\ y \in Nat
    OBVIOUS
  <2> HIDE DEF T
  <2> QED BY <2>1, <2>2, SMT
<1>5. \E z \in S : \A y \in S : z >= y
  BY <1>4
<1>6. Max(S) \in S /\ \A y \in S : Max(S) >= y
  BY <1>5 DEF Max
<1> QED BY <1>6

----------------------------------------------------------------------------
(* Ends and values.                                                         *)

\* An end lies on a pod of its link, and so does the one it faces.
LEMMA EndIs ==
  ASSUME NEW e \in Ends
  PROVE  /\ e[1] \in Links /\ e[2] \in {1, 2} /\ PodOf(e) \in Pods
         /\ Facing(e) \in Ends /\ PodOf(Facing(e)) \in Pods
         /\ Carried(e) \in Values \ {0} /\ Carried(e) \in Nat \ {0}
<1>1. e[1] \in Links /\ e[2] \in {1, 2}
  BY DEF Ends
<1>2. Facing(e) \in Ends
  BY <1>1 DEF Facing, Ends
<1>3. PodOf(e) \in Pods
  BY <1>1, MTUAssumption DEF PodOf
<1>4. PodOf(Facing(e)) \in Pods
  <2>1. Facing(e)[1] \in Links /\ Facing(e)[2] \in {1, 2}
    BY <1>2 DEF Ends
  <2> QED BY <2>1, MTUAssumption DEF PodOf
<1>5. Worker[PodOf(e)] \in Workers
  BY <1>3, MTUAssumption
<1>6. Carried(e) \in Nat \ {0}
  BY <1>5, MTUAssumption DEF Carried
<1>7. Carried(e) \in Values
  BY <1>5 DEF Carried, Values
<1> QED BY <1>1, <1>2, <1>3, <1>4, <1>6, <1>7

\* The values are numbers, and the ones the code writes are among them.
LEMMA ValuesAre ==
  /\ Values \subseteq Nat /\ 0 \in Values
  /\ Target \in Values \ {0} /\ VethMTU \in Values \ {0} /\ Asked \subseteq Values
<1>1. \A w \in Workers : Cap[w] \in Nat
  BY MTUAssumption
<1>3. ASSUME NEW v \in Values PROVE v \in Nat
  <2>1. v \in {0, VethMTU, Target} \/ v \in Asked \/ \E w \in Workers : v = Cap[w]
    BY DEF Values
  <2>2. Asked \subseteq Nat /\ VethMTU \in Nat /\ Target \in Nat
    BY MTUAssumption
  <2>3. CASE v \in {0, VethMTU, Target}
    BY <2>2, <2>3
  <2>4. CASE v \in Asked
    BY <2>2, <2>4
  <2>5. CASE \E w \in Workers : v = Cap[w]
    BY <1>1, <2>5
  <2> QED BY <2>1, <2>3, <2>4, <2>5
<1>4. Target \in Values \ {0} /\ VethMTU \in Values \ {0} /\ 0 \in Values
  BY MTUAssumption DEF Values
<1>5. Asked \subseteq Values
  BY DEF Values
<1> QED BY <1>3, <1>4, <1>5

----------------------------------------------------------------------------
(* The inductive invariant.                                                 *)

States == {"idle", "update", "insert", "list", "read", "settle", "set", "done", "failed"}

Request ==
  [st : States, only : SUBSET Pods, known : BOOLEAN, end : Ends \cup {<<>>},
   ask : Asked \cup {0}, ends : SUBSET Ends,
   want : [Links -> Asked \cup {0}] \cup {<<>>}, fresh : SUBSET Pods,
   have : [Ends -> Values] \cup {<<>>}, eff : Values \ {0}, round : {1, 2},
   todo : SUBSET Pods, guests : SUBSET Pods, extra : SUBSET Extra, off : SUBSET Extra,
   refused : SUBSET Ends, quiet : BOOLEAN, clean : BOOLEAN]

\* Whether request r has the MTUs of the interfaces.
HasRead(r) == r.st \in {"settle", "set"} \/ (r.known /\ r.st \in {"list", "read"})

\* What a request holds at each of its steps.
Holds(r) ==
  /\ r.st \in {"update", "insert"} => r.end \in Ends /\ r.ask \in Asked /\ ~r.known
  /\ r.st \in {"read", "settle", "set", "done"} => r.want \in [Links -> Asked \cup {0}]
  /\ HasRead(r) => r.have \in [Ends -> Values]
  /\ r.st \in {"update", "insert", "list", "read", "settle"} => r.eff = Target /\ r.refused = {}
  /\ r.eff <= Target
  /\ r.clean => r.extra = Extra

Typed ==
  /\ TypeOK
  /\ pass \in [Procs -> Request]
  /\ \A p \in Procs : Holds(pass[p])

\* No tunnel carries more than its worker does, and what was read off one is
\* no more either.
Bounded(m) == \A e \in Ends : Cross(e[1]) => m[e] <= Carried(e)
ReadSound(r, fr) ==
  /\ HasRead(r) => Bounded(r.have)
  /\ r.st \in {"read", "settle", "set"} => r.fresh \subseteq fr

\* Nothing misled a pass about the ceilings.
Sure(mis) == mis \cap {"read", "wiring"} = {}

\* The worker of end e carries the platform's value.
Wide(e) == Carried(e) >= Target

\* Until it is written, the device of a new tunnel shows its worker's ceiling;
\* when it is written the ceiling is on record.
Shows(m, e, ceil) == m[e] = Carried(e) \/ ceil[Worker[PodOf(e)]] = Carried(e)
DevicesTell(m, fr, ceil, mis) ==
  Sure(mis) => \A e \in Ends :
    Cross(e[1]) /\ {PodOf(e), PodOf(Facing(e))} \cap fr # {} /\ Wide(e) => Shows(m, e, ceil)

\* A ceiling on record is the true one, except of a worker below the platform's value.
Recollected(ceil, mis) ==
  Sure(mis) => \A w \in Workers : ceil[w] > 0 => ceil[w] = Cap[w] \/ Cap[w] < Target

\* What a pass learns from, what it has learnt, and why it settled on less.
Narrow(r) == \E e \in r.ends : Cross(e[1]) /\ Carried(e) < Target
Learns(r, ceil, mis) ==
  Sure(mis) =>
    /\ r.st = "settle" /\ ~r.known =>
         \A e \in r.ends : Teaches(r, e) /\ Wide(e) => Shows(r.have, e, ceil)
    /\ r.st = "set" =>
         \A e \in r.ends : Teaches(r, e) /\ Wide(e) => ceil[Worker[PodOf(e)]] = Carried(e)
    /\ r.eff < Target => Narrow(r)

\* The item of end e is in its pod's script, and the kernel refuses it.
Hopeless(r, e) == r.have[e] # TargetOf(r, e) /\ Refuses(e, TargetOf(r, e))

\* Refusals are known by the end of the first round; the second has none.
Rounds(r) ==
  /\ r.st = "set" => \A e \in r.refused : e \in r.ends /\ r.have[e] > 0 /\ Hopeless(r, e)
  /\ r.st = "set" /\ r.clean =>
       \A e \in r.ends : Hopeless(r, e) => r.round = 1 /\ (PodOf(e) \notin r.todo => e \in r.refused)
  /\ r.st = "done" /\ r.clean => r.refused = {}

\* What pod and guest have of an undisturbed pass that warned of nothing: an end
\* with nothing to write, a pod written, its guest written, and its addresses.
Followed(r, e) == r.round = 1 \/ r.want[e[1]] > 0
InPlace(r, m, e) == Followed(r, e) /\ r.have[e] = TargetOf(r, e) => m[e] = r.have[e]
OnPod(r, m, e) ==
  Followed(r, e) /\ PodOf(e) \notin r.todo => e \in r.refused \/ m[e] = TargetOf(r, e)
InGuest(r, g, e) ==
  PodOf(e) \in Guests /\ PodOf(e) \notin r.todo \cup r.guests =>
    r.refused # {} \/ g[e] = TargetOf(r, e)
Addressed(r, ad, rem, e) ==
  e \in Extra \ rem =>
    /\ PodOf(e) \notin Guests /\ PodOf(e) \notin r.todo => e \in ad
    /\ PodOf(e) \in Guests /\ PodOf(e) \notin r.todo \cup r.guests => r.refused # {} \/ e \in ad

Undisturbed(r, m, g, ad, rem) ==
  r.quiet =>
    /\ r.known /\ r.st \in {"list", "read"} => r.have = m
    /\ r.st = "settle" => \A e \in Ends : r.have[e] \in {0, m[e]}
    /\ r.st = "set" => r.off \subseteq rem
    /\ r.st = "set" /\ r.clean => \A e \in r.ends :
         InPlace(r, m, e) /\ OnPod(r, m, e) /\ InGuest(r, g, e) /\ Addressed(r, ad, rem, e)
    /\ r.st = "done" /\ r.clean => \A e \in r.ends :
         /\ Followed(r, e) => m[e] = TargetOf(r, e)
         /\ PodOf(e) \in Guests => g[e] = TargetOf(r, e)
         /\ e \in Extra \ rem => e \in ad

RecInv(r, fr, ceil, mis, m, g, ad, rem) ==
  ReadSound(r, fr) /\ Learns(r, ceil, mis) /\ Rounds(r) /\ Undisturbed(r, m, g, ad, rem)

\* An address that was removed is off.
Removals == "address" \notin misled => removed \cap addr = {}

MTUInv ==
  /\ Typed
  /\ Bounded(mtu) /\ CeilingSound /\ Removals
  /\ DevicesTell(mtu, fresh, ceiling, misled) /\ Recollected(ceiling, misled)
  /\ \A p \in Procs : RecInv(pass[p], fresh, ceiling, misled, mtu, guest, addr, removed)

----------------------------------------------------------------------------
(* The operators of the model.                                              *)

\* The MTU of a link is one of a row of it, or none.
LEMMA WantIs ==
  ASSUME rows \subseteq [end : Ends, mtu : Asked], NEW l \in Links
  PROVE  /\ WantOf(l) \in Asked \cup {0}
         /\ WantOf(l) # 0 => \E x \in rows : x.end[1] = l /\ WantOf(l) = x.mtu
<1> DEFINE mine == {x \in rows : x.end[1] = l}
<1>1. CASE mine = {}
  BY <1>1 DEF WantOf
<1>2. CASE mine # {}
  <2>1. \A x \in mine : x.end[2] \in {1, 2}
    BY DEF Ends
  <2>2. \E x \in mine : \A y \in mine : y.end[2] <= x.end[2]
    <3>1. CASE \E x \in mine : x.end[2] = 2
      BY <2>1, <3>1
    <3>2. CASE ~\E x \in mine : x.end[2] = 2
      BY <1>2, <2>1, <3>2
    <3> QED BY <3>1, <3>2
  <2> DEFINE z == CHOOSE x \in mine : \A y \in mine : y.end[2] <= x.end[2]
  <2>3. z \in mine
    BY <2>2
  <2>4. WantOf(l) = z.mtu
    BY <1>2 DEF WantOf
  <2> HIDE DEF z
  <2>5. z \in rows /\ z.end[1] = l
    BY <2>3
  <2>6. z.mtu \in Asked
    BY <2>5
  <2> QED BY <2>4, <2>5, <2>6
<1> QED BY <1>1, <1>2

\* A link is given a value a device may have.
LEMMA TargetIs ==
  ASSUME NEW r \in Request, r.want \in [Links -> Asked \cup {0}], NEW e \in Ends
  PROVE  /\ TargetOf(r, e) \in Values \ {0} /\ TargetOf(r, e) \in Nat \ {0}
         /\ r.want[e[1]] \in Nat
<1>1. r.eff \in Values \ {0}
  BY DEF Request
<1>2. r.want[e[1]] \in Asked \cup {0}
  BY EndIs
<1>3. r.want[e[1]] \in Values /\ r.want[e[1]] \in Nat
  BY <1>2, ValuesAre
<1>4. TargetOf(r, e) \in Values \ {0}
  BY <1>1, <1>3 DEF TargetOf
<1>5. TargetOf(r, e) \in Nat \ {0}
  BY <1>4, ValuesAre
<1> QED BY <1>3, <1>4, <1>5

\* What every tunnel carries, and no more than the platform asks for.
LEMMA FitsIs ==
  /\ Fits \in Values \ {0}
  /\ \A e \in Ends : Cross(e[1]) => Fits <= Carried(e)
<1> DEFINE S == {Target} \cup {Carried(e) : e \in {x \in Ends : Cross(x[1])}}
<1>1. Fits = Smallest(S)
  BY DEF Fits, Carried
<1>2. \A v \in S : v \in Values \ {0} /\ v \in Nat
  BY EndIs, ValuesAre
<1>3. S \in SUBSET Nat /\ S # {}
  BY <1>2
<1>4. \A e \in Ends : Cross(e[1]) => Carried(e) \in S
  OBVIOUS
<1> HIDE DEF S
<1>5. Smallest(S) \in S /\ \A y \in S : Smallest(S) <= y
  BY <1>3, SmallestIs
<1> QED BY <1>1, <1>2, <1>4, <1>5

\* What recordWorkerCeiling leaves of each worker: the most that was known or
\* seen, and no more than the worker carries.
LEMMA RecordedIs ==
  ASSUME ceiling \in [Workers -> Values], CeilingSound, NEW seen,
         \A y \in seen : y[2] \in Values /\ \A w \in Workers : y[1] = w => y[2] <= Cap[w],
         NEW w \in Workers
  PROVE  /\ Recorded(seen) \in [Workers -> Values]
         /\ Recorded(seen)[w] <= Cap[w] /\ ceiling[w] <= Recorded(seen)[w]
         /\ \A y \in seen : y[1] = w => y[2] <= Recorded(seen)[w]
         /\ \/ Recorded(seen)[w] = ceiling[w]
            \/ \E y \in seen : y[1] = w /\ y[2] = Recorded(seen)[w]
<1> DEFINE S(v) == {ceiling[v]} \cup {x[2] : x \in {y \in seen : y[1] = v}}
<1>1. ASSUME NEW v \in Workers
      PROVE  Max(S(v)) \in S(v) /\ (\A y \in S(v) : y <= Max(S(v))) /\ S(v) \subseteq Values
             /\ Max(S(v)) <= Cap[v]
  <2>1. \A x \in S(v) : x \in Values /\ x <= Cap[v]
    BY DEF CeilingSound
  <2>2. S(v) \in SUBSET Nat /\ S(v) # {} /\ Cap[v] \in Nat
    BY <2>1, ValuesAre, MTUAssumption
  <2> HIDE DEF S
  <2>3. Max(S(v)) \in S(v) /\ \A y \in S(v) : y <= Max(S(v))
    BY <2>1, <2>2, MaxIs
  <2> QED BY <2>1, <2>3
<1>2. Recorded(seen) = [v \in Workers |-> Max(S(v))]
  BY DEF Recorded
<1>3. Recorded(seen) \in [Workers -> Values]
  <2> HIDE DEF S
  <2> QED BY <1>1, <1>2
<1>4. Recorded(seen)[w] = Max(S(w))
  <2> HIDE DEF S
  <2> QED BY <1>2
<1>5. ceiling[w] \in S(w) /\ \A y \in seen : y[1] = w => y[2] \in S(w)
  OBVIOUS
<1>6. \A x \in S(w) : x = ceiling[w] \/ \E y \in seen : y[1] = w /\ y[2] = x
  OBVIOUS
<1> HIDE DEF S
<1> QED BY <1>1, <1>3, <1>4, <1>5, <1>6

\* What settleMTU settles on: the platform's value, or the known ceiling of a
\* tunnel's worker that is below it.
LEMMA SettledIs ==
  ASSUME NEW r \in Request, NEW known \in [Workers -> Values]
  PROVE  /\ Settled(r, known).eff \in Values \ {0} /\ Settled(r, known).eff <= Target
         /\ Settled(r, known).eff < Target =>
              \E e \in r.ends : /\ Cross(e[1]) /\ known[Worker[PodOf(e)]] > 0
                               /\ known[Worker[PodOf(e)]] = Settled(r, known).eff
<1> DEFINE E == {x \in r.ends : /\ Cross(x[1]) /\ r.want[x[1]] = 0
                                /\ known[Worker[PodOf(x)]] > 0}
           S == {Target} \cup {known[Worker[PodOf(e)]] : e \in E}
<1>1. Settled(r, known).eff = Smallest(S)
  BY DEF Settled
<1>2. r.ends \subseteq Ends
  BY DEF Request
<1>3. \A e \in E : /\ Worker[PodOf(e)] \in Workers /\ known[Worker[PodOf(e)]] \in Values
                   /\ known[Worker[PodOf(e)]] \in Nat \ {0}
  <2> SUFFICES ASSUME NEW e \in E
               PROVE  /\ Worker[PodOf(e)] \in Workers /\ known[Worker[PodOf(e)]] \in Values
                      /\ known[Worker[PodOf(e)]] \in Nat \ {0}
    OBVIOUS
  <2>1. e \in Ends /\ known[Worker[PodOf(e)]] > 0
    BY <1>2
  <2>2. Worker[PodOf(e)] \in Workers
    BY <2>1, EndIs, MTUAssumption
  <2>3. known[Worker[PodOf(e)]] \in Values
    BY <2>2
  <2>4. known[Worker[PodOf(e)]] \in Nat
    BY <2>3, ValuesAre
  <2> QED BY <2>1, <2>2, <2>3, <2>4
<1>4. \A v \in S : v \in Values \ {0} /\ v \in Nat
  <2>1. Target \in Values \ {0} /\ Target \in Nat
    BY ValuesAre
  <2>2. ASSUME NEW v \in S PROVE v = Target \/ \E e \in E : v = known[Worker[PodOf(e)]]
    OBVIOUS
  <2> HIDE DEF E
  <2> QED BY <1>3, <2>1, <2>2
<1>5. S \in SUBSET Nat /\ S # {}
  BY <1>4
<1>6. \A v \in S : v # Target =>
        \E e \in r.ends : Cross(e[1]) /\ known[Worker[PodOf(e)]] > 0 /\ known[Worker[PodOf(e)]] = v
  OBVIOUS
<1> HIDE DEF S
<1>9. Target \in S
  BY DEF S
<1>7. Smallest(S) \in S /\ Smallest(S) <= Target
  BY <1>5, <1>9, SmallestIs
<1>8. ASSUME Smallest(S) < Target PROVE Smallest(S) # Target
  BY <1>8, <1>4, <1>7, MTUAssumption
<1> QED BY <1>1, <1>4, <1>6, <1>7, <1>8

\* A refusal lowers the value to the least that was read off the refused ends.
LEMMA LoweredIs ==
  ASSUME NEW r \in Request, r.have \in [Ends -> Values],
         \A e \in r.refused : r.have[e] > 0
  PROVE  /\ Lowered(r) \in Values \ {0} /\ Lowered(r) \in Nat /\ Lowered(r) <= r.eff
         /\ \A e \in r.refused : Lowered(r) <= r.have[e]
<1> DEFINE S == {r.eff} \cup {r.have[e] : e \in r.refused}
<1>1. r.refused \subseteq Ends /\ r.eff \in Values \ {0}
  BY DEF Request
<1>2. \A v \in S : v \in Values \ {0} /\ v \in Nat
  <2>1. ASSUME NEW e \in r.refused PROVE r.have[e] \in Values \ {0} /\ r.have[e] \in Nat
    <3>1. r.have[e] \in Values
      BY <1>1
    <3>2. r.have[e] \in Nat
      BY <3>1, ValuesAre
    <3> QED BY <3>1, <3>2
  <2>2. r.eff \in Nat
    BY <1>1, ValuesAre
  <2> QED BY <1>1, <2>1, <2>2
<1>3. S \in SUBSET Nat /\ S # {}
  BY <1>2
<1>4. r.eff \in S /\ \A e \in r.refused : r.have[e] \in S
  OBVIOUS
<1>5. Lowered(r) = Smallest(S)
  BY DEF Lowered
<1> HIDE DEF S
<1>6. Smallest(S) \in S /\ \A y \in S : Smallest(S) <= y
  BY <1>3, SmallestIs
<1> QED BY <1>2, <1>4, <1>5, <1>6

----------------------------------------------------------------------------
(* Requests that do not take the step.                                      *)

\* An idle record claims nothing.
LEMMA IdleIs ==
  ASSUME NEW fr, NEW ceil, NEW mis, NEW m, NEW g, NEW ad, NEW rem
  PROVE  Idle \in Request /\ Holds(Idle) /\ RecInv(Idle, fr, ceil, mis, m, g, ad, rem)
<1>1. Idle \in Request
  BY ValuesAre DEF Idle, Request, States
<1>2. Idle.st = "idle" /\ Idle.eff = Target /\ Idle.extra = Extra
  BY DEF Idle
<1>3. Holds(Idle) /\ ReadSound(Idle, fr) /\ Rounds(Idle) /\ Undisturbed(Idle, m, g, ad, rem)
  BY <1>2, MTUAssumption DEF Holds, HasRead, ReadSound, Rounds, Undisturbed
<1>4. Learns(Idle, ceil, mis)
  BY <1>2, MTUAssumption DEF Learns
<1> QED BY <1>1, <1>3, <1>4 DEF RecInv

\* What is known of a pass that nothing was written under stays known as pods
\* are added to the new ones and ceilings are learnt.
Grows(fr, fr2, ceil, ceil2, mis, mis2) ==
  /\ fr \subseteq fr2 /\ mis \subseteq mis2
  /\ \A w \in Workers : ceil[w] = Cap[w] => ceil2[w] = Cap[w]

\* A record survives what only adds knowledge: ends seen, lessons, mistakes.
LEMMA UntouchedKept ==
  ASSUME NEW r \in Request, NEW fr, NEW fr2, NEW ceil, NEW ceil2, NEW mis, NEW mis2,
         NEW m, NEW g, NEW ad, NEW rem,
         RecInv(r, fr, ceil, mis, m, g, ad, rem), Grows(fr, fr2, ceil, ceil2, mis, mis2)
  PROVE  RecInv(r, fr2, ceil2, mis2, m, g, ad, rem)
<1>1. ReadSound(r, fr2)
  BY DEF RecInv, ReadSound, Grows
<1>2. Learns(r, ceil2, mis2)
  <2>1. r.ends \subseteq Ends
    BY DEF Request
  <2>2. \A e \in Ends : Worker[PodOf(e)] \in Workers
    BY EndIs, MTUAssumption
  <2>3. Sure(mis2) => Sure(mis)
    BY DEF Sure, Grows
  <2>4. \A e \in r.ends : ceil[Worker[PodOf(e)]] = Carried(e) => ceil2[Worker[PodOf(e)]] = Carried(e)
    BY <2>1, <2>2 DEF Grows, Carried
  <2> QED BY <2>3, <2>4 DEF RecInv, Learns, Shows
<1> QED BY <1>1, <1>2 DEF RecInv

\* A disturbed record survives anything, for it no longer claims to be quiet.
LEMMA DisturbedKept ==
  ASSUME NEW r \in Request, Holds(r), NEW fr, NEW fr2, NEW ceil, NEW ceil2, NEW mis, NEW mis2,
         NEW m, NEW g, NEW ad, NEW rem, NEW m2, NEW g2, NEW ad2, NEW rem2,
         RecInv(r, fr, ceil, mis, m, g, ad, rem), Grows(fr, fr2, ceil, ceil2, mis, mis2)
  PROVE  /\ Disturbed(r) \in Request /\ Holds(Disturbed(r))
         /\ RecInv(Disturbed(r), fr2, ceil2, mis2, m2, g2, ad2, rem2)
<1>1. CASE r.st \in {"done", "failed"}
  BY <1>1, IdleIs DEF Disturbed
<1>2. CASE r.st \notin {"done", "failed"}
  <2> DEFINE d == [r EXCEPT !.quiet = FALSE]
  <2>1. Disturbed(r) = d
    BY <1>2 DEF Disturbed
  <2>2. d \in Request
    BY DEF Request
  <2>3. /\ d.st = r.st /\ d.known = r.known /\ d.end = r.end /\ d.ask = r.ask /\ d.ends = r.ends
        /\ d.want = r.want /\ d.fresh = r.fresh /\ d.have = r.have /\ d.eff = r.eff
        /\ d.round = r.round /\ d.todo = r.todo /\ d.refused = r.refused /\ d.clean = r.clean
        /\ d.quiet = FALSE /\ d.extra = r.extra
    BY DEF Request
  <2>4. RecInv(r, fr2, ceil2, mis2, m, g, ad, rem)
    BY UntouchedKept
  <2> HIDE DEF d
  <2>5. Holds(d) /\ ReadSound(d, fr2)
    BY <2>3, <2>4 DEF RecInv, Holds, HasRead, ReadSound
  <2>6. Learns(d, ceil2, mis2)
    BY <2>3, <2>4 DEF RecInv, Learns, Narrow, Teaches, FreshEnd
  <2>7. Rounds(d)
    BY <2>3, <2>4 DEF RecInv, Rounds, Hopeless, TargetOf
  <2>8. Undisturbed(d, m2, g2, ad2, rem2)
    BY <2>3 DEF Undisturbed
  <2> QED BY <2>1, <2>2, <2>5, <2>6, <2>7, <2>8 DEF RecInv
<1> QED BY <1>1, <1>2

\* A step of request p: the others are as they were or disturbed.
LEMMA StepKept ==
  ASSUME MTUInv, NEW p \in Procs, NEW s \in Request, Holds(s),
         Grows(fresh, fresh', ceiling, ceiling', misled, misled'),
         RecInv(s, fresh', ceiling', misled', mtu', guest', addr', removed'),
         \/ pass' = Disturb(p, s)
         \/ pass' = [pass EXCEPT ![p] = s] /\ UNCHANGED <<mtu, guest, addr, removed>>
  PROVE  /\ pass' \in [Procs -> Request]
         /\ \A q \in Procs : /\ Holds(pass'[q])
                             /\ RecInv(pass'[q], fresh', ceiling', misled', mtu', guest', addr', removed')
<1>1. ASSUME NEW q \in Procs
      PROVE  /\ pass[q] \in Request /\ Holds(pass[q])
             /\ RecInv(pass[q], fresh, ceiling, misled, mtu, guest, addr, removed)
  BY DEF MTUInv, Typed
<1>2. CASE pass' = Disturb(p, s)
  <2>1. \A q \in Procs : pass'[q] = IF q = p THEN s ELSE Disturbed(pass[q])
    BY <1>2 DEF Disturb
  <2>2. \A q \in Procs : /\ Disturbed(pass[q]) \in Request /\ Holds(Disturbed(pass[q]))
                         /\ RecInv(Disturbed(pass[q]), fresh', ceiling', misled', mtu', guest', addr', removed')
    BY <1>1, DisturbedKept
  <2>3. pass' = [q \in Procs |-> pass'[q]]
    BY <1>2 DEF Disturb
  <2> QED BY <2>1, <2>2, <2>3
<1>3. CASE pass' = [pass EXCEPT ![p] = s] /\ UNCHANGED <<mtu, guest, addr, removed>>
  <2>1. pass' \in [Procs -> Request]
    BY <1>3 DEF MTUInv, Typed
  <2>2. \A q \in Procs : pass'[q] = IF q = p THEN s ELSE pass[q]
    BY <1>3 DEF MTUInv, Typed
  <2>3. \A q \in Procs : RecInv(pass[q], fresh', ceiling', misled', mtu', guest', addr', removed')
    BY <1>1, <1>3, UntouchedKept
  <2> QED BY <1>1, <2>1, <2>2, <2>3
<1> QED BY <1>2, <1>3

----------------------------------------------------------------------------
(* Requests, rows and addresses.                                            *)

\* The parts of the invariant, in the state after a step.
LEMMA Assembled ==
  ASSUME mtu' \in [Ends -> Values \ {0}], guest' \in [Ends -> Values],
         addr' \subseteq Extra, removed' \subseteq Extra,
         running' \subseteq Pods, fresh' \subseteq Pods,
         rows' \subseteq [end : Ends, mtu : Asked],
         ceiling' \in [Workers -> Values], namespaceMTU' \in Values,
         misled' \subseteq {"read", "wiring", "address"}, left' \in 0 .. MaxEvents,
         Bounded(mtu'), CeilingSound', Removals',
         DevicesTell(mtu', fresh', ceiling', misled'), Recollected(ceiling', misled'),
         pass' \in [Procs -> Request],
         \A q \in Procs : /\ Holds(pass'[q])
                          /\ RecInv(pass'[q], fresh', ceiling', misled', mtu', guest', addr', removed')
  PROVE  MTUInv'
<1>1. \A q \in Procs : pass'[q].round \in {1, 2} /\ pass'[q].eff \in Values \ {0}
  BY DEF Request
<1>2. TypeOK'
  BY <1>1 DEF TypeOK
<1> QED BY <1>2 DEF MTUInv, Typed

\* A step that leaves the devices and what the backend remembers alone.
LEMMA WorldKept ==
  ASSUME MTUInv, UNCHANGED <<devices, removed, fresh, backend, misled>>,
         running' \subseteq Pods, rows' \subseteq [end : Ends, mtu : Asked],
         left' \in 0 .. MaxEvents, NEW p \in Procs, NEW s \in Request, Holds(s),
         RecInv(s, fresh, ceiling, misled, mtu, guest, addr, removed),
         pass' = Disturb(p, s) \/ pass' = [pass EXCEPT ![p] = s]
  PROVE  MTUInv'
<1>1. /\ mtu' = mtu /\ guest' = guest /\ addr' = addr /\ removed' = removed /\ fresh' = fresh
      /\ ceiling' = ceiling /\ namespaceMTU' = namespaceMTU /\ misled' = misled
  BY DEF devices, backend
<1>2. Grows(fresh, fresh', ceiling, ceiling', misled, misled')
  BY <1>1 DEF Grows
<1>3. /\ pass' \in [Procs -> Request]
      /\ \A q \in Procs : /\ Holds(pass'[q])
                          /\ RecInv(pass'[q], fresh', ceiling', misled', mtu', guest', addr', removed')
  <2>1. RecInv(s, fresh', ceiling', misled', mtu', guest', addr', removed')
    BY <1>1
  <2> QED BY <1>1, <1>2, <2>1, StepKept
<1>4. CeilingSound' /\ Removals'
  BY <1>1 DEF MTUInv, CeilingSound, Removals
<1>5. TypeOK
  BY DEF MTUInv, Typed
<1>6. /\ Bounded(mtu') /\ DevicesTell(mtu', fresh', ceiling', misled')
      /\ Recollected(ceiling', misled')
  BY <1>1 DEF MTUInv
<1>7. /\ mtu' \in [Ends -> Values \ {0}] /\ guest' \in [Ends -> Values]
      /\ addr' \subseteq Extra /\ removed' \subseteq Extra /\ fresh' \subseteq Pods
      /\ ceiling' \in [Workers -> Values] /\ namespaceMTU' \in Values
      /\ misled' \subseteq {"read", "wiring", "address"}
  BY <1>1, <1>5 DEF TypeOK
<1> QED BY <1>3, <1>4, <1>6, <1>7, Assembled

\* The supply of events shrinks within its bounds.
LEMMA LeftIs ==
  ASSUME MTUInv, left > 0, left' = left - 1
  PROVE  left' \in 0 .. MaxEvents
BY MTUAssumption DEF MTUInv, Typed, TypeOK

\* A restart, heal pass, deploy or configure that starts a pass.
LEMMA RequestsKept ==
  ASSUME MTUInv, NEW p \in Procs,
         RestartRequest(p) \/ HealRequest(p) \/ DeployRequest(p) \/ ConfigureRequest(p)
  PROVE  MTUInv'
<1>1. TypeOK /\ Bounded(mtu)
  BY DEF MTUInv, Typed
<1>2. left' \in 0 .. MaxEvents
  BY LeftIs DEF RestartRequest, HealRequest, DeployRequest, ConfigureRequest, Begin
<1>3. /\ rows' \subseteq [end : Ends, mtu : Asked] /\ running' \subseteq Pods
      /\ UNCHANGED <<devices, removed, fresh, backend, misled>>
  BY <1>1 DEF RestartRequest, HealRequest, DeployRequest, ConfigureRequest, TypeOK
<1>4. ASSUME NEW only \in SUBSET Pods,
             pass' = Disturb(p, [Idle EXCEPT !.st = "list", !.only = only])
      PROVE  MTUInv'
  <2> DEFINE s == [Idle EXCEPT !.st = "list", !.only = only]
  <2>1. s \in Request
    BY IdleIs DEF Request, States
  <2>2. s.st = "list" /\ s.known = FALSE /\ s.eff = Target /\ s.refused = {} /\ s.extra = Extra
    BY DEF Idle
  <2>3. pass' = Disturb(p, s)
    BY <1>4
  <2> HIDE DEF s
  <2>4. Holds(s) /\ RecInv(s, fresh, ceiling, misled, mtu, guest, addr, removed)
    BY <2>2, MTUAssumption DEF Holds, HasRead, RecInv, ReadSound, Learns, Rounds, Undisturbed
  <2> QED BY <1>2, <1>3, <2>1, <2>3, <2>4, WorldKept
<1>5. CASE RestartRequest(p)
  BY <1>4, <1>5 DEF RestartRequest
<1>6. CASE HealRequest(p)
  <2>1. PICK x \in running : pass' = Disturb(p, [Idle EXCEPT !.st = "list", !.only = {x}])
    BY <1>6 DEF HealRequest
  <2>2. {x} \in SUBSET Pods
    BY <1>1 DEF TypeOK
  <2> QED BY <1>4, <2>1, <2>2
<1>7. CASE DeployRequest(p)
  <2> DEFINE s == [Idle EXCEPT !.st = "list", !.only = Pods, !.known = TRUE, !.have = mtu]
  <2>1. mtu \in [Ends -> Values]
    BY <1>1 DEF TypeOK
  <2>2. s \in Request
    BY <2>1, IdleIs DEF Request, States
  <2>3. /\ s.st = "list" /\ s.known = TRUE /\ s.have = mtu /\ s.eff = Target /\ s.refused = {}
        /\ s.extra = Extra
    BY DEF Idle
  <2>4. pass' = [pass EXCEPT ![p] = s]
    BY <1>7 DEF DeployRequest
  <2> HIDE DEF s
  <2>5. Holds(s) /\ RecInv(s, fresh, ceiling, misled, mtu, guest, addr, removed)
    BY <1>1, <2>1, <2>3, MTUAssumption
    DEF Holds, HasRead, RecInv, ReadSound, Learns, Rounds, Undisturbed
  <2> QED BY <1>2, <1>3, <2>2, <2>4, <2>5, WorldKept
<1>8. CASE ConfigureRequest(p)
  <2>1. PICK e \in Named, k \in Asked :
          pass' = [pass EXCEPT ![p] =
            [Idle EXCEPT !.st = "update", !.end = e, !.ask = k,
                         !.only = {PodOf(e), PodOf(Facing(e))}]]
    BY <1>8 DEF ConfigureRequest
  <2> DEFINE s == [Idle EXCEPT !.st = "update", !.end = e, !.ask = k,
                               !.only = {PodOf(e), PodOf(Facing(e))}]
  <2>2. e \in Ends /\ PodOf(e) \in Pods /\ PodOf(Facing(e)) \in Pods
    BY EndIs, MTUAssumption
  <2>3. s \in Request
    BY <2>2, IdleIs DEF Request, States
  <2>4. /\ s.st = "update" /\ s.end = e /\ s.ask = k /\ s.known = FALSE /\ s.eff = Target
        /\ s.refused = {} /\ s.extra = Extra
    BY DEF Idle
  <2>5. pass' = [pass EXCEPT ![p] = s]
    BY <2>1
  <2> HIDE DEF s
  <2>6. Holds(s) /\ RecInv(s, fresh, ceiling, misled, mtu, guest, addr, removed)
    BY <2>2, <2>4, MTUAssumption
    DEF Holds, HasRead, RecInv, ReadSound, Learns, Rounds, Undisturbed
  <2> QED BY <1>2, <1>3, <2>3, <2>5, <2>6, WorldKept
<1> QED BY <1>5, <1>6, <1>7, <1>8

\* A request whose row is written goes on, or is over.
LEMMA RowStep ==
  ASSUME MTUInv, NEW p \in Procs, NEW to \in {"list", "insert", "failed"},
         pass[p].st \in {"update", "insert"}
  PROVE  LET s == [pass[p] EXCEPT !.st = to]
         IN /\ s \in Request /\ Holds(s)
            /\ RecInv(s, fresh, ceiling, misled, mtu, guest, addr, removed)
<1> DEFINE r == pass[p]
           s == [r EXCEPT !.st = to]
<1>1. r \in Request /\ Holds(r) /\ RecInv(r, fresh, ceiling, misled, mtu, guest, addr, removed)
  BY DEF MTUInv, Typed
<1>2. /\ r.end \in Ends /\ r.ask \in Asked /\ ~r.known
      /\ r.eff = Target /\ r.refused = {} /\ r.eff <= Target /\ (r.clean => r.extra = Extra)
  BY <1>1 DEF Holds
<1>3. s \in Request
  BY <1>1 DEF Request, States
<1>4. /\ s.st = to /\ s.known = r.known /\ s.end = r.end /\ s.ask = r.ask /\ s.eff = r.eff
      /\ s.ends = r.ends /\ s.refused = r.refused /\ s.clean = r.clean /\ s.extra = r.extra
  BY <1>1 DEF Request
<1>5. Sure(misled) => (r.eff < Target => Narrow(r))
  BY <1>1 DEF RecInv, Learns
<1> HIDE DEF s, r
<1>6. Holds(s) /\ RecInv(s, fresh, ceiling, misled, mtu, guest, addr, removed)
  BY <1>2, <1>4, <1>5
  DEF Holds, HasRead, RecInv, ReadSound, Learns, Narrow, Rounds, Undisturbed
<1> QED BY <1>3, <1>6 DEF s, r

\* The two statements of a link attribute request.
LEMMA RowsKept ==
  ASSUME MTUInv, NEW p \in Procs, UpdateRow(p) \/ InsertRow(p)
  PROVE  MTUInv'
<1> DEFINE r == pass[p]
<1>1. TypeOK /\ r \in Request /\ Holds(r)
  BY DEF MTUInv, Typed
<1>2. rows \subseteq [end : Ends, mtu : Asked] /\ running \subseteq Pods /\ left \in 0 .. MaxEvents
  BY <1>1 DEF TypeOK
<1>3. CASE UpdateRow(p)
  <2> DEFINE mine == {x \in rows : x.end \in {r.end, Facing(r.end)}}
             to == IF mine # {} \/ r.ask = 0 THEN "list" ELSE "insert"
  <2>1. r.st = "update" /\ r.ask \in Asked
    BY <1>1, <1>3 DEF UpdateRow, At, Holds
  <2>2. rows' = (rows \ mine) \cup {[x EXCEPT !.mtu = r.ask] : x \in mine}
    BY <1>3 DEF UpdateRow
  <2>3. \A x \in mine : [x EXCEPT !.mtu = r.ask] \in [end : Ends, mtu : Asked]
    BY <1>2, <2>1
  <2>4. rows' \subseteq [end : Ends, mtu : Asked]
    BY <1>2, <2>2, <2>3
  <2>5. pass' = Disturb(p, [r EXCEPT !.st = to])
    BY <1>3 DEF UpdateRow
  <2>6. /\ running' = running /\ left' = left /\ UNCHANGED <<devices, removed, fresh, backend, misled>>
    BY <1>3 DEF UpdateRow
  <2>7. to \in {"list", "insert", "failed"}
    OBVIOUS
  <2> HIDE DEF mine, to
  <2> QED BY <1>2, <2>1, <2>4, <2>5, <2>6, <2>7, RowStep, WorldKept
<1>4. CASE InsertRow(p)
  <2> DEFINE taken == \E x \in rows : x.end = r.end
  <2>1. r.st = "insert" /\ r.ask \in Asked /\ r.end \in Ends
    BY <1>1, <1>4 DEF InsertRow, At, Holds
  <2>2. rows' \subseteq [end : Ends, mtu : Asked]
    BY <1>2, <1>4, <2>1 DEF InsertRow
  <2>3. \/ pass' = [pass EXCEPT ![p] = [pass[p] EXCEPT !.st = "failed"]]
        \/ pass' = Disturb(p, [pass[p] EXCEPT !.st = "list"])
    BY <1>4 DEF InsertRow
  <2>4. /\ running' = running /\ left' = left /\ UNCHANGED <<devices, removed, fresh, backend, misled>>
    BY <1>4 DEF InsertRow
  <2>5. pass[p].st \in {"update", "insert"}
    BY <2>1
  <2>6. CASE pass' = [pass EXCEPT ![p] = [pass[p] EXCEPT !.st = "failed"]]
    BY <1>2, <2>2, <2>4, <2>5, <2>6, RowStep, WorldKept
  <2>7. CASE pass' = Disturb(p, [pass[p] EXCEPT !.st = "list"])
    BY <1>2, <2>2, <2>4, <2>5, <2>7, RowStep, WorldKept
  <2> QED BY <2>3, <2>6, <2>7
<1> QED BY <1>3, <1>4

\* A change made outside of the passes disturbs all of them.
LEMMA AllDisturbed ==
  ASSUME MTUInv, pass' = [q \in Procs |-> Disturbed(pass[q])],
         Grows(fresh, fresh', ceiling, ceiling', misled, misled')
  PROVE  /\ pass' \in [Procs -> Request]
         /\ \A q \in Procs : /\ Holds(pass'[q])
                             /\ RecInv(pass'[q], fresh', ceiling', misled', mtu', guest', addr', removed')
<1>1. ASSUME NEW q \in Procs
      PROVE  /\ pass[q] \in Request /\ Holds(pass[q])
             /\ RecInv(pass[q], fresh, ceiling, misled, mtu, guest, addr, removed)
  BY DEF MTUInv, Typed
<1>2. \A q \in Procs : /\ Disturbed(pass[q]) \in Request /\ Holds(Disturbed(pass[q]))
                       /\ RecInv(Disturbed(pass[q]), fresh', ceiling', misled', mtu', guest', addr', removed')
  BY <1>1, DisturbedKept
<1> QED BY <1>2

\* set_ip and remove_ip on an interface.
LEMMA AddressesKept ==
  ASSUME MTUInv, NEW e \in Ends, RemoveIP(e) \/ SetIP(e)
  PROVE  MTUInv'
<1>1. TypeOK
  BY DEF MTUInv, Typed
<1>2. left' \in 0 .. MaxEvents
  BY LeftIs DEF RemoveIP, SetIP
<1>3. /\ mtu' = mtu /\ guest' = guest /\ running' = running /\ fresh' = fresh /\ rows' = rows
      /\ ceiling' = ceiling /\ namespaceMTU' = namespaceMTU /\ misled' = misled
      /\ pass' = [q \in Procs |-> Disturbed(pass[q])]
  BY DEF RemoveIP, SetIP, backend
<1>4. Grows(fresh, fresh', ceiling, ceiling', misled, misled')
  BY <1>3 DEF Grows
<1>5. addr' \subseteq Extra /\ removed' \subseteq Extra
  BY <1>1 DEF RemoveIP, SetIP, TypeOK
<1>6. Removals'
  BY <1>3 DEF MTUInv, Removals, RemoveIP, SetIP
<1>7. /\ Bounded(mtu') /\ DevicesTell(mtu', fresh', ceiling', misled')
      /\ Recollected(ceiling', misled') /\ CeilingSound'
  BY <1>3 DEF MTUInv, CeilingSound
<1>8. /\ mtu' \in [Ends -> Values \ {0}] /\ guest' \in [Ends -> Values]
      /\ running' \subseteq Pods /\ fresh' \subseteq Pods /\ rows' \subseteq [end : Ends, mtu : Asked]
      /\ ceiling' \in [Workers -> Values] /\ namespaceMTU' \in Values
      /\ misled' \subseteq {"read", "wiring", "address"}
  BY <1>1, <1>3 DEF TypeOK
<1>9. /\ pass' \in [Procs -> Request]
      /\ \A q \in Procs : /\ Holds(pass'[q])
                          /\ RecInv(pass'[q], fresh', ceiling', misled', mtu', guest', addr', removed')
  BY <1>3, <1>4, AllDisturbed
<1> QED BY <1>2, <1>5, <1>6, <1>7, <1>8, <1>9, Assembled

----------------------------------------------------------------------------
(* Kubernetes, Meshnet and the backend's own process.                       *)

\* A new device has what its worker carries, or what a veth has.
LEMMA WiredIs ==
  ASSUME NEW e \in Ends
  PROVE  Wired(e) \in Values \ {0} /\ (Cross(e[1]) => Wired(e) = Carried(e))
BY EndIs, ValuesAre DEF Wired, Carried

\* A pod that is wired anew.
LEMMA PodUpKept ==
  ASSUME MTUInv, NEW x \in Pods, PodUp(x)
  PROVE  MTUInv'
<1> DEFINE mine == {e \in Ends : x \in {PodOf(e), PodOf(Facing(e))}}
<1>1. TypeOK
  BY DEF MTUInv, Typed
<1>2. /\ removed' = removed /\ rows' = rows /\ left' = left /\ misled' = misled
      /\ ceiling' = ceiling /\ namespaceMTU' = namespaceMTU
      /\ running' = running \cup {x} /\ fresh' = fresh \cup {x} /\ addr' \subseteq addr
      /\ mtu' = [e \in Ends |-> IF e \in mine THEN Wired(e) ELSE mtu[e]]
      /\ guest' = [e \in Ends |-> IF PodOf(e) = x /\ x \in Guests THEN VethMTU ELSE guest[e]]
      /\ pass' = [q \in Procs |-> Disturbed(pass[q])]
  BY DEF PodUp, backend
<1>3. mtu' \in [Ends -> Values \ {0}] /\ guest' \in [Ends -> Values]
  <2>1. mtu \in [Ends -> Values \ {0}] /\ guest \in [Ends -> Values]
    BY <1>1 DEF TypeOK
  <2>2. VethMTU \in Values
    BY ValuesAre
  <2> HIDE DEF mine
  <2> QED BY <1>2, <2>1, <2>2, WiredIs
<1>4. Grows(fresh, fresh', ceiling, ceiling', misled, misled')
  BY <1>2 DEF Grows
<1>5. Removals' /\ CeilingSound' /\ Recollected(ceiling', misled')
  BY <1>2 DEF MTUInv, Removals, CeilingSound
<1>6. Bounded(mtu')
  <2> SUFFICES ASSUME NEW e \in Ends, Cross(e[1]) PROVE mtu'[e] <= Carried(e)
    BY DEF Bounded
  <2>1. mtu[e] <= Carried(e) /\ Carried(e) \in Nat
    BY EndIs DEF MTUInv, Bounded
  <2>2. mtu'[e] \in {mtu[e], Wired(e)}
    BY <1>2
  <2> QED BY <2>1, <2>2, WiredIs
<1>7. DevicesTell(mtu', fresh', ceiling', misled')
  <2> SUFFICES ASSUME Sure(misled'), NEW e \in Ends, Cross(e[1]),
                      {PodOf(e), PodOf(Facing(e))} \cap fresh' # {}, Wide(e)
               PROVE  Shows(mtu', e, ceiling')
    BY DEF DevicesTell
  <2>1. CASE e \in mine
    BY <1>2, <2>1, WiredIs DEF Shows
  <2>2. CASE e \notin mine
    <3>1. mtu'[e] = mtu[e]
      BY <1>2, <2>2
    <3>2. {PodOf(e), PodOf(Facing(e))} \cap fresh # {}
      BY <1>2, <2>2
    <3> QED BY <1>2, <3>1, <3>2 DEF MTUInv, DevicesTell, Shows
  <2> QED BY <2>1, <2>2
<1>8. /\ addr' \subseteq Extra /\ removed' \subseteq Extra
      /\ running' \subseteq Pods /\ fresh' \subseteq Pods /\ rows' \subseteq [end : Ends, mtu : Asked]
      /\ ceiling' \in [Workers -> Values] /\ namespaceMTU' \in Values
      /\ misled' \subseteq {"read", "wiring", "address"} /\ left' \in 0 .. MaxEvents
  BY <1>1, <1>2 DEF TypeOK
<1>9. /\ pass' \in [Procs -> Request]
      /\ \A q \in Procs : /\ Holds(pass'[q])
                          /\ RecInv(pass'[q], fresh', ceiling', misled', mtu', guest', addr', removed')
  BY <1>2, <1>4, AllDisturbed
<1> QED BY <1>3, <1>5, <1>6, <1>7, <1>8, <1>9, Assembled

\* A backend that dies loses its passes and what they learned.
LEMMA CrashKept ==
  ASSUME MTUInv, Crash
  PROVE  MTUInv'
<1>1. TypeOK
  BY DEF MTUInv, Typed
<1>2. /\ mtu' = mtu /\ guest' = guest /\ addr' = addr /\ removed' = removed /\ running' = running
      /\ rows' = rows /\ misled' = misled /\ fresh' = {} /\ namespaceMTU' = 0
      /\ ceiling' = [w \in Workers |-> 0] /\ pass' = [q \in Procs |-> Idle]
  BY DEF Crash, devices
<1>3. left' \in 0 .. MaxEvents
  BY LeftIs DEF Crash
<1>4. Removals' /\ Bounded(mtu')
  BY <1>2 DEF MTUInv, Removals
<1>5. CeilingSound' /\ Recollected(ceiling', misled')
  <2>1. \A w \in Workers : ceiling'[w] = 0 /\ Cap[w] \in Nat
    BY <1>2, MTUAssumption
  <2> QED BY <2>1 DEF CeilingSound, Recollected
<1>6. DevicesTell(mtu', fresh', ceiling', misled')
  BY <1>2 DEF DevicesTell
<1>7. /\ mtu' \in [Ends -> Values \ {0}] /\ guest' \in [Ends -> Values]
      /\ addr' \subseteq Extra /\ removed' \subseteq Extra
      /\ running' \subseteq Pods /\ fresh' \subseteq Pods /\ rows' \subseteq [end : Ends, mtu : Asked]
      /\ ceiling' \in [Workers -> Values] /\ namespaceMTU' \in Values
      /\ misled' \subseteq {"read", "wiring", "address"}
  BY <1>1, <1>2, ValuesAre DEF TypeOK
<1>8. /\ pass' \in [Procs -> Request]
      /\ \A q \in Procs : /\ Holds(pass'[q])
                          /\ RecInv(pass'[q], fresh', ceiling', misled', mtu', guest', addr', removed')
  BY <1>2, IdleIs
<1> QED BY <1>3, <1>4, <1>5, <1>6, <1>7, <1>8, Assembled

----------------------------------------------------------------------------
(* The pass up to its first round.                                          *)

\* A request that is over keeps what it says of the pass.
LEMMA OverIs ==
  ASSUME NEW r \in Request, NEW to \in {"done", "failed"}
  PROVE  LET s == Over(r, to)
         IN /\ s \in Request /\ s.st = to /\ s.known = FALSE
            /\ s.ends = r.ends /\ s.want = r.want /\ s.eff = r.eff /\ s.round = r.round
            /\ s.refused = r.refused /\ s.quiet = r.quiet /\ s.clean = r.clean
            /\ s.extra = r.extra
BY DEF Over, Request, States

\* A pass whose links or pods cannot be listed is over.
LEMMA ListFailsKept ==
  ASSUME MTUInv, NEW p \in Procs, ListFails(p)
  PROVE  MTUInv'
<1> DEFINE r == pass[p]
           s == Over(r, "failed")
<1>1. /\ TypeOK /\ r \in Request /\ Holds(r)
      /\ RecInv(r, fresh, ceiling, misled, mtu, guest, addr, removed)
  BY DEF MTUInv, Typed
<1>2. pass' = [pass EXCEPT ![p] = s]
  BY DEF ListFails
<1>3. /\ s \in Request /\ s.st = "failed" /\ s.eff = r.eff /\ s.ends = r.ends
      /\ s.clean = r.clean /\ s.extra = r.extra
  BY <1>1, OverIs
<1>4. left' \in 0 .. MaxEvents
  BY LeftIs DEF ListFails, Fails
<1>5. /\ running' \subseteq Pods /\ rows' \subseteq [end : Ends, mtu : Asked]
      /\ UNCHANGED <<devices, removed, fresh, backend, misled>>
  BY <1>1 DEF ListFails, TypeOK
<1> HIDE DEF s
<1>6. Holds(s) /\ RecInv(s, fresh, ceiling, misled, mtu, guest, addr, removed)
  BY <1>1, <1>3
  DEF Holds, HasRead, RecInv, ReadSound, Rounds, Learns, Narrow, Undisturbed
<1> QED BY <1>2, <1>3, <1>4, <1>5, <1>6, WorldKept

\* The pass lists links and rows.
LEMMA ListKept ==
  ASSUME MTUInv, NEW p \in Procs, List(p)
  PROVE  MTUInv'
<1> DEFINE r == pass[p]
           ends == LinkEnds(r.only)
<1>1. /\ TypeOK /\ r \in Request /\ Holds(r)
      /\ RecInv(r, fresh, ceiling, misled, mtu, guest, addr, removed)
  BY SMTT(30) DEF MTUInv, Typed
<1>2. PICK loaded \in BOOLEAN :
        /\ At(p, "list")
        /\ IF loaded THEN UNCHANGED left ELSE Fails("attrs")
        /\ pass' = [pass EXCEPT ![p] =
            [(IF ends = {} THEN Over(r, "done") ELSE [r EXCEPT !.st = "read"]) EXCEPT
                      !.ends = ends, !.fresh = IF ends = {} THEN {} ELSE fresh,
                      !.want = [l \in Links |-> IF loaded THEN WantOf(l) ELSE 0],
                      !.extra = IF loaded THEN @ ELSE {},
                      !.clean = @ /\ loaded, !.quiet = r.known => @]]
        /\ UNCHANGED <<devices, removed, running, fresh, rows, backend, misled>>
  BY DEF List
<1>3. left' \in 0 .. MaxEvents
  BY <1>1, <1>2, LeftIs DEF Fails, TypeOK
<1> DEFINE W == [l \in Links |-> IF loaded THEN WantOf(l) ELSE 0]
<1>4. W \in [Links -> Asked \cup {0}]
  BY <1>1, WantIs DEF TypeOK
<1>5. ends \subseteq Ends /\ fresh \subseteq Pods
  BY <1>1 DEF LinkEnds, TypeOK
<1>6. /\ r.st = "list" /\ r.eff = Target /\ r.refused = {} /\ r.eff <= Target
      /\ r.known => r.have \in [Ends -> Values] /\ Bounded(r.have)
      /\ r.known /\ r.quiet => r.have = mtu
      /\ r.known \in BOOLEAN /\ r.quiet \in BOOLEAN /\ r.clean \in BOOLEAN
      /\ r.extra \subseteq Extra /\ (r.clean => r.extra = Extra)
  BY <1>1, <1>2 DEF At, Holds, HasRead, RecInv, ReadSound, Undisturbed, Request
<1>7. /\ running' \subseteq Pods /\ rows' \subseteq [end : Ends, mtu : Asked]
      /\ UNCHANGED <<devices, removed, fresh, backend, misled>>
  BY <1>1, <1>2 DEF TypeOK
<1> DEFINE c == r.clean /\ loaded
           k == r.known => r.quiet
           X == IF loaded THEN r.extra ELSE {}
<1>10. c \in BOOLEAN /\ k \in BOOLEAN /\ X \subseteq Extra
  BY <1>6
<1>11. c => X = Extra
  BY <1>6
<1> HIDE DEF W, ends, c, k, X
<1>8. CASE ends = {}
  <2> DEFINE o == Over(r, "done")
             s == [o EXCEPT !.ends = ends, !.fresh = {}, !.want = W, !.extra = X, !.clean = c,
                            !.quiet = k]
  <2>6. o \in Request
    BY <1>1 DEF Over, Request, States
  <2>7. o.clean = r.clean /\ o.quiet = r.quiet /\ o.extra = r.extra
    BY <1>1 DEF Over, Request
  <2>1. pass' = [pass EXCEPT ![p] = s]
    BY <1>2, <1>8, <2>7 DEF W, c, k, X
  <2>2. s \in Request
    <3> HIDE DEF o
    <3> QED BY <2>6, <1>4, <1>5, <1>10 DEF Request
  <2>3. /\ s.st = "done" /\ s.ends = {} /\ s.want = W /\ s.eff = r.eff /\ s.refused = r.refused
        /\ s.known = FALSE /\ s.clean = c /\ s.extra = X
    BY <1>1, <1>8 DEF Over, Request
  <2> HIDE DEF s
  <2>4. Holds(s)
    BY <1>4, <1>6, <1>11, <2>3 DEF Holds, HasRead
  <2>5. RecInv(s, fresh, ceiling, misled, mtu, guest, addr, removed)
    BY <1>6, <2>3, MTUAssumption
    DEF RecInv, ReadSound, HasRead, Learns, Rounds, Undisturbed
  <2> QED BY <1>3, <1>7, <2>1, <2>2, <2>4, <2>5, WorldKept
<1>9. CASE ends # {}
  <2> DEFINE o == [r EXCEPT !.st = "read"]
             s == [o EXCEPT !.ends = ends, !.fresh = fresh, !.want = W, !.extra = X, !.clean = c,
                            !.quiet = k]
  <2>8. o \in Request
    BY <1>1 DEF Request, States
  <2>9. o.clean = r.clean /\ o.quiet = r.quiet /\ o.extra = r.extra
    BY <1>1 DEF Request
  <2>1. pass' = [pass EXCEPT ![p] = s]
    BY <1>2, <1>9, <2>9 DEF W, c, k, X
  <2>2. s \in Request
    <3> HIDE DEF o
    <3> QED BY <2>8, <1>4, <1>5, <1>10 DEF Request
  <2>3. /\ s.st = "read" /\ s.ends = ends /\ s.want = W /\ s.eff = r.eff /\ s.refused = r.refused
        /\ s.known = r.known /\ s.have = r.have /\ s.fresh = fresh /\ s.clean = c /\ s.extra = X
    BY <1>1 DEF Request
  <2>4. s.known => s.quiet = r.quiet
    <3>1. s.quiet = k
      BY <1>1 DEF Request
    <3> QED BY <1>6, <2>3, <3>1 DEF k
  <2> HIDE DEF s
  <2>5. Holds(s)
    BY <1>4, <1>6, <1>11, <2>3 DEF Holds, HasRead
  <2>6. ReadSound(s, fresh) /\ Learns(s, ceiling, misled) /\ Rounds(s)
    BY <1>6, <2>3, MTUAssumption DEF ReadSound, HasRead, Learns, Rounds
  <2>7. Undisturbed(s, mtu, guest, addr, removed)
    BY <1>6, <2>3, <2>4 DEF Undisturbed
  <2> QED BY <1>3, <1>7, <2>1, <2>2, <2>5, <2>6, <2>7, WorldKept DEF RecInv
<1> QED BY <1>8, <1>9, Zenon

\* What no pass has been misled about is told by the devices after more was.
LEMMA TellKept ==
  ASSUME MTUInv, NEW mis, misled \subseteq mis, NEW ceil,
         \A w \in Workers : ceiling[w] = Cap[w] => ceil[w] = Cap[w]
  PROVE  DevicesTell(mtu, fresh, ceil, mis)
<1>1. \A e \in Ends : Worker[PodOf(e)] \in Workers
  BY EndIs, MTUAssumption
<1>2. Sure(mis) => Sure(misled)
  BY DEF Sure
<1> QED BY <1>1, <1>2 DEF MTUInv, DevicesTell, Shows, Carried

\* The pass reads the devices, some pods failing.
LEMMA ReadPodsKept ==
  ASSUME MTUInv, NEW p \in Procs, ReadPods(p)
  PROVE  MTUInv'
<1> DEFINE r == pass[p]
<1>1. /\ TypeOK /\ r \in Request /\ Holds(r)
      /\ RecInv(r, fresh, ceiling, misled, mtu, guest, addr, removed)
  BY DEF MTUInv, Typed
<1>2. PICK lost \in {{}} \cup {{PodOf(e)} : e \in r.ends} :
        /\ IF lost = {} THEN UNCHANGED left ELSE ~r.known /\ Fails("read")
        /\ pass' = [pass EXCEPT ![p] =
             [r EXCEPT !.st = "settle",
                       !.have = IF r.known THEN @
                                ELSE [e \in Ends |-> IF PodOf(e) \in lost THEN 0 ELSE mtu[e]]]]
        /\ misled' = misled \cup (IF lost = {} THEN {} ELSE {"read"})
  BY DEF ReadPods
<1>3. /\ r.st = "read" /\ mtu' = mtu /\ guest' = guest /\ addr' = addr /\ removed' = removed
      /\ running' = running /\ fresh' = fresh /\ rows' = rows /\ ceiling' = ceiling
      /\ namespaceMTU' = namespaceMTU
  BY DEF ReadPods, At, devices
<1>4. left' \in 0 .. MaxEvents
  BY <1>1, <1>2, LeftIs DEF Fails, TypeOK
<1>5. /\ r.eff = Target /\ r.refused = {} /\ r.want \in [Links -> Asked \cup {0}]
      /\ r.fresh \subseteq fresh /\ r.ends \subseteq Ends /\ r.eff <= Target
      /\ r.clean => r.extra = Extra
      /\ r.known => r.have \in [Ends -> Values] /\ Bounded(r.have)
      /\ r.known /\ r.quiet => r.have = mtu
  BY <1>1, <1>3 DEF Holds, HasRead, RecInv, ReadSound, Undisturbed, Request
<1> DEFINE H == IF r.known THEN r.have ELSE [e \in Ends |-> IF PodOf(e) \in lost THEN 0 ELSE mtu[e]]
           s == [r EXCEPT !.st = "settle", !.have = H]
<1>6. pass' = [pass EXCEPT ![p] = s]
  BY <1>2
<1>7. H \in [Ends -> Values]
  <2>1. mtu \in [Ends -> Values] /\ 0 \in Values
    BY <1>1, ValuesAre DEF TypeOK
  <2> QED BY <1>5, <2>1
<1>8. Bounded(H)
  <2> SUFFICES ASSUME NEW e \in Ends, Cross(e[1]) PROVE H[e] <= Carried(e)
    BY DEF Bounded
  <2>1. CASE r.known
    BY <1>5, <2>1 DEF Bounded
  <2>2. CASE ~r.known
    <3>1. H[e] \in {0, mtu[e]}
      BY <2>2
    <3>2. mtu[e] <= Carried(e) /\ Carried(e) \in Nat
      BY EndIs DEF MTUInv, Bounded
    <3> QED BY <3>1, <3>2
  <2> QED BY <2>1, <2>2
<1>9. \A e \in Ends : r.quiet => H[e] \in {0, mtu[e]}
  BY <1>5
<1>10. ~r.known /\ lost = {} => H = mtu
  <2>1. mtu = [e \in Ends |-> mtu[e]]
    BY <1>1 DEF TypeOK
  <2> QED BY <2>1
<1> HIDE DEF H
<1>11. s \in Request
  BY <1>1, <1>7 DEF Request, States
<1>12. /\ s.st = "settle" /\ s.have = H /\ s.known = r.known /\ s.want = r.want /\ s.eff = r.eff
       /\ s.refused = r.refused /\ s.ends = r.ends /\ s.fresh = r.fresh /\ s.quiet = r.quiet
       /\ s.clean = r.clean /\ s.extra = r.extra
  BY <1>1 DEF Request
<1> HIDE DEF s
<1>13. Holds(s) /\ ReadSound(s, fresh) /\ Rounds(s)
  BY <1>5, <1>7, <1>8, <1>12 DEF Holds, HasRead, ReadSound, Rounds
<1>14. Undisturbed(s, mtu, guest, addr, removed)
  BY <1>9, <1>12 DEF Undisturbed
<1>15. Learns(s, ceiling, misled')
  <2>1. ASSUME Sure(misled'), ~r.known, NEW e \in r.ends, Teaches(s, e), Wide(e)
        PROVE  Shows(H, e, ceiling)
    <3>1. H = mtu
      BY <1>2, <1>10, <2>1 DEF Sure
    <3>2. Sure(misled)
      BY <1>2, <2>1 DEF Sure
    <3>3. Cross(e[1]) /\ {PodOf(e), PodOf(Facing(e))} \cap fresh # {}
      BY <1>5, <1>12, <2>1 DEF Teaches, FreshEnd
    <3> QED BY <1>5, <2>1, <3>1, <3>2, <3>3 DEF MTUInv, DevicesTell
  <2> QED BY <1>5, <1>12, <2>1, MTUAssumption DEF Learns
<1>16. Grows(fresh, fresh', ceiling, ceiling', misled, misled')
  BY <1>2, <1>3 DEF Grows
<1>17. RecInv(s, fresh', ceiling', misled', mtu', guest', addr', removed')
  BY <1>3, <1>13, <1>14, <1>15 DEF RecInv
<1>18. /\ pass' \in [Procs -> Request]
       /\ \A q \in Procs : /\ Holds(pass'[q])
                           /\ RecInv(pass'[q], fresh', ceiling', misled', mtu', guest', addr', removed')
  BY <1>3, <1>6, <1>11, <1>13, <1>16, <1>17, StepKept
<1>19. /\ mtu' \in [Ends -> Values \ {0}] /\ guest' \in [Ends -> Values]
       /\ addr' \subseteq Extra /\ removed' \subseteq Extra
       /\ running' \subseteq Pods /\ fresh' \subseteq Pods /\ rows' \subseteq [end : Ends, mtu : Asked]
       /\ ceiling' \in [Workers -> Values] /\ namespaceMTU' \in Values
       /\ misled' \subseteq {"read", "wiring", "address"}
  BY <1>1, <1>2, <1>3 DEF TypeOK
<1>20. Removals' /\ Bounded(mtu') /\ CeilingSound' /\ Recollected(ceiling', misled')
  BY <1>2, <1>3 DEF MTUInv, Removals, CeilingSound, Recollected, Sure
<1>21. DevicesTell(mtu', fresh', ceiling', misled')
  BY <1>2, <1>3, TellKept
<1> QED BY <1>4, <1>18, <1>19, <1>20, <1>21, Assembled, SMTT(30)

\* A round starts with every pod that has something to be written.
LEMMA RoundIs ==
  ASSUME NEW r \in Request, NEW eff \in Values \ {0}, NEW n \in {1, 2}, removed \subseteq Extra,
         NEW off \in SUBSET removed
  PROVE  LET s == Round(r, eff, n, off)
         IN /\ s \in Request
            /\ s.st = "set" /\ s.eff = eff /\ s.round = n /\ s.refused = {} /\ s.off = off
            /\ s.known = r.known /\ s.ends = r.ends /\ s.want = r.want /\ s.fresh = r.fresh
            /\ s.have = r.have /\ s.quiet = r.quiet /\ s.clean = r.clean /\ s.extra = r.extra
            /\ \A e \in r.ends : PodOf(e) \notin s.todo =>
                 /\ s.have[e] = TargetOf(s, e) /\ PodOf(e) \notin Guests
                 /\ (r.extra = Extra => e \notin Extra \ removed)
<1> DEFINE o == [r EXCEPT !.st = "set", !.eff = eff, !.round = n, !.refused = {}, !.off = off]
           s == [o EXCEPT !.todo = Work(o)]
<1>1. Round(r, eff, n, off) = s
  BY DEF Round
<1>2. o \in Request
  BY DEF Request, States
<1>3. /\ o.st = "set" /\ o.eff = eff /\ o.round = n /\ o.refused = {} /\ o.off = off
      /\ o.known = r.known /\ o.ends = r.ends /\ o.want = r.want /\ o.fresh = r.fresh
      /\ o.have = r.have /\ o.quiet = r.quiet /\ o.clean = r.clean /\ o.extra = r.extra
  BY DEF Request
<1> HIDE DEF o
<1>4. Work(o) \subseteq Pods
  BY DEF Work
<1>5. s \in Request
  BY <1>2, <1>4 DEF Request
<1>6. /\ s.st = o.st /\ s.eff = o.eff /\ s.round = o.round /\ s.refused = o.refused /\ s.off = o.off
      /\ s.known = o.known /\ s.ends = o.ends /\ s.want = o.want /\ s.fresh = o.fresh
      /\ s.have = o.have /\ s.quiet = o.quiet /\ s.clean = o.clean /\ s.extra = o.extra
      /\ s.todo = Work(o)
  BY <1>2 DEF Request
<1> HIDE DEF s
<1>7. \A e \in r.ends : TargetOf(s, e) = TargetOf(o, e)
  BY <1>6 DEF TargetOf
<1>8. ASSUME NEW e \in r.ends, PodOf(e) \notin Work(o)
      PROVE  /\ o.have[e] = TargetOf(o, e) /\ PodOf(e) \notin Guests
             /\ (r.extra = Extra => e \notin Extra \ removed)
  <2>1. PodOf(e) \in Pods /\ e \in o.ends
    BY <1>3, EndIs DEF Request
  <2>2. Differs(o, PodOf(e)) = {} /\ Declared(o, PodOf(e)) = {} /\ PodOf(e) \notin Guests
    BY <1>8, <2>1 DEF Work
  <2>3. o.have[e] = TargetOf(o, e)
    BY <2>1, <2>2 DEF Differs
  <2>4. r.extra = Extra => e \notin Extra \ removed
    BY <1>3, <2>1, <2>2 DEF Declared
  <2> QED BY <2>2, <2>3, <2>4
<1>9. \A e \in r.ends : PodOf(e) \notin s.todo =>
        /\ s.have[e] = TargetOf(s, e) /\ PodOf(e) \notin Guests
        /\ (r.extra = Extra => e \notin Extra \ removed)
  BY <1>6, <1>7, <1>8
<1> QED BY <1>1, <1>3, <1>5, <1>6, <1>9

\* The start of a round finds in place what has nothing to be written.
LEMMA RoundStarts ==
  ASSUME NEW r \in Request, NEW eff \in Values \ {0}, NEW n \in {1, 2}, removed \subseteq Extra,
         NEW off \in SUBSET removed, r.clean => r.extra = Extra,
         r.quiet /\ r.clean => \A e \in r.ends : InPlace(Round(r, eff, n, off), mtu, e)
  PROVE  Undisturbed(Round(r, eff, n, off), mtu, guest, addr, removed)
<1> DEFINE s == Round(r, eff, n, off)
<1>1. /\ s.st = "set" /\ s.off = off /\ s.ends = r.ends /\ s.quiet = r.quiet /\ s.clean = r.clean
      /\ \A e \in r.ends : PodOf(e) \notin s.todo =>
           /\ s.have[e] = TargetOf(s, e) /\ PodOf(e) \notin Guests
           /\ (r.extra = Extra => e \notin Extra \ removed)
  BY RoundIs
<1> HIDE DEF s
<1>2. ASSUME s.quiet, s.clean, NEW e \in s.ends
      PROVE  InPlace(s, mtu, e) /\ OnPod(s, mtu, e) /\ InGuest(s, guest, e) /\ Addressed(s, addr, removed, e)
  <2>1. InPlace(s, mtu, e)
    BY <1>1, <1>2 DEF s
  <2>2. OnPod(s, mtu, e)
    BY <1>1, <1>2, <2>1 DEF InPlace, OnPod
  <2>3. InGuest(s, guest, e) /\ Addressed(s, addr, removed, e)
    BY <1>1, <1>2 DEF InGuest, Addressed
  <2> QED BY <2>1, <2>2, <2>3
<1>3. Undisturbed(s, mtu, guest, addr, removed)
  BY <1>1, <1>2 DEF Undisturbed
<1> QED BY <1>3 DEF s

\* The pass learns ceilings and settles what each link is to carry.
LEMMA SettleKept ==
  ASSUME MTUInv, NEW p \in Procs, Settle(p)
  PROVE  MTUInv'
<1> DEFINE r == pass[p]
           seen == {<<Worker[PodOf(e)], r.have[e]>> : e \in {x \in r.ends : Teaches(r, x)}}
           known == Recorded(seen)
           S == Settled(r, known)
<1>1. /\ TypeOK /\ r \in Request /\ Holds(r)
      /\ RecInv(r, fresh, ceiling, misled, mtu, guest, addr, removed)
  BY DEF MTUInv, Typed
<1>2. /\ r.st = "settle" /\ ceiling' = known
      /\ misled' = misled \cup (IF Outdated(r) THEN {"wiring"} ELSE {})
      /\ \/ S.err /\ pass' = [pass EXCEPT ![p] = Over(r, "failed")] /\ UNCHANGED left
         \/ /\ ~S.err
            /\ \E off \in SUBSET removed :
                 HistoryRead(off) /\ pass' = [pass EXCEPT ![p] = Round(r, S.eff, 1, off)]
  BY DEF Settle, At
<1>3. /\ mtu' = mtu /\ guest' = guest /\ addr' = addr /\ removed' = removed
      /\ running' = running /\ fresh' = fresh /\ rows' = rows
      /\ namespaceMTU' = namespaceMTU /\ left' \in 0 .. MaxEvents
  <2>1. left' \in 0 .. MaxEvents
    BY <1>1, <1>2, LeftIs DEF HistoryRead, Fails, TypeOK
  <2> QED BY <2>1 DEF Settle, devices
<1>4. /\ r.eff = Target /\ r.refused = {} /\ r.want \in [Links -> Asked \cup {0}]
      /\ r.fresh \subseteq fresh /\ r.ends \subseteq Ends /\ r.eff <= Target
      /\ r.clean => r.extra = Extra
      /\ r.have \in [Ends -> Values] /\ Bounded(r.have)
      /\ r.quiet => \A e \in Ends : r.have[e] \in {0, mtu[e]}
  BY <1>1, <1>2 DEF Holds, HasRead, RecInv, ReadSound, Undisturbed, Request
<1>5. \A e \in Ends : Worker[PodOf(e)] \in Workers
  BY EndIs, MTUAssumption
<1>6. \A y \in seen : \E e \in r.ends : Teaches(r, e) /\ y[1] = Worker[PodOf(e)] /\ y[2] = r.have[e]
  OBVIOUS
<1>7. ASSUME NEW e \in r.ends, Teaches(r, e)
      PROVE  \E y \in seen : y[1] = Worker[PodOf(e)] /\ y[2] = r.have[e]
  <2>1. <<Worker[PodOf(e)], r.have[e]>> \in seen
    BY <1>7
  <2> QED BY <2>1
<1> HIDE DEF seen
<1>8. \A y \in seen : y[2] \in Values /\ \A w \in Workers : y[1] = w => y[2] <= Cap[w]
  <2> SUFFICES ASSUME NEW y \in seen
               PROVE  y[2] \in Values /\ \A w \in Workers : y[1] = w => y[2] <= Cap[w]
    OBVIOUS
  <2>1. PICK e \in r.ends : Teaches(r, e) /\ y[1] = Worker[PodOf(e)] /\ y[2] = r.have[e]
    BY <1>6
  <2>2. r.have[e] \in Values /\ r.have[e] <= Carried(e)
    BY <1>4, <2>1 DEF Bounded, Teaches
  <2> QED BY <2>1, <2>2 DEF Carried
<1>9. ceiling \in [Workers -> Values] /\ CeilingSound /\ Bounded(mtu)
  BY <1>1 DEF TypeOK, MTUInv
<1>10. ASSUME NEW w \in Workers
       PROVE  /\ known[w] \in Nat /\ ceiling[w] \in Nat /\ Cap[w] \in Nat
              /\ known[w] <= Cap[w] /\ ceiling[w] <= known[w]
              /\ \A y \in seen : y[1] = w => y[2] <= known[w]
              /\ known[w] = ceiling[w] \/ \E y \in seen : y[1] = w /\ y[2] = known[w]
  <2>1. known \in [Workers -> Values]
    BY <1>8, <1>9, RecordedIs
  <2>2. known[w] \in Values /\ ceiling[w] \in Values /\ Cap[w] \in Nat
    BY <1>9, <2>1, MTUAssumption
  <2>3. known[w] \in Nat /\ ceiling[w] \in Nat
    BY <2>2, ValuesAre
  <2> QED BY <1>8, <1>9, <2>2, <2>3, RecordedIs
<1>11. known \in [Workers -> Values]
  <2>1. CASE Workers = {}
    BY <2>1 DEF Recorded
  <2>2. CASE Workers # {}
    BY <2>2, <1>8, <1>9, RecordedIs
  <2> QED BY <2>1, <2>2
<1> HIDE DEF known
<1>12. \A w \in Workers : ceiling[w] = Cap[w] => known[w] = Cap[w]
  BY <1>10
<1>13. ASSUME Sure(misled'), NEW e \in r.ends, Teaches(r, e), Wide(e)
       PROVE  known[Worker[PodOf(e)]] = Carried(e)
  <2> DEFINE w == Worker[PodOf(e)]
  <2>1. e \in Ends /\ w \in Workers /\ Carried(e) = Cap[w] /\ Cap[w] \in Nat
    BY <1>4, <1>5, <1>10 DEF Carried
  <2>2. Sure(misled) /\ ~Outdated(r)
    BY <1>2, <1>13 DEF Sure
  <2>3. r.have[e] \in Nat /\ r.have[e] <= Carried(e) /\ mtu[e] \in Nat
    <3>1. r.have[e] \in Values /\ mtu[e] \in Values
      BY <1>1, <1>4, <2>1 DEF TypeOK
    <3>2. r.have[e] <= Carried(e)
      BY <1>4, <1>13, <2>1 DEF Bounded, Teaches
    <3> QED BY <3>1, <3>2, ValuesAre
  <2>4. r.have[e] = Carried(e) \/ ceiling[w] = Carried(e)
    <3>1. CASE ~r.known
      BY <1>1, <1>2, <1>13, <2>2, <3>1 DEF RecInv, Learns, Shows
    <3>2. CASE r.known
      <4>1. Cross(e[1]) /\ {PodOf(e), PodOf(Facing(e))} \cap fresh # {}
        BY <1>4, <1>13 DEF Teaches, FreshEnd
      <4>2. mtu[e] = Carried(e) \/ ceiling[w] = Carried(e)
        BY <1>13, <2>1, <2>2, <4>1 DEF MTUInv, DevicesTell, Shows
      <4>3. ~(r.have[e] < mtu[e])
        BY <1>13, <2>2, <3>2 DEF Outdated
      <4> QED BY <2>1, <2>3, <4>2, <4>3
    <3> QED BY <3>1, <3>2
  <2>5. r.have[e] <= known[w]
    BY <1>7, <1>10, <1>13, <2>1
  <2> HIDE DEF w
  <2>6. known[w] = Cap[w]
    BY <1>10, <2>1, <2>3, <2>4, <2>5
  <2> QED BY <2>1, <2>6 DEF w
<1>14. Recollected(known, misled')
  <2> SUFFICES ASSUME Sure(misled'), NEW w \in Workers, known[w] > 0, ~(Cap[w] < Target)
               PROVE  known[w] = Cap[w]
    BY DEF Recollected
  <2>1. CASE known[w] = ceiling[w]
    BY <1>2, <2>1 DEF MTUInv, Recollected, Sure
  <2>2. CASE \E y \in seen : y[1] = w /\ y[2] = known[w]
    <3>1. PICK e \in r.ends : Teaches(r, e) /\ w = Worker[PodOf(e)]
      BY <1>6, <2>2
    <3>2. Wide(e)
      BY <3>1, <1>10, MTUAssumption DEF Wide, Carried
    <3> QED BY <1>13, <3>1, <3>2 DEF Carried
  <2> QED BY <1>10, <2>1, <2>2
<1>15. /\ S.eff \in Values \ {0} /\ S.eff <= Target
       /\ S.eff < Target =>
            \E e \in r.ends : /\ Cross(e[1]) /\ known[Worker[PodOf(e)]] > 0
                             /\ known[Worker[PodOf(e)]] = S.eff
  BY <1>1, <1>11, SettledIs
<1> HIDE DEF S
<1>16. PICK t \in Request : /\ pass' = [pass EXCEPT ![p] = t] /\ Holds(t)
                           /\ RecInv(t, fresh, known, misled', mtu, guest, addr, removed)
  <2>1. CASE S.err
    <3> DEFINE s == Over(r, "failed")
    <3>1. /\ s \in Request /\ s.st = "failed" /\ s.eff = r.eff /\ s.clean = r.clean
          /\ s.extra = r.extra
      BY <1>1, OverIs
    <3>2. pass' = [pass EXCEPT ![p] = s]
      BY <1>2, <2>1
    <3> HIDE DEF s
    <3>3. Holds(s) /\ RecInv(s, fresh, known, misled', mtu, guest, addr, removed)
      BY <1>4, <3>1, MTUAssumption
      DEF Holds, HasRead, RecInv, ReadSound, Learns, Rounds, Undisturbed
    <3> QED BY <3>1, <3>2, <3>3
  <2>2. CASE ~S.err
    <3>7. PICK off \in SUBSET removed : pass' = [pass EXCEPT ![p] = Round(r, S.eff, 1, off)]
      BY <1>2, <2>2
    <3> DEFINE s == Round(r, S.eff, 1, off)
    <3>1. pass' = [pass EXCEPT ![p] = s] /\ removed \subseteq Extra
      BY <1>1, <3>7 DEF TypeOK
    <3>2. /\ s \in Request
          /\ s.st = "set" /\ s.eff = S.eff /\ s.round = 1 /\ s.refused = {} /\ s.off = off
          /\ s.known = r.known /\ s.ends = r.ends /\ s.want = r.want /\ s.fresh = r.fresh
          /\ s.have = r.have /\ s.quiet = r.quiet /\ s.clean = r.clean /\ s.extra = r.extra
          /\ \A e \in r.ends : PodOf(e) \notin s.todo =>
               /\ s.have[e] = TargetOf(s, e) /\ PodOf(e) \notin Guests
               /\ (r.extra = Extra => e \notin Extra \ removed)
      BY <1>1, <1>15, <3>1, RoundIs
    <3> HIDE DEF s
    <3>3. Holds(s) /\ ReadSound(s, fresh)
      BY <1>4, <1>15, <3>2 DEF Holds, HasRead, ReadSound
    <3>4. Rounds(s)
      BY <3>2 DEF Rounds, Hopeless
    <3>5. Learns(s, known, misled')
      <4>1. \A e \in r.ends : Teaches(s, e) <=> Teaches(r, e)
        BY <3>2 DEF Teaches, FreshEnd
      <4>2. ASSUME Sure(misled'), S.eff < Target PROVE Narrow(s)
        <5>1. PICK e \in r.ends : /\ Cross(e[1]) /\ known[Worker[PodOf(e)]] > 0
                                  /\ known[Worker[PodOf(e)]] = S.eff
          BY <1>15, <4>2
        <5>2. Worker[PodOf(e)] \in Workers
          BY <1>4, <1>5
        <5>3. Carried(e) < Target
          BY <1>14, <4>2, <5>1, <5>2 DEF Recollected, Carried
        <5> QED BY <3>2, <5>1, <5>3 DEF Narrow
      <4> QED BY <1>13, <3>2, <4>1, <4>2 DEF Learns
    <3>6. Undisturbed(s, mtu, guest, addr, removed)
      <4>1. ASSUME r.quiet, NEW e \in r.ends PROVE InPlace(s, mtu, e)
        <5>1. r.have[e] \in {0, mtu[e]}
          BY <1>4, <4>1
        <5>2. TargetOf(s, e) \in Nat \ {0}
          BY <1>4, <3>2, TargetIs
        <5> QED BY <3>2, <5>1, <5>2 DEF InPlace
      <4>2. Undisturbed(Round(r, S.eff, 1, off), mtu, guest, addr, removed)
        BY <1>1, <1>4, <1>15, <3>1, <4>1, RoundStarts DEF s
      <4> QED BY <4>2 DEF s
    <3> QED BY <3>1, <3>2, <3>3, <3>4, <3>5, <3>6 DEF RecInv
  <2> QED BY <2>1, <2>2
<1>18. Grows(fresh, fresh', ceiling, ceiling', misled, misled')
  BY <1>2, <1>3, <1>12 DEF Grows
<1>19. /\ pass' \in [Procs -> Request]
       /\ \A q \in Procs : /\ Holds(pass'[q])
                           /\ RecInv(pass'[q], fresh', ceiling', misled', mtu', guest', addr', removed')
  BY <1>2, <1>3, <1>16, <1>18, StepKept
<1>20. /\ mtu' \in [Ends -> Values \ {0}] /\ guest' \in [Ends -> Values]
       /\ addr' \subseteq Extra /\ removed' \subseteq Extra
       /\ running' \subseteq Pods /\ fresh' \subseteq Pods /\ rows' \subseteq [end : Ends, mtu : Asked]
       /\ ceiling' \in [Workers -> Values] /\ namespaceMTU' \in Values
       /\ misled' \subseteq {"read", "wiring", "address"} /\ left' \in 0 .. MaxEvents
  BY <1>1, <1>2, <1>3, <1>11 DEF TypeOK
<1>21. Removals' /\ Bounded(mtu') /\ CeilingSound' /\ Recollected(ceiling', misled')
  BY <1>2, <1>3, <1>10, <1>14 DEF MTUInv, Removals, CeilingSound
<1>22. DevicesTell(mtu', fresh', ceiling', misled')
  BY <1>2, <1>3, <1>12, TellKept
<1> QED BY <1>19, <1>20, <1>21, <1>22, Assembled

----------------------------------------------------------------------------
(* The rounds of the pass.                                                  *)

\* The script of a round in one pod, with what the kernel refuses.
LEMMA SetPodKept ==
  ASSUME MTUInv, NEW p \in Procs, NEW x \in Pods, SetPod(p, x)
  PROVE  MTUInv'
<1> DEFINE r == pass[p]
           todo == Differs(r, x)
           bad == {e \in todo : Refuses(e, TargetOf(r, e))}
           said == {e \in bad : r.have[e] > 0}
           next == IF x \in Guests /\ said = {} THEN {x} ELSE {}
           s == [r EXCEPT !.todo = @ \ {x}, !.guests = @ \cup next, !.refused = @ \cup said,
                          !.clean = @ /\ bad = said]
           f == [r EXCEPT !.todo = @ \ {x}, !.clean = FALSE, !.guests = @ \cup ({x} \cap Guests)]
<1>1. /\ TypeOK /\ r \in Request /\ Holds(r)
      /\ RecInv(r, fresh, ceiling, misled, mtu, guest, addr, removed)
  BY DEF MTUInv, Typed
<1>2. /\ r.st = "set" /\ x \in r.todo
      /\ guest' = guest /\ removed' = removed /\ running' = running /\ fresh' = fresh
      /\ rows' = rows /\ ceiling' = ceiling /\ namespaceMTU' = namespaceMTU
  BY DEF SetPod, At, backend
<1>3. /\ r.want \in [Links -> Asked \cup {0}] /\ r.fresh \subseteq fresh /\ r.ends \subseteq Ends
      /\ r.have \in [Ends -> Values] /\ Bounded(r.have) /\ r.eff <= Target
      /\ r.extra \subseteq Extra /\ (r.clean => r.extra = Extra)
  BY <1>1, <1>2 DEF Holds, HasRead, RecInv, ReadSound, Request
<1>4. ASSUME NEW e \in r.ends
      PROVE  /\ e \in Ends /\ TargetOf(r, e) \in Values \ {0} /\ TargetOf(r, e) \in Nat \ {0}
             /\ Carried(e) \in Nat
  BY <1>1, <1>3, TargetIs, EndIs
<1>5. /\ \A e \in todo : e \in r.ends /\ PodOf(e) = x /\ r.have[e] # TargetOf(r, e)
      /\ \A e \in r.ends : PodOf(e) = x /\ r.have[e] # TargetOf(r, e) => e \in todo
  BY DEF Differs
<1>6. /\ \A e \in bad : e \in todo /\ Refuses(e, TargetOf(r, e))
      /\ \A e \in todo \ bad : ~Refuses(e, TargetOf(r, e))
      /\ \A e \in said : e \in bad /\ r.have[e] > 0
  OBVIOUS
<1>7. CASE /\ x \in running /\ UNCHANGED left
           /\ mtu' = [e \in Ends |-> IF e \in todo \ bad THEN TargetOf(r, e) ELSE mtu[e]]
           /\ addr' = IF x \in Guests THEN addr ELSE addr \cup Declared(r, x)
           /\ misled' = misled \cup (IF Rewired(r, todo \ bad) THEN {"wiring"} ELSE {})
                              \cup (IF x \notin Guests THEN Revived(r, x) ELSE {})
           /\ pass' = Disturb(p, s)
  <2> DEFINE c == r.clean /\ bad = said
             t == [r EXCEPT !.todo = r.todo \ {x}, !.guests = r.guests \cup next,
                            !.refused = r.refused \cup said, !.clean = c]
  <2>1. c \in BOOLEAN /\ next \subseteq Pods /\ said \subseteq Ends
    BY <1>3, <1>5
  <2>2. pass' = Disturb(p, t)
    BY <1>7
  <2>3. c => r.clean /\ bad = said
    BY <1>1 DEF Request
  <2>4. next = (IF x \in Guests /\ said = {} THEN {x} ELSE {})
    OBVIOUS
  <2>16. Declared(r, x) \subseteq Extra
    BY <1>3 DEF Declared
  <2> HIDE DEF c, next, said, bad, todo
  <2>5. t \in Request
    BY <1>1, <2>1 DEF Request
  <2>6. /\ t.st = "set" /\ t.todo = r.todo \ {x} /\ t.guests = r.guests \cup next
        /\ t.refused = r.refused \cup said /\ t.clean = c /\ t.known = r.known /\ t.ends = r.ends
        /\ t.want = r.want /\ t.fresh = r.fresh /\ t.have = r.have /\ t.eff = r.eff
        /\ t.round = r.round /\ t.off = r.off /\ t.quiet = r.quiet /\ t.extra = r.extra
    BY <1>1, <1>2 DEF Request
  <2> HIDE DEF t
  <2>7. \A e \in Ends : TargetOf(t, e) = TargetOf(r, e)
    BY <2>6 DEF TargetOf
  <2>8. Holds(t) /\ ReadSound(t, fresh)
    BY <1>3, <2>3, <2>6 DEF Holds, HasRead, ReadSound
  <2>9. Grows(fresh, fresh', ceiling, ceiling', misled, misled')
    BY <1>2, <1>7 DEF Grows
  <2>10. Learns(t, ceiling', misled')
    <3>1. RecInv(r, fresh', ceiling', misled', mtu, guest, addr, removed)
      BY <1>1, <2>9, UntouchedKept
    <3> QED BY <1>2, <2>6, <3>1 DEF RecInv, Learns, Narrow, Teaches, FreshEnd
  <2>11. Rounds(t)
    <3>1. \A e \in Ends : Hopeless(t, e) <=> Hopeless(r, e)
      BY <2>6, <2>7 DEF Hopeless
    <3>2. \A e \in said : e \in r.ends /\ r.have[e] > 0 /\ Hopeless(r, e)
      BY <1>5, <1>6 DEF Hopeless
    <3>3. \A e \in r.refused : e \in r.ends /\ r.have[e] > 0 /\ Hopeless(r, e)
      BY <1>1, <1>2 DEF RecInv, Rounds
    <3>4. ASSUME c, NEW e \in r.ends, Hopeless(r, e)
          PROVE  r.round = 1 /\ (PodOf(e) \notin t.todo => e \in t.refused)
      <4>1. r.round = 1 /\ (PodOf(e) \notin r.todo => e \in r.refused)
        BY <1>1, <1>2, <2>3, <3>4 DEF RecInv, Rounds
      <4>2. CASE PodOf(e) = x
        <5>1. e \in bad
          BY <1>5, <3>4, <4>2 DEF Hopeless, bad
        <5> QED BY <2>3, <2>6, <3>4, <4>1, <5>1
      <4>3. CASE PodOf(e) # x
        BY <2>6, <4>1, <4>3
      <4> QED BY <4>2, <4>3
    <3> QED BY <1>3, <2>6, <3>1, <3>2, <3>3, <3>4 DEF Rounds
  <2>12. Undisturbed(t, mtu', guest', addr', removed')
    <3>1. t.off \subseteq removed' \/ ~t.quiet
      BY <1>1, <1>2, <2>6 DEF RecInv, Undisturbed
    <3>2. ASSUME r.quiet, c, NEW e \in r.ends
          PROVE  /\ InPlace(t, mtu', e) /\ OnPod(t, mtu', e) /\ InGuest(t, guest', e)
                 /\ Addressed(t, addr', removed', e)
      <4>1. /\ InPlace(r, mtu, e) /\ OnPod(r, mtu, e) /\ InGuest(r, guest, e)
            /\ Addressed(r, addr, removed, e) /\ r.off \subseteq removed /\ r.extra = Extra
        BY <1>1, <1>2, <1>3, <2>3, <3>2 DEF RecInv, Undisturbed
      <4>2. e \in Ends /\ TargetOf(t, e) = TargetOf(r, e)
        BY <1>3, <2>7
      <4>3. Followed(t, e) <=> Followed(r, e)
        BY <2>6 DEF Followed
      <4>4. mtu'[e] = IF e \in todo \ bad THEN TargetOf(r, e) ELSE mtu[e]
        BY <1>7, <4>2
      <4>5. InPlace(t, mtu', e)
        BY <1>5, <2>6, <4>1, <4>2, <4>3, <4>4 DEF InPlace
      <4>6. OnPod(t, mtu', e)
        <5>1. CASE PodOf(e) # x
          <6>1. mtu'[e] = mtu[e]
            BY <1>5, <4>4, <5>1
          <6> QED BY <2>6, <4>1, <4>2, <4>3, <5>1, <6>1 DEF OnPod
        <5>2. CASE PodOf(e) = x /\ r.have[e] = TargetOf(r, e)
          <6>1. mtu'[e] = mtu[e]
            BY <1>5, <4>4, <5>2
          <6> QED BY <4>1, <4>2, <4>3, <5>2, <6>1 DEF OnPod, InPlace
        <5>3. CASE PodOf(e) = x /\ r.have[e] # TargetOf(r, e)
          <6>1. e \in todo
            BY <1>5, <5>3
          <6>2. e \in bad => e \in t.refused
            BY <2>3, <2>6, <3>2
          <6>3. e \notin bad => mtu'[e] = TargetOf(t, e)
            BY <4>2, <4>4, <6>1
          <6> QED BY <6>2, <6>3 DEF OnPod
        <5> QED BY <5>1, <5>2, <5>3
      <4>7. InGuest(t, guest', e)
        <5>1. CASE PodOf(e) # x
          BY <1>2, <2>6, <4>1, <4>2, <5>1 DEF InGuest
        <5>2. CASE PodOf(e) = x
          BY <2>4, <2>6, <5>2 DEF InGuest
        <5> QED BY <5>1, <5>2
      <4>8. Addressed(t, addr', removed', e)
        <5>1. addr \subseteq addr'
          BY <1>7
        <5>2. CASE PodOf(e) # x
          BY <1>2, <2>6, <4>1, <5>1, <5>2 DEF Addressed
        <5>3. CASE PodOf(e) = x /\ x \in Guests
          BY <2>4, <2>6, <5>3 DEF Addressed
        <5>4. CASE PodOf(e) = x /\ x \notin Guests
          <6>1. e \in Extra \ removed => e \in Declared(r, x)
            BY <4>1, <5>4 DEF Declared
          <6> QED BY <1>2, <1>7, <5>4, <6>1 DEF Addressed
        <5> QED BY <5>2, <5>3, <5>4
      <4> QED BY <4>5, <4>6, <4>7, <4>8
    <3> QED BY <2>6, <3>1, <3>2 DEF Undisturbed
  <2>13. /\ pass' \in [Procs -> Request]
         /\ \A q \in Procs : /\ Holds(pass'[q])
                             /\ RecInv(pass'[q], fresh', ceiling', misled', mtu', guest', addr', removed')
    <3>1. RecInv(t, fresh', ceiling', misled', mtu', guest', addr', removed')
      BY <1>2, <2>8, <2>10, <2>11, <2>12 DEF RecInv
    <3> QED BY <2>2, <2>5, <2>8, <2>9, <3>1, StepKept
  <2>14. mtu' \in [Ends -> Values \ {0}]
    <3>1. mtu \in [Ends -> Values \ {0}]
      BY <1>1 DEF TypeOK
    <3>2. \A e \in todo : TargetOf(r, e) \in Values \ {0}
      BY <1>4, <1>5
    <3> QED BY <1>7, <3>1, <3>2
  <2>15. Bounded(mtu')
    <3> SUFFICES ASSUME NEW e \in Ends, Cross(e[1]) PROVE mtu'[e] <= Carried(e)
      BY DEF Bounded
    <3>1. mtu'[e] = IF e \in todo \ bad THEN TargetOf(r, e) ELSE mtu[e]
      BY <1>7
    <3>2. CASE e \in todo \ bad
      <4>1. ~(TargetOf(r, e) > Carried(e))
        BY <1>6, <3>2 DEF Refuses, Carried
      <4> QED BY <1>4, <1>5, <3>1, <3>2, <4>1
    <3>3. CASE e \notin todo \ bad
      BY <3>1, <3>3 DEF MTUInv, Bounded
    <3> QED BY <3>2, <3>3
  <2>17. DevicesTell(mtu', fresh', ceiling', misled')
    <3> SUFFICES ASSUME Sure(misled'), NEW e \in Ends, Cross(e[1]),
                        {PodOf(e), PodOf(Facing(e))} \cap fresh # {}, Wide(e)
                 PROVE  Shows(mtu', e, ceiling)
      BY <1>2 DEF DevicesTell
    <3>1. Sure(misled) /\ ~Rewired(r, todo \ bad)
      BY <1>7 DEF Sure
    <3>2. mtu'[e] = IF e \in todo \ bad THEN TargetOf(r, e) ELSE mtu[e]
      BY <1>7
    <3>3. CASE e \in todo \ bad
      <4>1. FreshEnd(r, e) /\ e \in r.ends
        BY <1>5, <3>1, <3>3 DEF Rewired
      <4>2. Teaches(r, e)
        BY <4>1 DEF Teaches
      <4> QED BY <1>1, <1>2, <3>1, <4>1, <4>2 DEF RecInv, Learns, Shows
    <3>4. CASE e \notin todo \ bad
      BY <3>1, <3>2, <3>4 DEF MTUInv, DevicesTell, Shows
    <3> QED BY <3>3, <3>4
  <2>18. Removals'
    BY <1>2, <1>7 DEF MTUInv, Removals, Revived
  <2>19. CeilingSound' /\ Recollected(ceiling', misled')
    BY <1>2, <1>7 DEF MTUInv, CeilingSound, Recollected, Sure
  <2>20. misled' \subseteq {"read", "wiring", "address"} /\ addr' \subseteq Extra
    BY <1>1, <1>7, <2>16 DEF TypeOK, Revived
  <2>21. /\ guest' \in [Ends -> Values] /\ removed' \subseteq Extra
         /\ running' \subseteq Pods /\ fresh' \subseteq Pods /\ rows' \subseteq [end : Ends, mtu : Asked]
         /\ ceiling' \in [Workers -> Values] /\ namespaceMTU' \in Values /\ left' \in 0 .. MaxEvents
    BY <1>1, <1>2, <1>7 DEF TypeOK
  <2> QED BY <2>13, <2>14, <2>15, <2>17, <2>18, <2>19, <2>20, <2>21, Assembled
<1>8. CASE /\ Fails("write") \/ (x \notin running /\ UNCHANGED left)
           /\ pass' = [pass EXCEPT ![p] = f]
           /\ UNCHANGED <<mtu, addr, misled>>
  <2>1. f \in Request
    BY <1>1 DEF Request
  <2>2. /\ f.st = "set" /\ f.refused = r.refused /\ f.clean = FALSE /\ f.known = r.known
        /\ f.ends = r.ends /\ f.want = r.want /\ f.fresh = r.fresh /\ f.have = r.have
        /\ f.eff = r.eff /\ f.off = r.off /\ f.quiet = r.quiet
    BY <1>1, <1>2 DEF Request
  <2>3. UNCHANGED <<devices, removed, fresh, backend, misled>>
    BY <1>2, <1>8 DEF devices, backend
  <2>4. left' \in 0 .. MaxEvents
    BY <1>1, <1>8, LeftIs DEF Fails, TypeOK
  <2>5. running' \subseteq Pods /\ rows' \subseteq [end : Ends, mtu : Asked]
    BY <1>1, <1>2 DEF TypeOK
  <2>6. pass' = [pass EXCEPT ![p] = f]
    BY <1>8
  <2> HIDE DEF f, todo, bad, said, next
  <2>7. Holds(f) /\ ReadSound(f, fresh)
    BY <1>3, <2>2 DEF Holds, HasRead, ReadSound
  <2>8. Learns(f, ceiling, misled)
    BY <1>1, <1>2, <2>2 DEF RecInv, Learns, Narrow, Teaches, FreshEnd
  <2>9. Rounds(f)
    BY <1>1, <1>2, <2>2 DEF RecInv, Rounds, Hopeless, TargetOf
  <2>10. Undisturbed(f, mtu, guest, addr, removed)
    BY <1>1, <1>2, <2>2 DEF RecInv, Undisturbed
  <2> QED BY <2>1, <2>3, <2>4, <2>5, <2>6, <2>7, <2>8, <2>9, <2>10, WorldKept DEF RecInv
<1>9. pass[p] = r /\ pass \in [Procs -> Request]
  BY DEF MTUInv, Typed
<1> QED BY <1>7, <1>8 DEF SetPod

\* The MTU inside a guest follows its pod.
LEMMA SetGuestKept ==
  ASSUME MTUInv, NEW p \in Procs, NEW x \in Pods, SetGuest(p, x)
  PROVE  MTUInv'
<1> DEFINE r == pass[p]
           mine == {e \in r.ends : PodOf(e) = x}
           s == [r EXCEPT !.guests = @ \ {x}]
           f == [r EXCEPT !.guests = @ \ {x}, !.clean = FALSE]
<1>1. /\ TypeOK /\ r \in Request /\ Holds(r)
      /\ RecInv(r, fresh, ceiling, misled, mtu, guest, addr, removed)
  BY DEF MTUInv, Typed
<1>2. /\ r.st = "set" /\ x \in r.guests
      /\ mtu' = mtu /\ removed' = removed /\ running' = running /\ fresh' = fresh
      /\ rows' = rows /\ ceiling' = ceiling /\ namespaceMTU' = namespaceMTU
  BY DEF SetGuest, At, backend
<1>3. /\ r.want \in [Links -> Asked \cup {0}] /\ r.fresh \subseteq fresh /\ r.ends \subseteq Ends
      /\ r.have \in [Ends -> Values] /\ Bounded(r.have) /\ r.eff <= Target
      /\ r.extra \subseteq Extra /\ (r.clean => r.extra = Extra)
  BY <1>1, <1>2 DEF Holds, HasRead, RecInv, ReadSound, Request
<1>4. \A e \in r.ends : TargetOf(r, e) \in Values
  BY <1>1, <1>3, TargetIs
<1>5. CASE /\ x \in running /\ UNCHANGED left
           /\ guest' = [e \in Ends |-> IF e \in mine THEN TargetOf(r, e) ELSE guest[e]]
           /\ addr' = addr \cup Declared(r, x)
           /\ misled' = misled \cup Revived(r, x)
           /\ pass' = Disturb(p, s)
  <2>1. s \in Request
    BY <1>1 DEF Request
  <2>2. /\ s.st = "set" /\ s.refused = r.refused /\ s.clean = r.clean /\ s.known = r.known
        /\ s.ends = r.ends /\ s.want = r.want /\ s.fresh = r.fresh /\ s.have = r.have
        /\ s.eff = r.eff /\ s.off = r.off /\ s.quiet = r.quiet /\ s.round = r.round
        /\ s.todo = r.todo /\ s.guests = r.guests \ {x} /\ s.extra = r.extra
    BY <1>1, <1>2 DEF Request
  <2>3. pass' = Disturb(p, s)
    BY <1>5
  <2> HIDE DEF s
  <2>4. \A e \in Ends : TargetOf(s, e) = TargetOf(r, e)
    BY <2>2 DEF TargetOf
  <2>5. Grows(fresh, fresh', ceiling, ceiling', misled, misled')
    BY <1>2, <1>5 DEF Grows
  <2>6. RecInv(r, fresh', ceiling', misled', mtu, guest, addr, removed)
    BY <1>1, <2>5, UntouchedKept
  <2>7. Holds(s) /\ ReadSound(s, fresh)
    BY <1>3, <2>2 DEF Holds, HasRead, ReadSound
  <2>8. Learns(s, ceiling', misled')
    BY <1>2, <2>2, <2>6 DEF RecInv, Learns, Narrow, Teaches, FreshEnd
  <2>9. Rounds(s)
    BY <1>2, <2>2, <2>6 DEF RecInv, Rounds, Hopeless, TargetOf
  <2>10. Undisturbed(s, mtu', guest', addr', removed')
    <3>1. ASSUME r.quiet, r.clean, NEW e \in r.ends
          PROVE  /\ InPlace(s, mtu', e) /\ OnPod(s, mtu', e) /\ InGuest(s, guest', e)
                 /\ Addressed(s, addr', removed', e)
      <4>1. /\ InPlace(r, mtu, e) /\ OnPod(r, mtu, e) /\ InGuest(r, guest, e)
            /\ Addressed(r, addr, removed, e) /\ r.off \subseteq removed /\ r.extra = Extra
        BY <1>1, <1>2, <1>3, <3>1 DEF RecInv, Undisturbed
      <4>2. e \in Ends /\ TargetOf(s, e) = TargetOf(r, e)
        BY <1>3, <2>4
      <4>3. InPlace(s, mtu', e) /\ OnPod(s, mtu', e)
        BY <1>2, <2>2, <4>1, <4>2 DEF InPlace, OnPod, Followed
      <4>4. InGuest(s, guest', e)
        <5>1. guest'[e] = IF e \in mine THEN TargetOf(r, e) ELSE guest[e]
          BY <1>5, <4>2
        <5> QED BY <2>2, <4>1, <4>2, <5>1 DEF InGuest
      <4>5. Addressed(s, addr', removed', e)
        <5>1. PodOf(e) = x /\ e \in Extra \ removed => e \in Declared(r, x)
          BY <4>1 DEF Declared
        <5> QED BY <1>2, <1>5, <2>2, <4>1, <5>1 DEF Addressed
      <4> QED BY <4>3, <4>4, <4>5
    <3>2. r.quiet => r.off \subseteq removed
      BY <1>1, <1>2 DEF RecInv, Undisturbed
    <3> QED BY <1>2, <2>2, <3>1, <3>2 DEF Undisturbed
  <2>11. /\ pass' \in [Procs -> Request]
         /\ \A q \in Procs : /\ Holds(pass'[q])
                             /\ RecInv(pass'[q], fresh', ceiling', misled', mtu', guest', addr', removed')
    <3>1. RecInv(s, fresh', ceiling', misled', mtu', guest', addr', removed')
      BY <1>2, <2>7, <2>8, <2>9, <2>10 DEF RecInv
    <3> QED BY <2>1, <2>3, <2>5, <2>7, <3>1, StepKept
  <2>12. guest' \in [Ends -> Values]
    <3>1. guest \in [Ends -> Values]
      BY <1>1 DEF TypeOK
    <3> QED BY <1>4, <1>5, <3>1
  <2>13. misled' \subseteq {"read", "wiring", "address"} /\ addr' \subseteq Extra
    BY <1>1, <1>3, <1>5 DEF TypeOK, Revived, Declared
  <2>14. /\ mtu' \in [Ends -> Values \ {0}] /\ removed' \subseteq Extra
         /\ running' \subseteq Pods /\ fresh' \subseteq Pods /\ rows' \subseteq [end : Ends, mtu : Asked]
         /\ ceiling' \in [Workers -> Values] /\ namespaceMTU' \in Values /\ left' \in 0 .. MaxEvents
    BY <1>1, <1>2, <1>5 DEF TypeOK
  <2>15. Removals'
    BY <1>2, <1>5 DEF MTUInv, Removals, Revived
  <2>16. CeilingSound' /\ Bounded(mtu') /\ Recollected(ceiling', misled')
    BY <1>2, <1>5 DEF MTUInv, CeilingSound, Recollected, Sure
  <2>17. DevicesTell(mtu', fresh', ceiling', misled')
    BY <1>2, <1>5, TellKept
  <2> QED BY <2>11, <2>12, <2>13, <2>14, <2>15, <2>16, <2>17, Assembled
<1>6. CASE /\ Fails("guest") \/ (x \notin running /\ UNCHANGED left)
           /\ pass' = [pass EXCEPT ![p] = f]
           /\ UNCHANGED <<guest, addr, misled>>
  <2>1. f \in Request
    BY <1>1 DEF Request
  <2>2. /\ f.st = "set" /\ f.refused = r.refused /\ f.clean = FALSE /\ f.known = r.known
        /\ f.ends = r.ends /\ f.want = r.want /\ f.fresh = r.fresh /\ f.have = r.have
        /\ f.eff = r.eff /\ f.off = r.off /\ f.quiet = r.quiet
    BY <1>1, <1>2 DEF Request
  <2>3. UNCHANGED <<devices, removed, fresh, backend, misled>>
    BY <1>2, <1>6 DEF devices, backend
  <2>4. left' \in 0 .. MaxEvents
    BY <1>1, <1>6, LeftIs DEF Fails, TypeOK
  <2>5. running' \subseteq Pods /\ rows' \subseteq [end : Ends, mtu : Asked]
    BY <1>1, <1>2 DEF TypeOK
  <2>6. pass' = [pass EXCEPT ![p] = f]
    BY <1>6
  <2> HIDE DEF f
  <2>7. Holds(f) /\ ReadSound(f, fresh)
    BY <1>3, <2>2 DEF Holds, HasRead, ReadSound
  <2>8. Learns(f, ceiling, misled)
    BY <1>1, <1>2, <2>2 DEF RecInv, Learns, Narrow, Teaches, FreshEnd
  <2>9. Rounds(f)
    BY <1>1, <1>2, <2>2 DEF RecInv, Rounds, Hopeless, TargetOf
  <2>10. Undisturbed(f, mtu, guest, addr, removed)
    BY <1>1, <1>2, <2>2 DEF RecInv, Undisturbed
  <2> QED BY <2>1, <2>3, <2>4, <2>5, <2>6, <2>7, <2>8, <2>9, <2>10, WorldKept DEF RecInv
<1> QED BY <1>5, <1>6 DEF SetGuest

\* What the refusals of a first round teach, and why a second one meets none.
LEMMA EndRoundKept ==
  ASSUME MTUInv, NEW p \in Procs, EndRound(p)
  PROVE  MTUInv'
<1> DEFINE r == pass[p]
           low == Lowered(r)
<1>1. /\ TypeOK /\ r \in Request /\ Holds(r)
      /\ RecInv(r, fresh, ceiling, misled, mtu, guest, addr, removed)
  BY DEF MTUInv, Typed
<1>2. /\ r.st = "set" /\ r.todo = {} /\ r.guests = {}
      /\ mtu' = mtu /\ guest' = guest /\ addr' = addr /\ removed' = removed /\ running' = running
      /\ fresh' = fresh /\ rows' = rows /\ misled' = misled
      /\ left' \in 0 .. MaxEvents
  <2>1. left' \in 0 .. MaxEvents
    BY <1>1, LeftIs DEF EndRound, HistoryRead, Fails, TypeOK
  <2> QED BY <2>1 DEF EndRound, At, devices
<1>3. /\ r.want \in [Links -> Asked \cup {0}] /\ r.fresh \subseteq fresh /\ r.ends \subseteq Ends
      /\ r.have \in [Ends -> Values] /\ Bounded(r.have) /\ r.eff <= Target
      /\ r.eff \in Values \ {0} /\ r.round \in {1, 2} /\ (r.clean => r.extra = Extra)
  BY <1>1, <1>2 DEF Holds, HasRead, RecInv, ReadSound, Request
<1>4. ASSUME NEW e \in r.ends
      PROVE  /\ e \in Ends /\ TargetOf(r, e) \in Nat \ {0} /\ Carried(e) \in Nat
             /\ r.want[e[1]] \in Nat /\ r.have[e] \in Values /\ r.have[e] \in Nat
             /\ Cross(e[1]) => r.have[e] <= Carried(e)
             /\ Worker[PodOf(e)] \in Workers
  <2>1. e \in Ends /\ TargetOf(r, e) \in Nat \ {0} /\ Carried(e) \in Nat /\ r.want[e[1]] \in Nat
    BY <1>1, <1>3, TargetIs, EndIs
  <2>2. Worker[PodOf(e)] \in Workers
    BY <2>1, EndIs, MTUAssumption
  <2>3. r.have[e] \in Values /\ (Cross(e[1]) => r.have[e] <= Carried(e))
    BY <1>3, <2>1 DEF Bounded
  <2> QED BY <2>1, <2>2, <2>3, ValuesAre
<1>5. \A e \in r.refused : e \in r.ends /\ r.have[e] > 0 /\ Hopeless(r, e)
  BY <1>1, <1>2 DEF RecInv, Rounds
<1>6. r.clean => \A e \in r.ends : Hopeless(r, e) => r.round = 1 /\ e \in r.refused
  BY <1>1, <1>2 DEF RecInv, Rounds
<1>7. Sure(misled) /\ r.eff < Target => Narrow(r)
  BY <1>1 DEF RecInv, Learns
<1>8. removed \subseteq Extra
  BY <1>1 DEF TypeOK
\* The end of the proof once the ceilings and the new record are dealt with.
<1>9. ASSUME NEW s \in Request, pass' = [pass EXCEPT ![p] = s], Holds(s),
             RecInv(s, fresh, ceiling', misled, mtu, guest, addr, removed),
             ceiling' \in [Workers -> Values], CeilingSound', namespaceMTU' \in Values,
             Recollected(ceiling', misled),
             \A w \in Workers : ceiling[w] = Cap[w] => ceiling'[w] = Cap[w]
      PROVE  MTUInv'
  <2>1. Grows(fresh, fresh', ceiling, ceiling', misled, misled')
    BY <1>2, <1>9 DEF Grows
  <2>2. /\ pass' \in [Procs -> Request]
        /\ \A q \in Procs : /\ Holds(pass'[q])
                            /\ RecInv(pass'[q], fresh', ceiling', misled', mtu', guest', addr', removed')
    BY <1>2, <1>9, <2>1, StepKept
  <2>3. /\ mtu' \in [Ends -> Values \ {0}] /\ guest' \in [Ends -> Values]
        /\ addr' \subseteq Extra /\ removed' \subseteq Extra
        /\ running' \subseteq Pods /\ fresh' \subseteq Pods /\ rows' \subseteq [end : Ends, mtu : Asked]
        /\ misled' \subseteq {"read", "wiring", "address"} /\ left' \in 0 .. MaxEvents
    BY <1>1, <1>2 DEF TypeOK
  <2>4. Removals' /\ Bounded(mtu')
    BY <1>2 DEF MTUInv, Removals
  <2>5. DevicesTell(mtu', fresh', ceiling', misled')
    BY <1>2, <1>9, TellKept
  <2> QED BY <1>2, <1>9, <2>2, <2>3, <2>4, <2>5, Assembled
<1>10. /\ ceiling \in [Workers -> Values] /\ CeilingSound /\ namespaceMTU \in Values
       /\ Recollected(ceiling, misled)
  BY <1>1 DEF TypeOK, MTUInv
<1>11. CASE /\ r.refused = {}
            /\ pass' = [pass EXCEPT ![p] = Over(r, "done")]
            /\ namespaceMTU' = r.eff
            /\ UNCHANGED <<ceiling, left>>
  <2> DEFINE s == Over(r, "done")
  <2>1. /\ s \in Request /\ s.st = "done" /\ s.known = FALSE
        /\ s.ends = r.ends /\ s.want = r.want /\ s.eff = r.eff /\ s.round = r.round
        /\ s.refused = r.refused /\ s.quiet = r.quiet /\ s.clean = r.clean
        /\ s.extra = r.extra
    BY <1>1, OverIs
  <2>2. pass' = [pass EXCEPT ![p] = s]
    BY <1>11
  <2> HIDE DEF s
  <2>3. Holds(s) /\ ReadSound(s, fresh) /\ Rounds(s)
    BY <1>3, <1>11, <2>1 DEF Holds, HasRead, ReadSound, Rounds
  <2>4. Learns(s, ceiling, misled)
    BY <1>7, <2>1 DEF Learns, Narrow
  <2>5. Undisturbed(s, mtu, guest, addr, removed)
    <3>1. ASSUME r.quiet, r.clean, NEW e \in r.ends
          PROVE  /\ Followed(s, e) => mtu[e] = TargetOf(s, e)
                 /\ PodOf(e) \in Guests => guest[e] = TargetOf(s, e)
                 /\ e \in Extra \ removed => e \in addr
      <4>1. OnPod(r, mtu, e) /\ InGuest(r, guest, e) /\ Addressed(r, addr, removed, e)
        BY <1>1, <1>2, <3>1 DEF RecInv, Undisturbed
      <4>2. TargetOf(s, e) = TargetOf(r, e) /\ (Followed(s, e) <=> Followed(r, e))
        BY <2>1 DEF TargetOf, Followed
      <4> QED BY <1>2, <1>11, <4>1, <4>2 DEF OnPod, InGuest, Addressed
    <3> QED BY <2>1, <3>1 DEF Undisturbed
  <2>6. ceiling' = ceiling /\ CeilingSound' /\ namespaceMTU' \in Values
    BY <1>3, <1>10, <1>11 DEF CeilingSound
  <2>7. RecInv(s, fresh, ceiling', misled, mtu, guest, addr, removed)
    BY <2>3, <2>4, <2>5, <2>6 DEF RecInv
  <2> QED BY <1>9, <1>10, <2>1, <2>2, <2>3, <2>6, <2>7
<1>12. CASE /\ r.refused # {} /\ Insists(r)
            /\ pass' = [pass EXCEPT ![p] = Over(r, "failed")]
            /\ UNCHANGED <<ceiling, namespaceMTU, left>>
  <2> DEFINE s == Over(r, "failed")
  <2>1. /\ s \in Request /\ s.st = "failed" /\ s.eff = r.eff /\ s.ends = r.ends
        /\ s.clean = r.clean /\ s.extra = r.extra
    BY <1>1, OverIs
  <2>2. pass' = [pass EXCEPT ![p] = s]
    BY <1>12
  <2> HIDE DEF s
  <2>3. Holds(s) /\ RecInv(s, fresh, ceiling, misled, mtu, guest, addr, removed)
    BY <1>3, <1>7, <2>1
    DEF Holds, HasRead, RecInv, ReadSound, Rounds, Learns, Narrow, Undisturbed
  <2>4. ceiling' = ceiling /\ CeilingSound' /\ namespaceMTU' \in Values
    BY <1>10, <1>12 DEF CeilingSound
  <2>5. RecInv(s, fresh, ceiling', misled, mtu, guest, addr, removed)
    BY <2>3, <2>4
  <2> QED BY <1>9, <1>10, <2>1, <2>2, <2>3, <2>4, <2>5
<1>13. CASE /\ r.refused # {} /\ ~Insists(r)
            /\ ceiling' = Recorded({<<Worker[PodOf(e)], r.have[e]>> : e \in r.refused})
            /\ \/ /\ r.round = 1 /\ UNCHANGED namespaceMTU
                  /\ \E off \in SUBSET removed :
                       HistoryRead(off) /\ pass' = [pass EXCEPT ![p] = Round(r, low, 2, off)]
               \/ /\ r.round = 2 /\ namespaceMTU' = low /\ UNCHANGED left
                  /\ pass' = [pass EXCEPT ![p] = Over([r EXCEPT !.eff = low], "done")]
  <2> DEFINE seen == {<<Worker[PodOf(e)], r.have[e]>> : e \in r.refused}
  <2>1. /\ low \in Values \ {0} /\ low \in Nat /\ low <= r.eff
        /\ \A e \in r.refused : low <= r.have[e]
    BY <1>1, <1>3, <1>5, LoweredIs
  <2> HIDE DEF low
  <2>2. ASSUME NEW e \in r.refused
        PROVE  /\ r.want[e[1]] = 0 /\ TargetOf(r, e) = r.eff /\ Cross(e[1])
               /\ Carried(e) < r.eff /\ Carried(e) < Target
    <3>1. r.want[e[1]] = 0
      BY <1>4, <1>5, <1>13 DEF Insists
    <3>2. TargetOf(r, e) = r.eff
      BY <3>1 DEF TargetOf
    <3>3. Cross(e[1]) /\ r.eff > Carried(e)
      BY <1>5, <3>2 DEF Hopeless, Refuses, Carried
    <3>4. r.eff \in Nat /\ Carried(e) \in Nat /\ Target \in Nat
      BY <1>4, <1>5, <3>2, MTUAssumption
    <3> QED BY <1>3, <3>1, <3>2, <3>3, <3>4
  <2>3. Narrow(r)
    <3>1. PICK e \in r.refused : TRUE
      BY <1>13
    <3> QED BY <1>5, <2>2, <3>1 DEF Narrow
  <2>4. \A y \in seen : \E e \in r.refused : y[1] = Worker[PodOf(e)] /\ y[2] = r.have[e]
    OBVIOUS
  <2>5. ceiling' = Recorded(seen)
    BY <1>13
  <2> HIDE DEF seen
  <2>6. \A y \in seen : y[2] \in Values /\ \A w \in Workers : y[1] = w => y[2] <= Cap[w]
    <3> SUFFICES ASSUME NEW y \in seen
                 PROVE  y[2] \in Values /\ \A w \in Workers : y[1] = w => y[2] <= Cap[w]
      OBVIOUS
    <3>1. PICK e \in r.refused : y[1] = Worker[PodOf(e)] /\ y[2] = r.have[e]
      BY <2>4
    <3>2. r.have[e] \in Values /\ r.have[e] <= Carried(e)
      BY <1>4, <1>5, <2>2
    <3> QED BY <3>1, <3>2 DEF Carried
  <2>7. ASSUME NEW w \in Workers
        PROVE  /\ ceiling' \in [Workers -> Values] /\ ceiling'[w] \in Nat
               /\ ceiling[w] \in Nat /\ Cap[w] \in Nat
               /\ ceiling'[w] <= Cap[w] /\ ceiling[w] <= ceiling'[w]
               /\ ceiling'[w] = ceiling[w] \/ \E y \in seen : y[1] = w /\ y[2] = ceiling'[w]
    <3>1. ceiling' \in [Workers -> Values]
      BY <1>10, <2>5, <2>6, RecordedIs
    <3>2. ceiling'[w] \in Values /\ ceiling[w] \in Values /\ Cap[w] \in Nat
      BY <1>10, <3>1, MTUAssumption
    <3>3. ceiling'[w] \in Nat /\ ceiling[w] \in Nat
      BY <3>2, ValuesAre
    <3> QED BY <1>10, <2>5, <2>6, <3>1, <3>2, <3>3, RecordedIs
  <2>8. ceiling' \in [Workers -> Values]
    <3>1. PICK e \in r.refused : TRUE
      BY <1>13
    <3> QED BY <1>4, <1>5, <2>7, <3>1
  <2>9. CeilingSound' /\ \A w \in Workers : ceiling[w] = Cap[w] => ceiling'[w] = Cap[w]
    BY <2>7 DEF CeilingSound
  <2>10. Recollected(ceiling', misled)
    <3> SUFFICES ASSUME Sure(misled), NEW w \in Workers, ceiling'[w] > 0
                 PROVE  ceiling'[w] = Cap[w] \/ Cap[w] < Target
      BY DEF Recollected
    <3>1. CASE ceiling'[w] = ceiling[w]
      BY <1>10, <3>1 DEF Recollected
    <3>2. CASE \E y \in seen : y[1] = w /\ y[2] = ceiling'[w]
      <4>1. PICK e \in r.refused : w = Worker[PodOf(e)]
        BY <2>4, <3>2
      <4> QED BY <2>2, <4>1 DEF Carried
    <3> QED BY <2>7, <3>1, <3>2
  <2>11. CASE r.round = 1
    <3>10. PICK off \in SUBSET removed : pass' = [pass EXCEPT ![p] = Round(r, low, 2, off)]
      BY <1>13, <2>11
    <3> DEFINE s == Round(r, low, 2, off)
    <3>1. /\ s \in Request
          /\ s.st = "set" /\ s.eff = low /\ s.round = 2 /\ s.refused = {} /\ s.off = off
          /\ s.known = r.known /\ s.ends = r.ends /\ s.want = r.want /\ s.fresh = r.fresh
          /\ s.have = r.have /\ s.quiet = r.quiet /\ s.clean = r.clean /\ s.extra = r.extra
      BY <1>1, <1>8, <2>1, RoundIs
    <3>2. pass' = [pass EXCEPT ![p] = s] /\ namespaceMTU' = namespaceMTU
      BY <1>13, <2>11, <3>10
    <3> HIDE DEF s
    <3>3. low <= Target
      <4>1. r.eff \in Nat /\ Target \in Nat
        BY <1>3, ValuesAre
      <4> QED BY <1>3, <2>1, <4>1
    <3>4. Holds(s) /\ ReadSound(s, fresh)
      BY <1>3, <3>1, <3>3 DEF Holds, HasRead, ReadSound
    <3>5. Learns(s, ceiling', misled)
      <4>1. \A e \in r.ends : Teaches(s, e) <=> Teaches(r, e)
        BY <3>1 DEF Teaches, FreshEnd
      <4>2. Narrow(s)
        BY <2>3, <3>1 DEF Narrow
      <4>3. ASSUME Sure(misled), NEW e \in r.ends, Teaches(r, e), Wide(e)
            PROVE  ceiling'[Worker[PodOf(e)]] = Carried(e)
        <5>1. ceiling[Worker[PodOf(e)]] = Carried(e)
          BY <1>1, <1>2, <4>3 DEF RecInv, Learns
        <5> QED BY <1>4, <2>9, <5>1 DEF Carried
      <4> QED BY <3>1, <4>1, <4>2, <4>3 DEF Learns
    <3>6. ASSUME s.clean, NEW e \in r.ends, Hopeless(s, e) PROVE FALSE
      <4>1. s.have[e] # TargetOf(s, e) /\ Cross(e[1]) /\ TargetOf(s, e) > Carried(e)
        BY <3>6 DEF Hopeless, Refuses, Carried
      <4>2. CASE r.want[e[1]] > 0
        <5>1. TargetOf(s, e) = TargetOf(r, e)
          BY <3>1, <4>2 DEF TargetOf
        <5>2. Hopeless(r, e)
          BY <3>1, <3>6, <5>1 DEF Hopeless
        <5> QED BY <1>6, <1>13, <3>1, <3>6, <4>2, <5>2 DEF Insists
      <4>3. CASE ~(r.want[e[1]] > 0)
        <5>1. TargetOf(s, e) = low /\ TargetOf(r, e) = r.eff
          BY <3>1, <4>3 DEF TargetOf
        <5>2. r.eff > Carried(e) /\ r.have[e] # r.eff
          BY <1>4, <2>1, <4>1, <5>1
        <5>3. Hopeless(r, e)
          BY <4>1, <5>1, <5>2 DEF Hopeless, Refuses, Carried
        <5>4. e \in r.refused
          BY <1>6, <3>1, <3>6, <5>3
        <5>5. low <= r.have[e]
          BY <2>1, <5>4
        <5> QED BY <1>4, <2>1, <4>1, <5>1, <5>5
      <4> QED BY <4>2, <4>3
    <3>7. Rounds(s)
      BY <3>1, <3>6 DEF Rounds
    <3>8. Undisturbed(s, mtu, guest, addr, removed)
      <4>1. ASSUME r.quiet, r.clean, NEW e \in r.ends PROVE InPlace(s, mtu, e)
        <5>1. InPlace(r, mtu, e)
          BY <1>1, <1>2, <4>1 DEF RecInv, Undisturbed
        <5>2. Followed(s, e) => r.want[e[1]] > 0
          BY <3>1 DEF Followed
        <5>3. r.want[e[1]] > 0 => TargetOf(s, e) = TargetOf(r, e) /\ Followed(r, e)
          BY <3>1 DEF TargetOf, Followed
        <5> QED BY <3>1, <5>1, <5>2, <5>3 DEF InPlace
      <4>2. Undisturbed(Round(r, low, 2, off), mtu, guest, addr, removed)
        BY <1>1, <1>3, <1>8, <2>1, <4>1, RoundStarts DEF s
      <4> QED BY <4>2 DEF s
    <3>9. RecInv(s, fresh, ceiling', misled, mtu, guest, addr, removed)
      BY <3>4, <3>5, <3>7, <3>8 DEF RecInv
    <3> QED BY <1>9, <1>10, <2>8, <2>9, <2>10, <3>1, <3>2, <3>4, <3>9
  <2>12. CASE r.round = 2
    <3> DEFINE o == [r EXCEPT !.eff = low]
               s == Over(o, "done")
    <3>1. o \in Request
      BY <1>1, <2>1 DEF Request
    <3>2. o.ends = r.ends /\ o.want = r.want /\ o.eff = low /\ o.clean = r.clean /\ o.extra = r.extra
      BY <1>1 DEF Request
    <3> HIDE DEF o
    <3>3. /\ s \in Request /\ s.st = "done" /\ s.known = FALSE /\ s.ends = o.ends
          /\ s.want = o.want /\ s.eff = o.eff /\ s.clean = o.clean /\ s.extra = o.extra
      BY <3>1, OverIs
    <3>4. pass' = [pass EXCEPT ![p] = s] /\ namespaceMTU' = low
      BY <1>13, <2>12 DEF o
    <3> HIDE DEF s
    <3>5. ~r.clean
      <4>1. PICK e \in r.refused : TRUE
        BY <1>13
      <4> QED BY <1>5, <1>6, <2>12, <4>1
    <3>6. low <= Target
      <4>1. r.eff \in Nat /\ Target \in Nat
        BY <1>3, ValuesAre
      <4> QED BY <1>3, <2>1, <4>1
    <3>7. Holds(s) /\ RecInv(s, fresh, ceiling', misled, mtu, guest, addr, removed)
      BY <1>3, <2>3, <3>2, <3>3, <3>5, <3>6
      DEF Holds, HasRead, RecInv, ReadSound, Learns, Narrow, Rounds, Undisturbed
    <3> QED BY <1>9, <2>1, <2>8, <2>9, <2>10, <3>3, <3>4, <3>7
  <2> QED BY <1>3, <2>11, <2>12
<1> QED BY <1>11, <1>12, <1>13 DEF EndRound

----------------------------------------------------------------------------
(* The invariant, and what it says.                                         *)

\* The invariant holds at first, and every step keeps it.
LEMMA MTUInit ==
  ASSUME Parameters, Init
  PROVE  MTUInv
<1>1. rows \in Given /\ rows \subseteq [end : Ends, mtu : Asked]
  BY DEF Parameters, Init
<1>2. ASSUME NEW e \in Ends
      PROVE  /\ mtu[e] = IF WantOf(e[1]) > 0 THEN WantOf(e[1]) ELSE Fits
             /\ WantOf(e[1]) \in Values /\ WantOf(e[1]) \in Nat /\ mtu[e] \in Values \ {0}
  <2>1. mtu[e] = IF WantOf(e[1]) > 0 THEN WantOf(e[1]) ELSE Fits
    BY DEF Init
  <2>2. WantOf(e[1]) \in Asked \cup {0}
    BY <1>1, WantIs, EndIs
  <2>3. WantOf(e[1]) \in Values /\ WantOf(e[1]) \in Nat
    BY <2>2, ValuesAre
  <2> QED BY <2>1, <2>3, FitsIs
<1>3. mtu \in [Ends -> Values \ {0}]
  <2>1. mtu = [e \in Ends |-> mtu[e]]
    BY DEF Init
  <2> QED BY <1>2, <2>1
<1>4. guest \in [Ends -> Values]
  BY <1>3, ValuesAre DEF Init
<1>5. Bounded(mtu)
  <2> SUFFICES ASSUME NEW e \in Ends, Cross(e[1]) PROVE mtu[e] <= Carried(e)
    BY DEF Bounded
  <2>1. CASE WantOf(e[1]) > 0
    <3>1. PICK x \in rows : x.end[1] = e[1] /\ WantOf(e[1]) = x.mtu
      BY <1>1, <2>1, WantIs, EndIs
    <3>2. ~Refuses(e, x.mtu)
      BY <1>1, <3>1 DEF Parameters
    <3>3. ~(mtu[e] > Carried(e))
      BY <1>2, <2>1, <3>1, <3>2 DEF Refuses, Carried
    <3> QED BY <1>2, <2>1, <3>3, EndIs
  <2>2. CASE ~(WantOf(e[1]) > 0)
    BY <1>2, <2>2, FitsIs
  <2> QED BY <2>1, <2>2
<1>6. ASSUME NEW w \in Workers
      PROVE  /\ ceiling[w] \in {0, Cap[w]} /\ Cap[w] \in Nat
             /\ fresh = {} \/ \A e \in Ends : Cross(e[1]) /\ Worker[PodOf(e)] = w => ceiling[w] = Cap[w]
  BY MTUAssumption DEF Init
<1>7. ceiling \in [Workers -> Values]
  <2>1. \A w \in Workers : ceiling[w] \in Values
    BY <1>6, ValuesAre DEF Values
  <2>2. ceiling = [w \in Workers |-> ceiling[w]]
    BY DEF Init
  <2> QED BY <2>1, <2>2
<1>8. CeilingSound /\ Recollected(ceiling, misled)
  <2>1. CeilingSound
    BY <1>6 DEF CeilingSound
  <2>2. Recollected(ceiling, misled)
    BY <1>6 DEF Recollected
  <2> QED BY <2>1, <2>2
<1>9. DevicesTell(mtu, fresh, ceiling, misled)
  <2>1. \A e \in Ends : Worker[PodOf(e)] \in Workers
    BY EndIs, MTUAssumption
  <2> QED BY <1>6, <2>1 DEF DevicesTell, Shows, Carried
<1>10. Removals
  BY DEF Init, Removals
<1>11. \A p \in Procs : pass[p] = Idle
  BY DEF Init
<1>12. pass \in [Procs -> Request]
  <2>1. pass = [p \in Procs |-> Idle]
    BY DEF Init
  <2> QED BY <2>1, IdleIs
<1>13. \A p \in Procs : /\ Holds(pass[p])
                        /\ RecInv(pass[p], fresh, ceiling, misled, mtu, guest, addr, removed)
  BY <1>11, IdleIs
<1>14. \A p \in Procs : pass[p].round \in {1, 2} /\ pass[p].eff \in Values \ {0}
  BY <1>12 DEF Request
<1>15. /\ addr \subseteq Extra /\ removed \subseteq Extra /\ running \subseteq Pods
       /\ fresh \subseteq Pods /\ misled \subseteq {"read", "wiring", "address"}
       /\ left \in 0 .. MaxEvents /\ namespaceMTU \in Values
  BY FitsIs, ValuesAre, MTUAssumption DEF Init
<1>16. TypeOK
  BY <1>1, <1>3, <1>4, <1>7, <1>14, <1>15 DEF TypeOK
<1> QED BY <1>5, <1>8, <1>9, <1>10, <1>12, <1>13, <1>16 DEF MTUInv, Typed

\* Each action keeps the invariant.
LEMMA MTUNext ==
  ASSUME MTUInv, [Next]_vars
  PROVE  MTUInv'
<1>1. CASE UNCHANGED vars
  BY <1>1 DEF vars, MTUInv, Typed, TypeOK, CeilingSound, Removals
<1>2. CASE Next
  <2>1. ASSUME NEW p \in Procs,
               RestartRequest(p) \/ HealRequest(p) \/ DeployRequest(p) \/ ConfigureRequest(p)
        PROVE  MTUInv'
    BY <2>1, RequestsKept
  <2>2. ASSUME NEW p \in Procs, Step(p) PROVE MTUInv'
    BY <2>2, RowsKept, ListKept, ListFailsKept, ReadPodsKept, SettleKept, SetPodKept, SetGuestKept, EndRoundKept
    DEF Step
  <2>3. ASSUME NEW e \in Ends, RemoveIP(e) \/ SetIP(e) PROVE MTUInv'
    BY <2>3, AddressesKept
  <2>4. ASSUME NEW x \in Pods, PodUp(x) PROVE MTUInv'
    BY <2>4, PodUpKept
  <2> QED BY <1>2, <2>1, <2>2, <2>3, <2>4, CrashKept DEF Next
<1> QED BY <1>1, <1>2

\* The invariant holds in every reachable state.
LEMMA MTUInvariant == ASSUME Parameters PROVE Spec => []MTUInv
<1>1. Init => MTUInv
  BY MTUInit
<1>2. MTUInv /\ [Next]_vars => MTUInv'
  BY MTUNext
<1> QED BY <1>1, <1>2, PTL DEF Spec

\* A pass that warned of nothing and was not disturbed leaves what it covered
\* as the topology, the rows, the settled value and the pods' histories ask
\* for, on both interfaces of every link and inside the guests
\* (ApplyPlatformMTU, setLinkMTUs, setGuestLinks).
THEOREM PassesTakeEffect == ASSUME Parameters PROVE Spec => []PassInForce
<1>1. ASSUME MTUInv, NEW p \in Procs, Just(p), pass[p].clean, NEW e \in pass[p].ends
      PROVE  /\ Followed(pass[p], e) => mtu[e] = TargetOf(pass[p], e)
             /\ PodOf(e) \in Guests => guest[e] = TargetOf(pass[p], e)
             /\ e \in Extra \ removed => e \in addr
             /\ e \in Ends /\ pass[p].want[e[1]] \in Nat
  <2>1. /\ pass[p] \in Request /\ Holds(pass[p]) /\ pass[p].st = "done" /\ pass[p].quiet
        /\ Undisturbed(pass[p], mtu, guest, addr, removed)
    BY <1>1 DEF MTUInv, Typed, RecInv, Just, At
  <2>2. e \in Ends /\ pass[p].want \in [Links -> Asked \cup {0}]
    BY <2>1 DEF Request, Holds
  <2>3. pass[p].want[e[1]] \in Nat
    BY <2>1, <2>2, TargetIs
  <2> QED BY <1>1, <2>1, <2>2, <2>3 DEF Undisturbed
<1>2. ASSUME MTUInv PROVE DeclaredInForce
  BY <1>1, <1>2 DEF DeclaredInForce, Followed, TargetOf
<1>3. ASSUME MTUInv PROVE SettledInForce
  BY <1>1, <1>3 DEF SettledInForce, Followed, TargetOf
<1>4. ASSUME MTUInv PROVE AddressesInForce
  BY <1>1, <1>4 DEF AddressesInForce, MTUInv, Removals
<1>5. MTUInv => PassInForce
  BY <1>2, <1>3, <1>4 DEF PassInForce, MTUInv, Typed
<1> QED BY <1>5, MTUInvariant, PTL

\* The platform's value is lowered only for a worker that cannot carry it, and
\* no ceiling on record exceeds what its worker carries (settleMTU,
\* recordWorkerCeiling), as long as no read failed and no pod was wired anew
\* under a pass.
THEOREM LoweringIsJustified == ASSUME Parameters PROVE Spec => []LoweringJustified
<1>1. MTUInv => LoweringJustified
  BY DEF MTUInv, RecInv, Learns, Sure, Narrow, Carried, LoweringJustified, LoweredOnlyIfNeeded
<1> QED BY <1>1, MTUInvariant, PTL

\* A pass that warned of nothing ends without a refusal: the second round is
\* enough, whatever the other requests do meanwhile.
THEOREM SecondRoundIsEnough == ASSUME Parameters PROVE Spec => []TwoRoundsEnough
<1>1. MTUInv => TwoRoundsEnough
  BY DEF MTUInv, RecInv, Rounds, TwoRoundsEnough, At
<1> QED BY <1>1, MTUInvariant, PTL

============================================================================
