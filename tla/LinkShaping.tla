---------------------------- MODULE LinkShaping ----------------------------
(***************************************************************************)
(* Shaping the links: the links section of a configure request becomes one  *)
(* action per end, each validated and turned into the lines of one `tc -b`  *)
(* batch, run by the pod's own tc or in its toolbox, recorded when it       *)
(* succeeds, replayed when the pod is recreated and read back as a tree.    *)
(*                                                                         *)
(* A shaping request is a record: the fields it gives, those of them above  *)
(* zero, the link rate and the classes of an htb tree.  A match of a class  *)
(* is the set of packet kinds its flower keys select.  Requests for one     *)
(* interface do not overlap here; what overlapping configure requests do to *)
(* the records of a pod is module OperationHistory.                         *)
(***************************************************************************)
EXTENDS NamespacePods, Integers, Sequences, FiniteSets, SequencesExt, Functions

CONSTANTS
  Links,        \* links; Joins[l] is <<pod, pod>>, or <<pod>> for a host uplink
  Joins,
  Entries,      \* shaping requests (TCParamEntry) that users make
  Reverses,     \* those of them that also serve as the reverse shaping
  Named,        \* ends that requests name
  Packets,      \* kinds of packet the matches tell apart
  Images,       \* Images[pod]: whether its image ships tc, per incarnation
  Tools,        \* sessions of users: captures, traces and reads of the shaping
  ToolPod,      \* ToolPod[t]: the pod session t is on
  MaxRequests   \* bound: requests, recreations and sessions in a behaviour

Ends == {<<l, i>> : l \in Links, i \in {1, 2}} \ {<<l, 2>> : l \in {m \in Links : Len(Joins[m]) = 1}}
PodOf(e) == Joins[e[1]][e[2]]
HasPeer(e) == Len(Joins[e[1]]) = 2
Peer(e) == <<e[1], 3 - e[2]>>
Users == Ends \cup Tools
PodOfUser(u) == IF u \in Tools THEN ToolPod[u] ELSE PodOf(u)

ASSUME ShapingAssumption ==
  /\ \A l \in Links : Joins[l] \in Seq(Pods) /\ Len(Joins[l]) \in {1, 2}
  /\ Images \in [Pods -> (SUBSET BOOLEAN) \ {{}}] /\ ToolPod \in [Tools -> Pods]
  /\ Reverses \subseteq Entries /\ MaxRequests \in Nat
  /\ Ends \cap Tools = {} /\ None \notin Users /\ None \notin [act : Entries, here : BOOLEAN]

\* Requests are what parsing their JSON leaves: classes and matches are lists,
\* the fields above zero are among those given, and the distribution, a name, is
\* not one of them.
Parsed(p) == p.pos \subseteq p.given /\ "distribution" \notin p.pos

ASSUME EntriesAssumption ==
  \A p \in Entries :
    /\ Parsed(p) /\ p.classes \in Seq(Range(p.classes))
    /\ \A i \in DOMAIN p.classes :
         /\ p.classes[i].shaping # None => Parsed(p.classes[i].shaping)
         /\ p.classes[i].default \in BOOLEAN
         /\ p.classes[i].match \in Seq(SUBSET Packets)

VARIABLES
  dev,      \* dev[e]: what the kernel has on the root of the interface of end e
  row,      \* row[e]: the add_qdisc on record for it, or None
  use,      \* use[u]: what user u of a pod is doing
  hasTC,    \* hasTC[pod]: whether its image ships tc
  choice,   \* tcUseToolbox: "unknown", "own" or "toolbox" per pod
  box,      \* box[pod]: toolboxes of the pod, [starting, running]
  lock,     \* toolboxLocks: the user that holds the pod's, or None
  torn,     \* (history variable) ends whose last batch failed half-way
  tried,    \* (history variable) tried[e]: the lines of the batch that left it so
  refused,  \* (history variable) the kernel refused a line of a valid request
  stuck,    \* (history variable) pods a toolbox of which was given up on or not seen
  left      \* requests, recreations and sessions still to come

shapingVars == <<dev, row, use, hasTC, choice, box, lock, torn, tried, refused, stuck, left>>
ghosts == <<torn, tried, refused>>
toolbox == <<choice, box, lock, stuck>>

----------------------------------------------------------------------------
(* Validation: buildShapingCommands and what it calls.                      *)

\* Fields that need another one above zero.
Needs == [jitter |-> "delay", delay_correlation |-> "jitter", loss_correlation |-> "loss",
          reorder |-> "delay", reorder_correlation |-> "reorder"]
TBFFields == {"burst", "latency"}

\* mutant: reorder without a delay
NetemValidLoose(p) ==
  /\ p.given \cap TBFFields = {}
  /\ \A f \in p.pos \cap (DOMAIN Needs \ {"reorder"}) : Needs[f] \in p.pos
  /\ "distribution" \in p.given => "jitter" \in p.pos
  /\ "rate" \in p.given => "rate" \in p.pos

NetemValid(p) ==
  /\ p.given \cap TBFFields = {}
  /\ \A f \in p.pos \cap DOMAIN Needs : Needs[f] \in p.pos
  /\ "distribution" \in p.given => "jitter" \in p.pos
  /\ ~("gemodel" \in p.given /\ "loss" \in p.pos)
  /\ "rate" \in p.given => "rate" \in p.pos

TBFValid(p) ==
  /\ p.given \subseteq TBFFields \cup {"rate"}
  /\ "rate" \in p.pos /\ p.given = p.pos

\* leafQdiscArgs: the queue of a class is a netem exactly when it has a shaping.
LeafValid(c) ==
  /\ c.queue \in {"", "pfifo", "fq_codel", "sfq", "netem"}
  /\ (c.shaping # None) => c.queue \in {"", "netem"} /\ NetemValid(c.shaping)
                           /\ "rate" \notin c.shaping.given
  /\ (c.queue = "netem") => c.shaping # None

Ceil(p, c) == IF c.ceil > 0 THEN c.ceil ELSE p.link
Rates(p) == FoldFunctionOnSet(+, 0, [i \in DOMAIN p.classes |-> p.classes[i].rate], DOMAIN p.classes)
IsDefault(p, i) == p.classes[i].default

HTBValid(p) ==
  /\ p.given \subseteq {"rate", "delay_correlation", "loss_correlation", "reorder_correlation"}
  /\ p.link > 0 /\ p.classes # <<>>
  /\ \A i \in DOMAIN p.classes : LET c == p.classes[i] IN
       /\ c.rate > 0 /\ c.rate <= p.link
       /\ Ceil(p, c) <= p.link /\ c.rate <= Ceil(p, c)
       /\ ~c.default => c.match # <<>>
       /\ {} \notin Range(c.match)
       /\ LeafValid(c)
  /\ Cardinality({i \in DOMAIN p.classes : IsDefault(p, i)}) = 1
  /\ Rates(p) <= p.link

Valid(p) == CASE p.qdisc = "htb" -> HTBValid(p)
              [] p.qdisc = "netem" -> p.classes = <<>> /\ NetemValid(p)
              [] p.qdisc = "tbf" -> p.classes = <<>> /\ TBFValid(p)
              [] OTHER -> FALSE

----------------------------------------------------------------------------
(* The lines of a batch.                                                    *)

Reset == [op |-> "reset"]
Delete == [op |-> "del"]
Qdisc(kind, par, def) == [op |-> "qdisc", kind |-> kind, par |-> par, def |-> def]
Class(minor, parent, rate, ceil) ==
  [op |-> "class", minor |-> minor, parent |-> parent, rate |-> rate, ceil |-> ceil]
Leaf(minor, kind, par) == [op |-> "leaf", minor |-> minor, kind |-> kind, par |-> par]
Filter(prio, match, minor) == [op |-> "filter", prio |-> prio, match |-> match, minor |-> minor]

tcMinorBase == 10
Minor(i) == tcMinorBase + i

\* The fields that reach tc: zero means none and is left out.
NetemArgs(p) == p.pos \cup (p.given \cap {"gemodel", "distribution"})
TBFArgs(p) == {"rate"} \cup TBFFields

LeafKind(c) == IF c.shaping # None THEN "netem" ELSE IF c.queue = "" THEN "pfifo" ELSE c.queue
LeafArgs(c) == IF c.shaping # None THEN NetemArgs(c.shaping) ELSE {}

\* The matches of all classes in request order, with the class of each.
Matches(p) ==
  FlattenSeq([i \in DOMAIN p.classes |->
    [j \in DOMAIN p.classes[i].match |->
       [match |-> p.classes[i].match[j], minor |-> Minor(i)]]])

\* mutant: the filters get the number of their class as priority, last first
HTBRowsReversed(p) ==
  LET n == Len(p.classes)
      def == Minor(CHOOSE i \in 1 .. n : IsDefault(p, i))
      m == Matches(p)
  IN <<Reset, Qdisc("htb", {}, def), Class(1, 0, p.link, p.link)>>
     \o [i \in 1 .. n |-> Class(Minor(i), 1, p.classes[i].rate, Ceil(p, p.classes[i]))]
     \o [i \in 1 .. n |-> Leaf(Minor(i), LeafKind(p.classes[i]), LeafArgs(p.classes[i]))]
     \o [k \in DOMAIN m |-> Filter(Len(m) + 1 - k, m[k].match, m[k].minor)]

\* htbCommands: the root, the class of the link rate, the classes, their leaves
\* and the filters.
HTBRows(p) ==
  LET n == Len(p.classes)
      def == Minor(CHOOSE i \in 1 .. n : IsDefault(p, i))
      m == Matches(p)
  IN <<Reset, Qdisc("htb", {}, def), Class(1, 0, p.link, p.link)>>
     \o [i \in 1 .. n |-> Class(Minor(i), 1, p.classes[i].rate, Ceil(p, p.classes[i]))]
     \o [i \in 1 .. n |-> Leaf(Minor(i), LeafKind(p.classes[i]), LeafArgs(p.classes[i]))]
     \o [k \in DOMAIN m |-> Filter(k, m[k].match, m[k].minor)]

\* mutant: replace without a reset first
ClasslessRowsBare(p) ==
  <<Qdisc(p.qdisc, IF p.qdisc = "tbf" THEN TBFArgs(p) ELSE NetemArgs(p), 0)>>

\* buildAddQdiscCommand
ClasslessRows(p) ==
  <<Reset, Qdisc(p.qdisc, IF p.qdisc = "tbf" THEN TBFArgs(p) ELSE NetemArgs(p), 0)>>

\* The batch of an action: an add_qdisc of an entry, or a del_qdisc.
DelQdisc == [qdisc |-> "none", given |-> {}, pos |-> {}, link |-> 0, classes |-> <<>>]
Rows(act) ==
  IF act = DelQdisc THEN <<Reset, Delete>>
  ELSE IF act.qdisc = "htb" THEN HTBRows(act) ELSE ClasslessRows(act)

----------------------------------------------------------------------------
(* The kernel, as far as these lines go.                                    *)

Unshaped == [kind |-> "default", par |-> {}, def |-> 0, class |-> <<>>, leaf |-> <<>>,
             filter |-> {}]

Put(f, x, v) == [y \in DOMAIN f \cup {x} |-> IF y = x THEN v ELSE f[y]]

\* tc and netem refuse what has nothing to act on.
TCAccepts(par) ==
  /\ \A f \in par \cap DOMAIN Needs : Needs[f] \in par
  /\ "distribution" \in par => "jitter" \in par
  /\ ~({"gemodel", "loss"} \subseteq par)

Accepts(t, r) ==
  CASE r.op = "reset" -> TRUE
    [] r.op = "del" -> t.kind # "default"
    [] r.op = "qdisc" -> TCAccepts(r.par)
    [] r.op = "class" -> /\ t.kind = "htb" /\ r.minor \notin DOMAIN t.class
                         /\ r.parent = 0 \/ r.parent \in DOMAIN t.class
    [] r.op = "leaf" -> r.minor \in DOMAIN t.class /\ TCAccepts(r.par)
    [] r.op = "filter" -> t.kind = "htb" /\ \A f \in t.filter : f.prio # r.prio

\* A replace over a qdisc of the same kind changes it in place.
Applied(t, r) ==
  CASE r.op = "reset" -> [Unshaped EXCEPT !.kind = "noqueue"]
    [] r.op = "del" -> Unshaped
    [] r.op = "qdisc" -> IF t.kind = r.kind THEN [t EXCEPT !.par = @ \cup r.par, !.def = r.def]
                         ELSE [Unshaped EXCEPT !.kind = r.kind, !.par = r.par, !.def = r.def]
    [] r.op = "class" -> [t EXCEPT !.class = Put(@, r.minor, [rate |-> r.rate, ceil |-> r.ceil])]
    [] r.op = "leaf" -> [t EXCEPT !.leaf = Put(@, r.minor, [kind |-> r.kind, par |-> r.par])]
    [] r.op = "filter" -> [t EXCEPT !.filter = @ \cup
                             {[prio |-> r.prio, match |-> r.match, minor |-> r.minor]}]

\* The class a packet is sent to: that of the matching filter of least
\* priority, else the default.
Classify(t, x) ==
  LET hits == {f \in t.filter : x \in f.match}
  IN IF hits = {} THEN t.def
     ELSE (CHOOSE f \in hits : \A g \in hits : f.prio <= g.prio).minor

----------------------------------------------------------------------------
(* Requests.                                                                *)

Rest == [st |-> "idle", act |-> None, rows |-> <<>>, replay |-> FALSE]
Busy(u) == use[u].st # "idle"
Start(act, replay) == [st |-> "tc", act |-> act, rows |-> Rows(act), replay |-> replay]

ShapingInit ==
  /\ dev = [e \in Ends |-> Unshaped] /\ row = [e \in Ends |-> None]
  /\ use = [u \in Users |-> Rest]
  /\ hasTC \in [Pods -> BOOLEAN] /\ \A x \in Pods : hasTC[x] \in Images[x]
  /\ choice = [x \in Pods |-> "unknown"]
  /\ box = [x \in Pods |-> [starting |-> 0, running |-> 0]]
  /\ lock = [x \in Pods |-> None]
  /\ torn = {} /\ tried = [e \in Ends |-> <<>>] /\ refused = FALSE /\ stuck = {}
  /\ left = MaxRequests

\* expandLinkShaping: the actions on the two ends of the link that e names.
\* how: "one", "symmetric", "reverse" or "remove".
LinkValid(e, how) == how \in {"symmetric", "reverse"} => HasPeer(e)

Expanded(e, how, p, r) ==
  LET far == IF HasPeer(e) THEN {Peer(e)} ELSE {}
  IN CASE how = "remove" -> [x \in {e} \cup far |-> DelQdisc]
       [] how = "one" -> [x \in {e} |-> p]
       [] how = "symmetric" -> [x \in {e} \cup far |-> p]
       [] how = "reverse" -> [x \in {e} \cup far |-> IF x = e THEN p ELSE r]

\* A configure request of one link: every action is planned, an invalid one
\* and one that is on record for this incarnation are dropped, the others run
\* pod by pod in parallel.
ConfigureLink(e, how, p, r) ==
  LET acts == Expanded(e, how, p, r)
      plan == {x \in DOMAIN acts :
                 \/ acts[x] = DelQdisc
                 \/ Valid(acts[x]) /\ row[x] # [act |-> acts[x], here |-> TRUE]}
  IN /\ left > 0 /\ LinkValid(e, how) /\ \A x \in Ends : ~Busy(x)
     /\ use' = [u \in Users |-> IF u \in plan THEN Start(acts[u], FALSE) ELSE use[u]]
     /\ left' = left - 1
     /\ UNCHANGED <<dev, row, hasTC, toolbox, ghosts>>

\* The pod is recreated, by a restart or by a modify that changes its image:
\* its interfaces and the ones facing it are new, and what is on record for
\* them is replayed.  Its toolbox went with it.
Recreate(x) ==
  LET new == {e \in Ends : PodOf(e) = x \/ (HasPeer(e) /\ PodOf(Peer(e)) = x)}
  IN /\ left > 0 /\ \A u \in Users : PodOfUser(u) = x => ~Busy(u)
     /\ \A e \in new : ~Busy(e)
     /\ \E has \in Images[x] : hasTC' = [hasTC EXCEPT ![x] = has]
     /\ dev' = [e \in Ends |-> IF e \in new THEN Unshaped ELSE dev[e]]
     /\ row' = [e \in Ends |-> IF PodOf(e) = x /\ row[e] # None
                               THEN [row[e] EXCEPT !.here = FALSE] ELSE row[e]]
     /\ use' = [u \in Users |-> IF u \in new /\ row[u] # None
                                THEN Start(row[u].act, TRUE) ELSE use[u]]
     /\ torn' = torn \ new
     /\ box' = [box EXCEPT ![x] = [starting |-> 0, running |-> 0]]
     /\ stuck' = stuck \ {x}
     /\ left' = left - 1
     /\ UNCHANGED <<choice, lock, tried, refused>>

\* A capture or a trace on the pod, which runs in its toolbox.
Session(t) ==
  /\ left > 0 /\ ~Busy(t) /\ left' = left - 1
  /\ use' = [use EXCEPT ![t].st = "ensure"]
  /\ UNCHANGED <<dev, row, hasTC, toolbox, ghosts>>

\* A user asks for the shaping of an interface or of a pod, which takes the
\* same road as a batch.
GetQdisc(t) ==
  /\ left > 0 /\ ~Busy(t) /\ left' = left - 1
  /\ use' = [use EXCEPT ![t].st = "tc"]
  /\ UNCHANGED <<dev, row, hasTC, toolbox, ghosts>>

----------------------------------------------------------------------------
(* Where tc runs.                                                           *)

\* findRunningToolbox: whether one runs; a pod that cannot be looked at has none.
Found(x) == {box[x].running > 0} \cup (IF "look" \in Faults THEN {FALSE} ELSE {})

\* runTCWith: the toolbox if one runs at first contact or was chosen before,
\* else the pod's own tc, and the toolbox when that turns out to be missing.
\* The pod's own tc is remembered once a batch has gone through it.
ChooseTC(u) ==
  LET x == PodOfUser(u)
      toBox(seen) == choice[x] = "toolbox" \/ (choice[x] = "unknown" /\ seen) \/ ~hasTC[x]
  IN /\ use[u].st = "tc"
     /\ \E seen \in Found(x) :
          /\ choice' = IF toBox(seen) THEN [choice EXCEPT ![x] = "toolbox"] ELSE choice
          /\ use' = [use EXCEPT ![u].st = IF toBox(seen) THEN "ensure" ELSE "own"]
     /\ UNCHANGED <<dev, row, hasTC, box, lock, stuck, ghosts, left>>

\* runTCJSON, runTCJSONBatch: a read through the pod's own tc answers, or that
\* tc predates -j and the pod is sent to its toolbox from then on.
RunTCJSON(t) ==
  /\ use[t].st = "own"
  /\ \/ /\ choice' = [choice EXCEPT ![ToolPod[t]] = "own"]
        /\ use' = [use EXCEPT ![t] = Rest]
     \/ /\ choice' = [choice EXCEPT ![ToolPod[t]] = "toolbox"]
        /\ use' = [use EXCEPT ![t].st = "ensure"]
  /\ UNCHANGED <<dev, row, hasTC, box, lock, stuck, ghosts, left>>

\* What follows when the toolbox is there, and when it cannot be had: a
\* replayed operation that fails is pruned.
Ready(u) == IF u \in Tools THEN Rest ELSE [use[u] EXCEPT !.st = "rows"]
Pruned(u) == IF u \in Ends /\ use[u].replay THEN [row EXCEPT ![u] = None] ELSE row

\* mutant: the lock is not taken
FreeAnyway(x) == TRUE

\* toolboxLocks of pod x can be taken.
Free(x) == lock[x] = None

\* EnsureToolbox: under the pod's lock, a running toolbox or a new one, which the
\* API may refuse to add to the pod.
Ensure(u) ==
  LET x == PodOfUser(u)
  IN /\ use[u].st = "ensure" /\ Free(x)
     /\ \/ /\ TRUE \in Found(x)
           /\ use' = [use EXCEPT ![u] = Ready(u)]
           /\ UNCHANGED <<row, box, lock, stuck>>
        \/ /\ FALSE \in Found(x)
           /\ box' = [box EXCEPT ![x].starting = @ + 1]
           /\ lock' = [lock EXCEPT ![x] = u]
           /\ use' = [use EXCEPT ![u].st = "wait"]
           /\ stuck' = IF box[x].running = 0 THEN stuck ELSE stuck \cup {x}
           /\ UNCHANGED row
        \/ /\ FALSE \in Found(x) /\ "pull" \in Faults
           /\ use' = [use EXCEPT ![u] = Rest]
           /\ row' = Pruned(u)
           /\ UNCHANGED <<box, lock, stuck>>
     /\ UNCHANGED <<dev, hasTC, choice, ghosts, left>>

\* waitToolboxRunning, which gives up on a pull error, on a pod it cannot look at
\* and on its deadline.
Await(u) ==
  LET x == PodOfUser(u)
  IN /\ use[u].st = "wait"
     /\ lock' = [lock EXCEPT ![x] = None]
     /\ \/ /\ box[x].running > 0
           /\ use' = [use EXCEPT ![u] = Ready(u)]
           /\ UNCHANGED <<row, stuck>>
        \/ /\ "pull" \in Faults
           /\ use' = [use EXCEPT ![u] = Rest]
           /\ row' = Pruned(u)
           /\ stuck' = IF box[x].running > 0 THEN stuck ELSE stuck \cup {x}
     /\ UNCHANGED <<dev, hasTC, choice, box, ghosts, left>>

\* The kubelet starts a toolbox; its sleeper ends after a day.
BoxStarts(x) ==
  /\ box[x].starting > 0
  /\ box' = [box EXCEPT ![x] = [starting |-> @.starting - 1, running |-> @.running + 1]]
  /\ UNCHANGED <<dev, row, use, hasTC, choice, lock, stuck, ghosts, left>>

BoxEnds(x) ==
  /\ box[x].running > 0 /\ \A u \in Users : PodOfUser(u) = x => use[u].st \in {"idle", "tc", "own", "ensure"}
  /\ box' = [box EXCEPT ![x].running = @ - 1]
  /\ UNCHANGED <<dev, row, use, hasTC, choice, lock, stuck, ghosts, left>>

----------------------------------------------------------------------------
(* Running a batch.                                                         *)

\* One line.  tc stops at the first that fails; an operation that fails is not
\* recorded, and pruned when it was being replayed.
RunLine(e) ==
  LET rows == use[e].rows
      ok == Accepts(dev[e], Head(rows))
  IN /\ use[e].st \in {"rows", "own"} /\ rows # <<>>
     /\ \/ /\ ok
           /\ dev' = [dev EXCEPT ![e] = Applied(@, Head(rows))]
           /\ use' = [use EXCEPT ![e].rows = Tail(@)]
           /\ torn' = torn \cup {e}
           /\ tried' = IF rows = Rows(use[e].act) THEN [tried EXCEPT ![e] = rows] ELSE tried
           /\ UNCHANGED <<row, refused>>
        \/ /\ "tc" \in Faults \/ ~ok
           /\ use' = [use EXCEPT ![e] = Rest]
           /\ row' = Pruned(e)
           /\ refused' = (refused \/ ~ok)
           /\ UNCHANGED <<dev, torn, tried>>
     /\ UNCHANGED <<hasTC, toolbox, left>>

\* SaveDriverOperation: a del_qdisc clears the row.
Saved(r, old) == IF r.replay THEN old
                 ELSE IF r.act = DelQdisc THEN None ELSE [act |-> r.act, here |-> TRUE]

\* The batch is through.
Finish(e) ==
  LET r == use[e]
  IN /\ r.st \in {"rows", "own"} /\ r.rows = <<>>
     /\ choice' = IF r.st = "own" THEN [choice EXCEPT ![PodOf(e)] = "own"] ELSE choice
     /\ row' = [row EXCEPT ![e] = Saved(r, @)]
     /\ use' = [use EXCEPT ![e] = Rest]
     /\ torn' = torn \ {e} /\ tried' = [tried EXCEPT ![e] = <<>>]
     /\ UNCHANGED <<dev, hasTC, box, lock, stuck, refused, left>>

ShapingNext ==
  \/ \E e \in Named, p \in Entries :
       \/ ConfigureLink(e, "one", p, p)
       \/ ConfigureLink(e, "symmetric", p, p)
       \/ \E r \in Reverses : ConfigureLink(e, "reverse", p, r)
  \/ \E e \in Named : ConfigureLink(e, "remove", None, None)
  \/ \E x \in Pods : Recreate(x) \/ BoxStarts(x) \/ BoxEnds(x)
  \/ \E t \in Tools : Session(t) \/ GetQdisc(t) \/ RunTCJSON(t)
  \/ \E e \in Ends : RunLine(e) \/ Finish(e)
  \/ \E u \in Users : ChooseTC(u) \/ Ensure(u) \/ Await(u)

ShapingSpec == ShapingInit /\ [][ShapingNext]_shapingVars

----------------------------------------------------------------------------
(* Reading it back.                                                         *)

\* readNetemOptions, readTBFOptions: the parameters above zero, each under the
\* one it belongs to; tc does not print a distribution.
Under == [jitter |-> "delay", delay_correlation |-> "delay", loss_correlation |-> "loss",
          reorder_correlation |-> "reorder"]
ReadOptions(q) ==
  CASE q.kind = "netem" -> {f \in q.par \ {"distribution"} : f \in DOMAIN Under => Under[f] \in q.par}
    [] q.kind = "tbf" -> q.par
    [] OTHER -> {}

\* ParseTCQdiscJSON: the root qdisc.
ParseTCQdiscJSON(t) ==
  [kind |-> t.kind, par |-> ReadOptions(t), shaped |-> t.kind \notin {"noqueue", "default"}]

\* Filters in the order the kernel lists them.
ByPriority(filters) ==
  CHOOSE order \in [1 .. Cardinality(filters) -> filters] :
    \A i, j \in DOMAIN order : i < j => order[i].prio < order[j].prio

\* attachClasses: the rate of the link's class, and the classes under it, each
\* with the leaf whose parent it is and the matches that send to it, in filter
\* order.
ReadClass(t, minor) ==
  [rate |-> t.class[minor].rate, ceil |-> t.class[minor].ceil, default |-> minor = t.def,
   leaf |-> IF minor \in DOMAIN t.leaf
            THEN [kind |-> t.leaf[minor].kind, par |-> ReadOptions(t.leaf[minor])] ELSE None,
   match |-> LET order == ByPriority({f \in t.filter : f.minor = minor})
             IN [k \in DOMAIN order |-> order[k].match]]

ReadQdisc(t) ==
  [root |-> ParseTCQdiscJSON(t),
   rate |-> IF 1 \in DOMAIN t.class THEN t.class[1].rate ELSE 0,
   classes |-> IF t.kind = "htb" THEN [m \in DOMAIN t.class \ {1} |-> ReadClass(t, m)] ELSE <<>>]

----------------------------------------------------------------------------
(* Properties.                                                              *)

\* The variables have the types of the tables, the kernel and the requests.
ShapingTypes ==
  /\ \A e \in Ends : row[e] = None \/ (row[e].act \in Entries /\ row[e].here \in BOOLEAN)
  /\ \A u \in Users : use[u].st \in {"idle", "tc", "ensure", "wait", "rows", "own"}
  /\ \A x \in Pods : /\ choice[x] \in {"unknown", "own", "toolbox"}
                     /\ box[x].starting \in Nat /\ box[x].running \in Nat
                     /\ lock[x] \in Users \cup {None}
  /\ torn \subseteq Ends /\ stuck \subseteq Pods /\ left \in 0 .. MaxRequests

\* Nothing of end e is under way and its last batch did not fail half-way.
Settled(e) == ~Busy(e) /\ e \notin torn

\* What is on record for an interface is what reads back from it: every
\* impairment above zero and no other, the classes with their rates, their
\* leaves and their matches, whatever was there before, on a fresh interface
\* after a restart, through either tc.  A distribution is on record only: tc
\* does not report it back (TCParamEntry).
ReadsAsRecorded ==
  \A e \in Ends : Settled(e) =>
    LET t == ReadQdisc(dev[e])
        p == row[e].act
    IN IF row[e] = None THEN ~t.root.shaped
       ELSE IF p.qdisc = "htb"
       THEN /\ t.root.kind = "htb" /\ t.rate = p.link
            /\ t.classes = [m \in {Minor(i) : i \in DOMAIN p.classes} |->
                 LET c == p.classes[m - tcMinorBase] IN
                   [rate |-> c.rate, ceil |-> Ceil(p, c), default |-> c.default,
                    leaf |-> [kind |-> LeafKind(c), par |-> LeafArgs(c) \ {"distribution"}],
                    match |-> c.match]]
       ELSE /\ t.root.kind = p.qdisc /\ t.classes = <<>>
            /\ t.root.par = IF p.qdisc = "tbf" THEN TBFArgs(p)
                            ELSE p.pos \cup (p.given \cap {"gemodel"})

\* Every packet is sent to the first class of the request one of whose matches
\* has it, or to the default class, and never past the tree.
FirstMatchWins ==
  \A e \in Ends : Settled(e) /\ row[e] # None /\ row[e].act.qdisc = "htb" =>
    LET p == row[e].act
        hits(x) == {i \in DOMAIN p.classes : \E j \in DOMAIN p.classes[i].match :
                                               x \in p.classes[i].match[j]}
    IN \A x \in Packets : Classify(dev[e], x) =
         Minor(IF hits(x) = {} THEN CHOOSE i \in DOMAIN p.classes : p.classes[i].default
               ELSE CHOOSE i \in hits(x) : \A j \in hits(x) : i <= j)

\* A request that passes the validation is one the kernel takes, line by line.
ValidIsAccepted == ~refused

\* A batch that fails half-way leaves the beginning of its own tree, never a
\* mixture with what was there before.
Begun(rows) == {FoldLeft(Applied, Unshaped, SubSeq(rows, 1, k)) : k \in 1 .. Len(rows)}
NoMixture == \A e \in torn : dev[e] \in Begun(tried[e])

\* Tools that need a toolbox at the same time converge on one, unless one was
\* given up on while it was starting, or ran and was not seen.
OneToolbox == \A x \in Pods \ stuck : box[x].starting + box[x].running <= 1

\* RunTCBatch and the readback: in well-typed states the kernel has on each
\* interface what is on record for it, and what a failed batch left is the
\* beginning of its own tree.
KernelAsRecorded == ShapingTypes /\ ReadsAsRecorded /\ NoMixture

=============================================================================
