--------------------------- MODULE OperationHistory ---------------------------
(***************************************************************************)
(* The driver operation history of one pod, and the two kinds of request   *)
(* that write it: configure requests, which run actions on the pod and     *)
(* record the ones that succeeded, and pod restarts, which recreate the    *)
(* pod and replay the recorded actions on it.                              *)
(*                                                                         *)
(* The history is a table of rows [id, act, at]: an AUTOINCREMENT id, the  *)
(* action with its payload, and executed_at.  Every SQL statement is one   *)
(* step, so the steps of two requests, of the kubelet recreating the pod   *)
(* and of a backend crash fall between them in every order.                *)
(*                                                                         *)
(* An action is abstracted to what its catalogue entry declares of it      *)
(* (actions.Descriptor): the state and key it writes, whether it undoes    *)
(* that state, whether the undo is kept, which other states it takes down, *)
(* and which state the node needs before it accepts the action.            *)
(***************************************************************************)
EXTENDS Integers, Sequences, FiniteSets, FiniteSetsExt

CONSTANTS
  Jobs,         \* workers handling configure requests for this pod
  Restarters,   \* workers handling restart requests for this pod
  Actions,      \* actions with their payloads
  NoState,      \* the state of an action that declares none
  Unset,        \* a piece of state nobody configured on the pod
  Desc,         \* Desc[a]: what the catalogue declares of action a
  Requests,     \* the action lists a configure request may carry
  Fits,         \* how an incarnation of the pod may treat each action
  Guest,        \* TRUE: actions go as one guest commit; FALSE: one sh script
  Serial,       \* TRUE: requests and pod changes come one at a time
  Faults,       \* which of FaultKinds occur
  Resolution,   \* clock ticks per unit of a pod's creationTimestamp
  MaxAttempts,  \* replayExecAttempts
  MaxRequests,  \* bound: requests served in a behaviour
  MaxLosses     \* bound: pod losses outside KubeNDT in a behaviour

States == {Desc[a].state : a \in Actions}
Keys   == {Desc[a].key : a \in Actions}
Procs  == Jobs \cup Restarters

FaultKinds == {"crash", "db", "api", "loss", "timeout", "transient", "slow"}
Descriptor == [state: States, key: Keys, clears: BOOLEAN, undoPersists: BOOLEAN,
               clearsAlso: SUBSET States, keyed: BOOLEAN, repeatable: BOOLEAN,
               needs: States \cup {NoState}]
Entry      == [act: Actions, persist: BOOLEAN]
RowType    == [id: Nat, act: Actions, at: Nat]
FitKinds   == {"runs", "rejected", "unplanned"}

ASSUME ProcsAssumption == Jobs \cap Restarters = {}
ASSUME UnsetAssumption == Unset \notin Actions
ASSUME DescAssumption ==
  /\ Desc \in [Actions -> Descriptor]
  /\ \A a \in Actions : NoState \notin Desc[a].clearsAlso
  /\ \A a \in Actions : Desc[a].state = NoState => Desc[a].clearsAlso = {}
ASSUME RequestsAssumption == Requests \subseteq Seq(Entry)
ASSUME FitsAssumption     == Fits \subseteq [Actions -> FitKinds] /\ Fits # {}
ASSUME SwitchAssumption   == Guest \in BOOLEAN /\ Serial \in BOOLEAN
                             /\ Faults \subseteq FaultKinds
ASSUME BoundAssumption ==
  /\ Resolution \in Nat \ {0} /\ MaxAttempts \in Nat \ {0}
  /\ MaxRequests \in Nat /\ MaxLosses \in Nat

VARIABLES
  rows,     \* the pod's rows of driver_operation_history
  nextId,   \* the table's AUTOINCREMENT counter
  clock,    \* the time a stamp takes
  phase,    \* the pod: "ready", "terminating", "gone", "starting"
  created,  \* the pod's creationTimestamp
  daemon,   \* whether the daemons inside the pod answer
  live,     \* live[s]: the action in force on the pod for slot s, or Unset
  fit,      \* how this incarnation treats each action
  losses,   \* pod losses so far
  pc,       \* where each worker is, "idle" between requests
  list,     \* the actions a job runs, the rows a restarter replays
  mark,     \* per entry of list: what became of it
  i,        \* the entry a worker is at
  since,    \* podCreated, as a job read it
  todo,     \* the ids a save still has to delete
  tries,    \* per entry of list: execs it took part in
  left,     \* requests still to come
  wanted,   \* (history variable) the last recorded word on each slot
  lost      \* (history variable) a row was pruned or could not be saved

db    == <<rows, nextId, clock>>
pod   == <<phase, created, daemon, live, fit, losses>>
work  == <<pc, list, mark, i, since, todo, tries, left>>
ghost == <<wanted, lost>>
vars  == <<rows, nextId, clock, phase, created, daemon, live, fit, losses,
           pc, list, mark, i, since, todo, tries, left, wanted, lost>>

-----------------------------------------------------------------------------
(* The state rule: stateOf, rowsOnState, clearedWith and rowsOnStates.     *)

\* A slot is one piece of state: a state with its key.  An action that
\* declares no state is a slot of its own.
Slot(a) == IF Desc[a].state = NoState THEN <<NoState, a>>
           ELSE <<Desc[a].state, Desc[a].key>>
Slots   == {Slot(a) : a \in Actions}

\* Variants for the mutants: an undo forgets the states it takes down, and a
\* set replaces only a row with the same payload.
AlsoClearsNothing(a, b) == FALSE
SupersededSame(a)       == {r \in rows : r.act = a}

\* rowsOnState and rowsOnStates: the rows that write or clear the slot of a,
\* and the rows on the states a takes down with its own.
SameState(a, b)  == Desc[b].state = Desc[a].state /\ Desc[b].key = Desc[a].key
AlsoClears(a, b) == /\ Desc[b].state \in Desc[a].clearsAlso
                    /\ Desc[a].keyed => Desc[b].key = Desc[a].key
Superseded(a)    == {r \in rows : SameState(a, r.act) \/ AlsoClears(a, r.act)}

\* An undo nothing would reverse is not kept in the history.
Kept(a) == ~ (Desc[a].state # NoState /\ Desc[a].clears /\ ~ Desc[a].undoPersists)

\* Variant for the mutants: a row of any incarnation of the pod counts.
AppliedEver(a, t) ==
  \E r \in rows :
    /\ r.act = a
    /\ \/ Desc[a].state = NoState
       \/ ~ \E q \in rows : SameState(a, q.act) /\ q.act # a /\ q.at > r.at

\* DriverOperationAppliedSince and supersededAfter.
AppliedSince(a, t) ==
  \E r \in rows :
    /\ r.act = a /\ r.at >= t
    /\ \/ Desc[a].state = NoState
       \/ ~ \E q \in rows : SameState(a, q.act) /\ q.act # a /\ q.at > r.at

-----------------------------------------------------------------------------
(* The node: what running an action does to the pod's configuration.       *)

Touches(a, s) == \/ s = Slot(a)
                 \/ /\ s[1] \in Desc[a].clearsAlso
                    /\ Desc[a].keyed => s[2] = Desc[a].key
Leaves(a, s)  == IF s = Slot(a) /\ Kept(a) THEN a ELSE Unset

\* The configuration after the entries K of worker p's list ran on f, in order.
After(f, p, K) ==
  [s \in Slots |->
     LET hits == {k \in K : Touches(list[p][k].act, s)}
     IN  IF hits = {} THEN f[s] ELSE Leaves(list[p][Max(hits)].act, s)]

\* A node refuses an action that builds on a state it does not have, a BGP
\* neighbour with no BGP process for one.
NeedsMet(a, f) == Desc[a].needs = NoState
                  \/ \E s \in Slots : s[1] = Desc[a].needs /\ f[s] # Unset
Execable       == phase \in {"ready", "terminating"}
Accepts(a, f)  == daemon /\ fit[a] = "runs" /\ NeedsMet(a, f)

-----------------------------------------------------------------------------
Init ==
  /\ rows = {} /\ nextId = 1 /\ clock = 1
  /\ phase = "ready" /\ created = 0 /\ daemon = TRUE /\ losses = 0
  /\ live = [s \in Slots |-> Unset]
  /\ fit \in Fits
  /\ pc = [p \in Procs |-> "idle"]
  /\ list = [p \in Procs |-> <<>>]
  /\ mark = [p \in Procs |-> <<>>]
  /\ i = [p \in Procs |-> 1]
  /\ since = [p \in Procs |-> 0]
  /\ todo = [p \in Procs |-> {}]
  /\ tries = [p \in Procs |-> <<>>]
  /\ left = MaxRequests
  /\ wanted = [s \in Slots |-> Unset] /\ lost = FALSE

Quiet       == \A p \in Procs : pc[p] = "idle"
MayBegin(p) == pc[p] = "idle" /\ left > 0 /\ (Serial => Quiet)
Cur(p)      == list[p][i[p]]
CurMark(p)  == mark[p][i[p]]
AtEnd(p)    == i[p] > Len(list[p])

\* The worker moves on: to program point c, at entry n.
Goto(p, c, n) == pc' = [pc EXCEPT ![p] = c] /\ i' = [i EXCEPT ![p] = n]

-----------------------------------------------------------------------------
(* Configure (processPod).                                                 *)

\* The pod resolves, its creation time is read and every action is planned.
\* When the read fails the duplicate check goes by payload alone (since 0).
Configure(j) ==
  /\ MayBegin(j) /\ phase # "gone" /\ (Serial => phase # "terminating")
  /\ \E r \in Requests :
       /\ list' = [list EXCEPT ![j] = r]
       /\ mark' = [mark EXCEPT ![j] = [k \in DOMAIN r |->
                     IF fit[r[k].act] = "unplanned" THEN "bad" ELSE "todo"]]
       /\ tries' = [tries EXCEPT ![j] = [k \in DOMAIN r |-> 0]]
  /\ \E t \in {created} \cup (IF "api" \in Faults THEN {0} ELSE {}) :
       since' = [since EXCEPT ![j] = t]
  /\ Goto(j, "check", 1)
  /\ left' = left - 1
  /\ UNCHANGED <<db, pod, todo, ghost>>

\* One action's duplicate check.  One-offs and repeatable actions always run;
\* an action whose check fails does not run.
CheckDuplicate(j) ==
  /\ pc[j] = "check" /\ ~ AtEnd(j)
  /\ LET e == Cur(j)
         looks == CurMark(j) # "bad" /\ e.persist /\ ~ Desc[e.act].repeatable
         found == IF CurMark(j) = "bad" THEN "bad"
                  ELSE IF looks /\ AppliedSince(e.act, since[j]) THEN "skip" ELSE "run"
     IN  \E m \in {found} \cup (IF looks /\ "db" \in Faults THEN {"bad"} ELSE {}) :
           mark' = [mark EXCEPT ![j][i[j]] = m]
  /\ Goto(j, "check", i[j] + 1)
  /\ UNCHANGED <<db, pod, list, since, todo, tries, left, ghost>>

CheckEnds(j) ==
  /\ pc[j] = "check" /\ AtEnd(j)
  /\ Goto(j, "run", 1)
  /\ UNCHANGED <<db, pod, list, mark, since, todo, tries, left, ghost>>

-----------------------------------------------------------------------------
(* RunPlannedActions, for a job and for a replay.  Consecutive actions go  *)
(* as one exec: a script whose actions succeed or fail one by one, or one  *)
(* guest commit.  A replay retries an exec that returned an error.         *)

\* The consecutive entries that share the exec of entry k.  An entry that does
\* not run splits a request in two; a replay leaves what it pruned out of the
\* plans it runs.
InExec(m)    == m \in {"run", "ok", "fail"}
Splits(p, m) == ~ InExec(mark[p][m]) /\ (p \in Jobs \/ mark[p][m] # "bad")
Group(p, k)  == {n \in DOMAIN list[p] :
                   /\ InExec(mark[p][n])
                   /\ \A m \in DOMAIN list[p] :
                        (n <= m /\ m <= k) \/ (k <= m /\ m <= n) => ~ Splits(p, m)}

\* Variant for the mutants: a replay does not retry either.
SingleAttempt(p) == 1

Attempts(p) == IF p \in Jobs THEN 1 ELSE MaxAttempts

\* The exec returned an error: every action of it failed, unless a retry is due.
ExecFails(p) ==
  LET G == Group(p, i[p])
      again == tries[p][i[p]] + 1 < Attempts(p)
  IN  /\ mark' = [mark EXCEPT ![p] = [k \in DOMAIN list[p] |->
                    IF k \notin G THEN mark[p][k]
                    ELSE IF again THEN "run" ELSE "fail"]]
      /\ tries' = [tries EXCEPT ![p] = [k \in DOMAIN list[p] |->
                     IF k \in G THEN tries[p][i[p]] + 1 ELSE tries[p][k]]]
      /\ Goto(p, "run", IF again THEN Min(G) ELSE Max(G) + 1)

\* One action of the script ran: its marker carries its own exit status.
RunScriptAction(p) ==
  /\ pc[p] = "run" /\ ~ AtEnd(p) /\ CurMark(p) = "run"
  /\ ~ Guest /\ Execable
  /\ LET ok == Accepts(Cur(p).act, live)
     IN  /\ mark' = [mark EXCEPT ![p][i[p]] = IF ok THEN "ok" ELSE "fail"]
         /\ live' = IF ok THEN After(live, p, {i[p]}) ELSE live
  /\ tries' = [tries EXCEPT ![p][i[p]] = @ + 1]
  /\ Goto(p, "run", i[p] + 1)
  /\ UNCHANGED <<db, phase, created, daemon, fit, losses,
                 list, since, todo, left, ghost>>

\* One guest commit carries the whole group, all of it or nothing.
RunGuestCommit(p) ==
  /\ pc[p] = "run" /\ ~ AtEnd(p) /\ CurMark(p) = "run"
  /\ Guest /\ Execable
  /\ LET G == Group(p, i[p])
         f == After(live, p, G)
     IN  IF \A k \in G : Accepts(list[p][k].act, f)
         THEN /\ mark' = [mark EXCEPT ![p] = [k \in DOMAIN list[p] |->
                            IF k \in G THEN "ok" ELSE mark[p][k]]]
              /\ live' = f
              /\ Goto(p, "run", Max(G) + 1)
              /\ UNCHANGED tries
         ELSE ExecFails(p) /\ UNCHANGED live
  /\ UNCHANGED <<db, phase, created, daemon, fit, losses,
                 list, since, todo, left, ghost>>

\* The exec itself failed: no container to run it, or its deadline passed
\* after the guest took the commit or the script ran part of its actions.
ExecError(p) ==
  /\ pc[p] = "run" /\ ~ AtEnd(p) /\ CurMark(p) = "run"
  /\ ~ Execable \/ "timeout" \in Faults
  /\ ExecFails(p)
  /\ \/ UNCHANGED live
     \/ /\ Guest /\ Execable
        /\ LET G == Group(p, i[p]) IN
             /\ \A k \in G : Accepts(list[p][k].act, After(live, p, G))
             /\ live' = After(live, p, G)
  /\ UNCHANGED <<db, phase, created, daemon, fit, losses,
                 list, since, todo, left, ghost>>

\* An entry with no exec: skipped, or it failed to plan.
PassOver(p) ==
  /\ pc[p] = "run" /\ ~ AtEnd(p) /\ CurMark(p) # "run"
  /\ Goto(p, "run", i[p] + 1)
  /\ UNCHANGED <<db, pod, list, mark, since, todo, tries, left, ghost>>

\* Everything ran: a job goes on to save, a replay to settle its rows.
RunEnds(p) ==
  /\ pc[p] = "run" /\ AtEnd(p)
  /\ Goto(p, IF p \in Jobs THEN "save" ELSE "settle", 1)
  /\ wanted' = IF p \in Jobs
               THEN After(wanted, p, {k \in DOMAIN list[p] :
                                        mark[p][k] = "ok" /\ list[p][k].persist})
               ELSE wanted
  /\ UNCHANGED <<db, pod, list, mark, since, todo, tries, left, lost>>

-----------------------------------------------------------------------------
(* SaveDriverOperation, one SQL statement at a time, for each action that  *)
(* succeeded and is not a one-off.                                         *)

ToSave(j) == CurMark(j) = "ok" /\ Cur(j).persist

SaveRead(j) ==
  /\ pc[j] = "save" /\ ~ AtEnd(j) /\ ToSave(j)
  /\ IF Desc[Cur(j).act].state = NoState
     THEN Goto(j, "replace", i[j]) /\ UNCHANGED todo
     ELSE /\ Goto(j, "delete", i[j])
          /\ todo' = [todo EXCEPT ![j] = {r.id : r \in Superseded(Cur(j).act)}]
  /\ UNCHANGED <<db, pod, list, mark, since, tries, left, ghost>>

\* DeleteDriverOperationHistoryByID; a row that is gone already is no error.
SaveDelete(j) ==
  /\ pc[j] = "delete"
  /\ \E id \in todo[j] :
       /\ rows' = {r \in rows : r.id # id}
       /\ todo' = [todo EXCEPT ![j] = @ \ {id}]
  /\ UNCHANGED <<nextId, clock, pod, pc, list, mark, i, since, tries, left, ghost>>

SaveDeleted(j) ==
  /\ pc[j] = "delete" /\ todo[j] = {}
  /\ IF Kept(Cur(j).act) THEN Goto(j, "replace", i[j]) ELSE Goto(j, "save", i[j] + 1)
  /\ UNCHANGED <<db, pod, list, mark, since, todo, tries, left, ghost>>

SaveReplace(j) ==
  /\ pc[j] = "replace"
  /\ rows' = {r \in rows : r.act # Cur(j).act}
  /\ Goto(j, "insert", i[j])
  /\ UNCHANGED <<nextId, clock, pod, list, mark, since, todo, tries, left, ghost>>

\* Variants for the mutants: executed_at is left out, and an id is used again
\* once the row with the highest one is gone (no AUTOINCREMENT).
SaveUnstamped(j) ==
  /\ pc[j] = "insert"
  /\ rows' = rows \cup {[id |-> nextId, act |-> Cur(j).act]}
  /\ nextId' = nextId + 1
  /\ Goto(j, "save", i[j] + 1)
  /\ UNCHANGED <<clock, pod, list, mark, since, todo, tries, left, ghost>>
SaveReusingId(j) ==
  /\ pc[j] = "insert"
  /\ LET id == Max({0} \cup {r.id : r \in rows}) + 1
     IN  rows' = rows \cup {[id |-> id, act |-> Cur(j).act, at |-> clock]}
  /\ clock' = clock + 1
  /\ Goto(j, "save", i[j] + 1)
  /\ UNCHANGED <<nextId, pod, list, mark, since, todo, tries, left, ghost>>

SaveInsert(j) ==
  /\ pc[j] = "insert"
  /\ rows' = rows \cup {[id |-> nextId, act |-> Cur(j).act, at |-> clock]}
  /\ nextId' = nextId + 1
  /\ clock' = clock + 1
  /\ Goto(j, "save", i[j] + 1)
  /\ UNCHANGED <<pod, list, mark, since, todo, tries, left, ghost>>

\* A statement failed: the action is reported as run but not recorded.
SaveFails(j) ==
  /\ "db" \in Faults
  /\ \/ pc[j] \in {"delete", "replace", "insert"}
     \/ pc[j] = "save" /\ ~ AtEnd(j) /\ ToSave(j)
  /\ mark' = [mark EXCEPT ![j][i[j]] = "unsaved"]
  /\ todo' = [todo EXCEPT ![j] = {}]
  /\ lost' = TRUE
  /\ Goto(j, "save", i[j] + 1)
  /\ UNCHANGED <<db, pod, list, since, tries, left, wanted>>

SavePass(j) ==
  /\ pc[j] = "save" /\ ~ AtEnd(j) /\ ~ ToSave(j)
  /\ Goto(j, "save", i[j] + 1)
  /\ UNCHANGED <<db, pod, list, mark, since, todo, tries, left, ghost>>

ConfigureEnds(j) ==
  /\ pc[j] = "save" /\ AtEnd(j)
  /\ Goto(j, "idle", i[j])
  /\ UNCHANGED <<db, pod, list, mark, since, todo, tries, left, ghost>>

-----------------------------------------------------------------------------
(* Restart a pod and replay its history (handlers.RestartPod).             *)

\* The pod is deleted; it goes on running until its grace period ends.
RestartPod(r) ==
  /\ MayBegin(r) /\ phase # "gone"
  /\ phase' = "terminating"
  /\ Goto(r, "wait", 1)
  /\ left' = left - 1
  /\ UNCHANGED <<db, created, daemon, live, fit, losses,
                 list, mark, since, todo, tries, ghost>>

\* Variant for the mutants: the wait for the replacement never gives up.
WaitForever(r) ==
  /\ pc[r] = "wait" /\ phase = "ready" /\ Goto(r, "mtu", 1)
  /\ UNCHANGED <<db, pod, list, mark, since, todo, tries, left, ghost>>

\* WaitForPodsReadyTimeline: the replacement is Ready, or the wait gives up
\* and nothing is replayed.
WaitReady(r) ==
  /\ pc[r] = "wait"
  /\ \/ phase = "ready" /\ Goto(r, "mtu", 1)
     \/ phase # "ready" /\ Goto(r, "idle", 1)
  /\ UNCHANGED <<db, pod, list, mark, since, todo, tries, left, ghost>>

\* ApplyPlatformMTU, before the replay; an error ends the restart.
ApplyPlatformMTU(r) ==
  /\ pc[r] = "mtu"
  /\ Goto(r, "list", 1) \/ Goto(r, "idle", 1)
  /\ UNCHANGED <<db, pod, list, mark, since, todo, tries, left, ghost>>

\* ListDriverOperationsForPod ORDER BY id, and the pod's driver.
InIdOrder(s) == \A m, n \in DOMAIN s : m < n => s[m].id < s[n].id
ReplayList(r) ==
  /\ pc[r] = "list"
  /\ \E s \in [1..Cardinality(rows) -> rows] :
       /\ InIdOrder(s)
       /\ list' = [list EXCEPT ![r] = s]
       /\ mark' = [mark EXCEPT ![r] = [k \in DOMAIN s |-> "todo"]]
       /\ tries' = [tries EXCEPT ![r] = [k \in DOMAIN s |-> 0]]
  /\ Goto(r, IF rows = {} \/ phase = "gone" THEN "idle" ELSE "resolve", 1)
  /\ UNCHANGED <<db, pod, since, todo, left, ghost>>

\* An operation the pod's driver no longer plans is pruned before anything runs.
ReplayResolve(r) ==
  /\ pc[r] = "resolve" /\ ~ AtEnd(r)
  /\ IF fit[Cur(r).act] = "unplanned"
     THEN /\ rows' = {q \in rows : q.id # Cur(r).id}
          /\ mark' = [mark EXCEPT ![r][i[r]] = "bad"]
          /\ lost' = TRUE
     ELSE /\ mark' = [mark EXCEPT ![r][i[r]] = "run"]
          /\ UNCHANGED <<rows, lost>>
  /\ Goto(r, "resolve", i[r] + 1)
  /\ UNCHANGED <<nextId, clock, pod, list, since, todo, tries, left, wanted>>

ReplayResolved(r) ==
  /\ pc[r] = "resolve" /\ AtEnd(r)
  /\ Goto(r, "run", 1)
  /\ UNCHANGED <<db, pod, list, mark, since, todo, tries, left, ghost>>

\* A transient transport error aborts the run: its group counts as not run.
ReplayAborts(r) ==
  /\ "transient" \in Faults
  /\ pc[r] = "run" /\ ~ AtEnd(r) /\ CurMark(r) = "run"
  /\ LET G == Group(r, i[r]) IN
       mark' = [mark EXCEPT ![r] = [k \in DOMAIN list[r] |->
                  IF k \in G THEN "run" ELSE mark[r][k]]]
  /\ Goto(r, "settle", 1)
  /\ UNCHANGED <<db, pod, list, since, todo, tries, left, ghost>>

\* Variant for the mutants: a replayed row is not stamped again.
SettleUntouched(r) ==
  /\ pc[r] = "settle" /\ ~ AtEnd(r)
  /\ IF CurMark(r) = "fail"
     THEN rows' = {q \in rows : q.id # Cur(r).id} /\ lost' = TRUE
     ELSE UNCHANGED <<rows, lost>>
  /\ Goto(r, "settle", i[r] + 1)
  /\ UNCHANGED <<nextId, clock, pod, list, mark, since, todo, tries, left, wanted>>

\* TouchDriverOperation for what ran, prune for what failed.
ReplaySettle(r) ==
  /\ pc[r] = "settle" /\ ~ AtEnd(r)
  /\ CASE CurMark(r) = "ok" ->
            /\ rows' = {IF q.id = Cur(r).id THEN [q EXCEPT !.at = clock] ELSE q : q \in rows}
            /\ clock' = clock + 1
            /\ UNCHANGED lost
       [] CurMark(r) = "fail" ->
            /\ rows' = {q \in rows : q.id # Cur(r).id}
            /\ lost' = TRUE
            /\ UNCHANGED clock
       [] OTHER -> UNCHANGED <<rows, clock, lost>>
  /\ Goto(r, "settle", i[r] + 1)
  /\ UNCHANGED <<nextId, pod, list, mark, since, todo, tries, left, wanted>>

\* A statement or the driver's lookup failed: no list, no replay; a row that
\* could not be pruned or stamped stays as it is and the next one is settled.
ReplayFails(r) ==
  /\ \/ /\ pc[r] = "list" /\ ("db" \in Faults \/ "api" \in Faults)
        /\ Goto(r, "idle", 1) /\ UNCHANGED mark
     \/ /\ pc[r] = "resolve" /\ "db" \in Faults /\ ~ AtEnd(r)
        /\ fit[Cur(r).act] = "unplanned"
        /\ mark' = [mark EXCEPT ![r][i[r]] = "bad"]
        /\ Goto(r, "resolve", i[r] + 1)
     \/ /\ pc[r] = "settle" /\ "db" \in Faults /\ ~ AtEnd(r)
        /\ CurMark(r) \in {"ok", "fail"}
        /\ Goto(r, "settle", i[r] + 1) /\ UNCHANGED mark
  /\ UNCHANGED <<db, pod, list, since, todo, tries, left, ghost>>

RestartEnds(r) ==
  /\ pc[r] = "settle" /\ AtEnd(r)
  /\ Goto(r, "idle", i[r])
  /\ UNCHANGED <<db, pod, list, mark, since, todo, tries, left, ghost>>

-----------------------------------------------------------------------------
(* The cluster, and the backend process.                                   *)

PodGone ==
  /\ phase = "terminating"
  /\ phase' = "gone"
  /\ UNCHANGED <<db, created, daemon, live, fit, losses, work, ghost>>

\* The StatefulSet creates the replacement, with nothing configured on it.
PodCreated ==
  /\ phase = "gone"
  /\ phase' = "starting"
  /\ created' = (clock \div Resolution) * Resolution
  /\ clock' = clock + 1
  /\ daemon' = ("slow" \notin Faults)
  /\ live' = [s \in Slots |-> Unset]
  /\ fit' \in Fits
  /\ UNCHANGED <<rows, nextId, losses, work, ghost>>

\* Ready does not mean that the daemons inside answer already.
PodReady ==
  /\ phase = "starting"
  /\ phase' = "ready"
  /\ UNCHANGED <<db, created, daemon, live, fit, losses, work, ghost>>

DaemonsUp ==
  /\ phase = "ready" /\ ~ daemon
  /\ daemon' = TRUE
  /\ UNCHANGED <<db, phase, created, live, fit, losses, work, ghost>>

\* An eviction or a kubectl delete, behind KubeNDT's back.
PodLost ==
  /\ "loss" \in Faults /\ losses < MaxLosses
  /\ phase \in {"ready", "starting"} /\ (Serial => Quiet)
  /\ phase' = "terminating"
  /\ losses' = losses + 1
  /\ UNCHANGED <<db, created, daemon, live, fit, work, ghost>>

\* The process dies: every request in flight is gone, the database stays.
Crash ==
  /\ "crash" \in Faults /\ ~ Quiet
  /\ pc' = [p \in Procs |-> "idle"]
  /\ todo' = [p \in Procs |-> {}]
  /\ UNCHANGED <<db, pod, list, mark, i, since, tries, left, ghost>>

-----------------------------------------------------------------------------
RunStep(p) == \/ RunScriptAction(p) \/ RunGuestCommit(p) \/ ExecError(p)
              \/ PassOver(p) \/ RunEnds(p)
SaveStep(j) == \/ SaveRead(j) \/ SaveDelete(j) \/ SaveDeleted(j) \/ SaveReplace(j)
               \/ SaveInsert(j) \/ SaveFails(j) \/ SavePass(j)
JobStep(j) == CheckDuplicate(j) \/ CheckEnds(j) \/ RunStep(j) \/ SaveStep(j)
              \/ ConfigureEnds(j)
RestartStep(r) == \/ WaitReady(r) \/ ApplyPlatformMTU(r) \/ ReplayList(r)
                  \/ ReplayResolve(r) \/ ReplayResolved(r) \/ RunStep(r)
                  \/ ReplayAborts(r) \/ ReplaySettle(r) \/ ReplayFails(r)
                  \/ RestartEnds(r)
ClusterStep == PodGone \/ PodCreated \/ PodReady \/ DaemonsUp \/ PodLost

Next == \/ \E j \in Jobs : Configure(j) \/ JobStep(j)
        \/ \E r \in Restarters : RestartPod(r) \/ RestartStep(r)
        \/ ClusterStep
        \/ Crash

\* Every exec and every statement returns, so a worker that has begun goes on.
Fairness == /\ \A j \in Jobs : WF_vars(JobStep(j))
            /\ \A r \in Restarters : WF_vars(RestartStep(r))
Spec == Init /\ [][Next]_vars /\ Fairness

-----------------------------------------------------------------------------
(* Properties.                                                             *)

Marks  == {"todo", "bad", "skip", "run", "ok", "fail", "unsaved"}
Points == {"idle", "check", "run", "save", "delete", "replace", "insert",
           "wait", "mtu", "list", "resolve", "settle"}

\* The variables have the types of the table, the pod and the workers they model.
TypeOK ==
  /\ rows \subseteq RowType /\ nextId \in Nat /\ clock \in Nat
  /\ phase \in {"ready", "terminating", "gone", "starting"}
  /\ created \in Nat /\ daemon \in BOOLEAN /\ losses \in Nat
  /\ live \in [Slots -> Actions \cup {Unset}]
  /\ fit \in [Actions -> FitKinds]
  /\ pc \in [Procs -> Points]
  /\ list \in [Procs -> Seq(Entry \cup RowType)]
  /\ mark \in [Procs -> Seq(Marks)]
  /\ i \in [Procs -> Nat]
  /\ since \in [Procs -> Nat]
  /\ todo \in [Procs -> SUBSET Nat]
  /\ tries \in [Procs -> Seq(Nat)]
  /\ left \in Nat
  /\ wanted \in [Slots -> Actions \cup {Unset}] /\ lost \in BOOLEAN

\* "A set, its undo and a set again never stack": at every moment, half way
\* through a save included, the history holds at most one row on each state
\* and key, and at most one row of an action that declares no state.
OneRowPerState ==
  \A r, q \in rows : Slot(r.act) = Slot(q.act) => r = q

\* The history keeps the last word on each piece of state: between requests it
\* holds exactly the actions that the recorded configuration amounts to, with
\* undone ones and what they took down gone (unless a row was pruned by a
\* replay or a save was reported as failed).
HistoryIsLastWord ==
  Quiet /\ ~ lost => {r.act : r \in rows} = {wanted[s] : s \in Slots} \ {Unset}

\* A replay settles rows it read before running commands, by id: whatever the
\* other requests did to the table meanwhile, a row with one of those ids is
\* still the operation the replay ran, so no foreign row is pruned or stamped.
ReplaySettlesOwnRows ==
  \A r \in Restarters : pc[r] \in {"resolve", "run", "settle"} =>
    \A k \in DOMAIN list[r] : \A q \in rows :
      q.id = list[r][k].id => q.act = list[r][k].act

\* Between requests, an action that configure would skip as already applied is
\* in force on the pod that exists now: "rows left by an earlier incarnation
\* never mask a missing configuration".
NoMasking ==
  Quiet => \A r \in rows : AppliedSince(r.act, created) => live[Slot(r.act)] = r.act

\* A restart whose replay ran every operation leaves the new pod with every
\* recorded action in force and stamped as applied to this incarnation.
ReplayRestores ==
  \A r \in Restarters :
    /\ pc[r] = "settle" /\ AtEnd(r)
    /\ \A k \in DOMAIN list[r] : mark[r][k] = "ok"
    => \A q \in rows : live[Slot(q.act)] = q.act /\ q.at >= created

\* A replay gives up on an operation, pruning its row for good, only after the
\* exec that carried it was tried replayExecAttempts times.
PruneAfterRetries ==
  [][\A r \in Restarters : \A q \in rows :
       /\ pc[r] = "settle" /\ pc'[r] = "settle" /\ i[r] # i'[r]
       /\ q.id = Cur(r).id /\ q \notin rows' /\ CurMark(r) = "fail"
       => tries[r][i[r]] >= MaxAttempts]_vars

\* A restart of a pod that plans and accepts what it accepted before, with its
\* daemons answering, prunes nothing: recreation by KubeNDT is handled.
ReplayKeepsWhatFits ==
  [][\A r \in Restarters : \A q \in rows :
       /\ pc[r] = "settle" /\ pc'[r] = "settle" /\ i[r] # i'[r]
       /\ q.id = Cur(r).id /\ q.id \notin {x.id : x \in rows'}
       => fit[q.act] # "runs"]_vars

\* A request none of whose actions failed leaves the pod as its actions, run in
\* the order given, leave it: "a set, its undo and the same set again all run".
RequestTakesEffect ==
  \A j \in Jobs :
    /\ pc[j] = "save" /\ i[j] = 1
    /\ \A k \in DOMAIN mark[j] : mark[j][k] \in {"ok", "skip"}
    => After(live, j, DOMAIN list[j]) = live

\* Every request that begins is answered, whether the pod comes back or not.
RequestsEnd == \A p \in Procs : pc[p] # "idle" ~> pc[p] = "idle"

=============================================================================
