------------------------ MODULE OperationHistoryProofs ------------------------
(***************************************************************************)
(* Proofs about OperationHistory, for every catalogue of actions, every    *)
(* number of workers and requests, and every combination of faults.        *)
(***************************************************************************)
EXTENDS OperationHistory, SequenceTheorems, FiniteSetTheorems, WellFoundedInduction, TLAPS

\* A nonempty set of naturals has a smallest member.
LEMMA LeastNatural ==
  ASSUME NEW K \in SUBSET Nat, K # {}
  PROVE  \E x \in K : \A y \in K : x <= y
<1>1. PICK x \in K : \A y \in K : ~ (<<y, x>> \in OpToRel(<, Nat))
  BY NatLessThanWellFounded, WFMin
<1>2. \A y \in Nat : y < x => <<y, x>> \in OpToRel(<, Nat)
  <2>1. OpToRel(<, Nat) = {ss \in Nat \X Nat : ss[1] < ss[2]}
    BY Zenon DEF OpToRel
  <2> HIDE DEF OpToRel
  <2> QED  BY <2>1
<1>3. \A y \in K : ~ (y < x)
  BY <1>1, <1>2
<1>4. \A y \in K : x <= y
  BY <1>3
<1> QED  BY <1>4

\* A nonempty set of indices of a sequence has a largest and a smallest member:
\* the ends of the group of actions that share one exec are actions of it.
LEMMA EndsOfIndexSet ==
  ASSUME NEW n \in Nat, NEW K \in SUBSET (1..n), K # {}
  PROVE  /\ Max(K) \in K /\ Min(K) \in K
         /\ \A y \in K : Min(K) =< y /\ Max(K) >= y
<1>1. \E x \in K : \A y \in K : x =< y
  BY LeastNatural
<1>2. \E x \in K : \A y \in K : x >= y
  <2> DEFINE D == {n - k : k \in K}
  <2>1. D \subseteq Nat
    <3> SUFFICES ASSUME NEW k \in K PROVE n - k \in Nat
      OBVIOUS
    <3> QED  OBVIOUS
  <2>5. D # {}
    OBVIOUS
  <2>2. PICK d \in D : \A e \in D : d <= e
    BY <2>1, <2>5, LeastNatural
  <2>3. PICK x \in K : d = n - x
    OBVIOUS
  <2>4. \A y \in K : x >= y
    <3> SUFFICES ASSUME NEW y \in K PROVE x >= y
      OBVIOUS
    <3>1. n - y \in D
      OBVIOUS
    <3> QED  BY <2>2, <2>3, <3>1
  <2> QED  BY <2>4
<1> QED  BY <1>1, <1>2 DEF Max, Min

\* The history variables and workers' sequences keep their types when one
\* entry is replaced or when they are built anew over the same indices.
LEMMA SeqOver ==
  ASSUME NEW S, NEW T, NEW s \in Seq(S), NEW f \in [DOMAIN s -> T]
  PROVE  f \in Seq(T) /\ Len(f) = Len(s) /\ DOMAIN f = DOMAIN s
<1>1. DOMAIN s = 1..Len(s) /\ Len(s) \in Nat
  OBVIOUS
<1>2. f \in [1..Len(s) -> T]
  BY <1>1
<1> QED  BY <1>1, <1>2

\* Replacing an element keeps a sequence and its length.
LEMMA SeqExcept ==
  ASSUME NEW T, NEW s \in Seq(T), NEW k \in Nat, NEW v \in T
  PROVE  /\ [s EXCEPT ![k] = v] \in Seq(T)
         /\ Len([s EXCEPT ![k] = v]) = Len(s)
         /\ DOMAIN [s EXCEPT ![k] = v] = DOMAIN s
<1> DEFINE f == [s EXCEPT ![k] = v]
<1>0. s \in [1..Len(s) -> T] /\ DOMAIN s = 1..Len(s)
  OBVIOUS
<1>1. f \in [DOMAIN s -> T]
  BY <1>0
<1> HIDE DEF f
<1>2. f \in Seq(T) /\ Len(f) = Len(s) /\ DOMAIN f = DOMAIN s
  BY <1>1, SeqOver
<1> QED  BY <1>2 DEF f

-----------------------------------------------------------------------------
(* Types and the shape of a worker's bookkeeping.                          *)

JobPoints     == {"idle", "check", "run", "save", "delete", "replace", "insert"}
RestartPoints == {"idle", "wait", "mtu", "list", "resolve", "run", "settle"}

\* What TypeOK leaves open: marks and attempt counts follow the list entry by
\* entry, each kind of worker keeps to its own program points and list, and a
\* save in progress is at an entry of its list.
Shape ==
  /\ i \in [Procs -> Nat \ {0}]
  /\ \A p \in Procs : DOMAIN mark[p] = DOMAIN list[p] /\ DOMAIN tries[p] = DOMAIN list[p]
  /\ \A j \in Jobs : list[j] \in Seq(Entry) /\ pc[j] \in JobPoints
  /\ \A r \in Restarters : list[r] \in Seq(RowType) /\ pc[r] \in RestartPoints
  /\ \A j \in Jobs : pc[j] \in {"delete", "replace", "insert"} => i[j] \in DOMAIN list[j]

USE ProcsAssumption, UnsetAssumption, DescAssumption, RequestsAssumption,
    FitsAssumption, SwitchAssumption, BoundAssumption

\* Running actions of a list leaves every slot unset or set by an action.
LEMMA AfterType ==
  ASSUME TypeOK, NEW p \in Procs, NEW K \in SUBSET DOMAIN list[p],
         NEW f \in [Slots -> Actions \cup {Unset}]
  PROVE  After(f, p, K) \in [Slots -> Actions \cup {Unset}]
<1> SUFFICES ASSUME NEW s \in Slots
             PROVE  After(f, p, K)[s] \in Actions \cup {Unset}
  BY DEF After
<1> DEFINE hits == {k \in K : Touches(list[p][k].act, s)}
<1>1. After(f, p, K)[s] = IF hits = {} THEN f[s] ELSE Leaves(list[p][Max(hits)].act, s)
  BY DEF After
<1>2. CASE hits = {}
  BY <1>1, <1>2
<1>3. CASE hits # {}
  <2>1. list[p] \in Seq(Entry \cup RowType) /\ Len(list[p]) \in Nat
        /\ DOMAIN list[p] = 1..Len(list[p])
    BY DEF TypeOK
  <2>2. hits \in SUBSET (1..Len(list[p]))
    BY <2>1
  <2>3. Max(hits) \in hits
    BY <1>3, <2>1, <2>2, EndsOfIndexSet
  <2>4. list[p][Max(hits)] \in Entry \cup RowType
    <3>1. Max(hits) \in 1..Len(list[p])
      BY <2>2, <2>3
    <3> QED  BY <2>1, <3>1, ElementOfSeq
  <2>5. list[p][Max(hits)].act \in Actions
    BY <2>4 DEF Entry, RowType
  <2> QED  BY <1>1, <1>3, <2>5 DEF Leaves
<1> QED  BY <1>2, <1>3

\* The group of actions sharing an exec is made of entries of the list, and
\* so are its two ends.
LEMMA GroupEnds ==
  ASSUME TypeOK, Shape, NEW p \in Procs, i[p] \in DOMAIN list[p], mark[p][i[p]] = "run"
  PROVE  /\ Group(p, i[p]) \in SUBSET DOMAIN list[p]
         /\ i[p] \in Group(p, i[p])
         /\ Max(Group(p, i[p])) \in Nat \ {0} /\ Min(Group(p, i[p])) \in Nat \ {0}
<1> DEFINE G == Group(p, i[p])
<1>1. Len(list[p]) \in Nat /\ DOMAIN list[p] = 1..Len(list[p])
  BY DEF TypeOK
<1>2. G \in SUBSET (1..Len(list[p]))
  BY <1>1 DEF Group
<1>3. i[p] \in G
  <2>1. ASSUME NEW m \in DOMAIN list[p], (i[p] <= m /\ m <= i[p]) PROVE ~ Splits(p, m)
    <3>1. m = i[p]
      BY <1>1, <2>1
    <3> QED  BY <3>1 DEF Splits, InExec
  <2> QED  BY <2>1 DEF Group, InExec
<1>4. Max(G) \in G /\ Min(G) \in G
  BY <1>1, <1>2, <1>3, EndsOfIndexSet
<1> QED  BY <1>1, <1>2, <1>3, <1>4

\* The initial state, and then each action, keeps the types and the shape.
LEMMA TypeInit == Init => TypeOK /\ Shape
<1> SUFFICES ASSUME Init PROVE TypeOK /\ Shape
  OBVIOUS
<1>1. <<>> \in Seq(Marks) /\ <<>> \in Seq(Entry \cup RowType) /\ <<>> \in Seq(Nat)
      /\ <<>> \in Seq(Entry) /\ <<>> \in Seq(RowType)
  OBVIOUS
<1>2. live \in [Slots -> Actions \cup {Unset}] /\ wanted \in [Slots -> Actions \cup {Unset}]
      /\ fit \in [Actions -> FitKinds]
  BY DEF Init
<1>3. TypeOK
  BY <1>1, <1>2 DEF Init, TypeOK, Points
<1>4. Shape
  BY <1>1 DEF Init, Shape, Procs, JobPoints, RestartPoints
<1> QED  BY <1>3, <1>4

\* A configure request arrives.
LEMMA ConfigureType ==
  ASSUME TypeOK, Shape, NEW j \in Jobs, Configure(j)
  PROVE  TypeOK' /\ Shape'
<1>1. PICK r \in Requests :
        /\ list' = [list EXCEPT ![j] = r]
        /\ mark' = [mark EXCEPT ![j] = [k \in DOMAIN r |->
                      IF fit[r[k].act] = "unplanned" THEN "bad" ELSE "todo"]]
        /\ tries' = [tries EXCEPT ![j] = [k \in DOMAIN r |-> 0]]
  BY DEF Configure
<1>2. r \in Seq(Entry) /\ r \in Seq(Entry \cup RowType)
  BY SeqMonotonic
<1> DEFINE m == [k \in DOMAIN r |-> IF fit[r[k].act] = "unplanned" THEN "bad" ELSE "todo"]
           t == [k \in DOMAIN r |-> 0]
<1>3. m \in [DOMAIN r -> Marks] /\ t \in [DOMAIN r -> Nat]
  BY DEF Marks
<1>4. m \in Seq(Marks) /\ t \in Seq(Nat) /\ DOMAIN m = DOMAIN r /\ DOMAIN t = DOMAIN r
  <2> HIDE DEF m, t
  <2> QED  BY <1>2, <1>3, SeqOver
<1>5. /\ list' = [list EXCEPT ![j] = r] /\ mark' = [mark EXCEPT ![j] = m]
      /\ tries' = [tries EXCEPT ![j] = t]
  BY <1>1
<1> HIDE DEF m, t
<1>6. since' \in [Procs -> Nat]
  BY DEF Configure, TypeOK, Procs
<1>7. j \in Procs /\ j \notin Restarters
  BY DEF Procs
<1>8. /\ UNCHANGED <<rows, nextId, clock, phase, created, daemon, live, fit, losses, todo, wanted, lost>>
      /\ left' = left - 1 /\ left > 0
      /\ pc' = [pc EXCEPT ![j] = "check"] /\ i' = [i EXCEPT ![j] = 1]
  BY DEF Configure, Goto, MayBegin, db, pod, ghost
<1>9. TypeOK'
  <2>1. pc' \in [Procs -> Points] /\ i' \in [Procs -> Nat] /\ left' \in Nat
    BY <1>7, <1>8 DEF TypeOK, Points
  <2>2. /\ list' \in [Procs -> Seq(Entry \cup RowType)] /\ mark' \in [Procs -> Seq(Marks)]
        /\ tries' \in [Procs -> Seq(Nat)]
    BY <1>2, <1>4, <1>5, <1>7 DEF TypeOK
  <2> QED  BY <2>1, <2>2, <1>6, <1>8 DEF TypeOK
<1>10. Shape'
  BY <1>2, <1>4, <1>5, <1>7, <1>8 DEF TypeOK, Shape, JobPoints, Procs
<1> QED  BY <1>9, <1>10

\* A worker that only moves on: the entry it is at stays one of its list where
\* the new program point needs it.
LEMMA MoveType ==
  ASSUME TypeOK, Shape, NEW p \in Procs, NEW c, NEW n \in Nat \ {0}, Goto(p, c, n),
         p \in Jobs => c \in JobPoints, p \in Restarters => c \in RestartPoints,
         c \in {"delete", "replace", "insert"} => n \in DOMAIN list[p],
         UNCHANGED <<list, mark, tries>>
  PROVE  pc' \in [Procs -> Points] /\ Shape'
  BY DEF TypeOK, Shape, Procs, Points, JobPoints, RestartPoints, Goto

\* The steps that build a worker's marks anew, entry by entry.
LEMMA MarksType ==
  ASSUME TypeOK, Shape, NEW p \in Procs, NEW m \in [DOMAIN list[p] -> Marks],
         NEW t \in [DOMAIN list[p] -> Nat], NEW c, NEW n \in Nat \ {0}, Goto(p, c, n),
         p \in Jobs => c \in JobPoints, p \in Restarters => c \in RestartPoints,
         c \notin {"delete", "replace", "insert"},
         mark' = [mark EXCEPT ![p] = m], tries' = [tries EXCEPT ![p] = t], UNCHANGED list
  PROVE  /\ pc' \in [Procs -> Points] /\ mark' \in [Procs -> Seq(Marks)]
         /\ tries' \in [Procs -> Seq(Nat)] /\ Shape'
<1>1. list[p] \in Seq(Entry \cup RowType)
  BY DEF TypeOK
<1>2. m \in Seq(Marks) /\ t \in Seq(Nat) /\ DOMAIN m = DOMAIN list[p] /\ DOMAIN t = DOMAIN list[p]
  BY <1>1, SeqOver
<1>3. pc' \in [Procs -> Points] /\ mark' \in [Procs -> Seq(Marks)] /\ tries' \in [Procs -> Seq(Nat)]
  BY <1>2 DEF TypeOK, Points, JobPoints, RestartPoints, Goto, Procs
<1>4. Shape'
  BY <1>2 DEF TypeOK, Shape, JobPoints, RestartPoints, Goto, Procs
<1> QED  BY <1>3, <1>4

\* An exec that returned an error, with a retry due or without.
LEMMA ExecFailsType ==
  ASSUME TypeOK, Shape, NEW p \in Procs, pc[p] = "run", ~ AtEnd(p), CurMark(p) = "run",
         ExecFails(p), UNCHANGED list
  PROVE  /\ pc' \in [Procs -> Points] /\ mark' \in [Procs -> Seq(Marks)]
         /\ tries' \in [Procs -> Seq(Nat)] /\ Shape'
<1> DEFINE G == Group(p, i[p])
           again == tries[p][i[p]] + 1 < Attempts(p)
           m == [k \in DOMAIN list[p] |-> IF k \notin G THEN mark[p][k]
                                           ELSE IF again THEN "run" ELSE "fail"]
           t == [k \in DOMAIN list[p] |-> IF k \in G THEN tries[p][i[p]] + 1 ELSE tries[p][k]]
<1>1. i[p] \in DOMAIN list[p]
  BY DEF AtEnd, TypeOK, Shape
<1>2. Max(G) \in Nat \ {0} /\ Min(G) \in Nat \ {0}
  BY <1>1, GroupEnds DEF CurMark
<1>3. mark[p] \in [DOMAIN list[p] -> Marks] /\ tries[p] \in [DOMAIN list[p] -> Nat]
  BY DEF TypeOK, Shape
<1>4. m \in [DOMAIN list[p] -> Marks] /\ t \in [DOMAIN list[p] -> Nat]
  BY <1>1, <1>3 DEF Marks
<1>5. /\ mark' = [mark EXCEPT ![p] = m] /\ tries' = [tries EXCEPT ![p] = t]
      /\ Goto(p, "run", IF again THEN Min(G) ELSE Max(G) + 1)
  BY DEF ExecFails
<1>6. (IF again THEN Min(G) ELSE Max(G) + 1) \in Nat \ {0}
  BY <1>2
<1> HIDE DEF m, t, G, again
<1> QED  BY <1>4, <1>5, <1>6, MarksType DEF JobPoints, RestartPoints

\* SaveDriverOperation's branches: an action with a state or without, kept or not.
LEMMA SaveReadType ==
  ASSUME TypeOK, Shape, NEW j \in Jobs, SaveRead(j)
  PROVE  TypeOK' /\ Shape'
<1>1. j \in Procs /\ j \notin Restarters /\ i[j] \in DOMAIN list[j] /\ i[j] \in Nat \ {0}
  BY DEF SaveRead, AtEnd, TypeOK, Shape, Procs
<1>2. UNCHANGED <<list, mark, tries>>
  BY DEF SaveRead
<1>3. pc' \in [Procs -> Points] /\ Shape'
  <2>1. CASE Desc[Cur(j).act].state = NoState
    <3>1. Goto(j, "replace", i[j])
      BY <2>1 DEF SaveRead
    <3> QED  BY <1>1, <1>2, <3>1, MoveType DEF JobPoints
  <2>2. CASE Desc[Cur(j).act].state # NoState
    <3>1. Goto(j, "delete", i[j])
      BY <2>2 DEF SaveRead
    <3> QED  BY <1>1, <1>2, <3>1, MoveType DEF JobPoints
  <2> QED  BY <2>1, <2>2
<1>4. todo' \in [Procs -> SUBSET Nat]
  <2>1. {r.id : r \in Superseded(Cur(j).act)} \in SUBSET Nat
    BY DEF Superseded, RowType, TypeOK
  <2> QED  BY <2>1 DEF SaveRead, TypeOK
<1>5. TypeOK'
  <2>1. i' \in [Procs -> Nat]
    BY <1>3 DEF Shape
  <2> QED  BY <1>3, <1>4, <2>1 DEF SaveRead, TypeOK, db, pod, ghost
<1> QED  BY <1>3, <1>5

\* A save whose deletions are done goes on to the replacement or the next entry.
LEMMA SaveDeletedType ==
  ASSUME TypeOK, Shape, NEW j \in Jobs, SaveDeleted(j)
  PROVE  TypeOK' /\ Shape'
<1>1. j \in Procs /\ j \notin Restarters /\ i[j] \in DOMAIN list[j] /\ i[j] \in Nat \ {0}
  BY DEF SaveDeleted, TypeOK, Shape, Procs
<1>2. UNCHANGED <<list, mark, tries>>
  BY DEF SaveDeleted
<1>3. pc' \in [Procs -> Points] /\ Shape'
  <2>1. CASE Kept(Cur(j).act)
    <3>1. Goto(j, "replace", i[j])
      BY <2>1 DEF SaveDeleted
    <3> QED  BY <1>1, <1>2, <3>1, MoveType DEF JobPoints
  <2>2. CASE ~ Kept(Cur(j).act)
    <3>1. Goto(j, "save", i[j] + 1)
      BY <2>2 DEF SaveDeleted
    <3> QED  BY <1>1, <1>2, <3>1, MoveType DEF JobPoints
  <2> QED  BY <2>1, <2>2
<1>4. TypeOK'
  <2>1. i' \in [Procs -> Nat]
    BY <1>3 DEF Shape
  <2> QED  BY <1>3, <2>1 DEF SaveDeleted, TypeOK, db, pod, ghost
<1> QED  BY <1>3, <1>4

\* The steps of a configure request.
LEMMA JobType ==
  ASSUME TypeOK, Shape, NEW j \in Jobs, CheckDuplicate(j) \/ CheckEnds(j) \/ SaveStep(j) \/ ConfigureEnds(j)
  PROVE  TypeOK' /\ Shape'
<1> USE DEF TypeOK, Shape, Procs, Points, JobPoints, RestartPoints, Goto, AtEnd,
            Cur, CurMark, db, pod, ghost
<1>0. j \in Procs
  OBVIOUS
<1>1. CASE CheckDuplicate(j)
  <2>1. PICK v \in {"bad", "skip", "run"} : mark' = [mark EXCEPT ![j][i[j]] = v]
    BY <1>1 DEF CheckDuplicate
  <2> DEFINE m == [mark[j] EXCEPT ![i[j]] = v]
  <2>2. mark' = [mark EXCEPT ![j] = m]
    BY <2>1
  <2>3. m \in Seq(Marks) /\ DOMAIN m = DOMAIN mark[j]
    <3>1. v \in Marks
      BY SMTT(30) DEF Marks
    <3> QED  BY <3>1, SeqExcept
  <2> HIDE DEF m
  <2>4. /\ pc' = [pc EXCEPT ![j] = "check"] /\ i' = [i EXCEPT ![j] = i[j] + 1]
        /\ UNCHANGED <<rows, nextId, clock, phase, created, daemon, live, fit, losses,
                       list, since, todo, tries, left, wanted, lost>>
    BY <1>1 DEF CheckDuplicate
  <2>5. TypeOK'
    BY <2>2, <2>3, <2>4
  <2>6. Shape'
    BY <2>2, <2>3, <2>4
  <2> QED  BY <2>5, <2>6, SMTT(30)
<1>2. CASE CheckEnds(j)
  BY <1>2 DEF CheckEnds
<1>3. CASE SaveRead(j)
  BY <1>3, SaveReadType
<1>4. CASE SaveDelete(j)
  BY <1>4, SMTT(30) DEF SaveDelete
<1>5. CASE SaveDeleted(j)
  BY <1>5, SaveDeletedType
<1>6. CASE SaveReplace(j)
  BY <1>6 DEF SaveReplace
<1>7. CASE SaveInsert(j)
  <2>1. list[j][i[j]] \in Entry
    BY <1>7, ElementOfSeq DEF SaveInsert
  <2>2. rows' \subseteq RowType
    BY <1>7, <2>1 DEF SaveInsert, Entry, RowType
  <2>3. TypeOK'
    BY <1>7, <2>2 DEF SaveInsert
  <2>4. Shape'
    BY <1>7 DEF SaveInsert
  <2> QED  BY <2>3, <2>4
<1>8. CASE SaveFails(j)
  <2> DEFINE m == [mark[j] EXCEPT ![i[j]] = "unsaved"]
  <2>1. mark' = [mark EXCEPT ![j] = m]
    BY <1>8 DEF SaveFails
  <2>2. m \in Seq(Marks) /\ DOMAIN m = DOMAIN mark[j]
    BY SeqExcept DEF Marks
  <2> HIDE DEF m
  <2> QED  BY <1>8, <2>1, <2>2, SMTT(30) DEF SaveFails
<1>9. CASE SavePass(j)
  BY <1>9, SMTT(30) DEF SavePass
<1>10. CASE ConfigureEnds(j)
  BY <1>10 DEF ConfigureEnds
<1> QED  BY <1>1, <1>2, <1>3, <1>4, <1>5, <1>6, <1>7, <1>8, <1>9, <1>10 DEF SaveStep

\* The execs, of a configure request or of a replay.
LEMMA RunType ==
  ASSUME TypeOK, Shape, NEW p \in Procs, RunStep(p)
  PROVE  TypeOK' /\ Shape'
<1>0. p \in Jobs => p \notin Restarters
  OBVIOUS
<1>1. CASE RunScriptAction(p)
  <2> DEFINE ok == Accepts(Cur(p).act, live)
             m == [mark[p] EXCEPT ![i[p]] = IF ok THEN "ok" ELSE "fail"]
             t == [tries[p] EXCEPT ![i[p]] = @ + 1]
  <2>1. i[p] \in DOMAIN list[p] /\ i[p] \in Nat \ {0}
    BY <1>1 DEF RunScriptAction, AtEnd, TypeOK, Shape
  <2>2. m \in [DOMAIN list[p] -> Marks] /\ t \in [DOMAIN list[p] -> Nat]
    BY <2>1 DEF Marks, TypeOK, Shape
  <2>3. /\ mark' = [mark EXCEPT ![p] = m] /\ tries' = [tries EXCEPT ![p] = t]
        /\ Goto(p, "run", i[p] + 1) /\ UNCHANGED list
    BY <1>1 DEF RunScriptAction
  <2> HIDE DEF m, t
  <2>4. /\ pc' \in [Procs -> Points] /\ mark' \in [Procs -> Seq(Marks)]
        /\ tries' \in [Procs -> Seq(Nat)] /\ Shape'
    <3>1. "run" \in JobPoints /\ "run" \in RestartPoints /\ i[p] + 1 \in Nat \ {0}
      BY <2>1 DEF JobPoints, RestartPoints
    <3> QED  BY <2>2, <2>3, <3>1, MarksType
  <2>5. live' \in [Slots -> Actions \cup {Unset}]
    <3>1. {i[p]} \in SUBSET DOMAIN list[p]
      BY <2>1
    <3>2. After(live, p, {i[p]}) \in [Slots -> Actions \cup {Unset}]
      BY <3>1, AfterType DEF TypeOK
    <3> QED  BY <1>1, <3>2 DEF RunScriptAction, TypeOK
  <2>6. i' \in [Procs -> Nat]
    BY <2>4 DEF Shape
  <2> QED  BY <1>1, <2>4, <2>5, <2>6 DEF RunScriptAction, TypeOK, db, ghost
<1>2. CASE RunGuestCommit(p)
  <2> DEFINE G == Group(p, i[p])
             f == After(live, p, G)
             m == [k \in DOMAIN list[p] |-> IF k \in G THEN "ok" ELSE mark[p][k]]
  <2>1. i[p] \in DOMAIN list[p]
    BY <1>2 DEF RunGuestCommit, AtEnd, TypeOK, Shape
  <2>2. G \in SUBSET DOMAIN list[p] /\ Max(G) \in Nat \ {0}
    BY <1>2, <2>1, GroupEnds DEF RunGuestCommit, CurMark
  <2>3. f \in [Slots -> Actions \cup {Unset}]
    BY <2>2, AfterType DEF TypeOK
  <2>4. /\ pc' \in [Procs -> Points] /\ mark' \in [Procs -> Seq(Marks)]
        /\ tries' \in [Procs -> Seq(Nat)] /\ Shape'
        /\ live' \in [Slots -> Actions \cup {Unset}]
    <3>1. CASE \A k \in G : Accepts(list[p][k].act, f)
      <4>1. m \in [DOMAIN list[p] -> Marks]
        BY DEF Marks, TypeOK, Shape
      <4>2. tries[p] \in [DOMAIN list[p] -> Nat] /\ tries = [tries EXCEPT ![p] = tries[p]]
        BY DEF TypeOK, Shape
      <4>3. /\ mark' = [mark EXCEPT ![p] = m] /\ UNCHANGED <<list, tries>> /\ live' = f
            /\ Goto(p, "run", Max(G) + 1)
        BY <1>2, <3>1 DEF RunGuestCommit
      <4> HIDE DEF m, G, f
      <4>4. tries' = [tries EXCEPT ![p] = tries[p]] /\ Max(G) + 1 \in Nat \ {0}
        BY <2>2, <4>2, <4>3
      <4>5. "run" \in JobPoints /\ "run" \in RestartPoints
        BY DEF JobPoints, RestartPoints
      <4>6. /\ pc' \in [Procs -> Points] /\ mark' \in [Procs -> Seq(Marks)]
            /\ tries' \in [Procs -> Seq(Nat)] /\ Shape'
        BY <4>1, <4>2, <4>3, <4>4, <4>5, MarksType
      <4> QED  BY <2>3, <4>3, <4>6
    <3>2. CASE ~ \A k \in G : Accepts(list[p][k].act, f)
      <4>1. ExecFails(p) /\ UNCHANGED <<live, list>>
        BY <1>2, <3>2 DEF RunGuestCommit
      <4>2. pc[p] = "run" /\ ~ AtEnd(p) /\ CurMark(p) = "run"
        BY <1>2 DEF RunGuestCommit
      <4>3. live' \in [Slots -> Actions \cup {Unset}]
        BY <4>1 DEF TypeOK
      <4> QED  BY <4>1, <4>2, <4>3, ExecFailsType
    <3> QED  BY <3>1, <3>2
  <2>5. i' \in [Procs -> Nat]
    BY <2>4 DEF Shape
  <2> QED  BY <1>2, <2>4, <2>5 DEF RunGuestCommit, TypeOK, db, ghost
<1>3. CASE ExecError(p)
  <2>1. /\ pc[p] = "run" /\ ~ AtEnd(p) /\ CurMark(p) = "run" /\ ExecFails(p)
        /\ UNCHANGED list
    BY <1>3 DEF ExecError
  <2>2. i[p] \in DOMAIN list[p]
    BY <2>1 DEF AtEnd, TypeOK, Shape
  <2>3. Group(p, i[p]) \in SUBSET DOMAIN list[p]
    BY <2>1, <2>2, GroupEnds DEF CurMark
  <2>4. After(live, p, Group(p, i[p])) \in [Slots -> Actions \cup {Unset}]
    BY <2>3, AfterType DEF TypeOK
  <2>5. live' \in [Slots -> Actions \cup {Unset}]
    BY <1>3, <2>4 DEF ExecError, TypeOK
  <2>6. /\ pc' \in [Procs -> Points] /\ mark' \in [Procs -> Seq(Marks)]
        /\ tries' \in [Procs -> Seq(Nat)] /\ Shape'
    BY <2>1, ExecFailsType
  <2>7. i' \in [Procs -> Nat]
    BY <2>6 DEF Shape
  <2> QED  BY <1>3, <2>5, <2>6, <2>7 DEF ExecError, TypeOK, db, ghost
<1>4. CASE PassOver(p)
  <2>1. /\ i[p] + 1 \in Nat \ {0} /\ "run" \in JobPoints /\ "run" \in RestartPoints
        /\ "run" \notin {"delete", "replace", "insert"}
    BY DEF Shape, JobPoints, RestartPoints
  <2>2. /\ Goto(p, "run", i[p] + 1)
        /\ UNCHANGED <<db, pod, list, mark, since, todo, tries, left, ghost>>
    BY <1>4 DEF PassOver
  <2>3. pc' \in [Procs -> Points] /\ Shape'
    BY <2>1, <2>2, MoveType
  <2>4. i' \in [Procs -> Nat]
    BY <2>3 DEF Shape
  <2> QED  BY <2>2, <2>3, <2>4 DEF TypeOK, db, pod, ghost
<1>5. CASE RunEnds(p)
  <2> DEFINE K == {k \in DOMAIN list[p] : mark[p][k] = "ok" /\ list[p][k].persist}
             c == IF p \in Jobs THEN "save" ELSE "settle"
  <2>1. After(wanted, p, K) \in [Slots -> Actions \cup {Unset}]
    BY AfterType DEF TypeOK
  <2>2. wanted' \in [Slots -> Actions \cup {Unset}]
    <3> HIDE DEF K
    <3>1. wanted' = IF p \in Jobs THEN After(wanted, p, K) ELSE wanted
      BY <1>5 DEF RunEnds, K
    <3> QED  BY <2>1, <3>1 DEF TypeOK
  <2>3. Goto(p, c, 1) /\ UNCHANGED <<list, mark, tries>>
    BY <1>5 DEF RunEnds
  <2>4. /\ p \in Jobs => c \in JobPoints
        /\ p \in Restarters => c \in RestartPoints
        /\ c \notin {"delete", "replace", "insert"}
    BY DEF JobPoints, RestartPoints
  <2> HIDE DEF c
  <2>5. pc' \in [Procs -> Points] /\ Shape'
    BY <2>3, <2>4, MoveType
  <2>6. i' \in [Procs -> Nat]
    BY <2>5 DEF Shape
  <2> QED  BY <1>5, <2>2, <2>5, <2>6 DEF RunEnds, TypeOK, db, pod
<1> QED  BY <1>1, <1>2, <1>3, <1>4, <1>5 DEF RunStep

\* The steps that write to the table, or take a list anew; all others leave
\* the table and the lists alone.
LEMMA Writers ==
  ASSUME [Next]_vars
  PROVE  \/ UNCHANGED <<rows, nextId, list>>
         \/ \E j \in Jobs : Configure(j) \/ SaveDelete(j) \/ SaveReplace(j) \/ SaveInsert(j)
         \/ \E r \in Restarters : ReplayList(r) \/ ReplayResolve(r) \/ ReplaySettle(r)
<1> USE DEF db
<1>1. ASSUME NEW p, RunStep(p) PROVE UNCHANGED <<rows, nextId, list>>
  <2>1. CASE RunScriptAction(p)
    BY <2>1 DEF RunScriptAction
  <2>2. CASE RunGuestCommit(p)
    BY <2>2 DEF RunGuestCommit
  <2>3. CASE ExecError(p) \/ PassOver(p) \/ RunEnds(p)
    BY <2>3 DEF ExecError, PassOver, RunEnds
  <2> QED  BY <1>1, <2>1, <2>2, <2>3 DEF RunStep
<1>2. ASSUME NEW j \in Jobs,
             \/ CheckDuplicate(j) \/ CheckEnds(j) \/ ConfigureEnds(j) \/ SaveRead(j)
             \/ SaveDeleted(j) \/ SaveFails(j) \/ SavePass(j)
      PROVE  UNCHANGED <<rows, nextId, list>>
  BY <1>2 DEF CheckDuplicate, CheckEnds, ConfigureEnds, SaveRead, SaveDeleted, SaveFails,
              SavePass
<1>3. ASSUME NEW r \in Restarters,
             \/ RestartPod(r) \/ WaitReady(r) \/ ApplyPlatformMTU(r) \/ ReplayResolved(r)
             \/ ReplayAborts(r) \/ ReplayFails(r) \/ RestartEnds(r)
      PROVE  UNCHANGED <<rows, nextId, list>>
  BY <1>3 DEF RestartPod, WaitReady, ApplyPlatformMTU, ReplayResolved, ReplayAborts,
              ReplayFails, RestartEnds
<1>4. CASE ClusterStep \/ Crash \/ UNCHANGED vars
  BY <1>4 DEF ClusterStep, PodGone, PodCreated, PodReady, DaemonsUp, PodLost, Crash, work, vars
<1>5. ASSUME NEW j \in Jobs, Configure(j) \/ JobStep(j)
      PROVE  \/ UNCHANGED <<rows, nextId, list>>
             \/ Configure(j) \/ SaveDelete(j) \/ SaveReplace(j) \/ SaveInsert(j)
  BY <1>1, <1>2, <1>5 DEF JobStep, SaveStep
<1>6. ASSUME NEW r \in Restarters, RestartPod(r) \/ RestartStep(r)
      PROVE  \/ UNCHANGED <<rows, nextId, list>>
             \/ ReplayList(r) \/ ReplayResolve(r) \/ ReplaySettle(r)
  BY <1>1, <1>3, <1>6 DEF RestartStep
<1> QED  BY <1>4, <1>5, <1>6 DEF Next

\* The table stays finite: rows are deleted, stamped, or added one at a time.
LEMMA FiniteRows ==
  ASSUME IsFiniteSet(rows), [Next]_vars
  PROVE  IsFiniteSet(rows')
<1>1. CASE rows' \subseteq rows
  BY <1>1, FS_Subset
<1>2. CASE \E x : rows' = rows \cup {x}
  BY <1>2, FS_AddElement
<1>3. CASE \E r \in Restarters :
             rows' = {IF q.id = Cur(r).id THEN [q EXCEPT !.at = clock] ELSE q : q \in rows}
  <2>1. PICK r \in Restarters :
             rows' = {IF q.id = Cur(r).id THEN [q EXCEPT !.at = clock] ELSE q : q \in rows}
    BY <1>3
  <2> DEFINE f == [q \in rows |-> IF q.id = Cur(r).id THEN [q EXCEPT !.at = clock] ELSE q]
  <2>2. f \in Surjection(rows, rows')
    BY <2>1 DEF Surjection
  <2> HIDE DEF f
  <2> QED  BY <2>2, FS_Surjection
<1>4. \/ rows' \subseteq rows
      \/ \E x : rows' = rows \cup {x}
      \/ \E r \in Restarters :
             rows' = {IF q.id = Cur(r).id THEN [q EXCEPT !.at = clock] ELSE q : q \in rows}
  <2>1. CASE UNCHANGED rows
    BY <2>1
  <2>2. CASE \E j \in Jobs : Configure(j) \/ SaveDelete(j) \/ SaveReplace(j) \/ SaveInsert(j)
    BY <2>2 DEF Configure, SaveDelete, SaveReplace, SaveInsert, db
  <2>3. CASE \E r \in Restarters : ReplayList(r) \/ ReplayResolve(r)
    BY <2>3 DEF ReplayList, ReplayResolve, db
  <2>4. CASE \E r \in Restarters : ReplaySettle(r)
    BY <2>4 DEF ReplaySettle
  <2> QED  BY <2>1, <2>2, <2>3, <2>4, Writers
<1> QED  BY <1>1, <1>2, <1>3, <1>4

\* The steps of a restart.
LEMMA RestartType ==
  ASSUME TypeOK, Shape, IsFiniteSet(rows), NEW r \in Restarters,
         \/ RestartPod(r) \/ WaitReady(r) \/ ApplyPlatformMTU(r) \/ ReplayList(r)
         \/ ReplayResolve(r) \/ ReplayResolved(r) \/ ReplayAborts(r)
         \/ ReplaySettle(r) \/ ReplayFails(r) \/ RestartEnds(r)
  PROVE  TypeOK' /\ Shape'
<1>0. /\ r \in Procs /\ r \notin Jobs /\ i[r] \in Nat \ {0} /\ i[r] + 1 \in Nat \ {0}
      /\ list[r] \in Seq(RowType) /\ DOMAIN list[r] = 1..Len(list[r]) /\ Len(list[r]) \in Nat
  BY DEF Procs, TypeOK, Shape
<1>a. \A c \in {"idle", "wait", "mtu", "list", "resolve", "run", "settle"} :
        c \in RestartPoints /\ c \notin {"delete", "replace", "insert"}
  BY DEF RestartPoints
<1>1. CASE RestartPod(r)
  <2>1. /\ Goto(r, "wait", 1) /\ phase' = "terminating" /\ left > 0 /\ left' = left - 1
        /\ UNCHANGED <<db, created, daemon, live, fit, losses, list, mark, since, todo,
                       tries, ghost>>
    BY <1>1 DEF RestartPod, MayBegin
  <2>2. pc' \in [Procs -> Points] /\ Shape'
    BY <1>0, <1>a, <2>1, MoveType
  <2>3. i' \in [Procs -> Nat] /\ left' \in Nat
    BY <2>1, <2>2 DEF Shape, TypeOK
  <2> QED  BY <2>1, <2>2, <2>3 DEF TypeOK, db, ghost
<1>2. ASSUME NEW c \in RestartPoints, NEW n \in Nat \ {0}, Goto(r, c, n),
             c \notin {"delete", "replace", "insert"},
             UNCHANGED <<db, pod, list, mark, since, todo, tries, left, ghost>>
      PROVE  TypeOK' /\ Shape'
  <2>1. pc' \in [Procs -> Points] /\ Shape'
    BY <1>0, <1>2, MoveType
  <2>2. i' \in [Procs -> Nat]
    BY <2>1 DEF Shape
  <2> QED  BY <1>2, <2>1, <2>2 DEF TypeOK, db, pod, ghost
<1>3. CASE WaitReady(r) \/ ApplyPlatformMTU(r) \/ ReplayResolved(r) \/ RestartEnds(r)
  <2>1. PICK c \in {"idle", "mtu", "list", "run"}, n \in {1, i[r]} : Goto(r, c, n)
    BY <1>3 DEF WaitReady, ApplyPlatformMTU, ReplayResolved, RestartEnds
  <2>2. UNCHANGED <<db, pod, list, mark, since, todo, tries, left, ghost>>
    BY <1>3 DEF WaitReady, ApplyPlatformMTU, ReplayResolved, RestartEnds
  <2> QED  BY <1>0, <1>a, <1>2, <2>1, <2>2
<1>4. CASE ReplayList(r)
  <2>1. PICK s \in [1..Cardinality(rows) -> rows] :
          /\ list' = [list EXCEPT ![r] = s]
          /\ mark' = [mark EXCEPT ![r] = [k \in DOMAIN s |-> "todo"]]
          /\ tries' = [tries EXCEPT ![r] = [k \in DOMAIN s |-> 0]]
    BY <1>4 DEF ReplayList
  <2> DEFINE m == [k \in DOMAIN s |-> "todo"]
             t == [k \in DOMAIN s |-> 0]
             c == IF rows = {} \/ phase = "gone" THEN "idle" ELSE "resolve"
  <2>2. s \in Seq(RowType) /\ s \in Seq(Entry \cup RowType)
    <3>1. Cardinality(rows) \in Nat
      BY FS_CardinalityType
    <3>2. s \in [1..Cardinality(rows) -> RowType]
      BY DEF TypeOK
    <3>3. s \in Seq(RowType)
      BY <3>1, <3>2
    <3> QED  BY <3>3, SeqMonotonic
  <2>3. m \in Seq(Marks) /\ t \in Seq(Nat) /\ DOMAIN m = DOMAIN s /\ DOMAIN t = DOMAIN s
    <3>1. m \in [DOMAIN s -> Marks] /\ t \in [DOMAIN s -> Nat]
      BY DEF Marks
    <3> HIDE DEF m, t
    <3> QED  BY <2>2, <3>1, SeqOver
  <2>4. /\ list' = [list EXCEPT ![r] = s] /\ mark' = [mark EXCEPT ![r] = m]
        /\ tries' = [tries EXCEPT ![r] = t]
        /\ pc' = [pc EXCEPT ![r] = c] /\ i' = [i EXCEPT ![r] = 1]
    BY <1>4, <2>1 DEF ReplayList, Goto
  <2>5. c \in {"idle", "resolve"}
    OBVIOUS
  <2> HIDE DEF m, t, c
  <2>6. TypeOK'
    BY <1>0, <1>4, <2>2, <2>3, <2>4, <2>5 DEF ReplayList, TypeOK, Points, db, pod, ghost
  <2>7. Shape'
    BY <1>0, <2>2, <2>3, <2>4, <2>5 DEF TypeOK, Shape, Procs, RestartPoints
  <2> QED  BY <2>6, <2>7
<1>5. CASE ReplayResolve(r)
  <2> DEFINE v == IF fit[Cur(r).act] = "unplanned" THEN "bad" ELSE "run"
             m == [mark[r] EXCEPT ![i[r]] = v]
  <2>1. i[r] \in DOMAIN list[r]
    BY <1>0, <1>5 DEF ReplayResolve, AtEnd
  <2>2. m \in [DOMAIN list[r] -> Marks] /\ tries[r] \in [DOMAIN list[r] -> Nat]
    <3>1. v \in Marks
      BY DEF Marks
    <3>2. mark[r] \in [DOMAIN list[r] -> Marks] /\ tries[r] \in [DOMAIN list[r] -> Nat]
      BY <1>0 DEF TypeOK, Shape
    <3> HIDE DEF v
    <3> QED  BY <3>1, <3>2
  <2>3. /\ mark' = [mark EXCEPT ![r] = m] /\ tries' = [tries EXCEPT ![r] = tries[r]]
        /\ Goto(r, "resolve", i[r] + 1) /\ UNCHANGED list
    <3>1. mark' = [mark EXCEPT ![r] = m]
      BY <1>5 DEF ReplayResolve
    <3>2. tries' = tries /\ tries = [tries EXCEPT ![r] = tries[r]]
      BY <1>0, <1>5 DEF ReplayResolve, TypeOK
    <3> QED  BY <1>5, <3>1, <3>2 DEF ReplayResolve
  <2> HIDE DEF m, v
  <2>4. /\ pc' \in [Procs -> Points] /\ mark' \in [Procs -> Seq(Marks)]
        /\ tries' \in [Procs -> Seq(Nat)] /\ Shape'
    <3>1. "resolve" \in RestartPoints /\ "resolve" \notin {"delete", "replace", "insert"}
      BY <1>a
    <3> QED  BY <1>0, <2>2, <2>3, <3>1, MarksType
  <2>5. i' \in [Procs -> Nat]
    BY <2>4 DEF Shape
  <2>6. rows' \subseteq RowType /\ lost' \in BOOLEAN
    BY <1>5 DEF ReplayResolve, TypeOK
  <2> QED  BY <1>5, <2>4, <2>5, <2>6 DEF ReplayResolve, TypeOK, pod
<1>6. CASE ReplayAborts(r)
  <2> DEFINE G == Group(r, i[r])
             m == [k \in DOMAIN list[r] |-> IF k \in G THEN "run" ELSE mark[r][k]]
  <2>1. m \in [DOMAIN list[r] -> Marks] /\ tries[r] \in [DOMAIN list[r] -> Nat]
    <3>1. /\ mark[r] \in Seq(Marks) /\ DOMAIN mark[r] = DOMAIN list[r]
          /\ tries[r] \in Seq(Nat) /\ DOMAIN tries[r] = DOMAIN list[r]
      BY <1>0 DEF TypeOK, Shape
    <3>2. mark[r] \in [DOMAIN list[r] -> Marks] /\ tries[r] \in [DOMAIN list[r] -> Nat]
      BY <3>1
    <3>3. "run" \in Marks
      BY DEF Marks
    <3> QED  BY <3>2, <3>3
  <2>2. /\ mark' = [mark EXCEPT ![r] = m] /\ tries' = [tries EXCEPT ![r] = tries[r]]
        /\ Goto(r, "settle", 1) /\ UNCHANGED list
    <3>1. tries' = tries /\ tries = [tries EXCEPT ![r] = tries[r]]
      BY <1>0, <1>6 DEF ReplayAborts, TypeOK
    <3> QED  BY <1>6, <3>1 DEF ReplayAborts
  <2> HIDE DEF m, G
  <2>3. /\ pc' \in [Procs -> Points] /\ mark' \in [Procs -> Seq(Marks)]
        /\ tries' \in [Procs -> Seq(Nat)] /\ Shape'
    <3>1. "settle" \in RestartPoints /\ "settle" \notin {"delete", "replace", "insert"}
      BY <1>a
    <3>2. 1 \in Nat \ {0}
      OBVIOUS
    <3> QED  BY <1>0, <2>1, <2>2, <3>1, <3>2, MarksType
  <2>4. i' \in [Procs -> Nat]
    BY <2>3 DEF Shape
  <2> QED  BY <1>6, <2>3, <2>4 DEF ReplayAborts, TypeOK, db, pod, ghost
<1>7. CASE ReplaySettle(r)
  <2>1. Goto(r, "settle", i[r] + 1) /\ UNCHANGED <<list, mark, tries>>
    BY <1>7 DEF ReplaySettle
  <2>2. pc' \in [Procs -> Points] /\ Shape'
    BY <1>0, <1>a, <2>1, MoveType
  <2>3. i' \in [Procs -> Nat]
    BY <2>2 DEF Shape
  <2>4. rows' \subseteq RowType /\ clock' \in Nat /\ lost' \in BOOLEAN
    <3>1. CASE CurMark(r) = "ok"
      <4>1. \A q \in rows : [q EXCEPT !.at = clock] \in RowType
        <5> SUFFICES ASSUME NEW q \in rows PROVE [q EXCEPT !.at = clock] \in RowType
          OBVIOUS
        <5>1. q \in [id: Nat, act: Actions, at: Nat] /\ clock \in Nat
          BY DEF TypeOK, RowType
        <5> QED  BY <5>1 DEF RowType
      <4>2. /\ rows' = {IF q.id = Cur(r).id THEN [q EXCEPT !.at = clock] ELSE q : q \in rows}
            /\ clock' = clock + 1 /\ lost' = lost
        BY <1>7, <3>1 DEF ReplaySettle
      <4> QED  BY <4>1, <4>2 DEF TypeOK
    <3>2. CASE CurMark(r) = "fail"
      BY <1>7, <3>2 DEF ReplaySettle, TypeOK
    <3>3. CASE CurMark(r) \notin {"ok", "fail"}
      BY <1>7, <3>3 DEF ReplaySettle, TypeOK
    <3> QED  BY <3>1, <3>2, <3>3
  <2> QED  BY <1>7, <2>1, <2>2, <2>3, <2>4 DEF ReplaySettle, TypeOK, pod
<1>8. CASE ReplayFails(r)
  <2>1. CASE pc[r] = "resolve"
    <3> DEFINE m == [mark[r] EXCEPT ![i[r]] = "bad"]
    <3>1. m \in [DOMAIN list[r] -> Marks] /\ tries[r] \in [DOMAIN list[r] -> Nat]
      <4>1. "bad" \in Marks
        BY DEF Marks
      <4>2. mark[r] \in [DOMAIN list[r] -> Marks] /\ tries[r] \in [DOMAIN list[r] -> Nat]
        BY <1>0 DEF TypeOK, Shape
      <4> QED  BY <4>1, <4>2
    <3>2. /\ mark' = [mark EXCEPT ![r] = m] /\ tries' = [tries EXCEPT ![r] = tries[r]]
          /\ Goto(r, "resolve", i[r] + 1) /\ UNCHANGED list
      <4>1. mark' = [mark EXCEPT ![r] = m]
        BY <1>8, <2>1 DEF ReplayFails
      <4>2. tries' = tries /\ tries = [tries EXCEPT ![r] = tries[r]]
        BY <1>0, <1>8 DEF ReplayFails, TypeOK
      <4> QED  BY <1>8, <2>1, <4>1, <4>2 DEF ReplayFails
    <3> HIDE DEF m
    <3>3. /\ pc' \in [Procs -> Points] /\ mark' \in [Procs -> Seq(Marks)]
          /\ tries' \in [Procs -> Seq(Nat)] /\ Shape'
      <4>1. "resolve" \in RestartPoints /\ "resolve" \notin {"delete", "replace", "insert"}
        BY <1>a
      <4> QED  BY <1>0, <3>1, <3>2, <4>1, MarksType
    <3>4. i' \in [Procs -> Nat]
      BY <3>3 DEF Shape
    <3> QED  BY <1>8, <3>3, <3>4 DEF ReplayFails, TypeOK, db, pod, ghost
  <2>2. CASE pc[r] # "resolve"
    <3>1. \E c \in RestartPoints \ {"delete", "replace", "insert"}, n \in Nat \ {0} : Goto(r, c, n)
      BY <1>0, <1>8, <1>a, <2>2, SMTT(30) DEF ReplayFails
    <3>2. UNCHANGED <<list, mark, tries>>
      BY <1>8, <2>2 DEF ReplayFails
    <3>3. pc' \in [Procs -> Points] /\ Shape'
      BY <1>0, <1>a, <3>1, <3>2, MoveType
    <3>4. i' \in [Procs -> Nat]
      BY <3>3 DEF Shape
    <3> QED  BY <1>8, <2>2, <3>3, <3>4 DEF ReplayFails, TypeOK, db, pod, ghost
  <2> QED  BY <2>1, <2>2
<1> QED  BY <1>1, <1>3, <1>4, <1>5, <1>6, <1>7, <1>8

\* A time rounded down to whole units of creationTimestamp is a time.
LEMMA WholeUnits ==
  ASSUME NEW t \in Nat, NEW n \in Nat \ {0}
  PROVE  (t \div n) * n \in Nat
<1>1. t \div n \in Nat
  <2>1. t \div n \in Int /\ t >= 0 /\ n > 0
    OBVIOUS
  <2>2. t \div n >= 0
    BY <2>1
  <2> QED  BY <2>1, <2>2
<1>2. \A d \in Nat : d * n \in Nat
  OBVIOUS
<1> QED  BY <1>1, <1>2

\* The cluster's steps and a crash of the backend.
LEMMA ClusterType ==
  ASSUME TypeOK, Shape, ClusterStep \/ Crash
  PROVE  TypeOK' /\ Shape'
<1> USE DEF TypeOK, Shape, Procs, Points, JobPoints, RestartPoints, db, pod, work, ghost
<1>1. CASE PodGone
  BY <1>1 DEF PodGone
<1>2. CASE PodCreated
  <2>1. (clock \div Resolution) * Resolution \in Nat
    BY WholeUnits
  <2>2. live' \in [Slots -> Actions \cup {Unset}] /\ fit' \in [Actions -> FitKinds]
    BY <1>2 DEF PodCreated
  <2>3. daemon' \in BOOLEAN
    BY <1>2 DEF PodCreated
  <2> QED  BY <1>2, <2>1, <2>2, <2>3 DEF PodCreated
<1>3. CASE PodReady
  BY <1>3 DEF PodReady
<1>4. CASE DaemonsUp
  BY <1>4 DEF DaemonsUp
<1>5. CASE PodLost
  BY <1>5 DEF PodLost
<1>6. CASE Crash
  BY <1>6 DEF Crash
<1> QED  BY <1>1, <1>2, <1>3, <1>4, <1>5, <1>6 DEF ClusterStep

\* Every step keeps the types and the shape.
LEMMA TypeStep ==
  ASSUME TypeOK, Shape, IsFiniteSet(rows), [Next]_vars
  PROVE  TypeOK' /\ Shape'
<1>1. ASSUME NEW j \in Jobs, Configure(j) \/ JobStep(j) PROVE TypeOK' /\ Shape'
  <2>1. j \in Procs
    BY DEF Procs
  <2> QED  BY <1>1, <2>1, ConfigureType, JobType, RunType DEF JobStep
<1>2. ASSUME NEW r \in Restarters, RestartPod(r) \/ RestartStep(r) PROVE TypeOK' /\ Shape'
  <2>1. r \in Procs
    BY DEF Procs
  <2> QED  BY <1>2, <2>1, RestartType, RunType DEF RestartStep
<1>3. CASE ClusterStep \/ Crash
  BY <1>3, ClusterType
<1>4. CASE UNCHANGED vars
  BY <1>4 DEF vars, TypeOK, Shape
<1> QED  BY <1>1, <1>2, <1>3, <1>4 DEF Next

\* Type correctness: whatever the requests, the faults and their interleaving,
\* the table, the pod and the workers keep their types.
THEOREM TypeCorrect == Spec => [](TypeOK /\ Shape /\ IsFiniteSet(rows))
<1>1. Init => TypeOK /\ Shape /\ IsFiniteSet(rows)
  BY TypeInit, FS_EmptySet DEF Init
<1>2. TypeOK /\ Shape /\ IsFiniteSet(rows) /\ [Next]_vars
      => (TypeOK /\ Shape /\ IsFiniteSet(rows))'
  BY TypeStep, FiniteRows
<1> QED  BY <1>1, <1>2, PTL DEF Spec

-----------------------------------------------------------------------------
(* Ids are never reused, so the ids a replay holds go on naming its rows.  *)

\* Ids below the AUTOINCREMENT counter name one operation each, in the table
\* and in the list a replay read from it.
IdsNameOperations ==
  /\ \A q \in rows : q.id < nextId
  /\ \A q, x \in rows : q.id = x.id => q.act = x.act
  /\ \A r \in Restarters : \A k \in DOMAIN list[r] :
       /\ list[r][k].id < nextId
       /\ \A q \in rows : q.id = list[r][k].id => q.act = list[r][k].act

\* What a step does to the table: rows go or are stamped, or one row is added.
OnlyKnownRows == /\ \A q \in rows' : \E x \in rows : q.id = x.id /\ q.act = x.act
                 /\ nextId' = nextId
OneNewRow == \E a, t : /\ rows' = rows \cup {[id |-> nextId, act |-> a, at |-> t]}
                       /\ nextId' = nextId + 1
SameLists == \A r \in Restarters : list'[r] = list[r]

\* Every step removes or stamps rows, adds one, or reads a list.
LEMMA TableSteps ==
  ASSUME TypeOK, [Next]_vars
  PROVE  \/ (OnlyKnownRows \/ OneNewRow) /\ SameLists
         \/ \E r \in Restarters : ReplayList(r)
<1> USE DEF OnlyKnownRows, SameLists
<1>1. CASE \E j \in Jobs : Configure(j)
  BY <1>1 DEF Configure, TypeOK, Procs, db
<1>2. CASE \E j \in Jobs : SaveDelete(j) \/ SaveReplace(j)
  BY <1>2 DEF SaveDelete, SaveReplace
<1>3. CASE \E j \in Jobs : SaveInsert(j)
  BY <1>3 DEF SaveInsert, OneNewRow
<1>4. CASE \E r \in Restarters : ReplayResolve(r)
  BY <1>4 DEF ReplayResolve
<1>5. CASE \E r \in Restarters : ReplaySettle(r)
  <2>1. PICK r \in Restarters : ReplaySettle(r)
    BY <1>5
  <2>2. nextId' = nextId /\ SameLists
    BY <2>1 DEF ReplaySettle
  <2>3. CASE rows' \subseteq rows
    BY <2>2, <2>3
  <2>4. CASE rows' = {IF q.id = Cur(r).id THEN [q EXCEPT !.at = clock] ELSE q : q \in rows}
    <3>1. \A q \in rows : [q EXCEPT !.at = clock].id = q.id /\ [q EXCEPT !.at = clock].act = q.act
      BY DEF TypeOK, RowType
    <3>2. ASSUME NEW q \in rows' PROVE \E x \in rows : q.id = x.id /\ q.act = x.act
      <4>1. PICK x \in rows : q = IF x.id = Cur(r).id THEN [x EXCEPT !.at = clock] ELSE x
        BY <2>4
      <4> QED  BY <3>1, <4>1
    <3> QED  BY <2>2, <3>2
  <2> QED  BY <2>1, <2>3, <2>4 DEF ReplaySettle
<1>6. CASE UNCHANGED <<rows, nextId, list>>
  BY <1>6
<1> QED  BY <1>1, <1>2, <1>3, <1>4, <1>5, <1>6, Writers

\* Every step keeps ids and operations together.
LEMMA IdsStep ==
  ASSUME TypeOK, Shape, IsFiniteSet(rows), IdsNameOperations, [Next]_vars
  PROVE  IdsNameOperations'
<1>0. /\ \A q \in rows : q.id \in Nat
      /\ nextId \in Nat
      /\ \A r \in Restarters : \A k \in DOMAIN list[r] : list[r][k].id \in Nat
  <2>1. ASSUME NEW r \in Restarters, NEW k \in DOMAIN list[r] PROVE list[r][k].id \in Nat
    <3>1. list[r] \in Seq(RowType) /\ k \in 1..Len(list[r])
      BY <2>1 DEF Shape
    <3>2. list[r][k] \in RowType
      BY <3>1, ElementOfSeq
    <3> QED  BY <3>2 DEF RowType
  <2> QED  BY <2>1 DEF TypeOK, RowType
<1>1. CASE OnlyKnownRows /\ SameLists
  BY <1>0, <1>1 DEF OnlyKnownRows, SameLists, IdsNameOperations
<1>2. CASE OneNewRow /\ SameLists
  <2>1. PICK a, t : /\ rows' = rows \cup {[id |-> nextId, act |-> a, at |-> t]}
                    /\ nextId' = nextId + 1
    BY <1>2 DEF OneNewRow
  <2> DEFINE x == [id |-> nextId, act |-> a, at |-> t]
  <2>2. x.id = nextId /\ rows' = rows \cup {x}
    BY <2>1
  <2> HIDE DEF x
  <2>3. \A q \in rows' : q.id < nextId'
    BY <1>0, <2>1, <2>2 DEF IdsNameOperations
  <2>4. \A q, y \in rows' : q.id = y.id => q.act = y.act
    BY <1>0, <2>2 DEF IdsNameOperations
  <2>5. \A r \in Restarters : \A k \in DOMAIN list[r] :
          /\ list[r][k].id < nextId'
          /\ \A q \in rows' : q.id = list[r][k].id => q.act = list[r][k].act
    BY <1>0, <2>1, <2>2 DEF IdsNameOperations
  <2> QED  BY <1>2, <2>3, <2>4, <2>5 DEF SameLists, IdsNameOperations
<1>3. CASE \E r \in Restarters : ReplayList(r)
  <2>1. PICK r \in Restarters : ReplayList(r)
    BY <1>3
  <2>2. PICK s \in [1..Cardinality(rows) -> rows] : list' = [list EXCEPT ![r] = s]
    BY <2>1 DEF ReplayList
  <2>3. rows' = rows /\ nextId' = nextId /\ r \in Procs /\ list \in [Procs -> Seq(Entry \cup RowType)]
    BY <2>1 DEF ReplayList, db, Procs, TypeOK
  <2>4. ASSUME NEW x \in Restarters, NEW k \in DOMAIN list'[x]
        PROVE  /\ list'[x][k].id < nextId
               /\ \A q \in rows : q.id = list'[x][k].id => q.act = list'[x][k].act
    <3>1. CASE x = r
      <4>1. list'[x][k] \in rows
        BY <2>2, <2>3, <2>4, <3>1
      <4> QED  BY <4>1 DEF IdsNameOperations
    <3>2. CASE x # r
      BY <2>2, <2>3, <2>4, <3>2 DEF IdsNameOperations
    <3> QED  BY <3>1, <3>2
  <2> QED  BY <2>3, <2>4 DEF IdsNameOperations
<1> QED  BY <1>1, <1>2, <1>3, TableSteps

\* Ids and interleavings: with any number of configure and restart requests
\* running at once, losing pods and crashing anywhere, a row with an id that a
\* replay holds is the operation the replay ran.
THEOREM ReplaySettlesOwn == Spec => []ReplaySettlesOwnRows
<1>1. Init => IdsNameOperations
  <2>1. ASSUME Init, NEW r \in Restarters PROVE DOMAIN list[r] = {}
    BY <2>1 DEF Init, Procs
  <2> QED  BY <2>1 DEF Init, IdsNameOperations
<1>2. TypeOK /\ Shape /\ IsFiniteSet(rows) /\ IdsNameOperations /\ [Next]_vars
      => IdsNameOperations'
  BY IdsStep
<1>3. IdsNameOperations => ReplaySettlesOwnRows
  BY DEF IdsNameOperations, ReplaySettlesOwnRows
<1> QED  BY <1>1, <1>2, <1>3, TypeCorrect, PTL DEF Spec

-----------------------------------------------------------------------------
(* The state rule: one row per piece of state, when requests are serial.   *)

\* Two actions are on the same slot exactly when the state rule says so: the
\* same state and key, or for an action with no state, the same action.
LEMMA SlotRule ==
  ASSUME NEW a \in Actions, NEW b \in Actions
  PROVE  Slot(b) = Slot(a) <=> IF Desc[a].state = NoState THEN b = a ELSE SameState(a, b)
  BY DEF Slot, SameState

\* One request at a time.
OneAtATime == \A p, q \in Procs : pc[p] # "idle" /\ pc[q] # "idle" => p = q

\* A save half way through: the rows on the slot are still to be deleted, then
\* only copies of the action itself are left on it, then nothing is.
SaveClearsSlot ==
  \A j \in Jobs :
    /\ pc[j] = "delete" =>
         /\ Desc[Cur(j).act].state # NoState
         /\ \A r \in rows : Slot(r.act) = Slot(Cur(j).act) => r.id \in todo[j]
    /\ pc[j] = "replace" =>
         \A r \in rows : Slot(r.act) = Slot(Cur(j).act) => r.act = Cur(j).act
    /\ pc[j] = "insert" => \A r \in rows : Slot(r.act) # Slot(Cur(j).act)

\* Serial requests stay serial.
LEMMA SerialStep ==
  ASSUME Serial, TypeOK, OneAtATime, [Next]_vars
  PROVE  OneAtATime'
<1>1. ASSUME NEW p \in Procs, NEW c, pc' = [pc EXCEPT ![p] = c], Quiet \/ pc[p] # "idle"
      PROVE  OneAtATime'
  BY <1>1 DEF OneAtATime, Quiet, TypeOK
<1>2. CASE pc' = pc \/ Crash
  BY <1>2 DEF OneAtATime, Crash
<1>3. CASE \E j \in Jobs : Configure(j) \/ JobStep(j)
  <2>1. PICK j \in Jobs : Configure(j) \/ JobStep(j)
    BY <1>3, SMTT(30)
  <2>2. (\E c : pc' = [pc EXCEPT ![j] = c]) \/ pc' = pc
    BY <2>1 DEF Configure, JobStep, CheckDuplicate, CheckEnds, RunStep, SaveStep, ConfigureEnds,
                RunScriptAction, RunGuestCommit, ExecError, ExecFails, PassOver, RunEnds, SaveRead,
                SaveDelete, SaveDeleted, SaveReplace, SaveInsert, SaveFails, SavePass, Goto
  <2>3. Quiet \/ pc[j] # "idle"
    BY <2>1 DEF Configure, JobStep, CheckDuplicate, CheckEnds, RunStep, SaveStep, ConfigureEnds,
                RunScriptAction, RunGuestCommit, ExecError, PassOver, RunEnds, SaveRead,
                SaveDelete, SaveDeleted, SaveReplace, SaveInsert, SaveFails, SavePass, MayBegin
  <2> QED  BY <1>1, <1>2, <2>2, <2>3 DEF Procs
<1>4. CASE \E r \in Restarters : RestartPod(r) \/ RestartStep(r)
  <2>1. PICK r \in Restarters : RestartPod(r) \/ RestartStep(r)
    BY <1>4
  <2>2. \E c : pc' = [pc EXCEPT ![r] = c]
    BY <2>1 DEF RestartPod, RestartStep, WaitReady, ApplyPlatformMTU, ReplayList, ReplayResolve,
                ReplayResolved, RunStep, ReplayAborts, ReplaySettle, ReplayFails, RestartEnds,
                RunScriptAction, RunGuestCommit, ExecError, ExecFails, PassOver, RunEnds, Goto
  <2>3. Quiet \/ pc[r] # "idle"
    BY <2>1 DEF RestartPod, RestartStep, WaitReady, ApplyPlatformMTU, ReplayList, ReplayResolve,
                ReplayResolved, RunStep, ReplayAborts, ReplaySettle, ReplayFails, RestartEnds,
                RunScriptAction, RunGuestCommit, ExecError, PassOver, RunEnds, MayBegin
  <2> QED  BY <1>1, <2>2, <2>3 DEF Procs
<1>5. CASE ClusterStep \/ UNCHANGED vars
  BY <1>2, <1>5 DEF ClusterStep, PodGone, PodCreated, PodReady, DaemonsUp, PodLost, vars, work
<1> QED  BY <1>2, <1>3, <1>4, <1>5 DEF Next

\* A step that leaves every worker outside a save keeps SaveClearsSlot.
LEMMA NoSaveStep ==
  ASSUME NEW p \in Procs, TypeOK, Shape, OneAtATime, pc[p] # "idle" \/ Quiet,
         NEW c, pc' = [pc EXCEPT ![p] = c], c \notin {"delete", "replace", "insert"}
  PROVE  SaveClearsSlot'
<1>1. \A j \in Jobs : pc'[j] \notin {"delete", "replace", "insert"}
  BY DEF OneAtATime, Quiet, TypeOK, Procs
<1> QED  BY <1>1 DEF SaveClearsSlot

\* Deleting and stamping rows never makes two rows of a slot.
LEMMA FewerRows ==
  ASSUME TypeOK, OneRowPerState,
         \/ rows' \subseteq rows
         \/ \E n : rows' = {IF q.id = n THEN [q EXCEPT !.at = clock] ELSE q : q \in rows}
  PROVE  OneRowPerState'
<1>1. CASE rows' \subseteq rows
  BY <1>1 DEF OneRowPerState
<1>2. CASE \E n : rows' = {IF q.id = n THEN [q EXCEPT !.at = clock] ELSE q : q \in rows}
  <2>1. PICK n : rows' = {IF q.id = n THEN [q EXCEPT !.at = clock] ELSE q : q \in rows}
    BY <1>2
  <2> DEFINE F(q) == IF q.id = n THEN [q EXCEPT !.at = clock] ELSE q
  <2>2. \A q \in rows : F(q).act = q.act
    BY DEF TypeOK, RowType
  <2>3. \A q \in rows' : \E x \in rows : q = F(x)
    BY <2>1
  <2> HIDE DEF F
  <2> SUFFICES ASSUME NEW q \in rows', NEW x \in rows', Slot(q.act) = Slot(x.act)
               PROVE  q = x
    BY DEF OneRowPerState
  <2>4. PICK q0 \in rows, x0 \in rows : q = F(q0) /\ x = F(x0)
    BY <2>3
  <2>5. Slot(q0.act) = Slot(x0.act)
    BY <2>2, <2>4
  <2> QED  BY <2>4, <2>5 DEF OneRowPerState
<1> QED  BY <1>1, <1>2

\* The statements of one save, of a job that is the only worker.
LEMMA SaveOneRow ==
  ASSUME Serial, TypeOK, Shape, OneAtATime, OneRowPerState, SaveClearsSlot,
         NEW j \in Jobs, SaveStep(j)
  PROVE  OneRowPerState' /\ SaveClearsSlot'
<1> DEFINE a == Cur(j).act
<1>0. j \in Procs /\ pc[j] # "idle" /\ \A x \in Jobs : x # j => pc[x] = "idle"
  BY DEF SaveStep, SaveRead, SaveDelete, SaveDeleted, SaveReplace, SaveInsert, SaveFails,
         SavePass, OneAtATime, Procs
<1>1. ASSUME NEW c, pc' = [pc EXCEPT ![j] = c], UNCHANGED rows,
             c \notin {"delete", "replace", "insert"}
      PROVE  OneRowPerState' /\ SaveClearsSlot'
  BY <1>0, <1>1, FewerRows, NoSaveStep
<1>2. ASSUME pc[j] # "idle", a \in Actions, UNCHANGED list, i' = [i EXCEPT ![j] = i[j]],
             NEW c, pc' = [pc EXCEPT ![j] = c],
             c = "delete" => /\ Desc[a].state # NoState
                             /\ \A r \in rows' : Slot(r.act) = Slot(a) => r.id \in todo'[j],
             c = "replace" => \A r \in rows' : Slot(r.act) = Slot(a) => r.act = a,
             c = "insert" => \A r \in rows' : Slot(r.act) # Slot(a)
      PROVE  SaveClearsSlot'
  <2>1. Cur(j)' = Cur(j)
    BY <1>0, <1>2 DEF Cur, TypeOK
  <2>2. pc'[j] = c /\ \A x \in Jobs : x # j => pc'[x] = "idle"
    BY <1>0, <1>2 DEF TypeOK
  <2> QED  BY <1>2, <2>1, <2>2 DEF SaveClearsSlot
<1>3. ASSUME i[j] \in DOMAIN list[j] PROVE a \in Actions
  <2>1. list[j] \in Seq(Entry) /\ i[j] \in 1..Len(list[j])
    BY <1>3 DEF Shape
  <2>2. list[j][i[j]] \in Entry
    BY <2>1, ElementOfSeq
  <2> QED  BY <2>2 DEF Entry, Cur
<1>4. \A r \in rows : r.act \in Actions
  BY DEF TypeOK, RowType
<1> HIDE DEF a
<1>5. CASE SaveRead(j)
  <2>1. a \in Actions
    BY <1>3, <1>5 DEF SaveRead, AtEnd, TypeOK, Shape, Procs
  <2>2. UNCHANGED <<rows, list>> /\ pc[j] # "idle"
    BY <1>5 DEF SaveRead, db
  <2>3. CASE Desc[a].state = NoState
    <3>1. pc' = [pc EXCEPT ![j] = "replace"] /\ i' = [i EXCEPT ![j] = i[j]]
      BY <1>5, <2>3 DEF SaveRead, Goto, a
    <3>2. \A r \in rows' : Slot(r.act) = Slot(a) => r.act = a
      BY <1>4, <2>1, <2>2, <2>3, SlotRule
    <3> QED  BY <1>2, <2>1, <2>2, <3>1, <3>2, FewerRows
  <2>4. CASE Desc[a].state # NoState
    <3>1. /\ pc' = [pc EXCEPT ![j] = "delete"] /\ i' = [i EXCEPT ![j] = i[j]]
          /\ todo' = [todo EXCEPT ![j] = {r.id : r \in Superseded(a)}]
      BY <1>5, <2>4 DEF SaveRead, Goto, a
    <3>2. \A r \in rows' : Slot(r.act) = Slot(a) => r.id \in todo'[j]
      <4>1. \A r \in rows : Slot(r.act) = Slot(a) => r \in Superseded(a)
        BY <1>4, <2>1, <2>4, SlotRule DEF Superseded
      <4>2. todo'[j] = {r.id : r \in Superseded(a)}
        BY <1>0, <3>1 DEF TypeOK
      <4> QED  BY <2>2, <4>1, <4>2
    <3> QED  BY <1>2, <2>1, <2>2, <2>4, <3>1, <3>2, FewerRows
  <2> QED  BY <2>3, <2>4
<1>6. CASE SaveDelete(j)
  <2>1. a \in Actions
    BY <1>3, <1>6 DEF SaveDelete, Shape
  <2>2. PICK n \in todo[j] : /\ rows' = {r \in rows : r.id # n}
                             /\ todo' = [todo EXCEPT ![j] = @ \ {n}]
    BY <1>6 DEF SaveDelete
  <2>3. /\ pc[j] = "delete" /\ pc' = [pc EXCEPT ![j] = "delete"] /\ UNCHANGED list
        /\ i' = [i EXCEPT ![j] = i[j]]
    BY <1>0, <1>6 DEF SaveDelete, TypeOK
  <2>4. Desc[a].state # NoState /\ \A r \in rows : Slot(r.act) = Slot(a) => r.id \in todo[j]
    BY <2>3 DEF SaveClearsSlot, a
  <2>5. \A r \in rows' : Slot(r.act) = Slot(a) => r.id \in todo'[j]
    BY <1>0, <2>2, <2>4 DEF TypeOK
  <2>6. rows' \subseteq rows
    BY <2>2
  <2> QED  BY <1>2, <2>1, <2>3, <2>4, <2>5, <2>6, FewerRows
<1>7. CASE SaveDeleted(j)
  <2>1. a \in Actions
    BY <1>3, <1>7 DEF SaveDeleted, Shape
  <2>2. /\ pc[j] = "delete" /\ todo[j] = {} /\ UNCHANGED <<rows, list>>
    BY <1>7 DEF SaveDeleted, db
  <2>3. \A r \in rows' : Slot(r.act) # Slot(a)
    BY <2>2 DEF SaveClearsSlot, a
  <2>4. CASE pc' = [pc EXCEPT ![j] = "replace"] /\ i' = [i EXCEPT ![j] = i[j]]
    BY <1>2, <2>1, <2>2, <2>3, <2>4, FewerRows
  <2>5. CASE pc' = [pc EXCEPT ![j] = "save"]
    BY <1>1, <2>2, <2>5
  <2> QED  BY <1>7, <2>4, <2>5 DEF SaveDeleted, Goto
<1>8. CASE SaveReplace(j)
  <2>1. a \in Actions
    BY <1>3, <1>8 DEF SaveReplace, Shape
  <2>2. /\ pc[j] = "replace" /\ pc' = [pc EXCEPT ![j] = "insert"]
        /\ i' = [i EXCEPT ![j] = i[j]] /\ UNCHANGED list
        /\ rows' = {r \in rows : r.act # a}
    BY <1>8 DEF SaveReplace, Goto, a
  <2>3. \A r \in rows' : Slot(r.act) # Slot(a)
    BY <2>2 DEF SaveClearsSlot, a
  <2>4. rows' \subseteq rows
    BY <2>2
  <2> QED  BY <1>2, <2>1, <2>2, <2>3, <2>4, FewerRows
<1>9. CASE SaveInsert(j)
  <2> DEFINE x == [id |-> nextId, act |-> a, at |-> clock]
  <2>1. pc[j] = "insert" /\ pc' = [pc EXCEPT ![j] = "save"] /\ rows' = rows \cup {x}
    BY <1>9 DEF SaveInsert, Goto, a
  <2>2. x.act = a /\ \A r \in rows : Slot(r.act) # Slot(a)
    BY <2>1 DEF SaveClearsSlot, a
  <2> HIDE DEF x
  <2>3. OneRowPerState'
    BY <2>1, <2>2 DEF OneRowPerState
  <2>4. SaveClearsSlot'
    BY <1>0, <2>1, NoSaveStep
  <2> QED  BY <2>3, <2>4
<1>10. CASE SaveFails(j) \/ SavePass(j)
  <2>1. pc' = [pc EXCEPT ![j] = "save"] /\ UNCHANGED rows
    BY <1>10 DEF SaveFails, SavePass, Goto, db
  <2> QED  BY <1>1, <2>1
<1> QED  BY <1>5, <1>6, <1>7, <1>8, <1>9, <1>10 DEF SaveStep

\* Every other step leaves no save in progress, or leaves it alone.
LEMMA OneRowStep ==
  ASSUME Serial, TypeOK, Shape, OneAtATime, OneRowPerState, SaveClearsSlot, [Next]_vars
  PROVE  OneRowPerState' /\ SaveClearsSlot'
<1>1. ASSUME NEW p \in Procs, NEW c, pc' = [pc EXCEPT ![p] = c],
             c \notin {"delete", "replace", "insert"}, pc[p] # "idle" \/ Quiet,
             \/ rows' \subseteq rows
             \/ \E n : rows' = {IF q.id = n THEN [q EXCEPT !.at = clock] ELSE q : q \in rows}
      PROVE  OneRowPerState' /\ SaveClearsSlot'
  BY <1>1, FewerRows, NoSaveStep
<1>2. ASSUME NEW p \in Procs, RunStep(p) PROVE OneRowPerState' /\ SaveClearsSlot'
  <2>1. PICK c \in {"run", "save", "settle"} : pc' = [pc EXCEPT ![p] = c]
    BY <1>2 DEF RunStep, RunScriptAction, RunGuestCommit, ExecError, ExecFails, PassOver,
                RunEnds, Goto
  <2>2. pc[p] # "idle" /\ rows' = rows
    BY <1>2 DEF RunStep, RunScriptAction, RunGuestCommit, ExecError, PassOver, RunEnds, db
  <2> QED  BY <1>1, <2>1, <2>2
<1>3. ASSUME NEW j \in Jobs, Configure(j) \/ JobStep(j)
      PROVE  OneRowPerState' /\ SaveClearsSlot'
  <2>0. j \in Procs
    BY DEF Procs
  <2>1. CASE Configure(j) \/ CheckDuplicate(j) \/ CheckEnds(j) \/ ConfigureEnds(j)
    <3>1. PICK c \in {"check", "run", "idle"} : pc' = [pc EXCEPT ![j] = c]
      BY <2>1 DEF Configure, CheckDuplicate, CheckEnds, ConfigureEnds, Goto
    <3>2. (pc[j] # "idle" \/ Quiet) /\ rows' = rows
      BY <2>1 DEF Configure, CheckDuplicate, CheckEnds, ConfigureEnds, MayBegin, db
    <3> QED  BY <1>1, <2>0, <3>1, <3>2
  <2> QED  BY <1>2, <1>3, <2>0, <2>1, SaveOneRow DEF JobStep
<1>4. ASSUME NEW r \in Restarters, RestartPod(r) \/ RestartStep(r)
      PROVE  OneRowPerState' /\ SaveClearsSlot'
  <2>0. r \in Procs
    BY DEF Procs
  <2>1. CASE ~ RunStep(r)
    <3>1. PICK c \in RestartPoints : pc' = [pc EXCEPT ![r] = c]
      BY <1>4, <2>1 DEF RestartPod, RestartStep, WaitReady, ApplyPlatformMTU, ReplayList,
           ReplayResolve, ReplayResolved, ReplayAborts, ReplaySettle, ReplayFails, RestartEnds, Goto,
           RestartPoints
    <3>2. pc[r] # "idle" \/ Quiet
      BY <1>4, <2>1 DEF RestartPod, RestartStep, WaitReady, ApplyPlatformMTU, ReplayList,
           ReplayResolve, ReplayResolved, ReplayAborts, ReplaySettle, ReplayFails, RestartEnds, MayBegin
    <3>3. \/ rows' \subseteq rows
          \/ \E n : rows' = {IF q.id = n THEN [q EXCEPT !.at = clock] ELSE q : q \in rows}
      BY <1>4, <2>1 DEF RestartPod, RestartStep, WaitReady, ApplyPlatformMTU, ReplayList,
           ReplayResolve, ReplayResolved, ReplayAborts, ReplaySettle, ReplayFails, RestartEnds, db
    <3> QED  BY <1>1, <2>0, <3>1, <3>2, <3>3 DEF RestartPoints
  <2> QED  BY <1>2, <2>0, <2>1
<1>5. CASE ClusterStep \/ UNCHANGED vars
  <2>1. UNCHANGED <<rows, pc, list, i, todo>>
    BY <1>5 DEF ClusterStep, PodGone, PodCreated, PodReady, DaemonsUp, PodLost, vars, work, db
  <2> QED  BY <2>1 DEF OneRowPerState, SaveClearsSlot, Cur
<1>6. CASE Crash
  <2>1. rows' = rows /\ \A j \in Jobs : pc'[j] = "idle"
    BY <1>6 DEF Crash, Procs, db
  <2> QED  BY <2>1 DEF OneRowPerState, SaveClearsSlot
<1> QED  BY <1>3, <1>4, <1>5, <1>6 DEF Next

\* The state rule holds at every moment of every behaviour whose requests come
\* one at a time, saves cut short by a failed statement or a crash included.
THEOREM SerialOneRow ==
  ASSUME Serial
  PROVE  Spec => []OneRowPerState
<1>1. Init => OneAtATime /\ OneRowPerState /\ SaveClearsSlot
  BY DEF Init, OneAtATime, OneRowPerState, SaveClearsSlot, Procs
<1>2. /\ TypeOK /\ Shape /\ IsFiniteSet(rows)
      /\ OneAtATime /\ OneRowPerState /\ SaveClearsSlot
      /\ [Next]_vars
      => (OneAtATime /\ OneRowPerState /\ SaveClearsSlot)'
  BY SerialStep, OneRowStep
<1> QED  BY <1>1, <1>2, TypeCorrect, PTL DEF Spec

-----------------------------------------------------------------------------
(* Whose slot an action writes or clears, and the order of the rows.       *)

\* What an action does on the node agrees with the rows a save deletes for it:
\* the rows of the action itself, or the superseded ones.
LEMMA TouchRule ==
  ASSUME NEW a \in Actions, NEW b \in Actions
  PROVE  /\ Touches(a, Slot(a))
         /\ Touches(a, Slot(b)) <=>
              IF Desc[a].state = NoState THEN b = a ELSE SameState(a, b) \/ AlsoClears(a, b)
<1>1. Desc[b].state # NoState => Slot(b)[1] = Desc[b].state /\ Slot(b)[2] = Desc[b].key
  BY DEF Slot
<1>2. Desc[b].state = NoState => Slot(b)[1] = NoState
  BY DEF Slot
<1>3. Touches(a, Slot(b)) <=> Slot(b) = Slot(a) \/ AlsoClears(a, b)
  BY <1>1, <1>2 DEF Touches, AlsoClears
<1>4. Touches(a, Slot(a))
  BY DEF Touches
<1>5. Desc[a].state = NoState => ~ AlsoClears(a, b)
  BY DEF AlsoClears
<1> QED  BY <1>3, <1>4, <1>5, SlotRule

\* Every row but the newest on its slot would be gone: no row touches the slot
\* of a row with a smaller id, no row is of an undo that is not kept, and a save
\* half way through has the rows it supersedes still to delete, then only copies
\* of its action, then none.
RowsInOrder ==
  /\ \A r \in rows : Kept(r.act)
  /\ \A r, q \in rows : r.id < q.id => ~ Touches(q.act, Slot(r.act))
SaveClears ==
  \A j \in Jobs :
    /\ pc[j] = "delete" =>
         /\ Desc[Cur(j).act].state # NoState
         /\ \A r \in rows : Touches(Cur(j).act, Slot(r.act)) <=> r.id \in todo[j]
    /\ pc[j] = "replace" =>
         /\ Kept(Cur(j).act)
         /\ \A r \in rows : Touches(Cur(j).act, Slot(r.act)) => r.act = Cur(j).act
    /\ pc[j] = "insert" =>
         /\ Kept(Cur(j).act)
         /\ \A r \in rows : ~ Touches(Cur(j).act, Slot(r.act))

SavePoints == {"save", "delete", "replace", "insert"}

\* A replay stamps the rows with an id; every id and action stays.
Stamps(n) == rows' = {IF q.id = n THEN [q EXCEPT !.at = clock] ELSE q : q \in rows}

\* A step of a worker outside its save: rows go, or are stamped, and none goes
\* unnoticed.
Aside(p, c) ==
  /\ pc' = [pc EXCEPT ![p] = c] /\ pc[p] \notin SavePoints /\ c \notin SavePoints
  /\ pc[p] # "idle" \/ Quiet
  /\ rows' \subseteq rows \/ \E n : Stamps(n)
  /\ ~ lost' => ~ lost /\ (rows' = rows \/ \E n : Stamps(n))
  /\ UNCHANGED <<nextId, wanted>>

\* The steps of serial requests, as far as a save and the table go.
LEMMA SerialSteps ==
  ASSUME Serial, TypeOK, Shape, OneAtATime, [Next]_vars
  PROVE  \/ \E j \in Jobs : SaveStep(j) \/ ConfigureEnds(j) \/ RunEnds(j)
         \/ Crash
         \/ UNCHANGED <<rows, nextId, wanted, lost, pc, list, mark, i, todo>>
         \/ \E p \in Procs, c \in Points : Aside(p, c)
<1> USE DEF Aside, SavePoints, Points
<1>1. ASSUME NEW j \in Jobs, Configure(j) \/ CheckDuplicate(j) \/ CheckEnds(j)
      PROVE  \E c \in Points : Aside(j, c)
  <2>1. PICK c \in {"check", "run"} : pc' = [pc EXCEPT ![j] = c]
    BY <1>1 DEF Configure, CheckDuplicate, CheckEnds, Goto
  <2>2. /\ UNCHANGED <<rows, nextId, wanted, lost>>
        /\ pc[j] \in {"check"} \/ (pc[j] = "idle" /\ Quiet)
    BY <1>1 DEF Configure, CheckDuplicate, CheckEnds, MayBegin, db, ghost
  <2>3. Aside(j, c)
    BY <2>1, <2>2
  <2> QED  BY <2>1, <2>3
<1>2. ASSUME NEW p \in Procs, RunStep(p), ~ RunEnds(p) \/ p \in Restarters
      PROVE  \E c \in Points : Aside(p, c)
  <2>1. CASE RunEnds(p)
    <3>1. p \notin Jobs
      BY <1>2, <2>1
    <3>2. pc' = [pc EXCEPT ![p] = "settle"] /\ pc[p] = "run" /\ UNCHANGED <<rows, nextId, wanted, lost>>
      BY <2>1, <3>1 DEF RunEnds, Goto, db
    <3>3. Aside(p, "settle")
      BY <3>2
    <3> QED  BY <3>3
  <2>2. CASE RunScriptAction(p) \/ RunGuestCommit(p) \/ ExecError(p) \/ PassOver(p)
    <3>1. pc' = [pc EXCEPT ![p] = "run"]
      BY <2>2 DEF RunScriptAction, RunGuestCommit, ExecError, ExecFails, PassOver, Goto
    <3>2. UNCHANGED <<rows, nextId, wanted, lost>> /\ pc[p] = "run"
      BY <2>2 DEF RunScriptAction, RunGuestCommit, ExecError, PassOver, db, ghost
    <3>3. Aside(p, "run")
      BY <3>1, <3>2
    <3> QED  BY <3>3
  <2> QED  BY <1>2, <2>1, <2>2 DEF RunStep
<1>3. ASSUME NEW r \in Restarters, RestartPod(r) \/ RestartStep(r), ~ RunStep(r)
      PROVE  \E c \in Points : Aside(r, c)
  <2>1. PICK c \in RestartPoints : pc' = [pc EXCEPT ![r] = c]
    BY <1>3 DEF RestartPod, RestartStep, WaitReady, ApplyPlatformMTU, ReplayList,
         ReplayResolve, ReplayResolved, ReplayAborts, ReplaySettle, ReplayFails, RestartEnds, Goto,
         RestartPoints
  <2>2. /\ pc[r] # "idle" \/ Quiet
        /\ pc[r] \in RestartPoints
    BY <1>3 DEF RestartPod, RestartStep, WaitReady, ApplyPlatformMTU, ReplayList,
         ReplayResolve, ReplayResolved, ReplayAborts, ReplaySettle, ReplayFails, RestartEnds, MayBegin,
         Shape
  <2>3. UNCHANGED <<nextId, wanted>>
    BY <1>3 DEF RestartPod, RestartStep, WaitReady, ApplyPlatformMTU, ReplayList,
         ReplayResolve, ReplayResolved, ReplayAborts, ReplaySettle, ReplayFails, RestartEnds, db, ghost
  <2>4. \/ UNCHANGED <<rows, lost>>
        \/ rows' \subseteq rows /\ lost'
        \/ Stamps(Cur(r).id) /\ UNCHANGED lost
    BY <1>3 DEF RestartPod, RestartStep, WaitReady, ApplyPlatformMTU, ReplayList,
         ReplayResolve, ReplayResolved, ReplayAborts, ReplaySettle, ReplayFails, RestartEnds, db, ghost,
         Stamps
  <2>5. /\ rows' \subseteq rows \/ \E n : Stamps(n)
        /\ ~ lost' => ~ lost /\ (rows' = rows \/ \E n : Stamps(n))
    BY <2>4
  <2>6. Aside(r, c)
    BY <2>1, <2>2, <2>3, <2>5 DEF RestartPoints
  <2> QED  BY <2>1, <2>6 DEF RestartPoints
<1>4. CASE ClusterStep \/ UNCHANGED vars
  <2>1. UNCHANGED <<rows, nextId, wanted, lost, pc, list, mark, i, todo>>
    BY <1>4 DEF ClusterStep, PodGone, PodCreated, PodReady, DaemonsUp, PodLost, vars, work, db, ghost
  <2> QED  BY <2>1
<1>5. ASSUME NEW j \in Jobs, Configure(j) \/ JobStep(j)
      PROVE  \/ SaveStep(j) \/ ConfigureEnds(j) \/ RunEnds(j)
             \/ \E c \in Points : Aside(j, c)
  <2> HIDE DEF Aside
  <2> QED  BY <1>1, <1>2, <1>5 DEF JobStep, Procs
<1>6. ASSUME NEW r \in Restarters, RestartPod(r) \/ RestartStep(r)
      PROVE  \E c \in Points : Aside(r, c)
  <2> HIDE DEF Aside
  <2> QED  BY <1>2, <1>3, <1>6 DEF Procs
<1> HIDE DEF Aside
<1>7. Jobs \subseteq Procs /\ Restarters \subseteq Procs
  BY DEF Procs
<1> QED  BY <1>4, <1>5, <1>6, <1>7 DEF Next

\* A job's current entry is an action with its persist flag.
LEMMA CurEntry ==
  ASSUME TypeOK, Shape, NEW j \in Jobs, i[j] \in DOMAIN list[j]
  PROVE  Cur(j) \in Entry /\ Cur(j).act \in Actions
<1>1. list[j] \in Seq(Entry) /\ i[j] \in 1..Len(list[j])
  BY DEF Shape
<1>2. list[j][i[j]] \in Entry
  BY <1>1, ElementOfSeq
<1> QED  BY <1>2 DEF Entry, Cur

\* Stamping keeps ids and actions, and changes the times of one id only.
LEMMA StampedRows ==
  ASSUME TypeOK, NEW n, Stamps(n)
  PROVE  /\ \A q \in rows' : \E x \in rows : /\ q.id = x.id /\ q.act = x.act
                                          /\ IF x.id = n THEN q.at = clock ELSE q.at = x.at
         /\ \A x \in rows : \E q \in rows' : q.id = x.id /\ q.act = x.act
<1> DEFINE F(q) == IF q.id = n THEN [q EXCEPT !.at = clock] ELSE q
<1>1. \A q \in rows : /\ F(q).id = q.id /\ F(q).act = q.act
                       /\ IF q.id = n THEN F(q).at = clock ELSE F(q).at = q.at
  BY DEF TypeOK, RowType
<1>2. rows' = {F(q) : q \in rows}
  BY DEF Stamps
<1> HIDE DEF F
<1> QED  BY <1>1, <1>2

\* Rows that go or are stamped leave the others in order.
LEMMA OrderOfFewer ==
  ASSUME TypeOK, RowsInOrder, rows' \subseteq rows \/ \E n : Stamps(n)
  PROVE  RowsInOrder'
<1>1. \A q \in rows' : \E x \in rows : q.id = x.id /\ q.act = x.act
  BY StampedRows
<1> QED  BY <1>1 DEF RowsInOrder

\* The statements of one save keep the rows in order.
LEMMA OrderSaveStep ==
  ASSUME Serial, TypeOK, Shape, OneAtATime, IdsNameOperations, RowsInOrder, SaveClears,
         NEW j \in Jobs, SaveStep(j)
  PROVE  RowsInOrder' /\ SaveClears'
<1> DEFINE a == Cur(j).act
<1>0. j \in Procs /\ pc[j] # "idle" /\ \A x \in Jobs : x # j => pc[x] = "idle"
  BY DEF SaveStep, SaveRead, SaveDelete, SaveDeleted, SaveReplace, SaveInsert, SaveFails,
         SavePass, OneAtATime, Procs
<1>1. ASSUME NEW c, pc' = [pc EXCEPT ![j] = c], c \notin {"delete", "replace", "insert"}
      PROVE  SaveClears'
  <2>1. \A x \in Jobs : pc'[x] \notin {"delete", "replace", "insert"}
    BY <1>0, <1>1 DEF TypeOK
  <2> QED  BY <2>1 DEF SaveClears
<1>2. ASSUME UNCHANGED list, i' = [i EXCEPT ![j] = i[j]],
             NEW c, pc' = [pc EXCEPT ![j] = c],
             c = "delete" => /\ Desc[a].state # NoState
                             /\ \A r \in rows' : Touches(a, Slot(r.act)) <=> r.id \in todo'[j],
             c = "replace" => /\ Kept(a)
                              /\ \A r \in rows' : Touches(a, Slot(r.act)) => r.act = a,
             c = "insert" => Kept(a) /\ \A r \in rows' : ~ Touches(a, Slot(r.act))
      PROVE  SaveClears'
  <2>1. Cur(j)' = Cur(j)
    BY <1>0, <1>2 DEF Cur, TypeOK
  <2>2. pc'[j] = c /\ \A x \in Jobs : x # j => pc'[x] = "idle"
    BY <1>0, <1>2 DEF TypeOK
  <2> QED  BY <1>2, <2>1, <2>2 DEF SaveClears
<1>3. i[j] \in DOMAIN list[j] => a \in Actions
  BY CurEntry
<1>4. \A r \in rows : r.act \in Actions /\ r.id \in Nat
  BY DEF TypeOK, RowType
<1>5. CASE SaveRead(j)
  <2>1. a \in Actions
    BY <1>3, <1>5 DEF SaveRead, AtEnd, TypeOK, Shape, Procs
  <2>2. UNCHANGED <<rows, list>>
    BY <1>5 DEF SaveRead, db
  <2>3. CASE Desc[a].state = NoState
    <3>1. pc' = [pc EXCEPT ![j] = "replace"] /\ i' = [i EXCEPT ![j] = i[j]]
      BY <1>5, <2>3 DEF SaveRead, Goto
    <3>2. Kept(a) /\ \A r \in rows' : Touches(a, Slot(r.act)) => r.act = a
      <4> HIDE DEF a
      <4> QED  BY <1>4, <2>1, <2>2, <2>3, TouchRule DEF Kept
    <3> HIDE DEF a
    <3> QED  BY <1>2, <2>2, <3>1, <3>2, OrderOfFewer
  <2>4. CASE Desc[a].state # NoState
    <3>1. /\ pc' = [pc EXCEPT ![j] = "delete"] /\ i' = [i EXCEPT ![j] = i[j]]
          /\ todo' = [todo EXCEPT ![j] = {r.id : r \in Superseded(a)}]
      BY <1>5, <2>4 DEF SaveRead, Goto
    <3> HIDE DEF a
    <3>2. \A r \in rows : Touches(a, Slot(r.act)) <=> r \in Superseded(a)
      BY <1>4, <2>1, <2>4, TouchRule DEF Superseded
    <3>3. todo'[j] = {r.id : r \in Superseded(a)}
      BY <1>0, <3>1 DEF TypeOK
    <3>4. \A r \in rows : r.id \in todo'[j] => r \in Superseded(a)
      <4> SUFFICES ASSUME NEW r \in rows, r.id \in todo'[j] PROVE r \in Superseded(a)
        OBVIOUS
      <4>1. PICK q \in Superseded(a) : q.id = r.id
        BY <3>3
      <4>2. q \in rows /\ q.act = r.act
        BY <4>1 DEF Superseded, IdsNameOperations
      <4> QED  BY <3>2, <4>1, <4>2
    <3>5. \A r \in rows' : Touches(a, Slot(r.act)) <=> r.id \in todo'[j]
      BY <2>2, <3>2, <3>3, <3>4
    <3> QED  BY <1>2, <2>2, <2>4, <3>1, <3>5, OrderOfFewer
  <2> QED  BY <2>3, <2>4
<1>6. CASE SaveDelete(j)
  <2>2. PICK n \in todo[j] : /\ rows' = {r \in rows : r.id # n}
                             /\ todo' = [todo EXCEPT ![j] = @ \ {n}]
    BY <1>6 DEF SaveDelete
  <2>3. /\ pc[j] = "delete" /\ pc' = [pc EXCEPT ![j] = "delete"] /\ UNCHANGED list
        /\ i' = [i EXCEPT ![j] = i[j]]
    BY <1>0, <1>6 DEF SaveDelete, TypeOK
  <2>4. Desc[a].state # NoState /\ \A r \in rows : Touches(a, Slot(r.act)) <=> r.id \in todo[j]
    BY <2>3 DEF SaveClears
  <2>5. \A r \in rows' : Touches(a, Slot(r.act)) <=> r.id \in todo'[j]
    <3> HIDE DEF a
    <3> QED  BY <1>0, <2>2, <2>4 DEF TypeOK
  <2>6. rows' \subseteq rows
    BY <2>2
  <2> HIDE DEF a
  <2> QED  BY <1>2, <2>3, <2>4, <2>5, <2>6, OrderOfFewer
<1>7. CASE SaveDeleted(j)
  <2>2. pc[j] = "delete" /\ todo[j] = {} /\ UNCHANGED <<rows, list>>
    BY <1>7 DEF SaveDeleted, db
  <2>3. \A r \in rows' : ~ Touches(a, Slot(r.act))
    BY <2>2 DEF SaveClears
  <2>4. CASE Kept(a)
    <3>1. pc' = [pc EXCEPT ![j] = "replace"] /\ i' = [i EXCEPT ![j] = i[j]]
      BY <1>7, <2>4 DEF SaveDeleted, Goto
    <3> HIDE DEF a
    <3> QED  BY <1>2, <2>2, <2>3, <2>4, <3>1, OrderOfFewer
  <2>5. CASE ~ Kept(a)
    <3>1. pc' = [pc EXCEPT ![j] = "save"]
      BY <1>7, <2>5 DEF SaveDeleted, Goto
    <3> QED  BY <1>1, <2>2, <3>1, OrderOfFewer
  <2> QED  BY <2>4, <2>5
<1>8. CASE SaveReplace(j)
  <2>2. /\ pc[j] = "replace" /\ pc' = [pc EXCEPT ![j] = "insert"]
        /\ i' = [i EXCEPT ![j] = i[j]] /\ UNCHANGED list
        /\ rows' = {r \in rows : r.act # a}
    BY <1>8 DEF SaveReplace, Goto
  <2>3. Kept(a) /\ \A r \in rows' : ~ Touches(a, Slot(r.act))
    BY <2>2 DEF SaveClears
  <2>4. rows' \subseteq rows
    BY <2>2
  <2> HIDE DEF a
  <2> QED  BY <1>2, <2>2, <2>3, <2>4, OrderOfFewer
<1>9. CASE SaveInsert(j)
  <2> DEFINE x == [id |-> nextId, act |-> a, at |-> clock]
  <2>1. pc[j] = "insert" /\ pc' = [pc EXCEPT ![j] = "save"] /\ rows' = rows \cup {x}
    BY <1>9 DEF SaveInsert, Goto
  <2>2. Kept(a) /\ \A r \in rows : ~ Touches(a, Slot(r.act))
    BY <2>1 DEF SaveClears
  <2>3. x.act = a /\ x.id = nextId
    OBVIOUS
  <2>4. \A r \in rows : r.id < nextId /\ nextId \in Nat
    BY DEF IdsNameOperations, TypeOK
  <2> HIDE DEF x, a
  <2>5. \A r, q \in rows' : r.id < q.id => ~ Touches(q.act, Slot(r.act))
    <3> SUFFICES ASSUME NEW r \in rows', NEW q \in rows', r.id < q.id
                 PROVE  ~ Touches(q.act, Slot(r.act))
      OBVIOUS
    <3>1. CASE r \in rows /\ q \in rows
      BY <3>1 DEF RowsInOrder
    <3>2. CASE q = x
      <4>1. r \in rows
        BY <1>4, <2>1, <2>3, <2>4, <3>2 DEF TypeOK
      <4> QED  BY <2>2, <2>3, <3>2, <4>1
    <3>3. CASE r = x /\ q \in rows
      <4>1. q.id < nextId /\ r.id = nextId /\ nextId \in Nat /\ q.id \in Nat
        BY <1>4, <2>3, <2>4, <3>3
      <4> QED  BY <4>1
    <3> QED  BY <2>1, <3>1, <3>2, <3>3
  <2>6. \A r \in rows' : Kept(r.act)
    BY <2>1, <2>2, <2>3 DEF RowsInOrder
  <2> QED  BY <1>1, <2>1, <2>5, <2>6 DEF RowsInOrder
<1>10. CASE SaveFails(j) \/ SavePass(j)
  <2>1. pc' = [pc EXCEPT ![j] = "save"] /\ UNCHANGED rows
    BY <1>10 DEF SaveFails, SavePass, Goto, db
  <2> QED  BY <1>1, <2>1, OrderOfFewer
<1> QED  BY <1>5, <1>6, <1>7, <1>8, <1>9, <1>10 DEF SaveStep

\* So does every step.
LEMMA OrderStep ==
  ASSUME Serial, TypeOK, Shape, OneAtATime, IdsNameOperations, RowsInOrder, SaveClears,
         [Next]_vars
  PROVE  RowsInOrder' /\ SaveClears'
<1>1. ASSUME \A j \in Jobs : pc'[j] \notin {"delete", "replace", "insert"} PROVE SaveClears'
  BY <1>1 DEF SaveClears
<1>2. CASE \E p \in Procs, c \in Points : Aside(p, c)
  <2>1. PICK p \in Procs, c \in Points : Aside(p, c)
    BY <1>2
  <2>2. \A j \in Jobs : pc'[j] \notin {"delete", "replace", "insert"}
    BY <2>1 DEF Aside, SavePoints, OneAtATime, Quiet, TypeOK, Procs
  <2> QED  BY <1>1, <2>1, <2>2, OrderOfFewer DEF Aside
<1>3. CASE \E j \in Jobs : ConfigureEnds(j) \/ RunEnds(j)
  <2>1. PICK j \in Jobs : ConfigureEnds(j) \/ RunEnds(j)
    BY <1>3
  <2>2. \E c \in {"idle", "save"} : pc' = [pc EXCEPT ![j] = c]
    BY <2>1 DEF ConfigureEnds, RunEnds, Goto
  <2>3. pc[j] # "idle" /\ rows' = rows
    BY <2>1 DEF ConfigureEnds, RunEnds, db
  <2>4. \A x \in Jobs : pc'[x] \notin {"delete", "replace", "insert"}
    BY <2>2, <2>3 DEF OneAtATime, TypeOK, Procs
  <2> QED  BY <1>1, <2>3, <2>4, OrderOfFewer
<1>4. CASE Crash
  <2>1. rows' = rows /\ \A j \in Jobs : pc'[j] = "idle"
    BY <1>4 DEF Crash, Procs, db
  <2> QED  BY <1>1, <2>1, OrderOfFewer
<1>5. CASE UNCHANGED <<rows, nextId, wanted, lost, pc, list, mark, i, todo>>
  BY <1>5 DEF RowsInOrder, SaveClears, Cur
<1> QED  BY <1>2, <1>3, <1>4, <1>5, SerialSteps, OrderSaveStep

-----------------------------------------------------------------------------
(* What a save in progress owes the table.                                 *)

\* What a job has run and not yet written: the entries from Ahead on.
Ahead(j) == CASE pc[j] = "run" -> 1 [] pc[j] = "save" -> i[j] [] OTHER -> i[j] + 1
Pending(j, s) == {k \in DOMAIN list[j] : /\ k >= Ahead(j)
                                         /\ mark[j][k] = "ok" /\ list[j][k].persist
                                         /\ Touches(list[j][k].act, s)}

\* The words the table has on a slot, and the word it should have.
Recorded(s) == {r.act : r \in {q \in rows : Slot(q.act) = s}}
Word(s)     == {wanted[s]} \ {Unset}

\* A save in progress owes the table the word on a slot: that of the last entry
\* still to be written that touches it, or of the entry being written.
Midway(j, s) == pc[j] \in {"delete", "replace", "insert"} /\ Touches(Cur(j).act, s)
Owed(j, s)   == Pending(j, s) # {} \/ Midway(j, s)
Owes(j, s)   == IF Pending(j, s) # {} THEN Leaves(list[j][Max(Pending(j, s))].act, s)
                ELSE Leaves(Cur(j).act, s)
Written(j)   == \A s \in Slots : IF Owed(j, s) THEN wanted[s] = Owes(j, s)
                                 ELSE Recorded(s) = Word(s)
LastWord ==
  ~ lost => /\ (\A j \in Jobs : pc[j] \notin SavePoints) => \A s \in Slots : Recorded(s) = Word(s)
            /\ \A j \in Jobs : pc[j] \in SavePoints => Written(j)

\* The greatest of some entries of a list, which is the only one not below another.
LEMMA LastOf ==
  ASSUME TypeOK, NEW p \in Procs, NEW K \in SUBSET DOMAIN list[p]
  PROVE  /\ K # {} => /\ Max(K) \in K /\ \A y \in K : y <= Max(K)
         /\ \A x \in K : (\A y \in K : y <= x) => Max(K) = x
<1>1. Len(list[p]) \in Nat /\ DOMAIN list[p] = 1..Len(list[p])
  BY DEF TypeOK
<1>2. ASSUME K # {} PROVE Max(K) \in K /\ \A y \in K : Max(K) >= y
  BY <1>1, <1>2, EndsOfIndexSet
<1>3. \A y \in K : y \in Nat
  BY <1>1
<1>4. K # {} => /\ Max(K) \in K /\ \A y \in K : y <= Max(K)
  BY <1>2, <1>3
<1>5. ASSUME NEW x \in K, \A y \in K : y <= x PROVE Max(K) = x
  <2>1. Max(K) \in K /\ x <= Max(K) /\ Max(K) <= x
    BY <1>4, <1>5
  <2>2. x \in Nat /\ Max(K) \in Nat
    BY <1>3, <2>1
  <2> QED  BY <2>1, <2>2
<1> QED  BY <1>4, <1>5

\* A slot an action writes holds that action.
LEMMA LeavesOwn ==
  ASSUME NEW a \in Actions, NEW s
  PROVE  /\ Leaves(a, s) # Unset <=> s = Slot(a) /\ Kept(a)
         /\ Leaves(a, s) # Unset => Leaves(a, s) = a
  BY DEF Leaves

\* Entries that one statement of a save leaves behind, or does not.
LEMMA PendingSame ==
  ASSUME NEW j \in Jobs, UNCHANGED <<list, mark>>, Ahead(j)' = Ahead(j), NEW s
  PROVE  Pending(j, s)' = Pending(j, s)
  BY DEF Pending

\* The statements of one save, none of which fails: what is owed after one was owed
\* before; a slot is settled by the insertion of its action, or once the rows of an
\* undo that is not kept are gone; and only rows the action touches are deleted.
LEMMA OwedStep ==
  ASSUME Serial, TypeOK, Shape, OneAtATime, IdsNameOperations, SaveClears,
         NEW j \in Jobs, SaveStep(j), ~ SaveFails(j), NEW s
  PROVE  /\ Owed(j, s)' => Owed(j, s) /\ Owes(j, s)' = Owes(j, s)
         /\ Owed(j, s) /\ ~ Owed(j, s)' =>
              /\ Owes(j, s) = Leaves(Cur(j).act, s)
              /\ {q \in rows : Slot(q.act) = s} = {}
              /\ \/ SaveInsert(j) /\ Kept(Cur(j).act)
                 \/ rows' = rows /\ ~ Kept(Cur(j).act)
         /\ ~ Owed(j, s) => {q \in rows' : Slot(q.act) = s} = {q \in rows : Slot(q.act) = s}
<1> DEFINE a == Cur(j).act
           Q == {q \in rows : Slot(q.act) = s}
<1>0. j \in Procs /\ pc[j] \in SavePoints
  BY DEF SaveStep, SaveRead, SaveDelete, SaveDeleted, SaveReplace, SaveInsert, SaveFails,
         SavePass, Procs, SavePoints
<1>5. UNCHANGED <<list, mark>>
  BY DEF SaveStep, SaveRead, SaveDelete, SaveDeleted, SaveReplace, SaveInsert, SaveFails, SavePass
<1>6. i[j] \in Nat \ {0} /\ DOMAIN list[j] = 1..Len(list[j]) /\ Len(list[j]) \in Nat
  BY <1>0 DEF TypeOK, Shape
<1>8. i[j] \in DOMAIN list[j] => a \in Actions
  BY CurEntry
<1>9. Pending(j, s) \in SUBSET DOMAIN list[j]
  BY DEF Pending
<1>20. CASE SaveRead(j)
  <2>1. PICK c \in {"delete", "replace"} : pc' = [pc EXCEPT ![j] = c] /\ i' = [i EXCEPT ![j] = i[j]]
    BY <1>20 DEF SaveRead, Goto
  <2>2. pc[j] = "save" /\ ToSave(j) /\ i[j] <= Len(list[j]) /\ rows' = rows
    BY <1>6, <1>20 DEF SaveRead, AtEnd, db
  <2>3. pc'[j] = c /\ i'[j] = i[j] /\ Ahead(j) = i[j] /\ Ahead(j)' = i[j] + 1 /\ Cur(j)' = Cur(j)
    BY <1>0, <1>5, <2>1, <2>2 DEF TypeOK, Ahead, Cur
  <2>4. Pending(j, s)' = Pending(j, s) \ {i[j]}
    BY <1>5, <1>6, <2>3 DEF Pending
  <2>5. Touches(a, s) <=> i[j] \in Pending(j, s)
    BY <1>6, <2>2, <2>3 DEF Pending, ToSave, CurMark, Cur
  <2>6. \A k \in Pending(j, s) : k >= i[j]
    BY <2>3 DEF Pending
  <2>7. Midway(j, s)' <=> Touches(a, s)
    BY <2>3 DEF Midway
  <2>8. ~ Midway(j, s)
    BY <2>2 DEF Midway
  <2>9. Owed(j, s)' <=> Owed(j, s)
    BY <2>4, <2>5, <2>7, <2>8 DEF Owed
  <2>10. ASSUME Owed(j, s) PROVE Owes(j, s)' = Owes(j, s)
    <3>1. CASE Pending(j, s)' # {}
      <4>0. Pending(j, s)' \in SUBSET DOMAIN list[j]
        BY <1>9, <2>4
      <4> DEFINE m == Max(Pending(j, s)')
      <4>1. m \in Pending(j, s)' /\ \A y \in Pending(j, s)' : y <= m
        BY <1>0, <3>1, <4>0, LastOf
      <4> HIDE DEF m
      <4>2. m \in Pending(j, s) /\ m >= i[j] /\ m \in Nat
        BY <1>6, <2>4, <2>6, <4>0, <4>1
      <4>3. \A y \in Pending(j, s) : y <= m
        BY <1>6, <2>4, <4>1, <4>2
      <4>4. Max(Pending(j, s)) = m
        BY <1>0, <1>9, <4>2, <4>3, LastOf
      <4>5. Max(Pending(j, s)') = Max(Pending(j, s)) /\ Pending(j, s) # {}
        BY <4>2, <4>4 DEF m
      <4> QED  BY <1>5, <3>1, <4>5 DEF Owes
    <3>2. CASE Pending(j, s)' = {}
      <4>1. Pending(j, s) = {i[j]}
        BY <2>4, <2>8, <2>10, <3>2 DEF Owed
      <4>2. Max(Pending(j, s)) = i[j]
        <5>1. i[j] \in Pending(j, s) /\ \A y \in Pending(j, s) : y <= i[j]
          BY <1>6, <4>1
        <5> QED  BY <1>0, <1>9, <5>1, LastOf
      <4>3. Owes(j, s) = Leaves(Cur(j).act, s) /\ Owes(j, s)' = Leaves(Cur(j).act, s)
        BY <2>3, <3>2, <4>1, <4>2 DEF Owes, Cur
      <4> QED  BY <4>3
    <3> QED  BY <3>1, <3>2
  <2> QED  BY <2>2, <2>9, <2>10
<1>21. ASSUME NEW c \in {"delete", "replace", "insert"}, pc[j] \in {"delete", "replace", "insert"},
              pc' = [pc EXCEPT ![j] = c], i' = [i EXCEPT ![j] = i[j]],
              rows' \subseteq rows, \A r \in rows : r \notin rows' => Touches(a, Slot(r.act))
       PROVE  /\ Owed(j, s)' <=> Owed(j, s)
              /\ Owes(j, s)' = Owes(j, s)
              /\ ~ Owed(j, s) => {q \in rows' : Slot(q.act) = s} = Q
  <2>1. pc'[j] = c /\ i'[j] = i[j] /\ Cur(j)' = Cur(j)
    BY <1>0, <1>5, <1>21 DEF TypeOK, Cur
  <2>2. Ahead(j)' = Ahead(j)
    BY <1>21, <2>1 DEF Ahead
  <2>3. Pending(j, s)' = Pending(j, s) /\ (Midway(j, s)' <=> Midway(j, s))
    BY <1>5, <1>21, <2>1, <2>2, PendingSame DEF Midway
  <2>4. ~ Owed(j, s) => ~ Touches(a, s)
    BY <1>21 DEF Owed, Midway
  <2>5. ~ Owed(j, s) => {q \in rows' : Slot(q.act) = s} = Q
    BY <1>21, <2>4
  <2> QED  BY <1>5, <2>1, <2>3, <2>5 DEF Owed, Owes
<1>22. CASE SaveDelete(j)
  <2>1. PICK n \in todo[j] : rows' = {r \in rows : r.id # n}
    BY <1>22 DEF SaveDelete
  <2>2. pc[j] = "delete" /\ pc' = [pc EXCEPT ![j] = "delete"] /\ i' = [i EXCEPT ![j] = i[j]]
    BY <1>0, <1>22 DEF SaveDelete, TypeOK
  <2>3. \A r \in rows : r.id \in todo[j] => Touches(a, Slot(r.act))
    BY <2>2 DEF SaveClears
  <2> QED  BY <1>21, <2>1, <2>2, <2>3
<1>23. CASE SaveReplace(j)
  <2>1. rows' = {r \in rows : r.act # a}
    BY <1>23 DEF SaveReplace
  <2>2. pc[j] = "replace" /\ pc' = [pc EXCEPT ![j] = "insert"] /\ i' = [i EXCEPT ![j] = i[j]]
    BY <1>23 DEF SaveReplace, Goto
  <2>3. a \in Actions
    BY <1>8, <2>2 DEF Shape
  <2>4. \A r \in rows : r.act = a => Touches(a, Slot(r.act))
    BY <2>3, TouchRule
  <2> QED  BY <1>21, <2>1, <2>2, <2>4
<1>24. ASSUME pc' = [pc EXCEPT ![j] = "save"], i' = [i EXCEPT ![j] = i[j] + 1],
              pc[j] # "save" \/ ~ ToSave(j)
       PROVE  /\ Owed(j, s)' <=> Pending(j, s) # {}
              /\ Owed(j, s)' => Owed(j, s) /\ Owes(j, s)' = Owes(j, s)
              /\ Owed(j, s) /\ ~ Owed(j, s)' => Owes(j, s) = Leaves(a, s) /\ Midway(j, s)
  <2>1. pc'[j] = "save" /\ i'[j] = i[j] + 1
    BY <1>0, <1>24 DEF TypeOK
  <2>2. Ahead(j)' = i[j] + 1
    BY <2>1 DEF Ahead
  <2>3. Pending(j, s)' = Pending(j, s)
    <3>1. CASE pc[j] # "save"
      <4>1. Ahead(j) = i[j] + 1
        BY <1>0, <3>1 DEF Ahead, SavePoints
      <4> QED  BY <1>5, <2>2, <4>1, PendingSame
    <3>2. CASE pc[j] = "save" /\ ~ ToSave(j)
      <4>1. Ahead(j) = i[j]
        BY <3>2 DEF Ahead
      <4>2. ~ (mark[j][i[j]] = "ok" /\ list[j][i[j]].persist)
        BY <3>2 DEF ToSave, CurMark, Cur
      <4> QED  BY <1>5, <1>6, <2>2, <4>1, <4>2 DEF Pending
    <3> QED  BY <1>24, <3>1, <3>2
  <2>4. ~ Midway(j, s)'
    BY <2>1 DEF Midway
  <2> QED  BY <1>5, <2>3, <2>4 DEF Owed, Owes
<1>25. CASE SavePass(j)
  <2>1. pc[j] = "save" /\ ~ ToSave(j) /\ rows' = rows
        /\ pc' = [pc EXCEPT ![j] = "save"] /\ i' = [i EXCEPT ![j] = i[j] + 1]
    BY <1>25 DEF SavePass, Goto, db
  <2>2. ~ Midway(j, s)
    BY <2>1 DEF Midway
  <2> QED  BY <1>24, <2>1, <2>2
<1>26. CASE SaveDeleted(j)
  <2>1. pc[j] = "delete" /\ todo[j] = {} /\ rows' = rows
    BY <1>26 DEF SaveDeleted, db
  <2>2. CASE Kept(a)
    <3>1. pc' = [pc EXCEPT ![j] = "replace"] /\ i' = [i EXCEPT ![j] = i[j]]
      BY <1>26, <2>2 DEF SaveDeleted, Goto
    <3> QED  BY <1>21, <2>1, <3>1
  <2>3. CASE ~ Kept(a)
    <3>1. pc' = [pc EXCEPT ![j] = "save"] /\ i' = [i EXCEPT ![j] = i[j] + 1]
      BY <1>26, <2>3 DEF SaveDeleted, Goto
    <3>2. \A r \in rows : ~ Touches(a, Slot(r.act))
      BY <2>1 DEF SaveClears
    <3>3. Midway(j, s) => Q = {}
      BY <3>2 DEF Midway
    <3> QED  BY <1>24, <2>1, <2>3, <3>1, <3>3
  <2> QED  BY <2>2, <2>3
<1>27. CASE SaveInsert(j)
  <2> DEFINE x == [id |-> nextId, act |-> a, at |-> clock]
  <2>1. /\ pc[j] = "insert" /\ rows' = rows \cup {x}
        /\ pc' = [pc EXCEPT ![j] = "save"] /\ i' = [i EXCEPT ![j] = i[j] + 1]
    BY <1>27 DEF SaveInsert, Goto
  <2>2. x.act = a
    OBVIOUS
  <2>3. Touches(a, Slot(a))
    BY <1>8, <2>1, TouchRule DEF Shape
  <2>4. Kept(a) /\ \A r \in rows : ~ Touches(a, Slot(r.act))
    BY <2>1 DEF SaveClears
  <2>5. Midway(j, s) <=> Touches(a, s)
    BY <2>1 DEF Midway
  <2>6. Midway(j, s) => Q = {}
    BY <2>4, <2>5
  <2>7. ~ Owed(j, s) => s # Slot(a)
    BY <2>3, <2>5 DEF Owed
  <2> HIDE DEF x
  <2>8. ~ Owed(j, s) => {q \in rows' : Slot(q.act) = s} = Q
    BY <2>1, <2>2, <2>7
  <2> QED  BY <1>24, <1>27, <2>1, <2>4, <2>6, <2>8
<1> QED  BY <1>20, <1>22, <1>23, <1>25, <1>26, <1>27 DEF SaveStep

\* The row an insertion adds, on the slot of its action.
LEMMA InsertedRow ==
  ASSUME NEW j \in Jobs, SaveInsert(j), NEW s, {q \in rows : Slot(q.act) = s} = {}
  PROVE  /\ \A q \in rows' : Slot(q.act) = s => q.act = Cur(j).act /\ s = Slot(Cur(j).act)
         /\ s = Slot(Cur(j).act) => \E q \in rows' : Slot(q.act) = s
<1> DEFINE x == [id |-> nextId, act |-> Cur(j).act, at |-> clock]
<1>1. rows' = rows \cup {x} /\ x.act = Cur(j).act
  BY DEF SaveInsert
<1> HIDE DEF x
<1> QED  BY <1>1

\* The statements of one save keep the last word.
LEMMA WordSaveStep ==
  ASSUME Serial, TypeOK, Shape, OneAtATime, IdsNameOperations, SaveClears, LastWord,
         NEW j \in Jobs, SaveStep(j)
  PROVE  LastWord'
<1>0. /\ j \in Procs /\ pc[j] \in SavePoints
      /\ \A x \in Jobs : x # j => pc[x] = "idle"
  BY DEF SaveStep, SaveRead, SaveDelete, SaveDeleted, SaveReplace, SaveInsert, SaveFails,
         SavePass, OneAtATime, Procs, SavePoints
<1>1. \E c \in SavePoints : pc' = [pc EXCEPT ![j] = c]
  BY <1>0 DEF SaveStep, SaveRead, SaveDelete, SaveDeleted, SaveReplace, SaveInsert, SaveFails,
         SavePass, Goto, SavePoints, TypeOK
<1>2. pc'[j] \in SavePoints /\ \A x \in Jobs : x # j => pc'[x] = "idle"
  BY <1>0, <1>1 DEF TypeOK
<1>3. CASE lost'
  BY <1>3 DEF LastWord
<1>4. CASE ~ lost'
  <2>1. ~ SaveFails(j) /\ UNCHANGED <<wanted, lost>>
    BY <1>4 DEF SaveStep, SaveRead, SaveDelete, SaveDeleted, SaveReplace, SaveInsert, SaveFails,
         SavePass, ghost
  <2>2. Written(j)
    BY <1>0, <1>4, <2>1 DEF LastWord
  <2>3. pc[j] = "insert" => i[j] \in DOMAIN list[j]
    BY DEF Shape
  <2>4. ASSUME NEW s \in Slots
        PROVE  IF Owed(j, s)' THEN wanted[s] = Owes(j, s)' ELSE Recorded(s)' = Word(s)
    <3>1. CASE Owed(j, s)'
      BY <2>1, <2>2, <3>1, OwedStep DEF Written
    <3>2. CASE ~ Owed(j, s)
      BY <2>1, <2>2, <3>2, OwedStep DEF Written, Recorded
    <3>3. CASE Owed(j, s) /\ ~ Owed(j, s)'
      <4>1. /\ wanted[s] = Leaves(Cur(j).act, s)
            /\ {q \in rows : Slot(q.act) = s} = {}
            /\ \/ SaveInsert(j) /\ Kept(Cur(j).act)
               \/ rows' = rows /\ ~ Kept(Cur(j).act)
        BY <2>1, <2>2, <3>3, OwedStep DEF Written
      <4>2. CASE rows' = rows /\ ~ Kept(Cur(j).act)
        <5>1. wanted[s] = Unset
          BY <4>1, <4>2 DEF Leaves
        <5>2. {q \in rows' : Slot(q.act) = s} = {}
          BY <4>1, <4>2
        <5> QED  BY <3>3, <5>1, <5>2 DEF Word, Recorded
      <4>3. CASE SaveInsert(j) /\ Kept(Cur(j).act)
        <5>1. Cur(j).act \in Actions
          BY <2>3, <4>3, CurEntry DEF SaveInsert
        <5> DEFINE a == Cur(j).act
        <5>2. /\ \A q \in rows' : Slot(q.act) = s => q.act = a /\ s = Slot(a)
              /\ s = Slot(a) => \E q \in rows' : Slot(q.act) = s
          BY <4>1, <4>3, InsertedRow
        <5>3. IF s = Slot(a) THEN wanted[s] = a ELSE wanted[s] = Unset
          BY <4>1, <4>3 DEF Leaves
        <5>4. a # Unset
          BY <5>1
        <5> HIDE DEF a
        <5>5. CASE s = Slot(a)
          <6>1. Recorded(s)' = {a}
            BY <5>2, <5>5 DEF Recorded
          <6> QED  BY <3>3, <5>3, <5>4, <5>5, <6>1 DEF Word
        <5>6. CASE s # Slot(a)
          <6>1. Recorded(s)' = {}
            BY <5>2, <5>6 DEF Recorded
          <6> QED  BY <3>3, <5>3, <5>6, <6>1 DEF Word
        <5> QED  BY <5>5, <5>6
      <4> QED  BY <4>1, <4>2, <4>3
    <3> QED  BY <3>1, <3>2, <3>3
  <2>5. Written(j)'
    BY <2>1, <2>4 DEF Written, Word
  <2> QED  BY <1>2, <1>4, <2>5 DEF LastWord, SavePoints
<1> QED  BY <1>3, <1>4

\* So does every step, unless the process dies between the commands and the save.
LEMMA WordStep ==
  ASSUME Serial, "crash" \notin Faults, TypeOK, Shape, OneAtATime, IdsNameOperations,
         SaveClears, LastWord, [Next]_vars
  PROVE  LastWord'
<1>1. CASE \E p \in Procs, c \in Points : Aside(p, c)
  <2>1. PICK p \in Procs, c \in Points : Aside(p, c)
    BY <1>1
  <2>2. (\A j \in Jobs : pc[j] \notin SavePoints) /\ \A j \in Jobs : pc'[j] \notin SavePoints
    BY <2>1 DEF Aside, SavePoints, OneAtATime, Quiet, TypeOK, Procs
  <2>3. ASSUME ~ lost' PROVE \A s : Recorded(s)' = Recorded(s)
    <3>1. CASE rows' = rows
      BY <3>1 DEF Recorded
    <3>2. CASE \E n : Stamps(n)
      <4>1. /\ \A q \in rows' : \E x \in rows : q.act = x.act
            /\ \A x \in rows : \E q \in rows' : q.act = x.act
        BY <3>2, StampedRows
      <4> QED  BY <4>1 DEF Recorded
    <3> QED  BY <2>1, <2>3, <3>1, <3>2 DEF Aside
  <2>4. (~ lost' => ~ lost) /\ \A s : Word(s)' = Word(s)
    BY <2>1 DEF Aside, Word
  <2> QED  BY <2>2, <2>3, <2>4 DEF LastWord
<1>2. CASE \E j \in Jobs : ConfigureEnds(j)
  <2>1. PICK j \in Jobs : ConfigureEnds(j)
    BY <1>2
  <2>2. /\ j \in Procs /\ pc[j] = "save" /\ AtEnd(j) /\ pc' = [pc EXCEPT ![j] = "idle"]
        /\ UNCHANGED <<rows, wanted, lost>>
    BY <2>1 DEF ConfigureEnds, Goto, db, ghost, Procs
  <2>3. \A x \in Jobs : pc'[x] \notin SavePoints
    BY <2>2 DEF OneAtATime, TypeOK, Procs, SavePoints
  <2>4. \A s : Pending(j, s) = {} /\ ~ Midway(j, s)
    <3>1. i[j] \in Nat /\ DOMAIN list[j] = 1..Len(list[j]) /\ Len(list[j]) \in Nat
      BY <2>2 DEF TypeOK
    <3> QED  BY <2>2, <3>1 DEF Pending, Ahead, AtEnd, Midway
  <2>5. ~ lost => \A s \in Slots : Recorded(s) = Word(s)
    BY <2>2, <2>4 DEF LastWord, Written, Owed, SavePoints
  <2>6. \A s : Recorded(s)' = Recorded(s) /\ Word(s)' = Word(s)
    BY <2>2 DEF Recorded, Word
  <2> QED  BY <2>2, <2>3, <2>5, <2>6 DEF LastWord
<1>3. CASE \E j \in Jobs : RunEnds(j)
  <2>1. PICK j \in Jobs : RunEnds(j)
    BY <1>3
  <2> DEFINE K == {k \in DOMAIN list[j] : mark[j][k] = "ok" /\ list[j][k].persist}
  <2>2. /\ j \in Procs /\ pc[j] = "run" /\ pc' = [pc EXCEPT ![j] = "save"]
        /\ i' = [i EXCEPT ![j] = 1] /\ wanted' = After(wanted, j, K)
        /\ UNCHANGED <<rows, lost, list, mark>>
    BY <2>1 DEF RunEnds, Goto, db, Procs
  <2>3. /\ \A x \in Jobs : pc[x] \notin SavePoints
        /\ pc'[j] = "save" /\ i'[j] = 1
        /\ \A x \in Jobs : x # j => pc'[x] = "idle"
    BY <2>2 DEF OneAtATime, TypeOK, Procs, SavePoints
  <2>4. \A s : Pending(j, s)' = {k \in K : Touches(list[j][k].act, s)} /\ ~ Midway(j, s)'
    <3>1. Ahead(j)' = 1 /\ DOMAIN list[j] = 1..Len(list[j]) /\ Len(list[j]) \in Nat
      BY <2>2, <2>3 DEF TypeOK, Ahead
    <3>2. \A k \in DOMAIN list[j] : k >= 1
      BY <3>1
    <3> QED  BY <2>2, <2>3, <3>1, <3>2 DEF Pending, Midway
  <2> HIDE DEF K
  <2>5. \A s \in Slots : wanted'[s] = IF Pending(j, s)' = {} THEN wanted[s]
                                      ELSE Leaves(list[j][Max(Pending(j, s)')].act, s)
    BY <2>2, <2>4 DEF After
  <2>6. ~ lost => \A s \in Slots : Recorded(s) = Word(s)
    BY <2>3 DEF LastWord
  <2>7. \A s : Recorded(s)' = Recorded(s)
    BY <2>2 DEF Recorded
  <2>8. ~ lost => Written(j)'
    BY <2>2, <2>4, <2>5, <2>6, <2>7 DEF Written, Owed, Owes, Word
  <2> QED  BY <2>2, <2>3, <2>8 DEF LastWord, SavePoints
<1>4. CASE UNCHANGED <<rows, nextId, wanted, lost, pc, list, mark, i, todo>>
  <2>1. \A s : /\ Recorded(s)' = Recorded(s) /\ Word(s)' = Word(s)
               /\ \A j \in Jobs : Midway(j, s)' <=> Midway(j, s)
    BY <1>4 DEF Recorded, Word, Midway, Cur
  <2>2. \A j \in Jobs : Ahead(j)' = Ahead(j) /\ Cur(j)' = Cur(j)
    BY <1>4 DEF Ahead, Cur
  <2>3. \A s : \A j \in Jobs : Pending(j, s)' = Pending(j, s)
    BY <1>4, <2>2, PendingSame
  <2>4. \A j \in Jobs : Written(j)' <=> Written(j)
    BY <1>4, <2>1, <2>2, <2>3 DEF Written, Owed, Owes
  <2> QED  BY <1>4, <2>1, <2>4 DEF LastWord
<1>5. ~ Crash
  BY DEF Crash
<1> QED  BY <1>1, <1>2, <1>3, <1>4, <1>5, SerialSteps, WordSaveStep

\* The history of serial requests is the last word on each piece of state, whatever
\* statements, execs and reads fail, as long as the process does not die between
\* running actions and saving them.
THEOREM HistoryKeepsLastWord ==
  ASSUME Serial, "crash" \notin Faults
  PROVE  Spec => []HistoryIsLastWord
<1> DEFINE Inv == /\ TypeOK /\ Shape /\ IsFiniteSet(rows) /\ IdsNameOperations
                  /\ OneAtATime /\ RowsInOrder /\ SaveClears /\ LastWord
<1>1. Init => Inv
  <2> SUFFICES ASSUME Init PROVE Inv
    OBVIOUS
  <2>1. TypeOK /\ Shape /\ IsFiniteSet(rows)
    BY TypeInit, FS_EmptySet DEF Init
  <2>2. \A p \in Procs : pc[p] = "idle" /\ DOMAIN list[p] = {}
    BY DEF Init
  <2>3. IdsNameOperations /\ OneAtATime /\ RowsInOrder /\ SaveClears
    BY <2>2 DEF Init, IdsNameOperations, OneAtATime, RowsInOrder, SaveClears, Procs
  <2>4. \A s \in Slots : Recorded(s) = {} /\ Word(s) = {}
    BY DEF Init, Recorded, Word
  <2>5. LastWord
    BY <2>2, <2>4 DEF LastWord, SavePoints, Procs
  <2> QED  BY <2>1, <2>3, <2>5
<1>2. Inv /\ [Next]_vars => Inv'
  BY TypeStep, FiniteRows, IdsStep, SerialStep, OrderStep, WordStep
<1>3. Inv => HistoryIsLastWord
  <2> SUFFICES ASSUME Inv, Quiet, ~ lost
               PROVE  {r.act : r \in rows} = {wanted[s] : s \in Slots} \ {Unset}
    BY DEF HistoryIsLastWord
  <2>1. \A s \in Slots : Recorded(s) = Word(s)
    BY DEF LastWord, Quiet, SavePoints, Procs
  <2>2. \A r \in rows : Slot(r.act) \in Slots /\ r.act \in Recorded(Slot(r.act)) /\ r.act \in Actions
    BY DEF Slots, Recorded, TypeOK, RowType
  <2>3. \A r \in rows : r.act \in {wanted[s] : s \in Slots} \ {Unset}
    BY <2>1, <2>2 DEF Word
  <2>4. ASSUME NEW s \in Slots, wanted[s] # Unset PROVE \E r \in rows : r.act = wanted[s]
    <3>1. wanted[s] \in Recorded(s)
      BY <2>1, <2>4 DEF Word
    <3> QED  BY <3>1 DEF Recorded
  <2> QED  BY <2>3, <2>4
<1> QED  BY <1>1, <1>2, <1>3, PTL DEF Spec

-----------------------------------------------------------------------------
(* A replay restores what is on record.                                    *)

Replaying == {"resolve", "run", "settle"}

\* A list a replay read: actions that leave something, in the order of their ids,
\* none of which touches the slot of an earlier one; and all of the table.
ListInOrder(r) ==
  /\ \A k \in DOMAIN list[r] : Kept(list[r][k].act)
  /\ \A m, n \in DOMAIN list[r] : m < n => ~ Touches(list[r][n].act, Slot(list[r][m].act))
RowsListed(r) == \A q \in rows : \E k \in DOMAIN list[r] : q.id = list[r][k].id

\* What ran is in force, and what has been settled carries a stamp of this pod.
RanInForce(r) ==
  \A k \in DOMAIN list[r] : mark[r][k] = "ok" => live[Slot(list[r][k].act)] = list[r][k].act
SettledStamped(r) ==
  \A k \in DOMAIN list[r] : mark[r][k] = "ok" /\ k < i[r] =>
    \A q \in rows : q.id = list[r][k].id => q.at >= created

ReplayOK(r) ==
  /\ pc[r] \in {"mtu", "list"} \cup Replaying => phase = "ready"
  /\ pc[r] \in Replaying => ListInOrder(r) /\ RowsListed(r) /\ RanInForce(r)
  /\ pc[r] = "resolve" => \A k \in DOMAIN list[r] : mark[r][k] # "ok"
  /\ pc[r] = "run" => \A k \in DOMAIN list[r] : mark[r][k] = "ok" => k < i[r]
  /\ pc[r] = "settle" => SettledStamped(r)
ReplayInv == \A r \in Restarters : ReplayOK(r)

\* Stamps lie in the past, and the pod was created before now.
Clocks == created <= clock /\ \A q \in rows : q.at < clock

\* A replay's list holds rows.
LEMMA ReplayRow ==
  ASSUME TypeOK, Shape, NEW r \in Restarters, NEW k \in DOMAIN list[r]
  PROVE  list[r][k].act \in Actions /\ list[r][k].id \in Nat /\ Slot(list[r][k].act) \in Slots
<1>1. list[r] \in Seq(RowType) /\ k \in 1..Len(list[r])
  BY DEF Shape
<1>2. list[r][k] \in RowType
  BY <1>1, ElementOfSeq
<1> QED  BY <1>2 DEF RowType, Slots

\* An entry that ran before the exec at hand and is not part of it lies before all
\* of its entries.
LEMMA GroupBefore ==
  ASSUME TypeOK, Shape, NEW p \in Procs, i[p] \in DOMAIN list[p], mark[p][i[p]] = "run",
         NEW k \in DOMAIN list[p], mark[p][k] = "ok", k < i[p], k \notin Group(p, i[p])
  PROVE  \A n \in Group(p, i[p]) : k < n
<1> SUFFICES ASSUME NEW n \in Group(p, i[p]), ~ (k < n) PROVE FALSE
  OBVIOUS
<1>1. DOMAIN list[p] = 1..Len(list[p]) /\ Len(list[p]) \in Nat
  BY DEF TypeOK
<1>2. n \in DOMAIN list[p] /\ \A m \in DOMAIN list[p] : n <= m /\ m <= i[p] => ~ Splits(p, m)
  BY DEF Group
<1>3. n \in Nat /\ k \in Nat /\ i[p] \in Nat /\ n <= k
  BY <1>1, <1>2
<1>4. \A m \in DOMAIN list[p] : (k <= m /\ m <= i[p]) \/ (i[p] <= m /\ m <= k) => ~ Splits(p, m)
  BY <1>1, <1>2, <1>3
<1> QED  BY <1>4 DEF Group, InExec

\* Running entries of the list, those that come after what ran before, leaves
\* everything that ran in force.
LEMMA ReplayRuns ==
  ASSUME TypeOK, Shape, NEW r \in Restarters, ListInOrder(r), NEW K \in SUBSET DOMAIN list[r],
         NEW k \in DOMAIN list[r],
         k \in K \/ (live[Slot(list[r][k].act)] = list[r][k].act /\ \A n \in K : k < n)
  PROVE  After(live, r, K)[Slot(list[r][k].act)] = list[r][k].act
<1> DEFINE a == list[r][k].act
           hits == {n \in K : Touches(list[r][n].act, Slot(a))}
<1>0. r \in Procs /\ DOMAIN list[r] = 1..Len(list[r]) /\ Len(list[r]) \in Nat
  BY DEF Procs, TypeOK
<1>1. a \in Actions /\ Slot(a) \in Slots /\ Kept(a)
  BY ReplayRow DEF ListInOrder
<1>2. After(live, r, K)[Slot(a)] = IF hits = {} THEN live[Slot(a)]
                                   ELSE Leaves(list[r][Max(hits)].act, Slot(a))
  BY <1>1 DEF After
<1>3. \A n \in hits : n <= k
  BY <1>0 DEF ListInOrder
<1>4. CASE k \in K
  <2>1. k \in hits
    BY <1>1, <1>4, TouchRule
  <2>2. Max(hits) = k
    <3>1. hits \in SUBSET DOMAIN list[r]
      OBVIOUS
    <3> HIDE DEF hits
    <3> QED  BY <1>0, <1>3, <2>1, <3>1, LastOf
  <2>3. Leaves(a, Slot(a)) = a
    BY <1>1 DEF Leaves
  <2> HIDE DEF hits
  <2> QED  BY <1>2, <2>1, <2>2, <2>3
<1>5. CASE live[Slot(a)] = a /\ \A n \in K : k < n
  <2>1. hits = {}
    BY <1>0, <1>3, <1>5
  <2> HIDE DEF hits
  <2> QED  BY <1>2, <1>5, <2>1
<1> QED  BY <1>4, <1>5

\* Times only move on.
LEMMA ClockStep ==
  ASSUME TypeOK, Shape, Clocks, [Next]_vars
  PROVE  Clocks'
<1>0. /\ clock \in Nat /\ created \in Nat /\ \A q \in rows : q.at \in Nat
      /\ Resolution \in Nat \ {0}
  BY DEF TypeOK, RowType
<1>1. ASSUME created' = created, clock' = clock, rows' \subseteq rows PROVE Clocks'
  BY <1>1 DEF Clocks
<1>2. ASSUME NEW j \in Jobs, SaveInsert(j) PROVE Clocks'
  <2> DEFINE x == [id |-> nextId, act |-> Cur(j).act, at |-> clock]
  <2>1. rows' = rows \cup {x} /\ clock' = clock + 1 /\ created' = created /\ x.at = clock
    BY <1>2 DEF SaveInsert, pod
  <2> HIDE DEF x
  <2> QED  BY <1>0, <2>1 DEF Clocks
<1>3. ASSUME NEW r \in Restarters, ReplaySettle(r) PROVE Clocks'
  <2>1. created' = created
    BY <1>3 DEF ReplaySettle, pod
  <2>2. CASE rows' \subseteq rows /\ clock' = clock
    BY <1>1, <2>1, <2>2
  <2>3. CASE Stamps(Cur(r).id) /\ clock' = clock + 1
    <3>1. \A q \in rows' : q.at = clock \/ \E x \in rows : q.at = x.at
      BY <2>3, StampedRows
    <3> QED  BY <1>0, <2>1, <2>3, <3>1 DEF Clocks
  <2>4. \/ rows' \subseteq rows /\ clock' = clock
        \/ Stamps(Cur(r).id) /\ clock' = clock + 1
    BY <1>3 DEF ReplaySettle, Stamps
  <2> QED  BY <2>2, <2>3, <2>4
<1>4. CASE PodCreated
  <2>1. created' = (clock \div Resolution) * Resolution /\ clock' = clock + 1 /\ rows' = rows
    BY <1>4 DEF PodCreated
  <2>2. created' <= clock /\ created' \in Nat
    BY <1>0, <2>1, WholeUnits
  <2> QED  BY <1>0, <2>1, <2>2 DEF Clocks
<1>5. ASSUME NEW j \in Jobs, Configure(j) \/ CheckDuplicate(j) \/ CheckEnds(j) \/ ConfigureEnds(j)
                             \/ SaveRead(j) \/ SaveDelete(j) \/ SaveDeleted(j) \/ SaveReplace(j)
                             \/ SaveFails(j) \/ SavePass(j)
      PROVE  Clocks'
  <2>1. created' = created /\ clock' = clock /\ rows' \subseteq rows
    BY <1>5 DEF Configure, CheckDuplicate, CheckEnds, ConfigureEnds, SaveRead, SaveDelete, SaveDeleted,
                SaveReplace, SaveFails, SavePass, db, pod
  <2> QED  BY <1>1, <2>1
<1>6. ASSUME NEW p, RunStep(p) PROVE Clocks'
  <2>1. created' = created /\ clock' = clock /\ rows' = rows
    BY <1>6 DEF RunStep, RunScriptAction, RunGuestCommit, ExecError, PassOver, RunEnds, db, pod
  <2> QED  BY <1>1, <2>1
<1>7. ASSUME NEW r \in Restarters, RestartPod(r) \/ WaitReady(r) \/ ApplyPlatformMTU(r) \/ ReplayList(r)
                  \/ ReplayResolve(r) \/ ReplayResolved(r) \/ ReplayAborts(r) \/ ReplayFails(r)
                  \/ RestartEnds(r)
      PROVE  Clocks'
  <2>1. created' = created /\ clock' = clock /\ rows' \subseteq rows
    BY <1>7 DEF RestartPod, WaitReady, ApplyPlatformMTU, ReplayList, ReplayResolve, ReplayResolved,
                ReplayAborts, ReplayFails, RestartEnds, db, pod
  <2> QED  BY <1>1, <2>1
<1>8. CASE PodGone \/ PodReady \/ DaemonsUp \/ PodLost \/ Crash \/ UNCHANGED vars
  <2>1. created' = created /\ clock' = clock /\ rows' = rows
    BY <1>8 DEF PodGone, PodReady, DaemonsUp, PodLost, Crash, vars, db, pod
  <2> QED  BY <1>1, <2>1
<1> QED  BY <1>2, <1>3, <1>4, <1>5, <1>6, <1>7, <1>8
         DEF Next, JobStep, SaveStep, RestartStep, ClusterStep

\* The run of a replay.
LEMMA ReplayRunStep ==
  ASSUME Serial, TypeOK, Shape, NEW r \in Restarters, ReplayOK(r), RunStep(r) \/ ReplayAborts(r)
  PROVE  ReplayOK(r)'
<1>0. /\ r \in Procs /\ r \notin Jobs /\ pc[r] = "run" /\ phase' = phase /\ UNCHANGED <<rows, list>>
  BY DEF RunStep, RunScriptAction, RunGuestCommit, ExecError, PassOver, RunEnds, ReplayAborts, Procs, db, pod
<1>1. /\ ListInOrder(r) /\ RowsListed(r) /\ RanInForce(r) /\ phase = "ready"
      /\ \A k \in DOMAIN list[r] : mark[r][k] = "ok" => k < i[r]
  BY <1>0 DEF ReplayOK, Replaying
<1>2. ListInOrder(r)' /\ RowsListed(r)'
  BY <1>0, <1>1 DEF ListInOrder, RowsListed
<1>3. /\ DOMAIN list[r] = 1..Len(list[r]) /\ Len(list[r]) \in Nat /\ i[r] \in Nat
      /\ DOMAIN mark[r] = DOMAIN list[r]
  BY <1>0 DEF TypeOK, Shape
<1>4. ASSUME NEW c \in {"run", "settle"}, NEW n \in Nat, Goto(r, c, n), RanInForce(r)',
             c = "run" => \A k \in DOMAIN list[r] : mark'[r][k] = "ok" => k < n,
             c = "settle" => n = 1
      PROVE  ReplayOK(r)'
  <2>1. pc'[r] = c /\ i'[r] = n
    BY <1>0, <1>4 DEF Goto, TypeOK
  <2>2. c = "settle" => SettledStamped(r)'
    BY <1>0, <1>3, <1>4, <2>1 DEF SettledStamped
  <2> QED  BY <1>0, <1>1, <1>2, <1>4, <2>1, <2>2 DEF ReplayOK, Replaying
<1> DEFINE G == Group(r, i[r])
<1>5. ASSUME i[r] \in DOMAIN list[r], mark[r][i[r]] = "run"
      PROVE  /\ G \in SUBSET DOMAIN list[r] /\ i[r] \in G
             /\ Max(G) \in G /\ Min(G) \in G
             /\ \A k \in G : Min(G) <= k /\ k <= Max(G) /\ k \in Nat
             /\ \A k \in DOMAIN list[r] : mark[r][k] = "ok" /\ k \notin G => \A n \in G : k < n
  <2>1. G \in SUBSET DOMAIN list[r] /\ i[r] \in G
    BY <1>0, <1>5, GroupEnds
  <2>2. Max(G) \in G /\ Min(G) \in G /\ \A k \in G : Min(G) <= k /\ Max(G) >= k
    <3> HIDE DEF G
    <3> QED  BY <1>3, <2>1, EndsOfIndexSet
  <2>3. ASSUME NEW k \in DOMAIN list[r], mark[r][k] = "ok", k \notin G PROVE \A n \in G : k < n
    BY <1>0, <1>1, <1>5, <2>3, GroupBefore
  <2>4. \A k \in G : k \in Nat
    BY <1>3, <2>1
  <2> HIDE DEF G
  <2> QED  BY <2>1, <2>2, <2>3, <2>4
<1>6. ASSUME pc[r] = "run", ~ AtEnd(r), CurMark(r) = "run"
      PROVE  i[r] \in DOMAIN list[r] /\ mark[r][i[r]] = "run"
  BY <1>0, <1>3, <1>6 DEF AtEnd, CurMark, Shape
<1>7. ASSUME i[r] \in DOMAIN list[r], mark[r][i[r]] = "run", ExecFails(r),
             live' = live \/ live' = After(live, r, G)
      PROVE  ReplayOK(r)'
  <2> DEFINE again == tries[r][i[r]] + 1 < Attempts(r)
             n == IF again THEN Min(G) ELSE Max(G) + 1
  <2>1. Goto(r, "run", n)
    BY <1>7 DEF ExecFails
  <2>2. \A k \in DOMAIN list[r] : mark'[r][k] = "ok" => k \notin G /\ mark[r][k] = "ok"
    BY <1>0, <1>3, <1>7 DEF ExecFails, TypeOK
  <2>3. n \in Nat /\ \A k \in DOMAIN list[r] : mark'[r][k] = "ok" => k < n
    <3> HIDE DEF again, G
    <3>1. Max(G) \in Nat /\ Min(G) \in Nat
      BY <1>5, <1>7
    <3>2. \A k \in DOMAIN list[r] : mark'[r][k] = "ok" => k < Min(G) /\ k < Max(G) /\ k \in Nat
      BY <1>3, <1>5, <1>7, <2>2
    <3> QED  BY <3>1, <3>2
  <2>4. RanInForce(r)'
    <3> SUFFICES ASSUME NEW k \in DOMAIN list[r], mark'[r][k] = "ok"
                 PROVE  live'[Slot(list[r][k].act)] = list[r][k].act
      BY <1>0 DEF RanInForce
    <3>1. live[Slot(list[r][k].act)] = list[r][k].act /\ \A m \in G : k < m
      BY <1>1, <1>5, <1>7, <2>2 DEF RanInForce
    <3>2. After(live, r, G)[Slot(list[r][k].act)] = list[r][k].act
      <4> HIDE DEF G
      <4> QED  BY <1>1, <1>5, <1>7, <3>1, ReplayRuns
    <3> QED  BY <1>7, <3>1, <3>2
  <2> HIDE DEF n
  <2> QED  BY <1>4, <2>1, <2>3, <2>4
<1>8. CASE RunScriptAction(r)
  <2>0. i[r] \in DOMAIN list[r] /\ mark[r][i[r]] = "run"
    BY <1>6, <1>8 DEF RunScriptAction
  <2> DEFINE ok == Accepts(Cur(r).act, live)
  <2>1. Goto(r, "run", i[r] + 1)
    BY <1>8 DEF RunScriptAction
  <2>2. /\ mark' = [mark EXCEPT ![r][i[r]] = IF ok THEN "ok" ELSE "fail"]
        /\ live' = IF ok THEN After(live, r, {i[r]}) ELSE live
    BY <1>8 DEF RunScriptAction
  <2> HIDE DEF ok
  <2>3. \A k \in DOMAIN list[r] :
          mark'[r][k] = IF k = i[r] THEN (IF ok THEN "ok" ELSE "fail") ELSE mark[r][k]
    BY <1>0, <1>3, <2>0, <2>2 DEF TypeOK
  <2>4. \A k \in DOMAIN list[r] : mark'[r][k] = "ok" => k < i[r] + 1
    BY <1>1, <1>3, <2>3
  <2>5. RanInForce(r)'
    <3> SUFFICES ASSUME NEW k \in DOMAIN list[r], mark'[r][k] = "ok"
                 PROVE  live'[Slot(list[r][k].act)] = list[r][k].act
      BY <1>0 DEF RanInForce
    <3>1. CASE ok
      <4>1. k = i[r] \/ (live[Slot(list[r][k].act)] = list[r][k].act /\ k < i[r])
        BY <1>1, <2>3 DEF RanInForce
      <4>2. k \in {i[r]} \/ (live[Slot(list[r][k].act)] = list[r][k].act /\ \A m \in {i[r]} : k < m)
        BY <4>1
      <4>3. {i[r]} \in SUBSET DOMAIN list[r]
        BY <2>0
      <4> QED  BY <1>1, <2>2, <3>1, <4>2, <4>3, ReplayRuns
    <3>2. CASE ~ ok
      BY <1>1, <2>2, <2>3, <3>2 DEF RanInForce
    <3> QED  BY <3>1, <3>2
  <2>6. i[r] + 1 \in Nat
    BY <1>3
  <2> QED  BY <1>4, <2>1, <2>4, <2>5, <2>6
<1>9. CASE RunGuestCommit(r)
  <2>0. i[r] \in DOMAIN list[r] /\ mark[r][i[r]] = "run"
    BY <1>6, <1>9 DEF RunGuestCommit
  <2>1. CASE ExecFails(r) /\ live' = live
    BY <1>7, <2>0, <2>1
  <2>2. CASE /\ mark' = [mark EXCEPT ![r] = [k \in DOMAIN list[r] |->
                            IF k \in G THEN "ok" ELSE mark[r][k]]]
             /\ live' = After(live, r, G)
             /\ Goto(r, "run", Max(G) + 1)
    <3>1. \A k \in DOMAIN list[r] : mark'[r][k] = IF k \in G THEN "ok" ELSE mark[r][k]
      BY <1>0, <2>2 DEF TypeOK
    <3> HIDE DEF G
    <3>2. Max(G) + 1 \in Nat
      BY <1>5, <2>0
    <3>3. \A k \in DOMAIN list[r] : mark'[r][k] = "ok" => k < Max(G) + 1
      BY <1>3, <1>5, <2>0, <3>1
    <3>4. RanInForce(r)'
      <4> SUFFICES ASSUME NEW k \in DOMAIN list[r], mark'[r][k] = "ok"
                   PROVE  live'[Slot(list[r][k].act)] = list[r][k].act
        BY <1>0 DEF RanInForce
      <4>1. k \in G \/ (live[Slot(list[r][k].act)] = list[r][k].act /\ \A m \in G : k < m)
        BY <1>1, <1>5, <2>0, <3>1 DEF RanInForce
      <4> QED  BY <1>1, <1>5, <2>0, <2>2, <4>1, ReplayRuns
    <3> QED  BY <1>4, <2>2, <3>2, <3>3, <3>4
  <2> QED  BY <1>9, <2>1, <2>2 DEF RunGuestCommit
<1>10. CASE ExecError(r)
  <2>0. i[r] \in DOMAIN list[r] /\ mark[r][i[r]] = "run"
    BY <1>6, <1>10 DEF ExecError
  <2>1. ExecFails(r) /\ (live' = live \/ live' = After(live, r, G))
    BY <1>10 DEF ExecError
  <2> QED  BY <1>7, <2>0, <2>1
<1>11. CASE PassOver(r)
  <2>1. Goto(r, "run", i[r] + 1) /\ UNCHANGED <<mark, live>> /\ i[r] + 1 \in Nat
    BY <1>3, <1>11 DEF PassOver, pod
  <2>2. RanInForce(r)' /\ \A k \in DOMAIN list[r] : mark'[r][k] = "ok" => k < i[r] + 1
    BY <1>0, <1>1, <1>3, <2>1 DEF RanInForce
  <2> QED  BY <1>4, <2>1, <2>2
<1>12. CASE RunEnds(r)
  <2>1. Goto(r, "settle", 1) /\ UNCHANGED <<mark, live>>
    BY <1>0, <1>12 DEF RunEnds, pod
  <2>2. RanInForce(r)'
    BY <1>0, <1>1, <2>1 DEF RanInForce
  <2> QED  BY <1>4, <2>1, <2>2
<1>13. CASE ReplayAborts(r)
  <2>1. /\ Goto(r, "settle", 1) /\ UNCHANGED live
        /\ mark' = [mark EXCEPT ![r] = [k \in DOMAIN list[r] |->
                       IF k \in G THEN "run" ELSE mark[r][k]]]
    BY <1>13 DEF ReplayAborts, pod
  <2>2. \A k \in DOMAIN list[r] : mark'[r][k] = "ok" => mark[r][k] = "ok"
    <3> HIDE DEF G
    <3> QED  BY <1>0, <2>1 DEF TypeOK
  <2>3. RanInForce(r)'
    BY <1>0, <1>1, <2>1, <2>2 DEF RanInForce
  <2> QED  BY <1>4, <2>1, <2>3
<1> QED  BY <1>8, <1>9, <1>10, <1>11, <1>12, <1>13 DEF RunStep

\* As many rows in the order of their ids as the table has are all of them.
LEMMA ListCovers ==
  ASSUME TypeOK, IsFiniteSet(rows), NEW s \in [1..Cardinality(rows) -> rows], InIdOrder(s)
  PROVE  \A q \in rows : \E k \in DOMAIN s : s[k] = q
<1> DEFINE n == Cardinality(rows)
<1>1. n \in Nat
  BY FS_CardinalityType
<1>2. IsFiniteSet(1..n) /\ Cardinality(1..n) = n
  BY <1>1, FS_Interval
<1>3. \A k \in 1..n : s[k].id \in Nat
  <2>1. \A k \in 1..n : s[k] \in RowType
    BY DEF TypeOK
  <2> QED  BY <2>1 DEF RowType
<1>4. \A x, y \in 1..n : x < y => s[x].id < s[y].id
  BY DEF InIdOrder
<1>5. s \in Injection(1..n, rows)
  <2>1. ASSUME NEW x \in 1..n, NEW y \in 1..n, s[x] = s[y] PROVE x = y
    <3>1. ~ (x < y) /\ ~ (y < x)
      BY <1>3, <1>4, <2>1
    <3> QED  BY <1>1, <3>1
  <2> QED  BY <2>1 DEF Injection, IsInjective
<1>6. s \in Surjection(1..n, rows)
  BY <1>2, <1>5, FS_Injection
<1> QED  BY <1>6 DEF Surjection

\* A restart keeps ReplayOK, as long as the statements that settle its rows do not
\* fail.
LEMMA ReplayStep ==
  ASSUME Serial, "db" \notin Faults, TypeOK, Shape, IsFiniteSet(rows), IdsNameOperations,
         OneAtATime, RowsInOrder, Clocks, ReplayInv, NEW r \in Restarters,
         RestartPod(r) \/ RestartStep(r)
  PROVE  ReplayInv'
<1>0. r \in Procs /\ ReplayOK(r)
  BY DEF Procs, ReplayInv
<1>1. ASSUME ReplayOK(r)' PROVE ReplayInv'
  <2>1. \E c : pc' = [pc EXCEPT ![r] = c]
    BY DEF RestartPod, RestartStep, WaitReady, ApplyPlatformMTU, ReplayList, ReplayResolve,
           ReplayResolved, RunStep, ReplayAborts, ReplaySettle, ReplayFails, RestartEnds,
           RunScriptAction, RunGuestCommit, ExecError, ExecFails, PassOver, RunEnds, Goto
  <2>2. pc[r] # "idle" \/ Quiet
    BY DEF RestartPod, RestartStep, WaitReady, ApplyPlatformMTU, ReplayList, ReplayResolve,
           ReplayResolved, RunStep, ReplayAborts, ReplaySettle, ReplayFails, RestartEnds,
           RunScriptAction, RunGuestCommit, ExecError, PassOver, RunEnds, MayBegin
  <2>3. \A x \in Restarters : x # r => pc'[x] = "idle"
    BY <2>1, <2>2 DEF OneAtATime, Quiet, TypeOK, Procs
  <2> QED  BY <1>1, <2>3 DEF ReplayInv, ReplayOK, Replaying
<1>2. ASSUME NEW c \in {"idle", "wait"}, pc' = [pc EXCEPT ![r] = c] PROVE ReplayOK(r)'
  <2>1. pc'[r] = c
    BY <1>0, <1>2 DEF TypeOK
  <2> QED  BY <2>1 DEF ReplayOK, Replaying
<1>3. ASSUME NEW c \in {"mtu", "list"}, pc' = [pc EXCEPT ![r] = c], phase' = "ready"
      PROVE  ReplayOK(r)'
  <2>1. pc'[r] = c
    BY <1>0, <1>3 DEF TypeOK
  <2> QED  BY <1>3, <2>1 DEF ReplayOK, Replaying
<1>4. CASE RestartPod(r) \/ RestartEnds(r)
  <2>1. \E c \in {"idle", "wait"} : pc' = [pc EXCEPT ![r] = c]
    BY <1>4 DEF RestartPod, RestartEnds, Goto
  <2> QED  BY <1>1, <1>2, <2>1
<1>5. CASE WaitReady(r) \/ ApplyPlatformMTU(r)
  <2>1. \/ pc' = [pc EXCEPT ![r] = "idle"]
        \/ \E c \in {"mtu", "list"} : pc' = [pc EXCEPT ![r] = c] /\ phase' = "ready"
    BY <1>0, <1>5 DEF WaitReady, ApplyPlatformMTU, Goto, pod, ReplayOK
  <2> QED  BY <1>1, <1>2, <1>3, <2>1
<1>6. CASE ReplayFails(r)
  <2>1. pc' = [pc EXCEPT ![r] = "idle"]
    BY <1>6 DEF ReplayFails, Goto
  <2> QED  BY <1>1, <1>2, <2>1
<1>7. CASE ReplayList(r)
  <2>1. PICK s \in [1..Cardinality(rows) -> rows] :
               /\ InIdOrder(s)
               /\ list' = [list EXCEPT ![r] = s]
               /\ mark' = [mark EXCEPT ![r] = [k \in DOMAIN s |-> "todo"]]
    BY <1>7 DEF ReplayList
  <2>2. /\ pc[r] = "list" /\ \E c \in {"idle", "resolve"} : pc' = [pc EXCEPT ![r] = c]
        /\ UNCHANGED <<rows, phase>>
    BY <1>7 DEF ReplayList, Goto, db, pod
  <2>3. phase' = "ready"
    BY <1>0, <2>2 DEF ReplayOK
  <2>4. list'[r] = s /\ \A k \in DOMAIN s : mark'[r][k] # "ok"
    BY <1>0, <2>1 DEF TypeOK
  <2>5. DOMAIN s = 1..Cardinality(rows) /\ \A k \in DOMAIN s : s[k] \in rows
    BY <2>1
  <2>6. \A m, n \in DOMAIN s : m < n => ~ Touches(s[n].act, Slot(s[m].act))
    BY <2>1, <2>5 DEF InIdOrder, RowsInOrder
  <2>7. ListInOrder(r)'
    BY <2>4, <2>5, <2>6 DEF ListInOrder, RowsInOrder
  <2>8. RowsListed(r)'
    <3>1. \A q \in rows : \E k \in DOMAIN s : s[k] = q
      BY <2>1, ListCovers
    <3> QED  BY <2>2, <2>4, <3>1 DEF RowsListed
  <2>9. RanInForce(r)'
    BY <2>4 DEF RanInForce
  <2>10. pc'[r] \in {"idle", "resolve"}
    BY <1>0, <2>2 DEF TypeOK
  <2>11. ReplayOK(r)'
    BY <2>3, <2>4, <2>7, <2>8, <2>9, <2>10 DEF ReplayOK, Replaying
  <2> QED  BY <1>1, <2>11
<1>8. CASE ReplayResolve(r) \/ ReplayResolved(r)
  <2>1. /\ pc[r] = "resolve" /\ rows' \subseteq rows /\ UNCHANGED <<list, phase, live>>
        /\ \E c \in {"resolve", "run"} : pc' = [pc EXCEPT ![r] = c]
    BY <1>8 DEF ReplayResolve, ReplayResolved, Goto, db, pod
  <2>2. mark' = mark \/ \E m \in {"bad", "run"} : mark' = [mark EXCEPT ![r][i[r]] = m]
    BY <1>8 DEF ReplayResolve, ReplayResolved
  <2>3. /\ ListInOrder(r) /\ RowsListed(r) /\ phase = "ready"
        /\ \A k \in DOMAIN list[r] : mark[r][k] # "ok"
    BY <1>0, <2>1 DEF ReplayOK, Replaying
  <2>4. \A k \in DOMAIN list[r] : mark'[r][k] # "ok"
    BY <1>0, <2>2, <2>3 DEF TypeOK, Shape
  <2>5. ListInOrder(r)' /\ RowsListed(r)' /\ RanInForce(r)'
    BY <2>1, <2>3, <2>4 DEF ListInOrder, RowsListed, RanInForce
  <2>6. pc'[r] \in {"resolve", "run"}
    BY <1>0, <2>1 DEF TypeOK
  <2>7. ReplayOK(r)'
    BY <2>1, <2>3, <2>4, <2>5, <2>6 DEF ReplayOK, Replaying
  <2> QED  BY <1>1, <2>7
<1>9. CASE ReplaySettle(r)
  <2>1. /\ pc[r] = "settle" /\ ~ AtEnd(r) /\ UNCHANGED <<list, mark, phase, live, created>>
        /\ pc' = [pc EXCEPT ![r] = "settle"] /\ i' = [i EXCEPT ![r] = i[r] + 1]
    BY <1>9 DEF ReplaySettle, Goto, pod
  <2>2. /\ ListInOrder(r) /\ RowsListed(r) /\ phase = "ready" /\ RanInForce(r)
        /\ SettledStamped(r)
    BY <1>0, <2>1 DEF ReplayOK, Replaying
  <2>3. /\ pc'[r] = "settle" /\ i'[r] = i[r] + 1 /\ i[r] \in DOMAIN list[r] /\ i[r] \in Nat
        /\ DOMAIN list[r] = 1..Len(list[r]) /\ Len(list[r]) \in Nat
    BY <1>0, <2>1 DEF TypeOK, Shape, AtEnd
  <2>4. /\ CurMark(r) = "ok" => Stamps(Cur(r).id)
        /\ CurMark(r) # "ok" => rows' \subseteq rows
    BY <1>9 DEF ReplaySettle, Stamps
  <2>5. \A q \in rows' : \E x \in rows :
          /\ q.id = x.id
          /\ \/ q.at = x.at /\ (CurMark(r) = "ok" => x.id # Cur(r).id)
             \/ q.at = clock
    <3>1. CASE CurMark(r) = "ok"
      BY <2>4, <3>1, StampedRows
    <3>2. CASE CurMark(r) # "ok"
      BY <2>4, <3>2
    <3> QED  BY <3>1, <3>2
  <2>6. ListInOrder(r)' /\ RowsListed(r)' /\ RanInForce(r)'
    BY <2>1, <2>2, <2>5 DEF ListInOrder, RowsListed, RanInForce
  <2>7. SettledStamped(r)'
    <3> SUFFICES ASSUME NEW k \in DOMAIN list[r], mark[r][k] = "ok", k < i[r] + 1,
                        NEW q \in rows', q.id = list[r][k].id
                 PROVE  q.at >= created
      BY <2>1, <2>3 DEF SettledStamped
    <3>1. PICK x \in rows : /\ q.id = x.id
                            /\ \/ q.at = x.at /\ (CurMark(r) = "ok" => x.id # Cur(r).id)
                               \/ q.at = clock
      BY <2>5
    <3>2. CASE q.at = clock
      BY <3>2 DEF Clocks, TypeOK
    <3>3. CASE q.at = x.at /\ (CurMark(r) = "ok" => x.id # Cur(r).id)
      <4>1. k # i[r]
        BY <3>1, <3>3 DEF CurMark, Cur
      <4>2. k < i[r]
        BY <2>3, <4>1
      <4> QED  BY <2>2, <3>1, <3>3, <4>2 DEF SettledStamped
    <3> QED  BY <3>1, <3>2, <3>3
  <2>8. ReplayOK(r)'
    BY <2>1, <2>2, <2>3, <2>6, <2>7 DEF ReplayOK, Replaying
  <2> QED  BY <1>1, <2>8
<1>10. CASE RunStep(r) \/ ReplayAborts(r)
  BY <1>0, <1>1, <1>10, ReplayRunStep
<1> QED  BY <1>4, <1>5, <1>6, <1>7, <1>8, <1>9, <1>10 DEF RestartStep

\* So does every step: while a restart goes on, no other request does, and its pod
\* stays ready once it is.
LEMMA ReplayInvStep ==
  ASSUME Serial, "db" \notin Faults, TypeOK, Shape, IsFiniteSet(rows), IdsNameOperations,
         OneAtATime, RowsInOrder, Clocks, ReplayInv, [Next]_vars
  PROVE  ReplayInv'
<1>1. ASSUME \A r \in Restarters : pc'[r] = "idle" PROVE ReplayInv'
  BY <1>1 DEF ReplayInv, ReplayOK, Replaying
<1>2. ASSUME NEW j \in Jobs, Configure(j) \/ JobStep(j) PROVE ReplayInv'
  <2>1. (\E c : pc' = [pc EXCEPT ![j] = c]) \/ pc' = pc
    BY <1>2 DEF Configure, JobStep, CheckDuplicate, CheckEnds, RunStep, SaveStep, ConfigureEnds,
                RunScriptAction, RunGuestCommit, ExecError, ExecFails, PassOver, RunEnds, SaveRead,
                SaveDelete, SaveDeleted, SaveReplace, SaveInsert, SaveFails, SavePass, Goto
  <2>2. Quiet \/ pc[j] # "idle"
    BY <1>2 DEF Configure, JobStep, CheckDuplicate, CheckEnds, RunStep, SaveStep, ConfigureEnds,
                RunScriptAction, RunGuestCommit, ExecError, PassOver, RunEnds, SaveRead,
                SaveDelete, SaveDeleted, SaveReplace, SaveInsert, SaveFails, SavePass, MayBegin
  <2>3. \A r \in Restarters : pc'[r] = "idle"
    BY <2>1, <2>2 DEF OneAtATime, Quiet, TypeOK, Procs
  <2> QED  BY <1>1, <2>3
<1>3. CASE Crash
  BY <1>1, <1>3 DEF Crash, Procs
<1>4. CASE ClusterStep \/ UNCHANGED vars
  <2>1. UNCHANGED <<rows, pc, list, mark, i>>
    BY <1>4 DEF ClusterStep, PodGone, PodCreated, PodReady, DaemonsUp, PodLost, vars, work, db
  <2>2. CASE phase = "ready"
    <3>1. CASE UNCHANGED <<phase, live, created>>
      BY <2>1, <3>1 DEF ReplayInv, ReplayOK, ListInOrder, RowsListed, RanInForce, SettledStamped
    <3>2. CASE PodLost
      BY <1>1, <2>1, <3>2 DEF PodLost, Quiet, Procs
    <3> QED  BY <1>4, <2>2, <3>1, <3>2
         DEF ClusterStep, PodGone, PodCreated, PodReady, DaemonsUp, vars
  <2>3. CASE phase # "ready"
    <3>1. \A r \in Restarters : pc[r] \notin {"mtu", "list"} \cup Replaying
      BY <2>3 DEF ReplayInv, ReplayOK
    <3> QED  BY <2>1, <3>1 DEF ReplayInv, ReplayOK, Replaying
  <2> QED  BY <2>2, <2>3
<1> QED  BY <1>2, <1>3, <1>4, ReplayStep DEF Next

\* A restart of serial requests that replayed every operation leaves the pod with
\* every recorded action in force, stamped as applied to it, whatever order rows
\* were set and undone in, and whatever execs fail on the way.
THEOREM ReplayRestoresHistory ==
  ASSUME Serial, "db" \notin Faults
  PROVE  Spec => []ReplayRestores
<1> DEFINE Inv == /\ TypeOK /\ Shape /\ IsFiniteSet(rows) /\ IdsNameOperations
                  /\ OneAtATime /\ RowsInOrder /\ SaveClears /\ Clocks /\ ReplayInv
<1>1. Init => Inv
  <2> SUFFICES ASSUME Init PROVE Inv
    OBVIOUS
  <2>1. TypeOK /\ Shape /\ IsFiniteSet(rows)
    BY TypeInit, FS_EmptySet DEF Init
  <2>2. \A p \in Procs : pc[p] = "idle" /\ DOMAIN list[p] = {}
    BY DEF Init
  <2>3. IdsNameOperations /\ OneAtATime /\ RowsInOrder /\ SaveClears /\ Clocks
    BY <2>2 DEF Init, IdsNameOperations, OneAtATime, RowsInOrder, SaveClears, Procs, Clocks
  <2>4. ReplayInv
    BY <2>2 DEF ReplayInv, ReplayOK, Replaying, Procs
  <2> QED  BY <2>1, <2>3, <2>4
<1>2. Inv /\ [Next]_vars => Inv'
  BY TypeStep, FiniteRows, IdsStep, SerialStep, OrderStep, ClockStep, ReplayInvStep
<1>3. Inv => ReplayRestores
  <2> SUFFICES ASSUME Inv, NEW r \in Restarters, pc[r] = "settle", AtEnd(r),
                      \A k \in DOMAIN list[r] : mark[r][k] = "ok",
                      NEW q \in rows
               PROVE  live[Slot(q.act)] = q.act /\ q.at >= created
    BY DEF ReplayRestores
  <2>1. RowsListed(r) /\ RanInForce(r) /\ SettledStamped(r)
    BY DEF ReplayInv, ReplayOK, Replaying
  <2>2. PICK k \in DOMAIN list[r] : q.id = list[r][k].id
    BY <2>1 DEF RowsListed
  <2>3. q.act = list[r][k].act
    BY <2>2 DEF IdsNameOperations
  <2>4. k < i[r]
    <3>1. r \in Procs /\ k \in 1..Len(list[r]) /\ Len(list[r]) \in Nat /\ i[r] \in Nat
      BY DEF Procs, TypeOK
    <3> QED  BY <3>1 DEF AtEnd
  <2> QED  BY <2>1, <2>2, <2>3, <2>4 DEF RanInForce, SettledStamped
<1> QED  BY <1>1, <1>2, <1>3, PTL DEF Spec

-----------------------------------------------------------------------------
(* What configure skips is in force.                                       *)

\* Rows stamped since the pod was created, and whether a row is in force.
Fresh(q)   == q.at >= created
InForce(q) == live[Slot(q.act)] = q.act
AtNode     == {"run"} \cup SavePoints

\* A job's actions reach the node before the table: what it owes the table is what
\* the node has, and where it owes nothing the fresh rows are in force.
Applied(j) ==
  \A s \in Slots : IF Owed(j, s) THEN live[s] = Owes(j, s)
                   ELSE \A q \in rows : Slot(q.act) = s /\ Fresh(q) => InForce(q)

\* Guest commits are all or nothing: no entry that is still to run shares an exec
\* with one that ran.
CommitsApart(j) == \A k, n \in DOMAIN list[j] :
                     mark[j][k] = "ok" /\ mark[j][n] = "run" => n \notin Group(j, k)

JobOK(j) ==
  /\ pc[j] # "idle" => /\ phase \in {"starting", "ready"}
                       /\ \A k \in DOMAIN list[j] : list[j][k].persist
  /\ pc[j] = "check" => \A k \in DOMAIN list[j] : mark[j][k] # "ok"
  /\ pc[j] = "run" => /\ \A k \in DOMAIN list[j] : mark[j][k] = "ok" => k < i[j] /\ phase = "ready"
                      /\ Guest => CommitsApart(j)
  /\ pc[j] \in AtNode => Applied(j)

\* A restart finds no fresh row on the pod it waits for, until it settles what it ran.
FreshAgain(r) ==
  /\ pc[r] = "wait" => phase \in {"terminating", "gone"} \/ \A q \in rows : ~ Fresh(q)
  /\ pc[r] \in {"mtu", "list", "resolve", "run"} => \A q \in rows : ~ Fresh(q)

\* Fresh rows are in force, unless a job is half way through running and saving.
FreshInForce ==
  /\ (\A j \in Jobs : pc[j] \notin AtNode) => \A q \in rows : Fresh(q) => InForce(q)
  /\ \A j \in Jobs : JobOK(j)
  /\ \A r \in Restarters : FreshAgain(r)

\* The exec of an entry is that of each entry it shares it with.
LEMMA GroupTrans ==
  ASSUME TypeOK, NEW p \in Procs, NEW x \in DOMAIN list[p], NEW k \in Group(p, x),
         NEW n \in Group(p, k)
  PROVE  n \in Group(p, x)
<1>1. DOMAIN list[p] = 1..Len(list[p]) /\ Len(list[p]) \in Nat
  BY DEF TypeOK
<1>2. /\ n \in DOMAIN list[p] /\ k \in DOMAIN list[p] /\ InExec(mark[p][n])
      /\ \A m \in DOMAIN list[p] : (n <= m /\ m <= k) \/ (k <= m /\ m <= n) => ~ Splits(p, m)
      /\ \A m \in DOMAIN list[p] : (k <= m /\ m <= x) \/ (x <= m /\ m <= k) => ~ Splits(p, m)
  BY DEF Group
<1>3. \A m \in DOMAIN list[p] : m \in Nat
  BY <1>1
<1>4. ASSUME NEW m \in DOMAIN list[p], (n <= m /\ m <= x) \/ (x <= m /\ m <= n)
      PROVE  ~ Splits(p, m)
  <2>1. m \in Nat /\ n \in Nat /\ k \in Nat /\ x \in Nat
    BY <1>2, <1>3
  <2>2. (n <= m /\ m <= k) \/ (k <= m /\ m <= n) \/ (k <= m /\ m <= x) \/ (x <= m /\ m <= k)
    BY <1>4, <2>1
  <2> QED  BY <1>2, <2>2
<1> QED  BY <1>2, <1>4 DEF Group

\* A step that marks entries of one exec as run or failed moves no entry to another
\* exec.
LEMMA GroupSame ==
  ASSUME NEW j \in Jobs, UNCHANGED list, NEW k,
         \A m \in DOMAIN list[j] : InExec(mark'[j][m]) <=> InExec(mark[j][m])
  PROVE  Group(j, k)' = Group(j, k)
<1>1. \A m \in DOMAIN list[j] : Splits(j, m)' <=> Splits(j, m)
  BY DEF Splits
<1> QED  BY <1>1 DEF Group

\* Entries that run after everything that ran before have the last word on the
\* slots they touch.
LEMMA JobRuns ==
  ASSUME TypeOK, Shape, NEW j \in Jobs, pc[j] = "run", pc'[j] = "run", UNCHANGED list,
         NEW K \in SUBSET DOMAIN list[j],
         \A k \in DOMAIN list[j] : list[j][k].persist,
         \A k \in DOMAIN list[j] : mark'[j][k] = "ok" <=> k \in K \/ mark[j][k] = "ok",
         \A k \in DOMAIN list[j] : mark[j][k] = "ok" /\ k \notin K => \A n \in K : k < n,
         live' = After(live, j, K), NEW s \in Slots,
         Owed(j, s) => live[s] = Owes(j, s)
  PROVE  /\ Owed(j, s)' => live'[s] = Owes(j, s)'
         /\ ~ Owed(j, s)' => ~ Owed(j, s) /\ live'[s] = live[s]
<1> DEFINE hits == {k \in K : Touches(list[j][k].act, s)}
<1>0. j \in Procs /\ DOMAIN list[j] = 1..Len(list[j]) /\ Len(list[j]) \in Nat
  BY DEF Procs, TypeOK
<1>1. \A k \in DOMAIN list[j] : k \in Nat /\ k >= 1
  BY <1>0
<1>2. Ahead(j) = 1 /\ Ahead(j)' = 1 /\ ~ Midway(j, s) /\ ~ Midway(j, s)'
  BY DEF Ahead, Midway
<1>3. Pending(j, s) = {k \in DOMAIN list[j] : mark[j][k] = "ok" /\ Touches(list[j][k].act, s)}
  BY <1>1, <1>2 DEF Pending
<1>4. Pending(j, s)' = {k \in DOMAIN list[j] : mark'[j][k] = "ok" /\ Touches(list[j][k].act, s)}
  BY <1>1, <1>2 DEF Pending
<1>5. Pending(j, s)' = Pending(j, s) \cup hits
  BY <1>3, <1>4
<1>6. live'[s] = IF hits = {} THEN live[s] ELSE Leaves(list[j][Max(hits)].act, s)
  BY DEF After
<1>7. CASE hits = {}
  <2>1. Pending(j, s)' = Pending(j, s)
    BY <1>5, <1>7
  <2> HIDE DEF hits
  <2> QED  BY <1>2, <1>6, <1>7, <2>1 DEF Owed, Owes
<1>8. CASE hits # {}
  <2>1. hits \in SUBSET DOMAIN list[j] /\ Pending(j, s)' \in SUBSET DOMAIN list[j]
    BY <1>4
  <2> DEFINE m == Max(hits)
  <2>2. m \in hits /\ \A y \in hits : y <= m
    <3> HIDE DEF hits
    <3> QED  BY <1>0, <1>8, <2>1, LastOf
  <2>3. \A y \in Pending(j, s)' : y <= m
    <3> SUFFICES ASSUME NEW y \in Pending(j, s)' PROVE y <= m
      OBVIOUS
    <3> HIDE DEF m
    <3>1. CASE y \in hits
      BY <2>2, <3>1
    <3>2. CASE y \notin hits
      <4>1. y \in DOMAIN list[j] /\ mark[j][y] = "ok" /\ Touches(list[j][y].act, s)
        BY <1>3, <1>5, <3>2
      <4>2. y < m
        BY <2>2, <3>2, <4>1
      <4> QED  BY <1>1, <2>1, <2>2, <4>1, <4>2
    <3> QED  BY <3>1, <3>2
  <2>4. m \in Pending(j, s)'
    BY <1>5, <2>2
  <2>5. Max(Pending(j, s)') = m
    <3> HIDE DEF m, hits
    <3> QED  BY <1>0, <2>1, <2>3, <2>4, LastOf
  <2>6. Owed(j, s)' /\ Owes(j, s)' = Leaves(list[j][m].act, s)
    <3> HIDE DEF m
    <3> QED  BY <2>4, <2>5 DEF Owed, Owes
  <2> HIDE DEF hits
  <2> QED  BY <1>6, <1>8, <2>6
<1> QED  BY <1>7, <1>8

\* Running a job's entries applies what the job owes the table.
LEMMA JobRunStep ==
  ASSUME "timeout" \notin Faults, TypeOK, Shape, NEW j \in Jobs, JobOK(j), RunStep(j)
  PROVE  JobOK(j)'
<1> DEFINE G == Group(j, i[j])
<1>0. /\ j \in Procs /\ pc[j] = "run" /\ UNCHANGED <<rows, list, phase, created>>
  BY DEF RunStep, RunScriptAction, RunGuestCommit, ExecError, PassOver, RunEnds, Procs, db, pod
<1>1. /\ phase \in {"starting", "ready"}
      /\ \A k \in DOMAIN list[j] : list[j][k].persist
      /\ \A k \in DOMAIN list[j] : mark[j][k] = "ok" => k < i[j] /\ phase = "ready"
      /\ Guest => CommitsApart(j)
      /\ Applied(j)
  BY <1>0 DEF JobOK, AtNode
<1>2. /\ DOMAIN list[j] = 1..Len(list[j]) /\ Len(list[j]) \in Nat /\ i[j] \in Nat
      /\ DOMAIN mark[j] = DOMAIN list[j]
      /\ \A k \in DOMAIN list[j] : k \in Nat /\ k >= 1
  BY <1>0 DEF TypeOK, Shape
<1>3. ASSUME live' = live, \A k \in DOMAIN list[j] : mark'[j][k] = "ok" <=> mark[j][k] = "ok",
             pc'[j] = "run" \/ (pc'[j] = "save" /\ i'[j] = 1)
      PROVE  Applied(j)'
  <2>1. Ahead(j) = 1 /\ Ahead(j)' = 1
    BY <1>0, <1>3 DEF Ahead
  <2>2. ASSUME NEW s PROVE /\ Pending(j, s)' = Pending(j, s)
                           /\ ~ Midway(j, s) /\ ~ Midway(j, s)'
    BY <1>0, <1>3, <2>1 DEF Pending, Midway
  <2>3. \A s : /\ Owed(j, s)' <=> Owed(j, s)
               /\ Owed(j, s) => Owes(j, s)' = Owes(j, s)
    BY <1>0, <2>2 DEF Owed, Owes
  <2> QED  BY <1>0, <1>1, <1>3, <2>3 DEF Applied, Fresh, InForce
<1>4. ASSUME NEW n \in Nat, Goto(j, "run", n),
             \A k \in DOMAIN list[j] : mark'[j][k] = "ok" => k < n /\ phase = "ready",
             Guest => CommitsApart(j)', Applied(j)'
      PROVE  JobOK(j)'
  <2>1. pc'[j] = "run" /\ i'[j] = n
    BY <1>0, <1>4 DEF Goto, TypeOK
  <2> QED  BY <1>0, <1>1, <1>4, <2>1 DEF JobOK
<1>5. ASSUME NEW K \in SUBSET DOMAIN list[j], pc'[j] = "run", live' = After(live, j, K),
             \A k \in DOMAIN list[j] : mark'[j][k] = "ok" <=> k \in K \/ mark[j][k] = "ok",
             \A k \in DOMAIN list[j] : mark[j][k] = "ok" /\ k \notin K => \A n \in K : k < n
      PROVE  Applied(j)'
  <2>1. ASSUME NEW s \in Slots
        PROVE  /\ Owed(j, s)' => live'[s] = Owes(j, s)'
               /\ ~ Owed(j, s)' => ~ Owed(j, s) /\ live'[s] = live[s]
    <3>1. Owed(j, s) => live[s] = Owes(j, s)
      BY <1>1 DEF Applied
    <3> QED  BY <1>0, <1>1, <1>5, <3>1, JobRuns
  <2> QED  BY <1>0, <1>1, <2>1 DEF Applied, Fresh, InForce
<1>6. ASSUME ~ AtEnd(j), CurMark(j) = "run"
      PROVE  /\ i[j] \in DOMAIN list[j] /\ mark[j][i[j]] = "run"
             /\ G \in SUBSET DOMAIN list[j] /\ i[j] \in G /\ Max(G) \in Nat
             /\ \A k \in G : k <= Max(G)
             /\ \A k \in DOMAIN list[j] : mark[j][k] = "ok" /\ k \notin G => \A n \in G : k < n
  <2>0. i[j] \in DOMAIN list[j] /\ mark[j][i[j]] = "run"
    BY <1>0, <1>2, <1>6 DEF AtEnd, CurMark, Shape
  <2>1. G \in SUBSET DOMAIN list[j] /\ i[j] \in G
    BY <1>0, <2>0, GroupEnds
  <2>2. Max(G) \in G /\ \A k \in G : k <= Max(G)
    <3> HIDE DEF G
    <3> QED  BY <1>0, <2>1, LastOf
  <2>3. ASSUME NEW k \in DOMAIN list[j], mark[j][k] = "ok", k \notin G PROVE \A n \in G : k < n
    BY <1>0, <1>1, <2>0, <2>3, GroupBefore
  <2> HIDE DEF G
  <2> QED  BY <1>2, <2>0, <2>1, <2>2, <2>3
<1>7. ASSUME ~ AtEnd(j), CurMark(j) = "run", ExecFails(j), live' = live,
             \A k \in DOMAIN list[j] : mark[j][k] = "ok" => k \notin G
      PROVE  JobOK(j)'
  <2>0. i[j] \in DOMAIN list[j]
    BY <1>6, <1>7
  <2>1. tries[j][i[j]] \in Nat
    <3>1. tries[j] \in Seq(Nat) /\ i[j] \in DOMAIN tries[j]
      BY <1>0, <2>0 DEF TypeOK, Shape
    <3> QED  BY <3>1, ElementOfSeq
  <2>2. ~ (tries[j][i[j]] + 1 < Attempts(j))
    BY <2>1 DEF Attempts
  <2>3. /\ Goto(j, "run", Max(G) + 1)
        /\ mark' = [mark EXCEPT ![j] = [k \in DOMAIN list[j] |->
                       IF k \notin G THEN mark[j][k] ELSE "fail"]]
    BY <1>7, <2>2 DEF ExecFails
  <2>4. \A k \in DOMAIN list[j] : mark'[j][k] = IF k \notin G THEN mark[j][k] ELSE "fail"
    BY <1>0, <2>3 DEF TypeOK
  <2>5. \A k \in DOMAIN list[j] : mark'[j][k] = "ok" <=> mark[j][k] = "ok"
    BY <1>7, <2>4
  <2>6. pc'[j] = "run"
    BY <1>0, <2>3 DEF Goto, TypeOK
  <2>7. Applied(j)'
    BY <1>3, <1>7, <2>5, <2>6
  <2>8. Guest => CommitsApart(j)'
    <3>1. \A m \in DOMAIN list[j] : InExec(mark'[j][m]) <=> InExec(mark[j][m])
      BY <2>4 DEF InExec, Group
    <3>2. \A k : Group(j, k)' = Group(j, k)
      BY <1>0, <3>1, GroupSame
    <3>3. \A k \in DOMAIN list[j] : mark'[j][k] = "run" => mark[j][k] = "run"
      BY <2>4
    <3> QED  BY <1>0, <1>1, <2>5, <3>2, <3>3 DEF CommitsApart
  <2> HIDE DEF G
  <2>9. Max(G) + 1 \in Nat
    BY <1>6, <1>7
  <2>10. \A k \in DOMAIN list[j] : mark'[j][k] = "ok" => k < Max(G) + 1 /\ phase = "ready"
    <3> SUFFICES ASSUME NEW k \in DOMAIN list[j], mark'[j][k] = "ok"
                 PROVE  k < Max(G) + 1 /\ phase = "ready"
      OBVIOUS
    <3>1. k < i[j] /\ phase = "ready" /\ i[j] <= Max(G)
      BY <1>1, <1>6, <1>7, <2>5
    <3>2. k \in Nat /\ i[j] \in Nat /\ Max(G) \in Nat
      BY <1>2, <1>6, <1>7
    <3> QED  BY <3>1, <3>2
  <2> QED  BY <1>4, <2>3, <2>7, <2>8, <2>9, <2>10
<1>8. CASE RunScriptAction(j)
  <2>0. ~ AtEnd(j) /\ CurMark(j) = "run" /\ phase = "ready" /\ ~ Guest
    BY <1>1, <1>8 DEF RunScriptAction, Execable
  <2>1. i[j] \in DOMAIN list[j] /\ mark[j][i[j]] = "run"
    BY <1>6, <2>0
  <2> DEFINE ok == Accepts(Cur(j).act, live)
  <2>2. /\ Goto(j, "run", i[j] + 1)
        /\ mark' = [mark EXCEPT ![j][i[j]] = IF ok THEN "ok" ELSE "fail"]
        /\ live' = IF ok THEN After(live, j, {i[j]}) ELSE live
    BY <1>8 DEF RunScriptAction
  <2> HIDE DEF ok
  <2>3. /\ pc'[j] = "run"
        /\ \A k \in DOMAIN list[j] :
             mark'[j][k] = IF k = i[j] THEN (IF ok THEN "ok" ELSE "fail") ELSE mark[j][k]
    BY <1>0, <1>2, <2>1, <2>2 DEF Goto, TypeOK
  <2>4. \A k \in DOMAIN list[j] : mark'[j][k] = "ok" => k < i[j] + 1 /\ phase = "ready"
    BY <1>1, <1>2, <2>0, <2>3
  <2>5. Applied(j)'
    <3>1. CASE ok
      <4>1. \A k \in DOMAIN list[j] : mark'[j][k] = "ok" <=> k \in {i[j]} \/ mark[j][k] = "ok"
        BY <2>3, <3>1
      <4>2. \A k \in DOMAIN list[j] : mark[j][k] = "ok" /\ k \notin {i[j]} => \A n \in {i[j]} : k < n
        BY <1>1
      <4>3. {i[j]} \in SUBSET DOMAIN list[j] /\ live' = After(live, j, {i[j]})
        BY <2>1, <2>2, <3>1
      <4> QED  BY <1>5, <2>3, <4>1, <4>2, <4>3
    <3>2. CASE ~ ok
      BY <1>3, <2>1, <2>2, <2>3, <3>2
    <3> QED  BY <3>1, <3>2
  <2> QED  BY <1>2, <1>4, <2>0, <2>2, <2>4, <2>5
<1>9. CASE RunGuestCommit(j)
  <2>0. ~ AtEnd(j) /\ CurMark(j) = "run" /\ phase = "ready" /\ Guest /\ CommitsApart(j)
    BY <1>1, <1>9 DEF RunGuestCommit, Execable
  <2>1. CASE ExecFails(j) /\ live' = live
    <3>1. ASSUME NEW k \in DOMAIN list[j], mark[j][k] = "ok", k \in G PROVE FALSE
      <4>1. i[j] \in DOMAIN list[j] /\ mark[j][i[j]] = "run"
        BY <1>6, <2>0
      <4>2. i[j] \in Group(j, k)
        BY <3>1, <4>1 DEF Group, InExec
      <4> QED  BY <2>0, <3>1, <4>1, <4>2 DEF CommitsApart
    <3> HIDE DEF G
    <3> QED  BY <1>7, <2>0, <2>1, <3>1
  <2>2. CASE /\ mark' = [mark EXCEPT ![j] = [k \in DOMAIN list[j] |->
                            IF k \in G THEN "ok" ELSE mark[j][k]]]
             /\ live' = After(live, j, G)
             /\ Goto(j, "run", Max(G) + 1)
    <3>1. /\ \A k \in DOMAIN list[j] : mark'[j][k] = IF k \in G THEN "ok" ELSE mark[j][k]
          /\ pc'[j] = "run"
      BY <1>0, <2>2 DEF Goto, TypeOK
    <3>2. Guest => CommitsApart(j)'
      <4>1. \A m \in DOMAIN list[j] : InExec(mark'[j][m]) <=> InExec(mark[j][m])
        BY <3>1 DEF InExec, Group
      <4>2. \A k : Group(j, k)' = Group(j, k)
        BY <1>0, <4>1, GroupSame
      <4>3. ASSUME NEW k \in DOMAIN list[j], NEW n \in DOMAIN list[j],
                   mark'[j][k] = "ok", mark'[j][n] = "run", n \in Group(j, k)
            PROVE  FALSE
        <5>1. n \notin G /\ mark[j][n] = "run"
          BY <3>1, <4>3
        <5>2. k \notin G
          BY <1>0, <1>6, <2>0, <4>3, <5>1, GroupTrans
        <5> QED  BY <2>0, <3>1, <4>3, <5>1, <5>2 DEF CommitsApart
      <4> QED  BY <1>0, <4>2, <4>3 DEF CommitsApart
    <3> HIDE DEF G
    <3>3. Max(G) + 1 \in Nat
      BY <1>6, <2>0
    <3>4. \A k \in DOMAIN list[j] : mark'[j][k] = "ok" => k < Max(G) + 1 /\ phase = "ready"
      <4> SUFFICES ASSUME NEW k \in DOMAIN list[j], mark'[j][k] = "ok" PROVE k < Max(G) + 1
        BY <2>0
      <4>1. k \in Nat /\ Max(G) \in Nat /\ i[j] \in Nat /\ i[j] <= Max(G)
        BY <1>2, <1>6, <2>0
      <4>2. k <= Max(G) \/ k < i[j]
        BY <1>1, <1>6, <2>0, <3>1
      <4> QED  BY <4>1, <4>2
    <3>5. \A k \in DOMAIN list[j] : mark'[j][k] = "ok" <=> k \in G \/ mark[j][k] = "ok"
      BY <3>1
    <3>6. Applied(j)'
      BY <1>5, <1>6, <2>0, <2>2, <3>1, <3>5
    <3> QED  BY <1>4, <2>2, <3>2, <3>3, <3>4, <3>6
  <2> QED  BY <1>9, <2>1, <2>2 DEF RunGuestCommit
<1>10. CASE ExecError(j)
  <2>1. ~ AtEnd(j) /\ CurMark(j) = "run" /\ ExecFails(j) /\ live' = live /\ phase # "ready"
    BY <1>10 DEF ExecError, Execable
  <2>2. \A k \in DOMAIN list[j] : mark[j][k] = "ok" => k \notin G
    BY <1>1, <2>1
  <2> HIDE DEF G
  <2> QED  BY <1>7, <2>1, <2>2
<1>11. CASE PassOver(j)
  <2>1. Goto(j, "run", i[j] + 1) /\ UNCHANGED <<mark, live>> /\ i[j] + 1 \in Nat
    BY <1>2, <1>11 DEF PassOver, pod
  <2>2. pc'[j] = "run"
    BY <1>0, <2>1 DEF Goto, TypeOK
  <2>3. Applied(j)'
    BY <1>3, <2>1, <2>2
  <2>4. CommitsApart(j)' <=> CommitsApart(j)
    <3>1. \A k : Group(j, k)' = Group(j, k)
      BY <1>0, <2>1, GroupSame
    <3> QED  BY <1>0, <2>1, <3>1 DEF CommitsApart
  <2>5. \A k \in DOMAIN list[j] : mark'[j][k] = "ok" => k < i[j] + 1 /\ phase = "ready"
    BY <1>1, <1>2, <2>1
  <2> QED  BY <1>1, <1>4, <2>1, <2>3, <2>4, <2>5
<1>12. CASE RunEnds(j)
  <2>1. /\ pc' = [pc EXCEPT ![j] = "save"] /\ i' = [i EXCEPT ![j] = 1] /\ UNCHANGED <<mark, live>>
    BY <1>12 DEF RunEnds, Goto, pod
  <2>2. pc'[j] = "save" /\ i'[j] = 1
    BY <1>0, <2>1 DEF TypeOK, Shape
  <2>3. Applied(j)'
    BY <1>3, <2>1, <2>2
  <2> QED  BY <1>0, <1>1, <2>2, <2>3 DEF JobOK
<1> QED  BY <1>8, <1>9, <1>10, <1>11, <1>12 DEF RunStep

\* Writing down what a job applied keeps it applied.
LEMMA JobSaveStep ==
  ASSUME Serial, TypeOK, Shape, OneAtATime, IdsNameOperations, SaveClears,
         NEW j \in Jobs, JobOK(j), SaveStep(j), ~ SaveFails(j)
  PROVE  JobOK(j)' /\ pc'[j] \in SavePoints
<1>0. j \in Procs /\ pc[j] \in SavePoints
  BY DEF SaveStep, SaveRead, SaveDelete, SaveDeleted, SaveReplace, SaveInsert, SaveFails,
         SavePass, Procs, SavePoints
<1>1. \E c \in SavePoints : pc' = [pc EXCEPT ![j] = c]
  BY <1>0, SMTT(30) DEF SaveStep, SaveRead, SaveDelete, SaveDeleted, SaveReplace, SaveInsert,
         SaveFails,
         SavePass, Goto, SavePoints, TypeOK
<1>2. pc'[j] \in SavePoints
  BY <1>0, <1>1 DEF TypeOK
<1>3. UNCHANGED <<list, live, phase, created>>
  BY DEF SaveStep, SaveRead, SaveDelete, SaveDeleted, SaveReplace, SaveInsert, SaveFails, SavePass, pod
<1>4. Applied(j) /\ phase \in {"starting", "ready"} /\ \A k \in DOMAIN list[j] : list[j][k].persist
  BY <1>0 DEF JobOK, AtNode, SavePoints
<1>5. ASSUME NEW s \in Slots
      PROVE  IF Owed(j, s)' THEN live[s] = Owes(j, s)'
             ELSE \A q \in rows' : Slot(q.act) = s /\ q.at >= created => live[s] = q.act
  <2>1. CASE Owed(j, s)'
    BY <1>4, <2>1, OwedStep DEF Applied
  <2>2. CASE ~ Owed(j, s) /\ ~ Owed(j, s)'
    <3>1. {q \in rows' : Slot(q.act) = s} = {q \in rows : Slot(q.act) = s}
      BY <2>2, OwedStep
    <3>2. \A q \in rows : Slot(q.act) = s /\ q.at >= created => live[s] = q.act
      BY <1>4, <2>2 DEF Applied, Fresh, InForce
    <3> QED  BY <2>2, <3>1, <3>2
  <2>3. CASE Owed(j, s) /\ ~ Owed(j, s)'
    <3>1. /\ live[s] = Leaves(Cur(j).act, s)
          /\ {q \in rows : Slot(q.act) = s} = {}
          /\ \/ SaveInsert(j) /\ Kept(Cur(j).act)
             \/ rows' = rows /\ ~ Kept(Cur(j).act)
      BY <1>4, <2>3, OwedStep DEF Applied
    <3>2. CASE rows' = rows
      BY <2>3, <3>1, <3>2
    <3>3. CASE SaveInsert(j) /\ Kept(Cur(j).act)
      <4>1. \A q \in rows' : Slot(q.act) = s => q.act = Cur(j).act /\ s = Slot(Cur(j).act)
        BY <3>1, <3>3, InsertedRow
      <4>2. s = Slot(Cur(j).act) => live[s] = Cur(j).act
        BY <3>1, <3>3 DEF Leaves
      <4> QED  BY <2>3, <4>1, <4>2
    <3> QED  BY <3>1, <3>2, <3>3
  <2> QED  BY <2>1, <2>2, <2>3
<1>6. Applied(j)'
  BY <1>3, <1>5 DEF Applied, Fresh, InForce
<1> QED  BY <1>2, <1>3, <1>4, <1>6 DEF JobOK, SavePoints

\* The steps of a job.
LEMMA FreshJobStep ==
  ASSUME Serial, {"db", "timeout"} \cap Faults = {},
         \A q \in Requests : \A k \in DOMAIN q : q[k].persist,
         TypeOK, Shape, OneAtATime, IdsNameOperations, SaveClears, FreshInForce,
         NEW j \in Jobs, Configure(j) \/ JobStep(j)
  PROVE  FreshInForce'
<1>0. j \in Procs /\ JobOK(j)
  BY DEF Procs, FreshInForce
<1>1. \A x \in Procs : x # j => pc[x] = "idle" /\ pc'[x] = "idle"
  <2>1. (\E c : pc' = [pc EXCEPT ![j] = c]) \/ pc' = pc
    BY DEF Configure, JobStep, CheckDuplicate, CheckEnds, RunStep, SaveStep, ConfigureEnds,
           RunScriptAction, RunGuestCommit, ExecError, ExecFails, PassOver, RunEnds, SaveRead,
           SaveDelete, SaveDeleted, SaveReplace, SaveInsert, SaveFails, SavePass, Goto
  <2>2. Quiet \/ pc[j] # "idle"
    BY DEF Configure, JobStep, CheckDuplicate, CheckEnds, RunStep, SaveStep, ConfigureEnds,
           RunScriptAction, RunGuestCommit, ExecError, PassOver, RunEnds, SaveRead,
           SaveDelete, SaveDeleted, SaveReplace, SaveInsert, SaveFails, SavePass, MayBegin
  <2> QED  BY <1>0, <2>1, <2>2 DEF OneAtATime, Quiet, TypeOK
<1>2. ASSUME JobOK(j)', pc'[j] \in AtNode \/ \A q \in rows' : Fresh(q)' => InForce(q)'
      PROVE  FreshInForce'
  <2>1. ASSUME NEW x \in Jobs PROVE JobOK(x)'
    BY <1>1, <1>2 DEF JobOK, Procs, AtNode, SavePoints
  <2>2. ASSUME NEW r \in Restarters PROVE FreshAgain(r)'
    <3>1. pc'[r] = "idle"
      BY <1>1 DEF Procs
    <3> QED  BY <3>1 DEF FreshAgain
  <2> QED  BY <1>2, <2>1, <2>2 DEF FreshInForce
<1>3. ASSUME pc[j] \notin AtNode, UNCHANGED <<rows, live, created>>
      PROVE  /\ \A q \in rows : Fresh(q) => InForce(q)
             /\ \A q \in rows' : Fresh(q)' => InForce(q)'
  <2>1. \A x \in Jobs : pc[x] \notin AtNode
    BY <1>1, <1>3 DEF Procs, AtNode, SavePoints
  <2>2. \A q \in rows : Fresh(q) => InForce(q)
    BY <2>1 DEF FreshInForce
  <2> QED  BY <1>3, <2>2 DEF Fresh, InForce
<1>4. CASE Configure(j)
  <2>1. PICK r \in Requests :
               /\ list' = [list EXCEPT ![j] = r]
               /\ mark' = [mark EXCEPT ![j] = [k \in DOMAIN r |->
                     IF fit[r[k].act] = "unplanned" THEN "bad" ELSE "todo"]]
    BY <1>4 DEF Configure
  <2>2. /\ pc[j] = "idle" /\ pc' = [pc EXCEPT ![j] = "check"] /\ UNCHANGED <<rows, live, created, phase>>
        /\ phase \in {"starting", "ready"}
    BY <1>4 DEF Configure, MayBegin, Goto, db, pod, TypeOK
  <2>3. list'[j] = r /\ \A k \in DOMAIN r : mark'[j][k] # "ok"
    BY <1>0, <2>1 DEF TypeOK
  <2>4. pc'[j] = "check"
    BY <1>0, <2>2 DEF TypeOK
  <2>5. JobOK(j)'
    BY <2>1, <2>2, <2>3, <2>4 DEF JobOK, AtNode, SavePoints
  <2> QED  BY <1>2, <1>3, <2>2, <2>5 DEF AtNode, SavePoints
<1>5. CASE CheckDuplicate(j)
  <2>1. /\ pc[j] = "check" /\ pc' = [pc EXCEPT ![j] = "check"]
        /\ UNCHANGED <<rows, live, created, phase, list>>
        /\ \E m \in {"bad", "skip", "run"} : mark' = [mark EXCEPT ![j][i[j]] = m]
    BY <1>5 DEF CheckDuplicate, Goto, db, pod
  <2>2. pc'[j] = "check"
    BY <1>0, <2>1 DEF TypeOK
  <2>3. \A k \in DOMAIN list[j] : mark[j][k] # "ok" /\ list[j][k].persist
    BY <1>0, <2>1 DEF JobOK
  <2>4. \A k \in DOMAIN list[j] : mark'[j][k] # "ok"
    BY <1>0, <2>1, <2>3 DEF TypeOK, Shape
  <2>5. JobOK(j)'
    BY <1>0, <2>1, <2>2, <2>3, <2>4 DEF JobOK, AtNode, SavePoints
  <2> QED  BY <1>2, <1>3, <2>1, <2>5 DEF AtNode, SavePoints
<1>6. CASE CheckEnds(j)
  <2>1. /\ pc[j] = "check" /\ pc' = [pc EXCEPT ![j] = "run"] /\ i' = [i EXCEPT ![j] = 1]
        /\ UNCHANGED <<rows, live, created, phase, list, mark>>
    BY <1>6 DEF CheckEnds, Goto, db, pod
  <2>2. pc'[j] = "run"
    BY <1>0, <2>1 DEF TypeOK
  <2>3. \A k \in DOMAIN list[j] : mark[j][k] # "ok" /\ list[j][k].persist
    BY <1>0, <2>1 DEF JobOK
  <2>4. \A s : ~ Owed(j, s)'
    BY <2>1, <2>2, <2>3 DEF Owed, Pending, Midway
  <2>5. \A q \in rows' : Fresh(q)' => InForce(q)'
    BY <1>3, <2>1 DEF AtNode, SavePoints
  <2>6. Applied(j)'
    BY <2>4, <2>5 DEF Applied
  <2>7. CommitsApart(j)'
    BY <2>1, <2>3 DEF CommitsApart
  <2>8. JobOK(j)'
    BY <1>0, <2>1, <2>2, <2>3, <2>6, <2>7 DEF JobOK
  <2> QED  BY <1>2, <2>5, <2>8
<1>7. CASE RunStep(j)
  <2>1. JobOK(j)'
    BY <1>0, <1>7, JobRunStep
  <2>2. \E c \in {"run", "save"} : pc' = [pc EXCEPT ![j] = c]
    BY <1>7 DEF RunStep, RunScriptAction, RunGuestCommit, ExecError, ExecFails, PassOver, RunEnds, Goto
  <2>3. pc'[j] \in AtNode
    BY <1>0, <2>2 DEF TypeOK, AtNode, SavePoints
  <2> QED  BY <1>2, <2>1, <2>3
<1>8. CASE SaveStep(j)
  <2>1. ~ SaveFails(j)
    BY DEF SaveFails
  <2> QED  BY <1>0, <1>2, <1>8, <2>1, JobSaveStep DEF AtNode
<1>9. CASE ConfigureEnds(j)
  <2>1. /\ pc[j] = "save" /\ AtEnd(j) /\ pc' = [pc EXCEPT ![j] = "idle"]
        /\ UNCHANGED <<rows, live, created>>
    BY <1>9 DEF ConfigureEnds, Goto, db, pod
  <2>2. \A s : Pending(j, s) = {} /\ ~ Midway(j, s)
    <3>1. i[j] \in Nat /\ DOMAIN list[j] = 1..Len(list[j]) /\ Len(list[j]) \in Nat
      BY <1>0 DEF TypeOK
    <3> QED  BY <2>1, <3>1 DEF Pending, Ahead, AtEnd, Midway
  <2>3. Applied(j)
    BY <1>0, <2>1 DEF JobOK, AtNode, SavePoints
  <2>4. \A q \in rows : Fresh(q) => InForce(q)
    <3> SUFFICES ASSUME NEW q \in rows, Fresh(q) PROVE InForce(q)
      OBVIOUS
    <3>1. Slot(q.act) \in Slots
      BY DEF TypeOK, RowType, Slots
    <3> QED  BY <2>2, <2>3, <3>1 DEF Applied, Owed
  <2>5. pc'[j] = "idle"
    BY <1>0, <2>1 DEF TypeOK
  <2>6. JobOK(j)'
    BY <2>5 DEF JobOK, AtNode, SavePoints
  <2>7. \A q \in rows' : Fresh(q)' => InForce(q)'
    BY <2>1, <2>4 DEF Fresh, InForce
  <2> QED  BY <1>2, <2>6, <2>7
<1> QED  BY <1>4, <1>5, <1>6, <1>7, <1>8, <1>9 DEF JobStep

\* The steps of a restart.
LEMMA FreshRestartStep ==
  ASSUME Serial, "db" \notin Faults,
         TypeOK, Shape, OneAtATime, IdsNameOperations, ReplayInv, FreshInForce,
         NEW r \in Restarters, RestartPod(r) \/ RestartStep(r)
  PROVE  FreshInForce'
<1>0. r \in Procs /\ FreshAgain(r) /\ ReplayOK(r)
  BY DEF Procs, FreshInForce, ReplayInv
<1>1. \A x \in Procs : x # r => pc[x] = "idle" /\ pc'[x] = "idle"
  <2>1. \E c : pc' = [pc EXCEPT ![r] = c]
    BY DEF RestartPod, RestartStep, WaitReady, ApplyPlatformMTU, ReplayList, ReplayResolve,
           ReplayResolved, RunStep, ReplayAborts, ReplaySettle, ReplayFails, RestartEnds,
           RunScriptAction, RunGuestCommit, ExecError, ExecFails, PassOver, RunEnds, Goto
  <2>2. pc[r] # "idle" \/ Quiet
    BY DEF RestartPod, RestartStep, WaitReady, ApplyPlatformMTU, ReplayList, ReplayResolve,
           ReplayResolved, RunStep, ReplayAborts, ReplaySettle, ReplayFails, RestartEnds,
           RunScriptAction, RunGuestCommit, ExecError, PassOver, RunEnds, MayBegin
  <2> QED  BY <1>0, <2>1, <2>2 DEF OneAtATime, Quiet, TypeOK
<1>2. \A q \in rows : Fresh(q) => InForce(q)
  <2>1. \A x \in Jobs : pc[x] \notin AtNode
    BY <1>1 DEF Procs, AtNode, SavePoints
  <2> QED  BY <2>1 DEF FreshInForce
<1>3. ASSUME FreshAgain(r)', \A q \in rows' : Fresh(q)' => InForce(q)' PROVE FreshInForce'
  <2>1. ASSUME NEW x \in Jobs PROVE JobOK(x)'
    <3>1. pc'[x] = "idle"
      BY <1>1 DEF Procs
    <3> QED  BY <3>1 DEF JobOK, AtNode, SavePoints
  <2>2. ASSUME NEW x \in Restarters PROVE FreshAgain(x)'
    <3>1. x = r \/ pc'[x] = "idle"
      BY <1>1 DEF Procs
    <3> QED  BY <1>3, <3>1 DEF FreshAgain
  <2> QED  BY <1>3, <2>1, <2>2 DEF FreshInForce
<1>4. ASSUME UNCHANGED <<rows, live, created>> PROVE \A q \in rows' : Fresh(q)' => InForce(q)'
  BY <1>2, <1>4 DEF Fresh, InForce
<1>5. ASSUME pc' = [pc EXCEPT ![r] = "idle"], UNCHANGED <<rows, live, created>> PROVE FreshInForce'
  <2>1. FreshAgain(r)'
    <3>1. pc'[r] = "idle"
      BY <1>0, <1>5 DEF TypeOK
    <3> QED  BY <3>1 DEF FreshAgain
  <2> QED  BY <1>3, <1>4, <1>5, <2>1
<1>6. ASSUME rows' \subseteq rows, created' = created, \A q \in rows : ~ Fresh(q) PROVE FreshInForce'
  <2>1. \A q \in rows' : ~ Fresh(q)'
    BY <1>6 DEF Fresh
  <2>2. FreshAgain(r)'
    BY <2>1 DEF FreshAgain
  <2> QED  BY <1>3, <2>1, <2>2
<1>7. CASE RestartPod(r)
  <2>1. pc' = [pc EXCEPT ![r] = "wait"] /\ phase' = "terminating" /\ UNCHANGED <<rows, live, created>>
    BY <1>7 DEF RestartPod, Goto, db
  <2>2. pc'[r] = "wait"
    BY <1>0, <2>1 DEF TypeOK
  <2>3. FreshAgain(r)'
    BY <2>1, <2>2 DEF FreshAgain
  <2> QED  BY <1>3, <1>4, <2>1, <2>3
<1>8. CASE WaitReady(r)
  <2>1. pc[r] = "wait" /\ UNCHANGED <<rows, live, created>>
    BY <1>8 DEF WaitReady, db, pod
  <2>2. CASE phase = "ready"
    <3>1. \A q \in rows : ~ Fresh(q)
      BY <1>0, <2>1, <2>2 DEF FreshAgain
    <3> QED  BY <1>6, <2>1, <3>1
  <2>3. CASE phase # "ready"
    <3>1. pc' = [pc EXCEPT ![r] = "idle"]
      BY <1>8, <2>3 DEF WaitReady, Goto
    <3> QED  BY <1>5, <2>1, <3>1
  <2> QED  BY <2>2, <2>3
<1>9. CASE \/ ApplyPlatformMTU(r) \/ ReplayList(r) \/ ReplayResolve(r) \/ ReplayResolved(r)
           \/ ReplayAborts(r) \/ RunStep(r)
  <2>1. /\ rows' \subseteq rows /\ created' = created
        /\ pc[r] \in {"mtu", "list", "resolve", "run"}
    BY <1>9 DEF ApplyPlatformMTU, ReplayList, ReplayResolve, ReplayResolved, ReplayAborts, RunStep,
                RunScriptAction, RunGuestCommit, ExecError, PassOver, RunEnds, db, pod
  <2>2. \A q \in rows : ~ Fresh(q)
    BY <1>0, <2>1 DEF FreshAgain
  <2> QED  BY <1>6, <2>1, <2>2
<1>10. CASE ReplayFails(r) \/ RestartEnds(r)
  <2>1. pc' = [pc EXCEPT ![r] = "idle"] /\ UNCHANGED <<rows, live, created>>
    BY <1>10 DEF ReplayFails, RestartEnds, Goto, db, pod
  <2> QED  BY <1>5, <2>1
<1>11. CASE ReplaySettle(r)
  <2>1. /\ pc[r] = "settle" /\ ~ AtEnd(r) /\ UNCHANGED <<live, created>>
        /\ pc' = [pc EXCEPT ![r] = "settle"]
    BY <1>11 DEF ReplaySettle, Goto, pod
  <2>2. pc'[r] = "settle" /\ i[r] \in DOMAIN list[r]
    <3>1. i[r] \in Nat \ {0} /\ DOMAIN list[r] = 1..Len(list[r]) /\ Len(list[r]) \in Nat
      BY <1>0 DEF TypeOK, Shape
    <3> QED  BY <1>0, <2>1, <3>1 DEF TypeOK, AtEnd
  <2>3. FreshAgain(r)'
    BY <2>2 DEF FreshAgain
  <2>4. \/ CurMark(r) = "ok" /\ Stamps(Cur(r).id)
        \/ rows' \subseteq rows
    BY <1>11 DEF ReplaySettle, Stamps
  <2>5. ASSUME NEW q \in rows', q.at >= created PROVE live[Slot(q.act)] = q.act
    <3>1. CASE rows' \subseteq rows
      BY <1>2, <2>5, <3>1 DEF Fresh, InForce
    <3>2. CASE CurMark(r) = "ok" /\ Stamps(Cur(r).id)
      <4>1. PICK x \in rows : /\ q.id = x.id /\ q.act = x.act
                              /\ IF x.id = Cur(r).id THEN q.at = clock ELSE q.at = x.at
        BY <3>2, StampedRows
      <4>2. CASE x.id = Cur(r).id
        <5>1. x.act = list[r][i[r]].act
          BY <2>2, <4>2 DEF IdsNameOperations, Cur
        <5>2. RanInForce(r)
          BY <1>0, <2>1 DEF ReplayOK, Replaying
        <5> QED  BY <2>2, <3>2, <4>1, <5>1, <5>2 DEF RanInForce, CurMark
      <4>3. CASE x.id # Cur(r).id
        BY <1>2, <2>5, <4>1, <4>3 DEF Fresh, InForce
      <4> QED  BY <4>2, <4>3
    <3> QED  BY <2>4, <3>1, <3>2
  <2>6. \A q \in rows' : Fresh(q)' => InForce(q)'
    BY <2>1, <2>5 DEF Fresh, InForce
  <2> QED  BY <1>3, <2>3, <2>6
<1> QED  BY <1>7, <1>8, <1>9, <1>10, <1>11 DEF RestartStep

\* The steps of the cluster: a pod that is replaced has no fresh rows, and no job
\* has begun on one that is going away.
LEMMA FreshClusterStep ==
  ASSUME Serial, Resolution = 1, TypeOK, Shape, Clocks, FreshInForce,
         ClusterStep \/ UNCHANGED vars
  PROVE  FreshInForce'
<1>0. UNCHANGED <<rows, pc, list, mark, i>>
  BY DEF ClusterStep, PodGone, PodCreated, PodReady, DaemonsUp, PodLost, vars, work, db
<1>1. ASSUME \A j \in Jobs : pc[j] = "idle", \A r \in Restarters : FreshAgain(r)',
             \A q \in rows' : Fresh(q)' => InForce(q)'
      PROVE  FreshInForce'
  BY <1>0, <1>1 DEF FreshInForce, JobOK, AtNode, SavePoints
<1>2. phase \in {"terminating", "gone"} => \A j \in Jobs : pc[j] = "idle"
  BY DEF FreshInForce, JobOK
<1>3. ASSUME \A j \in Jobs : pc[j] = "idle", UNCHANGED <<live, created>>
      PROVE  \A q \in rows' : Fresh(q)' => InForce(q)'
  <2>1. \A q \in rows : Fresh(q) => InForce(q)
    BY <1>3 DEF FreshInForce, AtNode, SavePoints
  <2> QED  BY <1>0, <1>3, <2>1 DEF Fresh, InForce
<1>4. CASE PodGone \/ PodLost
  <2>1. /\ phase' \in {"terminating", "gone"} /\ UNCHANGED <<live, created>>
        /\ \A j \in Jobs : pc[j] = "idle"
    BY <1>2, <1>4 DEF PodGone, PodLost, Quiet, Procs
  <2>2. ASSUME NEW r \in Restarters PROVE FreshAgain(r)'
    <3>1. FreshAgain(r)
      BY DEF FreshInForce
    <3> QED  BY <1>0, <2>1, <3>1 DEF FreshAgain, Fresh
  <2> QED  BY <1>1, <1>3, <2>1, <2>2
<1>5. CASE PodCreated
  <2>1. \A j \in Jobs : pc[j] = "idle"
    BY <1>2, <1>5 DEF PodCreated
  <2>2. created' = clock
    <3>1. created' = (clock \div Resolution) * Resolution /\ clock \in Nat
      BY <1>5 DEF PodCreated, TypeOK
    <3> QED  BY <3>1
  <2>3. \A q \in rows' : ~ Fresh(q)'
    <3>1. \A q \in rows : q.at < clock /\ q.at \in Nat /\ clock \in Nat
      BY DEF Clocks, TypeOK, RowType
    <3>2. \A q \in rows : ~ (q.at >= clock)
      BY <3>1
    <3> QED  BY <1>0, <2>2, <3>2 DEF Fresh
  <2>4. \A r \in Restarters : FreshAgain(r)'
    BY <2>3 DEF FreshAgain
  <2> QED  BY <1>1, <2>1, <2>3, <2>4
<1>6. CASE PodReady \/ DaemonsUp \/ UNCHANGED vars
  <2>1. /\ UNCHANGED <<live, created>>
        /\ phase' = phase \/ (phase = "starting" /\ phase' = "ready")
    BY <1>6 DEF PodReady, DaemonsUp, vars
  <2>2. ASSUME NEW r \in Restarters PROVE FreshAgain(r)'
    <3>1. FreshAgain(r)
      BY DEF FreshInForce
    <3> QED  BY <1>0, <2>1, <3>1 DEF FreshAgain, Fresh
  <2>3. ASSUME NEW j \in Jobs PROVE JobOK(j)'
    <3>0. JobOK(j)
      BY DEF FreshInForce
    <3>1. \A s : Midway(j, s)' <=> Midway(j, s)
      BY <1>0 DEF Midway, Cur
    <3>2. Ahead(j)' = Ahead(j) /\ Cur(j)' = Cur(j)
      BY <1>0 DEF Ahead, Cur
    <3>3. \A s : Pending(j, s)' = Pending(j, s)
      BY <1>0, <3>2, PendingSame
    <3>4. Applied(j)' <=> Applied(j)
      BY <1>0, <2>1, <3>1, <3>2, <3>3 DEF Applied, Owed, Owes, Fresh, InForce
    <3>5. CommitsApart(j)' <=> CommitsApart(j)
      <4>1. \A k : Group(j, k)' = Group(j, k)
        BY <1>0, GroupSame
      <4> QED  BY <1>0, <4>1 DEF CommitsApart
    <3> QED  BY <1>0, <2>1, <3>0, <3>4, <3>5 DEF JobOK
  <2>4. (\A j \in Jobs : pc[j] \notin AtNode) => \A q \in rows : Fresh(q) => InForce(q)
    BY DEF FreshInForce
  <2>5. (\A j \in Jobs : pc'[j] \notin AtNode) => \A q \in rows' : Fresh(q)' => InForce(q)'
    BY <1>0, <2>1, <2>4 DEF Fresh, InForce
  <2> QED  BY <2>2, <2>3, <2>5 DEF FreshInForce
<1> QED  BY <1>4, <1>5, <1>6 DEF ClusterStep

\* Between serial requests an action that configure would skip as already applied is
\* in force on the pod, whatever pods were lost or restarted before: provided that
\* no row is stamped in the second its pod is created, every action is recorded, and
\* neither the process nor a statement nor the deadline of an exec gives up between a
\* command and its row.
THEOREM NothingIsMasked ==
  ASSUME Serial, Resolution = 1, {"crash", "db", "timeout"} \cap Faults = {},
         \A q \in Requests : \A k \in DOMAIN q : q[k].persist
  PROVE  Spec => []NoMasking
<1> DEFINE Inv == /\ TypeOK /\ Shape /\ IsFiniteSet(rows) /\ IdsNameOperations
                  /\ OneAtATime /\ RowsInOrder /\ SaveClears /\ Clocks /\ ReplayInv
                  /\ FreshInForce
<1>1. Init => Inv
  <2> SUFFICES ASSUME Init PROVE Inv
    OBVIOUS
  <2>1. TypeOK /\ Shape /\ IsFiniteSet(rows)
    BY TypeInit, FS_EmptySet DEF Init
  <2>2. \A p \in Procs : pc[p] = "idle" /\ DOMAIN list[p] = {}
    BY DEF Init
  <2>3. IdsNameOperations /\ OneAtATime /\ RowsInOrder /\ SaveClears /\ Clocks
    BY <2>2 DEF Init, IdsNameOperations, OneAtATime, RowsInOrder, SaveClears, Procs, Clocks
  <2>4. ReplayInv
    BY <2>2 DEF ReplayInv, ReplayOK, Replaying, Procs
  <2>5. FreshInForce
    BY <2>2 DEF Init, FreshInForce, JobOK, FreshAgain, Procs, AtNode, SavePoints
  <2> QED  BY <2>1, <2>3, <2>4, <2>5
<1>2. Inv /\ [Next]_vars => Inv'
  <2> SUFFICES ASSUME Inv, [Next]_vars PROVE Inv'
    OBVIOUS
  <2>1. /\ TypeOK' /\ Shape' /\ IsFiniteSet(rows)' /\ IdsNameOperations' /\ OneAtATime'
        /\ RowsInOrder' /\ SaveClears' /\ Clocks' /\ ReplayInv'
    BY TypeStep, FiniteRows, IdsStep, SerialStep, OrderStep, ClockStep, ReplayInvStep
  <2>2. ~ Crash
    BY DEF Crash
  <2>3. FreshInForce'
    BY <2>2, FreshJobStep, FreshRestartStep, FreshClusterStep DEF Next
  <2> QED  BY <2>1, <2>3
<1>3. Inv => NoMasking
  <2> SUFFICES ASSUME Inv, Quiet, NEW r \in rows, AppliedSince(r.act, created)
               PROVE  live[Slot(r.act)] = r.act
    BY DEF NoMasking
  <2>1. \E q \in rows : q.act = r.act /\ Fresh(q)
    BY DEF AppliedSince, Fresh
  <2>2. \A j \in Jobs : pc[j] \notin AtNode
    BY DEF Quiet, Procs, AtNode, SavePoints
  <2> QED  BY <2>1, <2>2 DEF FreshInForce, InForce
<1> QED  BY <1>1, <1>2, <1>3, PTL DEF Spec

-----------------------------------------------------------------------------
(* A replay gives up on an operation only after its last attempt.          *)

\* What a replay counts as failed took part in as many execs as it is allowed.
FailedIsTried ==
  \A r \in Restarters : \A k \in DOMAIN list[r] :
    mark[r][k] = "fail" => tries[r][k] >= MaxAttempts

\* A worker's step leaves the list of every other worker alone, and the place of
\* every other worker in it.
LEMMA OthersKeep ==
  ASSUME TypeOK, NEW p \in Procs, NEW x \in Procs, x # p,
         \/ p \in Jobs /\ (Configure(p) \/ JobStep(p))
         \/ p \in Restarters /\ (RestartPod(p) \/ RestartStep(p))
  PROVE  list'[x] = list[x] /\ mark'[x] = mark[x] /\ tries'[x] = tries[x] /\ i'[x] = i[x]
<1>1. ASSUME RunStep(p)
      PROVE  list'[x] = list[x] /\ mark'[x] = mark[x] /\ tries'[x] = tries[x] /\ i'[x] = i[x]
  BY <1>1 DEF RunStep, RunScriptAction, RunGuestCommit, ExecError, ExecFails, PassOver, RunEnds,
              Goto, TypeOK
<1>2. ASSUME p \in Jobs, Configure(p) \/ CheckDuplicate(p) \/ CheckEnds(p) \/ SaveStep(p) \/ ConfigureEnds(p)
      PROVE  list'[x] = list[x] /\ mark'[x] = mark[x] /\ tries'[x] = tries[x] /\ i'[x] = i[x]
  BY <1>2, SMTT(30) DEF Configure, CheckDuplicate, CheckEnds, SaveStep, ConfigureEnds, SaveRead,
              SaveDelete,
              SaveDeleted, SaveReplace, SaveInsert, SaveFails, SavePass, Goto, TypeOK
<1>3. ASSUME p \in Restarters, RestartPod(p) \/ RestartStep(p), ~ RunStep(p)
      PROVE  list'[x] = list[x] /\ mark'[x] = mark[x] /\ tries'[x] = tries[x] /\ i'[x] = i[x]
  <2>1. CASE RestartPod(p) \/ WaitReady(p) \/ ApplyPlatformMTU(p) \/ ReplayList(p)
    BY <1>3, <2>1 DEF RestartPod, WaitReady, ApplyPlatformMTU, ReplayList, Goto, TypeOK
  <2>2. CASE ReplayResolve(p) \/ ReplayResolved(p) \/ ReplayAborts(p)
    BY <1>3, <2>2 DEF ReplayResolve, ReplayResolved, ReplayAborts, Goto, TypeOK
  <2>3. CASE ReplaySettle(p) \/ ReplayFails(p) \/ RestartEnds(p)
    BY <1>3, <2>3 DEF ReplaySettle, ReplayFails, RestartEnds, Goto, TypeOK
  <2> QED  BY <1>3, <2>1, <2>2, <2>3 DEF RestartStep
<1> QED  BY <1>1, <1>2, <1>3 DEF JobStep

\* Marks become "fail" with the last attempt only.
LEMMA TriedStep ==
  ASSUME Guest, TypeOK, Shape, FailedIsTried, [Next]_vars
  PROVE  FailedIsTried'
<1> SUFFICES ASSUME NEW r \in Restarters, NEW k \in DOMAIN list'[r], mark'[r][k] = "fail"
             PROVE  tries'[r][k] >= MaxAttempts
  BY DEF FailedIsTried
<1>0. r \in Procs /\ r \notin Jobs
  BY DEF Procs
<1>1. ASSUME list'[r] = list[r], mark'[r] = mark[r], tries'[r] = tries[r]
      PROVE  tries'[r][k] >= MaxAttempts
  BY <1>1 DEF FailedIsTried
<1>2. CASE \E j \in Jobs : Configure(j) \/ JobStep(j)
  BY <1>0, <1>1, <1>2, OthersKeep DEF Procs
<1>3. CASE \E x \in Restarters : x # r /\ (RestartPod(x) \/ RestartStep(x))
  BY <1>0, <1>1, <1>3, OthersKeep DEF Procs
<1>4. CASE ClusterStep \/ Crash \/ UNCHANGED vars
  BY <1>1, <1>4 DEF ClusterStep, PodGone, PodCreated, PodReady, DaemonsUp, PodLost, Crash, vars, work
<1>5. CASE RestartPod(r) \/ RestartStep(r)
  <2>1. CASE RestartPod(r) \/ WaitReady(r) \/ ApplyPlatformMTU(r) \/ ReplayResolved(r) \/ PassOver(r)
             \/ RunEnds(r) \/ ReplaySettle(r) \/ RestartEnds(r)
    BY <1>1, <2>1 DEF RestartPod, WaitReady, ApplyPlatformMTU, ReplayResolved, PassOver, RunEnds,
                      ReplaySettle, RestartEnds
  <2>2. CASE ReplayList(r)
    <3>1. PICK s \in [1..Cardinality(rows) -> rows] :
                 /\ list' = [list EXCEPT ![r] = s]
                 /\ mark' = [mark EXCEPT ![r] = [m \in DOMAIN s |-> "todo"]]
      BY <2>2 DEF ReplayList
    <3>2. list'[r] = s /\ \A m \in DOMAIN s : mark'[r][m] = "todo"
      BY <1>0, <3>1 DEF TypeOK
    <3> QED  BY <3>2
  <2>3. CASE ReplayResolve(r) \/ ReplayFails(r)
    <3>1. /\ UNCHANGED <<list, tries>>
          /\ mark' = mark \/ \E m \in {"bad", "run"} : mark' = [mark EXCEPT ![r][i[r]] = m]
      BY <2>3 DEF ReplayResolve, ReplayFails
    <3>2. mark[r][k] = "fail"
      BY <1>0, <3>1 DEF TypeOK, Shape
    <3> QED  BY <3>1, <3>2 DEF FailedIsTried
  <2> DEFINE G == Group(r, i[r])
  <2>4. CASE ReplayAborts(r)
    <3>1. /\ UNCHANGED <<list, tries>>
          /\ mark' = [mark EXCEPT ![r] = [m \in DOMAIN list[r] |->
                         IF m \in G THEN "run" ELSE mark[r][m]]]
      BY <2>4 DEF ReplayAborts
    <3> HIDE DEF G
    <3>2. mark[r][k] = "fail"
      BY <1>0, <3>1 DEF TypeOK
    <3> QED  BY <3>1, <3>2 DEF FailedIsTried
  <2>5. CASE ExecFails(r) /\ ~ AtEnd(r) /\ list' = list
    <3> DEFINE again == tries[r][i[r]] + 1 < Attempts(r)
    <3>1. /\ mark'[r][k] = IF k \notin G THEN mark[r][k] ELSE IF again THEN "run" ELSE "fail"
          /\ tries'[r][k] = IF k \in G THEN tries[r][i[r]] + 1 ELSE tries[r][k]
      BY <1>0, <2>5 DEF ExecFails, TypeOK
    <3> HIDE DEF G
    <3>2. CASE k \notin G
      BY <2>5, <3>1, <3>2 DEF FailedIsTried
    <3>3. CASE k \in G
      <4>1. ~ again /\ tries'[r][k] = tries[r][i[r]] + 1
        BY <3>1, <3>3
      <4>2. tries[r][i[r]] \in Nat
        <5>1. i[r] \in Nat \ {0} /\ DOMAIN list[r] = 1..Len(list[r]) /\ Len(list[r]) \in Nat
          BY <1>0 DEF TypeOK, Shape
        <5>2. tries[r] \in Seq(Nat) /\ i[r] \in DOMAIN tries[r]
          BY <1>0, <2>5, <5>1 DEF TypeOK, Shape, AtEnd
        <5> QED  BY <5>2, ElementOfSeq
      <4> QED  BY <1>0, <4>1, <4>2 DEF Attempts
    <3> QED  BY <3>2, <3>3
  <2>6. CASE RunGuestCommit(r)
    <3>1. CASE ExecFails(r)
      BY <2>5, <2>6, <3>1 DEF RunGuestCommit
    <3>2. CASE /\ mark' = [mark EXCEPT ![r] = [m \in DOMAIN list[r] |->
                            IF m \in G THEN "ok" ELSE mark[r][m]]]
               /\ UNCHANGED tries
      <4>0. list' = list
        BY <2>6 DEF RunGuestCommit
      <4>1. mark'[r][k] = IF k \in G THEN "ok" ELSE mark[r][k]
        BY <1>0, <3>2, <4>0 DEF TypeOK
      <4> HIDE DEF G
      <4> QED  BY <3>2, <4>0, <4>1 DEF FailedIsTried
    <3> QED  BY <2>6, <3>1, <3>2 DEF RunGuestCommit
  <2>7. CASE ExecError(r)
    BY <2>5, <2>7 DEF ExecError
  <2>8. ~ RunScriptAction(r)
    BY DEF RunScriptAction
  <2> HIDE DEF G
  <2> QED  BY <1>5, <2>1, <2>2, <2>3, <2>4, <2>6, <2>7, <2>8 DEF RestartStep, RunStep
<1> QED  BY <1>2, <1>3, <1>4, <1>5 DEF Next

\* A replay on a node that takes guest commits prunes a row only after the exec that
\* carried it was tried replayExecAttempts times, with any number of requests
\* interleaved and whatever else fails.
THEOREM PrunesAfterRetries ==
  ASSUME Guest
  PROVE  Spec => PruneAfterRetries
<1> DEFINE Inv == TypeOK /\ Shape /\ IsFiniteSet(rows) /\ FailedIsTried
           A == \A r \in Restarters : \A q \in rows :
                  /\ pc[r] = "settle" /\ pc'[r] = "settle" /\ i[r] # i'[r]
                  /\ q.id = Cur(r).id /\ q \notin rows' /\ CurMark(r) = "fail"
                  => tries[r][i[r]] >= MaxAttempts
<1>1. Init => Inv
  <2> SUFFICES ASSUME Init PROVE Inv
    OBVIOUS
  <2>1. TypeOK /\ Shape /\ IsFiniteSet(rows)
    BY TypeInit, FS_EmptySet DEF Init
  <2>2. \A r \in Restarters : DOMAIN list[r] = {}
    BY DEF Init, Procs
  <2> QED  BY <2>1, <2>2 DEF FailedIsTried
<1>2. Inv /\ [Next]_vars => Inv'
  BY TypeStep, FiniteRows, TriedStep
<1>3. Inv /\ [Next]_vars => [A]_vars
  <2> SUFFICES ASSUME Inv, [Next]_vars, NEW r \in Restarters,
                      pc[r] = "settle", pc'[r] = "settle", i[r] # i'[r], CurMark(r) = "fail"
               PROVE  tries[r][i[r]] >= MaxAttempts
    OBVIOUS
  <2>0. r \in Procs /\ r \notin Jobs
    BY DEF Procs
  <2>1. RestartPod(r) \/ RestartStep(r)
    <3>1. ASSUME NEW p \in Procs, p # r, \/ p \in Jobs /\ (Configure(p) \/ JobStep(p))
                                         \/ p \in Restarters /\ (RestartPod(p) \/ RestartStep(p))
          PROVE  FALSE
      BY <2>0, <3>1, OthersKeep
    <3>2. ~ (ClusterStep \/ Crash \/ UNCHANGED vars)
      BY DEF ClusterStep, PodGone, PodCreated, PodReady, DaemonsUp, PodLost, Crash, vars, work
    <3>3. (\E j \in Jobs : Configure(j) \/ JobStep(j)) \/ \E x \in Restarters : RestartPod(x) \/ RestartStep(x)
      BY <3>2 DEF Next
    <3> QED  BY <2>0, <3>1, <3>3 DEF Procs
  <2>2. ReplaySettle(r) \/ ReplayFails(r) \/ RestartEnds(r)
    BY <2>1 DEF RestartPod, MayBegin, RestartStep, WaitReady, ApplyPlatformMTU, ReplayList, ReplayResolve,
                ReplayResolved, ReplayAborts, RunStep, RunScriptAction, RunGuestCommit, ExecError, PassOver, RunEnds
  <2>3. ~ AtEnd(r)
    <3>1. CASE RestartEnds(r)
      <4>1. pc'[r] = "idle"
        BY <2>0, <3>1 DEF RestartEnds, Goto, TypeOK
      <4> QED  BY <4>1
    <3> QED  BY <2>2, <3>1 DEF ReplaySettle, ReplayFails
  <2>4. i[r] \in DOMAIN list[r]
    <3>1. i[r] \in Nat \ {0} /\ DOMAIN list[r] = 1..Len(list[r]) /\ Len(list[r]) \in Nat
      BY <2>0 DEF TypeOK, Shape
    <3> QED  BY <2>3, <3>1 DEF AtEnd
  <2> QED  BY <2>4 DEF FailedIsTried, CurMark
<1>4. PruneAfterRetries <=> [][A]_vars
  BY DEF PruneAfterRetries
<1> HIDE DEF A
<1> QED  BY <1>1, <1>2, <1>3, <1>4, PTL DEF Spec

=============================================================================
