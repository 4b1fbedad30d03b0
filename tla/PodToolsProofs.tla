--------------------------- MODULE PodToolsProofs ---------------------------
(***************************************************************************)
(* Proofs about the tools that run in pods.                                 *)
(*                                                                         *)
(* LinkShaping: for any topology, any requests, any number of classes and   *)
(* matches, and any number of sessions.  The first half is about the pure   *)
(* part: the lines of a batch, what the kernel makes of them one by one     *)
(* (TreeAfter), that it takes each of them (LineAccepted), what reads back  *)
(* (ReadBack) and where packets go (SortsRight).  FlattenSeq and FoldLeft   *)
(* are unfolded by their definitions and followed by the least              *)
(* counterexample.  The second half is the inductive invariant ShapingInv   *)
(* and the steps.                                                           *)
(*                                                                         *)
(* ToolRuns: for any pods, topologies and scripts of requests, any number   *)
(* of requests at a time, any ports and any limits.  The types come first,  *)
(* one lemma per action; with them, that no step touches the run of another *)
(* request (Kept).  Then whose programs run where (Belongs, Bound), what a  *)
(* streamed trace has told (Traces), and what a throughput test has left at *)
(* each of its steps (AllClean).                                            *)
(*                                                                         *)
(* The search of a trace (BFSPath): what its rounds have seen, served and   *)
(* left in the queue (Border, Grown), that as many rounds as there are pods *)
(* see every pod links lead to (SearchRight), and that the way back along   *)
(* the pods that first saw each other is a shortest one (BackRight).        *)
(***************************************************************************)
EXTENDS LinkShaping, ToolRuns, FiniteSetTheorems, SequenceTheorems, WellFoundedInduction, TLAPS

----------------------------------------------------------------------------
(* Recursion over numbers: induction as the absence of a least              *)
(* counterexample, here and below.                                          *)

\* A nonempty set of numbers has a least element.
LEMMA LeastNumber ==
  ASSUME NEW K \in SUBSET Nat, K # {}
  PROVE  \E x \in K : \A y \in K : x <= y
<1>1. PICK x \in K : \A y \in K : ~ (<<y, x>> \in OpToRel(<, Nat))
  BY NatLessThanWellFounded, WFMin
<1>2. \A y \in Nat : y < x => <<y, x>> \in OpToRel(<, Nat)
  <2>1. OpToRel(<, Nat) = {ss \in Nat \X Nat : ss[1] < ss[2]}
    BY Zenon DEF OpToRel
  <2> HIDE DEF OpToRel
  <2> QED  BY <2>1
<1>3. \A y \in K : ~ (y < x)
  BY <1>1, <1>2
<1> QED  BY <1>3

\* f[i] is the first i sequences of s, one after the other.
Joined(f, s, n) == f = [i \in 1 .. n |-> IF i = 1 THEN s[i] ELSE f[i - 1] \o s[i]]

\* There is such a function, for any number of sequences.
LEMMA JoinedExists ==
  ASSUME NEW s, NEW n \in Nat
  PROVE  \E f : Joined(f, s, n)
<1> DEFINE K == {i \in Nat : ~ \E f : Joined(f, s, i)}
<1> SUFFICES ASSUME n \in K PROVE FALSE
  OBVIOUS
<1>1. PICK i \in K : \A y \in K : i <= y
  BY LeastNumber
<1>2. CASE i = 0
  <2>1. Joined([x \in 1 .. 0 |-> x], s, 0)
    BY DEF Joined
  <2> QED  BY <2>1, <1>1, <1>2
<1>3. CASE i # 0
  <2>1. i \in Nat /\ i - 1 \in Nat /\ ~ (i - 1 \in K)
    BY <1>1, <1>3
  <2>2. PICK f : Joined(f, s, i - 1)
    BY <2>1
  <2> DEFINE g == [x \in 1 .. i |-> IF x = i THEN IF x = 1 THEN s[x] ELSE f[x - 1] \o s[x]
                                    ELSE f[x]]
  <2>3. \A x \in 1 .. i - 1 : f[x] = IF x = 1 THEN s[x] ELSE f[x - 1] \o s[x]
    BY <2>2, Zenon DEF Joined
  <2>4. ASSUME NEW x \in 1 .. i
        PROVE  g[x] = IF x = 1 THEN s[x] ELSE g[x - 1] \o s[x]
    <3>1. CASE x = i /\ x = 1
      BY <3>1
    <3>2. CASE x = i /\ x # 1
      <4>1. x - 1 \in 1 .. i /\ x - 1 # i
        BY <3>2, <2>1
      <4>2. g[x - 1] = f[x - 1]
        BY <4>1
      <4> QED  BY <4>2, <3>2
    <3>3. CASE x # i
      <4>1. x \in 1 .. i - 1
        BY <3>3, <2>1
      <4>2. g[x] = f[x]
        BY <3>3
      <4>3. x # 1 => x - 1 \in 1 .. i /\ x - 1 # i
        BY <4>1, <2>1
      <4>4. x # 1 => g[x - 1] = f[x - 1]
        BY <4>3
      <4> QED  BY <4>1, <4>2, <4>4, <2>3
    <3> QED  BY <3>1, <3>2, <3>3
  <2>5. Joined(g, s, i)
    BY <2>4, Zenon DEF Joined
  <2> QED  BY <2>5, <1>1
<1> QED  BY <1>2, <1>3

\* FlattenSeq joins them all.
LEMMA FlattenIs ==
  ASSUME NEW s, NEW n \in Nat \ {0}, Len(s) = n
  PROVE  \E f : Joined(f, s, n) /\ FlattenSeq(s) = f[n]
<1> DEFINE f == CHOOSE g : Joined(g, s, n)
<1>1. Joined(f, s, n)
  BY JoinedExists, Zenon
<1>2. FlattenSeq(s) = f[n]
  BY Zenon DEF FlattenSeq, Joined
<1> QED  BY <1>1, <1>2

\* The largest of a set of numbers that has one.
LEMMA MaxIs ==
  ASSUME NEW S \in SUBSET Nat, NEW x \in S, \A y \in S : x >= y
  PROVE  Max(S) = x
<1>1. \A z \in S : (\A y \in S : z >= y) => z = x
  OBVIOUS
<1> QED  BY <1>1, Zenon DEF Max

\* The last number of an interval and what is before it.
LEMMA Interval ==
  ASSUME NEW n \in Nat, NEW i \in 1 .. n
  PROVE  /\ 1 .. i \in SUBSET (1 .. n) /\ 1 .. i # {} /\ Max(1 .. i) = i
         /\ (1 .. i) \ {i} = 1 .. i - 1
<1>1. i \in 1 .. i /\ 1 .. i \in SUBSET Nat /\ \A y \in 1 .. i : i >= y
  OBVIOUS
<1>2. Max(1 .. i) = i
  BY <1>1, MaxIs
<1>3. \A y : y \in (1 .. i) \ {i} <=> y \in 1 .. i - 1
  OBVIOUS
<1> QED  BY <1>1, <1>2, <1>3

\* g[S] is what the lines of s that S numbers make of an interface that has nothing.
Folded(g, s, n) ==
  g = [S \in SUBSET (1 .. n) |-> IF S = {} THEN Unshaped
                                 ELSE Applied(g[S \ {Max(S)}], s[Max(S)])]

\* There is such a function, for any number of lines.
LEMMA FoldedExists ==
  ASSUME NEW s, NEW n \in Nat
  PROVE  \E g : Folded(g, s, n)
<1> DEFINE K == {i \in Nat : ~ \E g : Folded(g, s, i)}
<1> SUFFICES ASSUME n \in K PROVE FALSE
  OBVIOUS
<1>1. PICK i \in K : \A y \in K : i <= y
  BY LeastNumber
<1>2. CASE i = 0
  <2> DEFINE g == [S \in SUBSET (1 .. 0) |-> Unshaped]
  <2>1. \A S \in SUBSET (1 .. 0) : S = {}
    OBVIOUS
  <2>2. g = [S \in SUBSET (1 .. 0) |-> IF S = {} THEN Unshaped
                                       ELSE Applied(g[S \ {Max(S)}], s[Max(S)])]
    BY <2>1, Zenon
  <2>3. Folded(g, s, 0)
    BY <2>2, Zenon DEF Folded
  <2> QED  BY <2>3, <1>1, <1>2
<1>3. CASE i # 0
  <2>1. i \in Nat /\ i - 1 \in Nat /\ ~ (i - 1 \in K)
    BY <1>1, <1>3
  <2>2. PICK f : Folded(f, s, i - 1)
    BY <2>1
  <2> DEFINE g == [S \in SUBSET (1 .. i) |-> IF i \in S THEN Applied(f[S \ {i}], s[i]) ELSE f[S]]
  <2>3. \A S \in SUBSET (1 .. i - 1) :
          f[S] = IF S = {} THEN Unshaped ELSE Applied(f[S \ {Max(S)}], s[Max(S)])
    BY <2>2, Zenon DEF Folded
  <2>4. ASSUME NEW S \in SUBSET (1 .. i)
        PROVE  g[S] = IF S = {} THEN Unshaped ELSE Applied(g[S \ {Max(S)}], s[Max(S)])
    <3>1. CASE i \in S
      <4>1. Max(S) = i
        BY <2>1, <3>1, MaxIs
      <4>2. S \ {i} \in SUBSET (1 .. i) /\ i \notin S \ {i}
        OBVIOUS
      <4>3. g[S \ {i}] = f[S \ {i}]
        BY <4>2
      <4>4. g[S] = Applied(f[S \ {i}], s[i])
        BY <3>1
      <4> QED  BY <3>1, <4>1, <4>3, <4>4
    <3>2. CASE i \notin S
      <4>1. S \in SUBSET (1 .. i - 1)
        BY <2>1, <3>2
      <4>2. S \ {Max(S)} \in SUBSET (1 .. i) /\ i \notin S \ {Max(S)}
        BY <3>2
      <4>3. g[S \ {Max(S)}] = f[S \ {Max(S)}]
        BY <4>2
      <4>4. g[S] = f[S]
        BY <3>2
      <4> QED  BY <2>3, <4>1, <4>3, <4>4
    <3> QED  BY <3>1, <3>2
  <2>5. Folded(g, s, i)
    BY <2>4, Zenon DEF Folded
  <2> QED  BY <2>5, <1>1
<1> QED  BY <1>2, <1>3

\* What the first k lines of a batch make of it.
After(rows, k) == FoldLeft(Applied, Unshaped, SubSeq(rows, 1, k))

\* FoldLeft is its value at all of them.
LEMMA FoldIs ==
  ASSUME NEW s, NEW n \in Nat, DOMAIN s = 1 .. n
  PROVE  \E g : Folded(g, s, n) /\ FoldLeft(Applied, Unshaped, s) = g[1 .. n]
<1> DEFINE g == CHOOSE h : Folded(h, s, n)
<1>1. Folded(g, s, n)
  BY FoldedExists, Zenon
<1>2. FoldLeft(Applied, Unshaped, s) = g[1 .. n]
  BY Zenon DEF FoldLeft, MapThenFoldSet, Folded
<1> QED  BY <1>1, <1>2

\* One more line is applied to what those before it made.
LEMMA AfterNext ==
  ASSUME NEW S, NEW R \in Seq(S), NEW k \in Nat, k + 1 <= Len(R)
  PROVE  After(R, k + 1) = Applied(After(R, k), R[k + 1])
<1> k + 1 \in Nat
  OBVIOUS
<1> DEFINE s == SubSeq(R, 1, k)
           t == SubSeq(R, 1, k + 1)
<1>1. /\ DOMAIN s = 1 .. k /\ \A i \in 1 .. k : s[i] = R[i]
      /\ DOMAIN t = 1 .. k + 1 /\ \A i \in 1 .. k + 1 : t[i] = R[i]
  OBVIOUS
<1>2. PICK g : Folded(g, s, k) /\ After(R, k) = g[1 .. k]
  BY <1>1, FoldIs, Zenon DEF After
<1>3. PICK h : Folded(h, t, k + 1) /\ After(R, k + 1) = h[1 .. k + 1]
  BY <1>1, FoldIs, Zenon DEF After
<1>4. ASSUME NEW i \in 1 .. k PROVE g[1 .. i] = Applied(g[1 .. i - 1], R[i])
  <2>1. 1 .. i \in SUBSET (1 .. k) /\ 1 .. i # {} /\ Max(1 .. i) = i
    BY Interval
  <2>2. (1 .. i) \ {i} = 1 .. i - 1
    BY Interval
  <2>3. g[1 .. i] = Applied(g[(1 .. i) \ {Max(1 .. i)}], s[Max(1 .. i)])
    BY <1>2, <2>1, Zenon DEF Folded
  <2> QED  BY <1>1, <2>1, <2>2, <2>3
<1>5. ASSUME NEW i \in 1 .. k + 1 PROVE h[1 .. i] = Applied(h[1 .. i - 1], R[i])
  <2>1. 1 .. i \in SUBSET (1 .. k + 1) /\ 1 .. i # {} /\ Max(1 .. i) = i
    BY Interval
  <2>2. (1 .. i) \ {i} = 1 .. i - 1
    BY Interval
  <2>3. h[1 .. i] = Applied(h[(1 .. i) \ {Max(1 .. i)}], t[Max(1 .. i)])
    BY <1>3, <2>1, Zenon DEF Folded
  <2> QED  BY <1>1, <2>1, <2>2, <2>3
<1>6. g[1 .. 0] = h[1 .. 0]
  <2>1. 1 .. 0 = {} /\ {} \in SUBSET (1 .. k) /\ {} \in SUBSET (1 .. k + 1)
    OBVIOUS
  <2>2. g[{}] = Unshaped
    BY <1>2, <2>1, Zenon DEF Folded
  <2>3. h[{}] = Unshaped
    BY <1>3, <2>1, Zenon DEF Folded
  <2> QED  BY <2>1, <2>2, <2>3
<1>7. g[1 .. k] = h[1 .. k]
  <2> DEFINE K == {i \in Nat : i <= k /\ g[1 .. i] # h[1 .. i]}
  <2> SUFFICES ASSUME k \in K PROVE FALSE
    OBVIOUS
  <2>1. PICK i \in K : \A y \in K : i <= y
    BY LeastNumber
  <2>2. i # 0
    BY <2>1, <1>6
  <2>3. i - 1 \in Nat /\ i - 1 <= k /\ ~ (i - 1 \in K) /\ i \in 1 .. k /\ i \in 1 .. k + 1
    BY <2>1, <2>2
  <2>4. g[1 .. i - 1] = h[1 .. i - 1]
    BY <2>3
  <2>5. g[1 .. i] = h[1 .. i]
    BY <2>3, <2>4, <1>4, <1>5
  <2> QED  BY <2>1, <2>5
<1>8. h[1 .. k + 1] = Applied(h[1 .. k], R[k + 1])
  <2>1. k + 1 \in 1 .. k + 1 /\ (k + 1) - 1 = k
    OBVIOUS
  <2> QED  BY <2>1, <1>5
<1> QED  BY <1>2, <1>3, <1>7, <1>8

----------------------------------------------------------------------------
(* Requests, as the backend has them once their JSON is parsed.             *)

\* The matches of a class and what they send where.
Width(p, i) == Len(p.classes[i].match)
Sent(p, i, j) == [match |-> p.classes[i].match[j], minor |-> Minor(i)]
AllSent(p) == UNION {{Sent(p, i, j) : j \in 1 .. Width(p, i)} : i \in 1 .. Len(p.classes)}

\* m holds the matches of the first n classes, in their order.
InOrder(p, m, n) ==
  /\ m \in Seq(AllSent(p))
  /\ \A k \in 1 .. Len(m) : \E i \in 1 .. n : m[k].minor = Minor(i)
  /\ \A i \in 1 .. n : \E o \in Nat :
       /\ o + Width(p, i) <= Len(m)
       /\ \A j \in 1 .. Width(p, i) : m[o + j] = Sent(p, i, j)
       /\ \A k \in 1 .. Len(m) : m[k].minor = Minor(i) => k \in o + 1 .. o + Width(p, i)
  /\ \A k, l \in 1 .. Len(m) : k <= l => m[k].minor <= m[l].minor

\* The matches of the next class go behind those of the first n.
LEMMA InOrderNext ==
  ASSUME NEW p, NEW n \in Nat, NEW m, NEW s, InOrder(p, m, n), n + 1 <= Len(p.classes),
         Len(p.classes) \in Nat, \A i \in 1 .. n + 1 : Width(p, i) \in Nat,
         s = [j \in 1 .. Width(p, n + 1) |-> Sent(p, n + 1, j)]
  PROVE  InOrder(p, m \o s, n + 1)
<1> DEFINE w == Width(p, n + 1)
           b == m \o s
<1>w. w \in Nat
  OBVIOUS
<1>1. s \in Seq(AllSent(p)) /\ Len(s) = w
  <2>1. \A j \in 1 .. w : Sent(p, n + 1, j) \in AllSent(p)
    BY DEF AllSent
  <2>2. s \in [1 .. w -> AllSent(p)]
    BY <2>1
  <2> QED  BY <2>2, <1>w, SMTT(30)
<1>2. m \in Seq(AllSent(p)) /\ Len(m) \in Nat
  BY DEF InOrder
<1>3. b \in Seq(AllSent(p)) /\ Len(b) = Len(m) + w
  BY <1>1, <1>2
<1>4. \A k \in 1 .. Len(m) : b[k] = m[k]
  BY <1>1, <1>2
<1>5. \A j \in 1 .. w : b[Len(m) + j] = Sent(p, n + 1, j)
  BY <1>1, <1>2
<1>6. \A k \in 1 .. Len(b) : k \in 1 .. Len(m) \/ \E j \in 1 .. w : k = Len(m) + j
  <2> SUFFICES ASSUME NEW k \in 1 .. Len(b), k \notin 1 .. Len(m)
               PROVE  \E j \in 1 .. w : k = Len(m) + j
    OBVIOUS
  <2>1. k - Len(m) \in 1 .. w /\ k = Len(m) + (k - Len(m))
    BY <1>2, <1>3
  <2> QED  BY <2>1
<1>7. \A j \in 1 .. w : Sent(p, n + 1, j).minor = tcMinorBase + n + 1
  BY DEF Sent, Minor, tcMinorBase
<1>8. \A k \in 1 .. Len(m) : \E i \in 1 .. n : m[k].minor = tcMinorBase + i
  BY DEF InOrder, Minor
<1> HIDE DEF b
<1>9. \A k \in 1 .. Len(b) : \E i \in 1 .. n + 1 : b[k].minor = Minor(i)
  <2> TAKE k \in 1 .. Len(b)
  <2>1. CASE k \in 1 .. Len(m)
    BY <2>1, <1>4, <1>8 DEF Minor
  <2>2. CASE \E j \in 1 .. w : k = Len(m) + j
    <3>1. b[k].minor = tcMinorBase + n + 1
      BY <2>2, <1>5, <1>7
    <3>2. n + 1 \in 1 .. n + 1 /\ b[k].minor = Minor(n + 1)
      BY <3>1 DEF Minor, tcMinorBase
    <3> QED  BY <3>2
  <2> QED  BY <2>1, <2>2, <1>6
<1>10. ASSUME NEW i \in 1 .. n + 1
       PROVE  \E o \in Nat :
                /\ o + Width(p, i) <= Len(b)
                /\ \A j \in 1 .. Width(p, i) : b[o + j] = Sent(p, i, j)
                /\ \A k \in 1 .. Len(b) : b[k].minor = Minor(i) => k \in o + 1 .. o + Width(p, i)
  <2>1. CASE i = n + 1
    <3>1. Len(m) + Width(p, i) <= Len(b)
      BY <2>1, <1>2, <1>3
    <3>2. \A j \in 1 .. Width(p, i) : b[Len(m) + j] = Sent(p, i, j)
      BY <2>1, <1>5
    <3>3. ASSUME NEW k \in 1 .. Len(b), b[k].minor = Minor(i)
          PROVE  k \in Len(m) + 1 .. Len(m) + Width(p, i)
      <4>1. CASE k \in 1 .. Len(m)
        <5>1. PICK h \in 1 .. n : m[k].minor = tcMinorBase + h
          BY <4>1, <1>8
        <5> QED  BY <5>1, <4>1, <3>3, <2>1, <1>4, SMTT(30) DEF Minor, tcMinorBase
      <4>2. CASE \E j \in 1 .. w : k = Len(m) + j
        BY <4>2, <2>1, <1>2
      <4> QED  BY <4>1, <4>2, <1>6
    <3> QED  BY <3>1, <3>2, <3>3, <1>2
  <2>2. CASE i # n + 1
    <3>1. i \in 1 .. n
      BY <2>2
    <3>2. PICK o \in Nat :
            /\ o + Width(p, i) <= Len(m)
            /\ \A j \in 1 .. Width(p, i) : m[o + j] = Sent(p, i, j)
            /\ \A k \in 1 .. Len(m) : m[k].minor = Minor(i) => k \in o + 1 .. o + Width(p, i)
      BY <3>1 DEF InOrder
    <3>3. Width(p, i) \in Nat
      OBVIOUS
    <3>4. o + Width(p, i) <= Len(b)
      BY <3>2, <3>3, <1>2, <1>3
    <3>5. \A j \in 1 .. Width(p, i) : o + j \in 1 .. Len(m)
      BY <3>2, <3>3, <1>2
    <3>6. \A j \in 1 .. Width(p, i) : b[o + j] = Sent(p, i, j)
      BY <3>2, <3>5, <1>4
    <3>7. ASSUME NEW k \in 1 .. Len(b), b[k].minor = Minor(i)
          PROVE  k \in o + 1 .. o + Width(p, i)
      <4>1. k \in 1 .. Len(m)
        <5>1. ASSUME NEW j \in 1 .. w, k = Len(m) + j PROVE FALSE
          <6>1. b[k].minor = tcMinorBase + n + 1
            BY <5>1, <1>5, <1>7
          <6> QED  BY <6>1, <3>7, <3>1 DEF Minor, tcMinorBase
        <5> QED  BY <5>1, <1>6
      <4> QED  BY <4>1, <3>7, <3>2, <1>4
    <3> QED  BY <3>4, <3>6, <3>7
  <2> QED  BY <2>1, <2>2
<1>11. ASSUME NEW k \in 1 .. Len(b), NEW l \in 1 .. Len(b), k <= l
       PROVE  b[k].minor <= b[l].minor
  <2>1. CASE l \in 1 .. Len(m)
    <3>1. k \in 1 .. Len(m)
      BY <2>1, <1>11, <1>2
    <3> QED  BY <2>1, <3>1, <1>11, <1>4 DEF InOrder
  <2>2. CASE \E j \in 1 .. w : l = Len(m) + j
    <3>1. b[l].minor = tcMinorBase + n + 1
      BY <2>2, <1>5, <1>7
    <3>2. PICK i \in 1 .. n + 1 : b[k].minor = Minor(i)
      BY <1>9
    <3> QED  BY <3>1, <3>2 DEF Minor, tcMinorBase
  <2> QED  BY <2>1, <2>2, <1>6
<1> QED  BY <1>3, <1>9, <1>10, <1>11 DEF InOrder, b

\* The same with the number of the class named.
LEMMA InOrderAt ==
  ASSUME NEW p, NEW k \in Nat, NEW n \in Nat, n = k + 1, NEW m, NEW s, InOrder(p, m, k),
         n <= Len(p.classes), Len(p.classes) \in Nat, \A i \in 1 .. n : Width(p, i) \in Nat,
         s = [j \in 1 .. Width(p, n) |-> Sent(p, n, j)]
  PROVE  InOrder(p, m \o s, n)
BY InOrderNext

\* The matches of a tree, as the source numbers them.
LEMMA MatchesInOrder ==
  ASSUME NEW p, Len(p.classes) \in Nat \ {0}, \A i \in 1 .. Len(p.classes) : Width(p, i) \in Nat,
         p.classes \in Seq(Range(p.classes)),
         \A i \in 1 .. Len(p.classes) : DOMAIN p.classes[i].match = 1 .. Width(p, i)
  PROVE  InOrder(p, Matches(p), Len(p.classes))
<1> DEFINE n == Len(p.classes)
           s == [i \in DOMAIN p.classes |->
                  [j \in DOMAIN p.classes[i].match |->
                    [match |-> p.classes[i].match[j], minor |-> Minor(i)]]]
<1>1. n \in Nat \ {0} /\ DOMAIN p.classes = 1 .. n
  OBVIOUS
<1>2. Len(s) = n
  <2>1. s \in [1 .. n -> Range(s)]
    BY <1>1 DEF Range
  <2> QED  BY <2>1, <1>1
<1>3. \A i \in 1 .. n : s[i] = [j \in 1 .. Width(p, i) |-> Sent(p, i, j)]
  BY <1>1 DEF Sent
<1>4. Matches(p) = FlattenSeq(s)
  BY Zenon DEF Matches
<1> HIDE DEF s
<1>5. PICK f : Joined(f, s, n) /\ FlattenSeq(s) = f[n]
  BY <1>1, <1>2, FlattenIs
<1>6. \A i \in 1 .. n : f[i] = IF i = 1 THEN s[i] ELSE f[i - 1] \o s[i]
  BY <1>5, Zenon DEF Joined
<1>7. InOrder(p, <<>>, 0)
  BY DEF InOrder
<1>8. InOrder(p, f[1], 1)
  <2>1. 1 \in 1 .. n /\ 1 = 0 + 1 /\ 0 \in Nat /\ 1 \in Nat
    BY <1>1
  <2>w. /\ 1 <= n /\ n \in Nat /\ \A i \in 1 .. 1 : Width(p, i) \in Nat
        /\ s[1] = [j \in 1 .. Width(p, 1) |-> Sent(p, 1, j)]
    BY <2>1, <1>1, <1>3
  <2>2. InOrder(p, <<>> \o s[1], 1)
    BY <2>1, <2>w, <1>7, InOrderAt, Zenon
  <2>3. s[1] \in Seq(AllSent(p))
    <3>1. \A j \in 1 .. Width(p, 1) : Sent(p, 1, j) \in AllSent(p)
      BY <2>1 DEF AllSent
    <3>2. /\ s[1] = [j \in 1 .. Width(p, 1) |-> Sent(p, 1, j)] /\ Width(p, 1) \in Nat
          /\ 1 \in 1 .. n
      BY <2>1, <2>w
    <3>3. s[1] \in [1 .. Width(p, 1) -> AllSent(p)]
      BY <3>1, <3>2
    <3> QED  BY <3>2, <3>3
  <2>4. <<>> \o s[1] = s[1]
    BY <2>3
  <2>5. f[1] = s[1]
    BY <2>1, <1>6
  <2> QED  BY <2>2, <2>4, <2>5
<1>9. \A i \in 1 .. n : InOrder(p, f[i], i)
  <2> DEFINE K == {i \in Nat : i \in 1 .. n /\ ~ InOrder(p, f[i], i)}
  <2> SUFFICES ASSUME NEW k \in K PROVE FALSE
    OBVIOUS
  <2>1. PICK i \in K : \A y \in K : i <= y
    BY LeastNumber
  <2>2. i \in 2 .. n /\ i - 1 \in 1 .. n
    BY <2>1, <1>8
  <2>3. ~ (i - 1 \in K)
    BY <2>1, <2>2
  <2>4. InOrder(p, f[i - 1], i - 1)
    BY <2>2, <2>3
  <2>5. s[i] = [j \in 1 .. Width(p, i) |-> Sent(p, i, j)] /\ (i - 1) + 1 = i /\ i - 1 \in Nat
    BY <2>2, <1>3
  <2>w. i <= n /\ n \in Nat /\ i \in Nat /\ i = (i - 1) + 1 /\ \A j \in 1 .. i : Width(p, j) \in Nat
    BY <2>2, <1>1
  <2>6. InOrder(p, f[i - 1] \o s[i], i)
    BY <2>4, <2>5, <2>w, InOrderAt, Zenon
  <2>7. f[i] = f[i - 1] \o s[i]
    <3>1. i \in 1 .. n /\ i # 1
      BY <2>2
    <3> QED  BY <3>1, <1>6
  <2> QED  BY <2>1, <2>5, <2>6, <2>7
<1> QED  BY <1>1, <1>4, <1>5, <1>9

----------------------------------------------------------------------------
(* The lines of a batch, by their number.                                   *)

Classes(p) == Len(p.classes)
DefaultOf(p) == Minor(CHOOSE i \in 1 .. Classes(p) : IsDefault(p, i))

\* What the checks of a tree give of an entry.
TreeEntry(p) ==
  /\ Classes(p) \in Nat \ {0} /\ DOMAIN p.classes = 1 .. Classes(p)
  /\ \A i \in 1 .. Classes(p) :
       /\ Width(p, i) \in Nat /\ DOMAIN p.classes[i].match = 1 .. Width(p, i)
       /\ TCAccepts(LeafArgs(p.classes[i]))
  /\ InOrder(p, Matches(p), Classes(p))

\* The lines of htbCommands.
HTBShape(p, R) ==
  LET n == Classes(p)
      m == Matches(p)
  IN /\ \E S : R \in Seq(S)
     /\ Len(R) = 3 + n + n + Len(m)
     /\ R[1] = Reset /\ R[2] = Qdisc("htb", {}, DefaultOf(p)) /\ R[3] = Class(1, 0, p.link, p.link)
     /\ \A i \in 1 .. n : R[3 + i] = Class(Minor(i), 1, p.classes[i].rate, Ceil(p, p.classes[i]))
     /\ \A i \in 1 .. n :
          R[3 + n + i] = Leaf(Minor(i), LeafKind(p.classes[i]), LeafArgs(p.classes[i]))
     /\ \A k \in 1 .. Len(m) : R[3 + n + n + k] = Filter(k, m[k].match, m[k].minor)

\* Where the parts of a batch are in it.
LEMMA FourParts ==
  ASSUME NEW S, NEW a \in Seq(S), NEW b \in Seq(S), NEW c \in Seq(S), NEW d \in Seq(S),
         NEW R, R = a \o b \o c \o d
  PROVE  /\ R \in Seq(S) /\ Len(R) = Len(a) + Len(b) + Len(c) + Len(d)
         /\ \A i \in 1 .. Len(a) : R[i] = a[i]
         /\ \A i \in 1 .. Len(b) : R[Len(a) + i] = b[i]
         /\ \A i \in 1 .. Len(c) : R[Len(a) + Len(b) + i] = c[i]
         /\ \A i \in 1 .. Len(d) : R[Len(a) + Len(b) + Len(c) + i] = d[i]
<1>1. a \o b \in Seq(S) /\ Len(a \o b) = Len(a) + Len(b)
  OBVIOUS
<1>2. a \o b \o c \in Seq(S) /\ Len(a \o b \o c) = Len(a) + Len(b) + Len(c)
  BY <1>1
<1>3. /\ \A i \in 1 .. Len(a) : (a \o b)[i] = a[i]
      /\ \A i \in 1 .. Len(b) : (a \o b)[Len(a) + i] = b[i]
  OBVIOUS
<1> DEFINE ab == a \o b
           abc == ab \o c
<1>4. /\ \A i \in 1 .. Len(ab) : abc[i] = ab[i]
      /\ \A i \in 1 .. Len(c) : abc[Len(ab) + i] = c[i]
  BY <1>1
<1>5. /\ \A i \in 1 .. Len(abc) : (abc \o d)[i] = abc[i]
      /\ \A i \in 1 .. Len(d) : (abc \o d)[Len(abc) + i] = d[i]
      /\ abc \o d \in Seq(S) /\ Len(abc \o d) = Len(abc) + Len(d)
  BY <1>2
<1>6. Len(ab) = Len(a) + Len(b) /\ Len(abc) = Len(a) + Len(b) + Len(c)
  BY <1>1, <1>2
<1>7. Len(a) \in Nat /\ Len(b) \in Nat /\ Len(c) \in Nat /\ Len(d) \in Nat
  OBVIOUS
<1>8. \A i \in 1 .. Len(a) : i \in 1 .. Len(ab) /\ i \in 1 .. Len(abc)
  BY <1>6, <1>7
<1>9. \A i \in 1 .. Len(b) : Len(a) + i \in 1 .. Len(ab) /\ Len(a) + i \in 1 .. Len(abc)
  BY <1>6, <1>7
<1>10. \A i \in 1 .. Len(c) : Len(ab) + i \in 1 .. Len(abc)
  BY <1>6, <1>7
<1> HIDE DEF ab, abc
<1>r. R = abc \o d
  BY DEF abc, ab
<1>11. \A i \in 1 .. Len(a) : (abc \o d)[i] = a[i]
  BY <1>3, <1>4, <1>5, <1>8 DEF ab
<1>12. \A i \in 1 .. Len(b) : (abc \o d)[Len(a) + i] = b[i]
  BY <1>3, <1>4, <1>5, <1>9 DEF ab
<1>13. \A i \in 1 .. Len(c) : (abc \o d)[Len(ab) + i] = c[i]
  BY <1>4, <1>5, <1>10
<1> QED  BY <1>r, <1>5, <1>6, <1>11, <1>12, <1>13

\* htbCommands makes these lines.
LEMMA HTBRowsAre ==
  ASSUME NEW p, TreeEntry(p)
  PROVE  HTBShape(p, HTBRows(p))
<1> DEFINE n == Classes(p)
           m == Matches(p)
           a == <<Reset, Qdisc("htb", {}, DefaultOf(p)), Class(1, 0, p.link, p.link)>>
           b == [i \in 1 .. n |-> Class(Minor(i), 1, p.classes[i].rate, Ceil(p, p.classes[i]))]
           c == [i \in 1 .. n |-> Leaf(Minor(i), LeafKind(p.classes[i]), LeafArgs(p.classes[i]))]
           d == [k \in DOMAIN m |-> Filter(k, m[k].match, m[k].minor)]
           S == {a[1], a[2], a[3]} \cup {b[i] : i \in 1 .. n} \cup {c[i] : i \in 1 .. n}
                \cup {d[k] : k \in DOMAIN m}
           R == a \o b \o c \o d
<1>1. HTBRows(p) = R
  BY Zenon DEF HTBRows, DefaultOf, Classes
<1>2. n \in Nat /\ Len(m) \in Nat /\ DOMAIN m = 1 .. Len(m)
  BY DEF TreeEntry, InOrder
<1>3. a \in Seq(S) /\ Len(a) = 3 /\ a[1] = Reset /\ a[2] = Qdisc("htb", {}, DefaultOf(p))
      /\ a[3] = Class(1, 0, p.link, p.link)
  OBVIOUS
<1>4. b \in Seq(S) /\ Len(b) = n
  <2>1. b \in [1 .. n -> S]
    OBVIOUS
  <2> QED  BY <2>1, <1>2
<1>5. c \in Seq(S) /\ Len(c) = n
  <2>1. c \in [1 .. n -> S]
    OBVIOUS
  <2> QED  BY <2>1, <1>2
<1>6. d \in Seq(S) /\ Len(d) = Len(m)
  <2>1. d \in [1 .. Len(m) -> S]
    BY <1>2
  <2> QED  BY <2>1, <1>2
<1>7. /\ \A i \in 1 .. n : b[i] = Class(Minor(i), 1, p.classes[i].rate, Ceil(p, p.classes[i]))
      /\ \A i \in 1 .. n : c[i] = Leaf(Minor(i), LeafKind(p.classes[i]), LeafArgs(p.classes[i]))
      /\ \A k \in 1 .. Len(m) : d[k] = Filter(k, m[k].match, m[k].minor)
  BY <1>2
<1> HIDE DEF a, b, c, d, S
<1>f. /\ R \in Seq(S) /\ Len(R) = Len(a) + Len(b) + Len(c) + Len(d)
      /\ \A i \in 1 .. Len(a) : R[i] = a[i]
      /\ \A i \in 1 .. Len(b) : R[Len(a) + i] = b[i]
      /\ \A i \in 1 .. Len(c) : R[Len(a) + Len(b) + i] = c[i]
      /\ \A i \in 1 .. Len(d) : R[Len(a) + Len(b) + Len(c) + i] = d[i]
  <2>1. a \in Seq(S) /\ b \in Seq(S) /\ c \in Seq(S) /\ d \in Seq(S)
    BY <1>3, <1>4, <1>5, <1>6
  <2>2. R = a \o b \o c \o d
    OBVIOUS
  <2> HIDE DEF R
  <2> HIDE DEF n, m
  <2> QED  BY <2>1, <2>2, FourParts
<1> HIDE DEF R
<1>8. /\ R \in Seq(S) /\ Len(R) = 3 + n + n + Len(m)
      /\ \A i \in 1 .. 3 : R[i] = a[i]
      /\ \A i \in 1 .. n : R[3 + i] = b[i]
      /\ \A i \in 1 .. n : R[3 + n + i] = c[i]
      /\ \A i \in 1 .. Len(m) : R[3 + n + n + i] = d[i]
  BY <1>3, <1>4, <1>5, <1>6, <1>f
<1>9. R[1] = a[1] /\ R[2] = a[2] /\ R[3] = a[3]
  BY <1>8
<1> QED  BY <1>1, <1>3, <1>7, <1>8, <1>9 DEF HTBShape

\* A netem whose parameters pass validateNetem has all that tc asks of it.
LEMMA NetemAccepted ==
  ASSUME NEW q, Parsed(q), NetemValid(q)
  PROVE  TCAccepts(NetemArgs(q))
<1>1. DOMAIN Needs = {"jitter", "delay_correlation", "loss_correlation", "reorder",
                      "reorder_correlation"}
  BY DEF Needs
<1>2. ASSUME NEW f \in NetemArgs(q) \cap DOMAIN Needs PROVE Needs[f] \in NetemArgs(q)
  <2>1. f \in q.pos
    BY <1>1, <1>2 DEF NetemArgs
  <2>2. Needs[f] \in q.pos
    BY <2>1, <1>2 DEF NetemValid
  <2> QED  BY <2>2 DEF NetemArgs
<1>3. "distribution" \in NetemArgs(q) => "jitter" \in NetemArgs(q)
  BY DEF NetemArgs, NetemValid, Parsed
<1>4. ~ ({"gemodel", "loss"} \subseteq NetemArgs(q))
  BY DEF NetemArgs, NetemValid, Parsed
<1> QED  BY <1>2, <1>3, <1>4 DEF TCAccepts

\* No parameters are taken.
LEMMA NothingAccepted == TCAccepts({})
BY DEF TCAccepts

\* And those of a tbf are.
LEMMA TBFAccepted == TCAccepts(TBFArgs(<<>>))
<1>1. DOMAIN Needs = {"jitter", "delay_correlation", "loss_correlation", "reorder",
                      "reorder_correlation"}
  BY DEF Needs
<1> QED  BY <1>1 DEF TCAccepts, TBFArgs, TBFFields

\* The lists of an entry.
LEMMA Lists ==
  ASSUME NEW p \in Entries
  PROVE  /\ Classes(p) \in Nat /\ DOMAIN p.classes = 1 .. Classes(p)
         /\ p.classes \in Seq(Range(p.classes))
         /\ \A i \in 1 .. Classes(p) :
              Width(p, i) \in Nat /\ DOMAIN p.classes[i].match = 1 .. Width(p, i)
<1>1. PICK C : p.classes \in Seq(C)
  BY EntriesAssumption
<1>2. Classes(p) \in Nat /\ DOMAIN p.classes = 1 .. Classes(p)
  BY <1>1 DEF Classes
<1>3. p.classes \in [1 .. Classes(p) -> Range(p.classes)]
  BY <1>1, <1>2 DEF Range, Classes
<1>4. p.classes \in Seq(Range(p.classes))
  BY <1>2, <1>3
<1>5. ASSUME NEW i \in 1 .. Classes(p)
      PROVE  Width(p, i) \in Nat /\ DOMAIN p.classes[i].match = 1 .. Width(p, i)
  <2>1. PICK M : p.classes[i].match \in Seq(M)
    BY <1>2, EntriesAssumption
  <2> QED  BY <2>1 DEF Width
<1> QED  BY <1>2, <1>4, <1>5

\* What HTBValid says of a tree.
LEMMA ValidTree ==
  ASSUME NEW p \in Entries, Valid(p), p.qdisc = "htb"
  PROVE  /\ TreeEntry(p)
         /\ \A i \in 1 .. Classes(p) : (p.classes[i].default <=> DefaultOf(p) = Minor(i))
<1>1. HTBValid(p)
  BY DEF Valid
<1>2. /\ p.classes # <<>>
      /\ \A i \in DOMAIN p.classes : LeafValid(p.classes[i])
      /\ Cardinality({i \in DOMAIN p.classes : IsDefault(p, i)}) = 1
  BY <1>1, Zenon DEF HTBValid
<1> HIDE DEF Classes
<1>3. /\ Classes(p) \in Nat /\ DOMAIN p.classes = 1 .. Classes(p)
      /\ p.classes \in Seq(Range(p.classes))
      /\ \A i \in 1 .. Classes(p) :
           Width(p, i) \in Nat /\ DOMAIN p.classes[i].match = 1 .. Width(p, i)
  BY Lists
<1>4. Classes(p) # 0
  BY <1>2, <1>3 DEF Classes
<1>5. ASSUME NEW i \in 1 .. Classes(p) PROVE TCAccepts(LeafArgs(p.classes[i]))
  <2>1. CASE p.classes[i].shaping = None
    BY <2>1, NothingAccepted DEF LeafArgs
  <2>2. CASE p.classes[i].shaping # None
    <3>1. NetemValid(p.classes[i].shaping)
      BY <1>2, <1>3, <2>2 DEF LeafValid
    <3>2. Parsed(p.classes[i].shaping)
      BY <1>3, <2>2, EntriesAssumption
    <3> QED  BY <2>2, <3>1, <3>2, NetemAccepted DEF LeafArgs
  <2> QED  BY <2>1, <2>2
<1>6. InOrder(p, Matches(p), Classes(p))
  BY <1>3, <1>4, MatchesInOrder DEF Classes
<1>7. PICK d : {i \in DOMAIN p.classes : IsDefault(p, i)} = {d}
  <2>1. IsFiniteSet({i \in DOMAIN p.classes : IsDefault(p, i)})
    <3>1. IsFiniteSet(1 .. Classes(p))
      BY <1>3, FS_Interval
    <3>2. {i \in DOMAIN p.classes : IsDefault(p, i)} \subseteq 1 .. Classes(p)
      BY <1>3
    <3> QED  BY <3>1, <3>2, FS_Subset
  <2> QED  BY <2>1, <1>2, FS_Singleton
<1>8. d \in 1 .. Classes(p) /\ \A i \in 1 .. Classes(p) : IsDefault(p, i) <=> i = d
  BY <1>3, <1>7
<1>9. DefaultOf(p) = Minor(d)
  <2>1. (CHOOSE i \in 1 .. Classes(p) : IsDefault(p, i)) = d
    BY <1>8
  <2> QED  BY <2>1 DEF DefaultOf
<1>10. \A i \in 1 .. Classes(p) : p.classes[i].default <=> DefaultOf(p) = Minor(i)
  BY <1>3, <1>8, <1>9 DEF IsDefault, Minor, tcMinorBase
<1> QED  BY <1>3, <1>4, <1>5, <1>6, <1>10 DEF TreeEntry

----------------------------------------------------------------------------
(* The kernel line by line.                                                 *)

IsTree(t) == t \in [kind : {t.kind}, par : {t.par}, def : {t.def}, class : {t.class},
                    leaf : {t.leaf}, filter : {t.filter}]

\* What an interface without shaping has.
LEMMA UnshapedIs ==
  /\ IsTree(Unshaped) /\ Unshaped.kind = "default" /\ Unshaped.par = {} /\ Unshaped.def = 0
  /\ DOMAIN Unshaped.class = {} /\ DOMAIN Unshaped.leaf = {} /\ Unshaped.filter = {}
  /\ Unshaped.class = <<>>
BY DEF Unshaped, IsTree

\* A reset leaves the same whatever was there.
Noqueue == [Unshaped EXCEPT !.kind = "noqueue"]

\* It has nothing but the mark that it was reset.
LEMMA NoqueueIs ==
  /\ IsTree(Noqueue) /\ Noqueue.kind = "noqueue" /\ Noqueue.par = {} /\ Noqueue.def = 0
  /\ DOMAIN Noqueue.class = {} /\ DOMAIN Noqueue.leaf = {} /\ Noqueue.filter = {}
  /\ Noqueue.class = <<>>
BY DEF Unshaped, IsTree, Noqueue

\* What a reset does, and that it is taken whatever was there.
LEMMA AppliedReset ==
  ASSUME NEW t
  PROVE  Applied(t, Reset) = Noqueue /\ Accepts(t, Reset)
BY DEF Applied, Accepts, Reset, Noqueue

\* What a deletion does, and that it is taken after a reset.
LEMMA AppliedDelete ==
  ASSUME NEW t
  PROVE  Applied(t, Delete) = Unshaped /\ (t.kind # "default" => Accepts(t, Delete))
BY DEF Applied, Accepts, Delete

\* What a root qdisc does where another kind was.
LEMMA AppliedQdisc ==
  ASSUME NEW t, NEW kind, NEW par, NEW def, t.kind # kind
  PROVE  LET r == Qdisc(kind, par, def)
             u == Applied(t, r)
         IN /\ IsTree(u) /\ u.kind = kind /\ u.par = par /\ u.def = def
            /\ u.class = <<>> /\ DOMAIN u.class = {} /\ DOMAIN u.leaf = {} /\ u.filter = {}
            /\ TCAccepts(par) => Accepts(t, r)
<1> DEFINE r == Qdisc(kind, par, def)
           u == [Unshaped EXCEPT !.kind = kind, !.par = par, !.def = def]
<1>1. r.op = "qdisc" /\ r.kind = kind /\ r.par = par /\ r.def = def
  BY DEF Qdisc
<1>2. Applied(t, r) = u
  BY <1>1 DEF Applied
<1>3. TCAccepts(par) => Accepts(t, r)
  BY <1>1 DEF Accepts
<1>4. /\ IsTree(u) /\ u.kind = kind /\ u.par = par /\ u.def = def
      /\ u.class = <<>> /\ DOMAIN u.class = {} /\ DOMAIN u.leaf = {} /\ u.filter = {}
  <2>1. u \in [kind : {kind}, par : {par}, def : {def}, class : {<<>>}, leaf : {<<>>},
             filter : {{}}]
    BY DEF Unshaped
  <2> HIDE DEF u
  <2> QED  BY <2>1 DEF IsTree
<1> QED  BY <1>2, <1>3, <1>4

\* What a class does, and when it is taken.
LEMMA AppliedClass ==
  ASSUME NEW t, IsTree(t), NEW minor, NEW parent, NEW rate, NEW ceil
  PROVE  LET r == Class(minor, parent, rate, ceil)
             u == Applied(t, r)
         IN /\ IsTree(u) /\ u.kind = t.kind /\ u.def = t.def /\ u.leaf = t.leaf
            /\ u.filter = t.filter
            /\ u.class = Put(t.class, minor, [rate |-> rate, ceil |-> ceil])
            /\ (/\ t.kind = "htb" /\ minor \notin DOMAIN t.class
                /\ parent = 0 \/ parent \in DOMAIN t.class) => Accepts(t, r)
<1> DEFINE r == Class(minor, parent, rate, ceil)
           v == Put(t.class, minor, [rate |-> rate, ceil |-> ceil])
           u == [t EXCEPT !.class = v]
<1>1. r.op = "class" /\ r.minor = minor /\ r.parent = parent /\ r.rate = rate /\ r.ceil = ceil
  BY DEF Class
<1>2. Applied(t, r) = u
  BY <1>1 DEF Applied
<1>3. (/\ t.kind = "htb" /\ minor \notin DOMAIN t.class
       /\ parent = 0 \/ parent \in DOMAIN t.class) => Accepts(t, r)
  BY <1>1 DEF Accepts
<1> HIDE DEF v
<1>4. /\ IsTree(u) /\ u.kind = t.kind /\ u.def = t.def /\ u.leaf = t.leaf
      /\ u.filter = t.filter /\ u.class = v
  BY DEF IsTree
<1> QED  BY <1>2, <1>3, <1>4 DEF v

\* What the leaf of a class does, and when it is taken.
LEMMA AppliedLeaf ==
  ASSUME NEW t, IsTree(t), NEW minor, NEW kind, NEW par
  PROVE  LET r == Leaf(minor, kind, par)
             u == Applied(t, r)
         IN /\ IsTree(u) /\ u.kind = t.kind /\ u.def = t.def /\ u.class = t.class
            /\ u.filter = t.filter
            /\ u.leaf = Put(t.leaf, minor, [kind |-> kind, par |-> par])
            /\ minor \in DOMAIN t.class /\ TCAccepts(par) => Accepts(t, r)
<1> DEFINE r == Leaf(minor, kind, par)
           v == Put(t.leaf, minor, [kind |-> kind, par |-> par])
           u == [t EXCEPT !.leaf = v]
<1>1. r.op = "leaf" /\ r.minor = minor /\ r.kind = kind /\ r.par = par
  BY DEF Leaf
<1>2. Applied(t, r) = u
  BY <1>1 DEF Applied
<1>3. minor \in DOMAIN t.class /\ TCAccepts(par) => Accepts(t, r)
  BY <1>1 DEF Accepts
<1> HIDE DEF v
<1>4. /\ IsTree(u) /\ u.kind = t.kind /\ u.def = t.def /\ u.class = t.class
      /\ u.filter = t.filter /\ u.leaf = v
  BY DEF IsTree
<1> QED  BY <1>2, <1>3, <1>4 DEF v

\* What a filter does, and when it is taken.
LEMMA AppliedFilter ==
  ASSUME NEW t, IsTree(t), NEW prio, NEW match, NEW minor
  PROVE  LET r == Filter(prio, match, minor)
             u == Applied(t, r)
         IN /\ IsTree(u) /\ u.kind = t.kind /\ u.def = t.def /\ u.class = t.class
            /\ u.leaf = t.leaf
            /\ u.filter = t.filter \cup {[prio |-> prio, match |-> match, minor |-> minor]}
            /\ t.kind = "htb" /\ (\A f \in t.filter : f.prio # prio) => Accepts(t, r)
<1> DEFINE r == Filter(prio, match, minor)
           v == t.filter \cup {[prio |-> prio, match |-> match, minor |-> minor]}
           u == [t EXCEPT !.filter = v]
<1>1. r.op = "filter" /\ r.minor = minor /\ r.match = match /\ r.prio = prio
  BY DEF Filter
<1>2. Applied(t, r) = u
  BY <1>1 DEF Applied
<1>3. t.kind = "htb" /\ (\A f \in t.filter : f.prio # prio) => Accepts(t, r)
  BY <1>1 DEF Accepts
<1> HIDE DEF v
<1>4. /\ IsTree(u) /\ u.kind = t.kind /\ u.def = t.def /\ u.class = t.class
      /\ u.leaf = t.leaf /\ u.filter = v
  BY DEF IsTree
<1> QED  BY <1>2, <1>3, <1>4 DEF v

----------------------------------------------------------------------------
(* The tree of a request, after k of its lines.                             *)

ClassOf(p, i)  == [rate |-> p.classes[i].rate, ceil |-> Ceil(p, p.classes[i])]
LeafOf(p, i)   == [kind |-> LeafKind(p.classes[i]), par |-> LeafArgs(p.classes[i])]
FilterOf(p, q) == [prio |-> q, match |-> Matches(p)[q].match, minor |-> Matches(p)[q].minor]

\* The numbers of the lines that make class, leaf and filter.
ClassLine(i)     == 3 + i
LeafLine(p, i)   == 3 + Classes(p) + i
FilterLine(p, q) == 3 + Classes(p) + Classes(p) + q

TreeAfter(t, p, k) ==
  /\ IsTree(t)
  /\ k = 1 => t.kind = "noqueue"
  /\ k >= 2 => t.kind = "htb" /\ t.def = DefaultOf(p)
  /\ DOMAIN t.class = {x \in {1} : k >= 3}
                      \cup {Minor(i) : i \in {j \in 1 .. Classes(p) : ClassLine(j) <= k}}
  /\ k >= 3 => t.class[1] = [rate |-> p.link, ceil |-> p.link]
  /\ \A i \in 1 .. Classes(p) : ClassLine(i) <= k => t.class[Minor(i)] = ClassOf(p, i)
  /\ \A i \in 1 .. Classes(p) :
       LeafLine(p, i) <= k => Minor(i) \in DOMAIN t.leaf /\ t.leaf[Minor(i)] = LeafOf(p, i)
  /\ t.filter = {FilterOf(p, q) : q \in {j \in 1 .. Len(Matches(p)) : FilterLine(p, j) <= k}}

\* Line k + 1 is one of these.
LEMMA WhichLine ==
  ASSUME NEW p, TreeEntry(p), NEW R, HTBShape(p, R), NEW k \in Nat, k < Len(R)
  PROVE  \/ k \in {0, 1, 2}
         \/ \E i \in 1 .. Classes(p) : k + 1 = ClassLine(i)
         \/ \E i \in 1 .. Classes(p) : k + 1 = LeafLine(p, i)
         \/ \E q \in 1 .. Len(Matches(p)) : k + 1 = FilterLine(p, q)
<1>1. Classes(p) \in Nat /\ Len(Matches(p)) \in Nat
  BY DEF TreeEntry, InOrder
<1>2. Len(R) = 3 + Classes(p) + Classes(p) + Len(Matches(p))
  BY DEF HTBShape
<1>3. CASE k + 1 <= 3
  BY <1>3
<1>4. CASE k + 1 > 3 /\ k + 1 <= 3 + Classes(p)
  <2>1. k - 2 \in 1 .. Classes(p) /\ k + 1 = ClassLine(k - 2)
    BY <1>1, <1>4 DEF ClassLine
  <2> QED  BY <2>1
<1>5. CASE k + 1 > 3 + Classes(p) /\ k + 1 <= 3 + Classes(p) + Classes(p)
  <2>1. k - 2 - Classes(p) \in 1 .. Classes(p) /\ k + 1 = LeafLine(p, k - 2 - Classes(p))
    BY <1>1, <1>5 DEF LeafLine
  <2> QED  BY <2>1
<1>6. CASE k + 1 > 3 + Classes(p) + Classes(p)
  <2>1. /\ k - 2 - Classes(p) - Classes(p) \in 1 .. Len(Matches(p))
        /\ k + 1 = FilterLine(p, k - 2 - Classes(p) - Classes(p))
    BY <1>1, <1>2, <1>6 DEF FilterLine
  <2> QED  BY <2>1
<1> QED  BY <1>1, <1>3, <1>4, <1>5, <1>6

\* The kernel takes the next line, and the tree has it then.
LEMMA TreeNext ==
  ASSUME NEW p, TreeEntry(p), NEW R, HTBShape(p, R), NEW t, NEW k \in Nat, k < Len(R),
         k # 0 => TreeAfter(t, p, k)
  PROVE  TreeAfter(Applied(t, R[k + 1]), p, k + 1) /\ Accepts(t, R[k + 1])
<1> DEFINE n == Classes(p)
           N == Len(Matches(p))
           r == R[k + 1]
           u == Applied(t, r)
<1>1. n \in Nat /\ N \in Nat
  BY DEF TreeEntry, InOrder
<1>2. \A i, j \in 1 .. n : Minor(i) # 1 /\ Minor(i) # 0 /\ (Minor(i) = Minor(j) => i = j)
  BY <1>1 DEF Minor, tcMinorBase
<1>3. CASE k = 0
  <2>1. r = Reset
    BY <1>3 DEF HTBShape
  <2>2. u = Noqueue /\ Accepts(t, r)
    BY <2>1, AppliedReset
  <2>3. k + 1 = 1
    BY <1>3
  <2>4. TreeAfter(Noqueue, p, 1)
    BY <1>1, NoqueueIs DEF TreeAfter, ClassLine, LeafLine, FilterLine
  <2> QED  BY <2>2, <2>3, <2>4
<1>4. CASE k = 1
  <2>1. r = Qdisc("htb", {}, DefaultOf(p)) /\ t.kind # "htb"
    BY <1>4 DEF HTBShape, TreeAfter
  <2>2. /\ IsTree(u) /\ u.kind = "htb" /\ u.def = DefaultOf(p)
        /\ DOMAIN u.class = {} /\ u.filter = {} /\ Accepts(t, r)
    BY <2>1, AppliedQdisc, NothingAccepted
  <2>3. k + 1 = 2
    BY <1>4
  <2> HIDE DEF u
  <2>4. TreeAfter(u, p, 2)
    BY <1>1, <2>2, SMTT(30) DEF TreeAfter, ClassLine, LeafLine, FilterLine
  <2> QED  BY <2>2, <2>3, <2>4 DEF u
<1>5. CASE k = 2
  <2>1. r = Class(1, 0, p.link, p.link)
    BY <1>5 DEF HTBShape
  <2>2. IsTree(t) /\ t.kind = "htb" /\ t.def = DefaultOf(p) /\ DOMAIN t.class = {} /\ t.filter = {}
    BY <1>1, <1>5 DEF TreeAfter, ClassLine, FilterLine
  <2>3. /\ IsTree(u) /\ u.kind = "htb" /\ u.def = DefaultOf(p) /\ u.leaf = t.leaf /\ u.filter = {}
        /\ u.class = Put(t.class, 1, [rate |-> p.link, ceil |-> p.link]) /\ Accepts(t, r)
    BY <2>1, <2>2, AppliedClass
  <2>4. DOMAIN u.class = {1} /\ u.class[1] = [rate |-> p.link, ceil |-> p.link]
    <3>1. u.class = Put(t.class, 1, [rate |-> p.link, ceil |-> p.link])
      BY <2>3
    <3> HIDE DEF u, r, n, N
    <3>2. /\ DOMAIN u.class = DOMAIN t.class \cup {1}
          /\ u.class[1] = [rate |-> p.link, ceil |-> p.link]
      BY <3>1 DEF Put
    <3> QED  BY <2>2, <3>2
  <2>5. k + 1 = 3
    BY <1>5
  <2> HIDE DEF u
  <2>6. /\ \A i \in 1 .. n : ~ (ClassLine(i) <= 3) /\ ~ (LeafLine(p, i) <= 3)
        /\ {i \in 1 .. n : ClassLine(i) <= 3} = {} /\ {q \in 1 .. N : FilterLine(p, q) <= 3} = {}
        /\ {x \in {1} : 3 >= 3} = {1}
    BY <1>1 DEF ClassLine, LeafLine, FilterLine
  <2>7. TreeAfter(u, p, 3)
    <3>1. /\ DOMAIN u.class = {x \in {1} : 3 >= 3}
                              \cup {Minor(i) : i \in {j \in 1 .. n : ClassLine(j) <= 3}}
          /\ u.filter = {FilterOf(p, q) : q \in {j \in 1 .. N : FilterLine(p, j) <= 3}}
      BY <2>3, <2>4, <2>6
    <3>2. /\ \A i \in 1 .. n : ClassLine(i) <= 3 => u.class[Minor(i)] = ClassOf(p, i)
          /\ \A i \in 1 .. n :
               LeafLine(p, i) <= 3 => Minor(i) \in DOMAIN u.leaf /\ u.leaf[Minor(i)] = LeafOf(p, i)
      BY <2>6
    <3>3. IsTree(u) /\ u.kind = "htb" /\ u.def = DefaultOf(p) /\ 3 # 1
      BY <2>3
    <3> QED  BY <2>4, <3>1, <3>2, <3>3 DEF TreeAfter
  <2> QED  BY <2>3, <2>5, <2>7 DEF u
<1>6. ASSUME NEW i \in 1 .. n, k + 1 = ClassLine(i)
      PROVE  TreeAfter(u, p, k + 1) /\ Accepts(t, r)
  <2>1. r = Class(Minor(i), 1, p.classes[i].rate, Ceil(p, p.classes[i]))
    BY <1>6 DEF HTBShape, ClassLine
  <2>2. k >= 3 /\ k = 2 + i
    BY <1>1, <1>6 DEF ClassLine
  <2>3. /\ IsTree(t) /\ t.kind = "htb" /\ t.def = DefaultOf(p)
        /\ DOMAIN t.class = {1} \cup {Minor(j) : j \in {h \in 1 .. n : ClassLine(h) <= k}}
        /\ t.class[1] = [rate |-> p.link, ceil |-> p.link]
        /\ \A j \in 1 .. n : ClassLine(j) <= k => t.class[Minor(j)] = ClassOf(p, j)
        /\ t.filter = {}
    BY <1>1, <2>2 DEF TreeAfter, FilterLine
  <2>4. Minor(i) \notin DOMAIN t.class /\ 1 \in DOMAIN t.class
    BY <1>2, <2>2, <2>3 DEF ClassLine
  <2>5. /\ IsTree(u) /\ u.kind = "htb" /\ u.def = DefaultOf(p) /\ u.leaf = t.leaf /\ u.filter = {}
        /\ u.class = Put(t.class, Minor(i), ClassOf(p, i)) /\ Accepts(t, r)
    BY <2>1, <2>3, <2>4, AppliedClass DEF ClassOf
  <2>6. /\ DOMAIN u.class = DOMAIN t.class \cup {Minor(i)} /\ u.class[Minor(i)] = ClassOf(p, i)
        /\ \A y \in DOMAIN t.class : u.class[y] = t.class[y]
    <3>1. u.class = Put(t.class, Minor(i), ClassOf(p, i))
      BY <2>5
    <3> HIDE DEF u, r, n, N
    <3>2. /\ DOMAIN u.class = DOMAIN t.class \cup {Minor(i)} /\ u.class[Minor(i)] = ClassOf(p, i)
          /\ \A y \in DOMAIN t.class : y # Minor(i) => u.class[y] = t.class[y]
      BY <3>1 DEF Put
    <3> QED  BY <2>4, <3>2
  <2> HIDE DEF u
  <2>7. DOMAIN u.class = {1} \cup {Minor(j) : j \in {h \in 1 .. n : ClassLine(h) <= k + 1}}
    <3>1. {h \in 1 .. n : ClassLine(h) <= k + 1} = {h \in 1 .. n : ClassLine(h) <= k} \cup {i}
      BY <1>1, <2>2 DEF ClassLine
    <3> QED  BY <2>3, <2>6, <3>1
  <2>8. \A j \in 1 .. n : ClassLine(j) <= k + 1 => u.class[Minor(j)] = ClassOf(p, j)
    <3> SUFFICES ASSUME NEW j \in 1 .. n, ClassLine(j) <= k + 1
                 PROVE  u.class[Minor(j)] = ClassOf(p, j)
      OBVIOUS
    <3>1. CASE j = i
      BY <3>1, <2>6
    <3>2. CASE j # i
      <4>1. ClassLine(j) <= k
        BY <3>2, <2>2, <1>1 DEF ClassLine
      <4>2. Minor(j) \in DOMAIN t.class
        BY <4>1, <2>3
      <4> QED  BY <4>1, <4>2, <2>3, <2>6
    <3> QED  BY <3>1, <3>2
  <2>9. /\ \A j \in 1 .. n : ~ (LeafLine(p, j) <= k + 1)
        /\ {j \in 1 .. N : FilterLine(p, j) <= k + 1} = {}
    BY <1>1, <2>2, SMTT(30) DEF LeafLine, FilterLine
  <2>10. k + 1 # 1 /\ k + 1 >= 2 /\ k + 1 >= 3
    BY <2>2
  <2>11. u.class[1] = t.class[1]
    BY <2>4, <2>6
  <2> QED  BY <2>3, <2>5, <2>7, <2>8, <2>9, <2>10, <2>11 DEF TreeAfter
<1>7. ASSUME NEW i \in 1 .. n, k + 1 = LeafLine(p, i)
      PROVE  TreeAfter(u, p, k + 1) /\ Accepts(t, r)
  <2>1. r = Leaf(Minor(i), LeafKind(p.classes[i]), LeafArgs(p.classes[i]))
    BY <1>7 DEF HTBShape, LeafLine
  <2>2. k = 2 + n + i
    BY <1>1, <1>7 DEF LeafLine
  <2>3. /\ IsTree(t) /\ TreeAfter(t, p, k) /\ t.filter = {}
        /\ TCAccepts(LeafArgs(p.classes[i]))
    <3>1. k # 0 /\ {j \in 1 .. N : FilterLine(p, j) <= k} = {}
      BY <1>1, <2>2 DEF FilterLine
    <3>2. TCAccepts(LeafArgs(p.classes[i]))
      BY DEF TreeEntry
    <3> QED  BY <3>1, <3>2 DEF TreeAfter
  <2>4. /\ k >= 3 /\ k + 1 >= 3
        /\ \A j \in 1 .. n : ClassLine(j) <= k /\ ClassLine(j) <= k + 1
    BY <1>1, <2>2 DEF ClassLine
  <2>5. Minor(i) \in DOMAIN t.class
    BY <2>3, <2>4 DEF TreeAfter
  <2>6. /\ IsTree(u) /\ u.kind = t.kind /\ u.def = t.def /\ u.class = t.class /\ u.filter = {}
        /\ u.leaf = Put(t.leaf, Minor(i), LeafOf(p, i)) /\ Accepts(t, r)
    BY <2>1, <2>3, <2>5, AppliedLeaf DEF LeafOf
  <2>7. /\ DOMAIN u.leaf = DOMAIN t.leaf \cup {Minor(i)} /\ u.leaf[Minor(i)] = LeafOf(p, i)
        /\ \A y \in DOMAIN t.leaf : y # Minor(i) => u.leaf[y] = t.leaf[y]
    <3>1. u.leaf = Put(t.leaf, Minor(i), LeafOf(p, i))
      BY <2>6
    <3> HIDE DEF u, r, n, N
    <3> QED  BY <3>1 DEF Put
  <2> HIDE DEF u
  <2>8. ASSUME NEW j \in 1 .. n, LeafLine(p, j) <= k + 1
        PROVE  Minor(j) \in DOMAIN u.leaf /\ u.leaf[Minor(j)] = LeafOf(p, j)
    <3>1. CASE j = i
      BY <3>1, <2>7
    <3>2. CASE j # i
      <4>1. LeafLine(p, j) <= k /\ Minor(j) # Minor(i)
        BY <3>2, <2>2, <2>8, <1>1, <1>2, SMTT(30) DEF LeafLine
      <4> QED  BY <4>1, <2>3, <2>7 DEF TreeAfter
    <3> QED  BY <3>1, <3>2
  <2>9. {j \in 1 .. N : FilterLine(p, j) <= k + 1} = {}
    BY <1>1, <2>2, SMTT(30) DEF FilterLine
  <2>10. {j \in 1 .. n : ClassLine(j) <= k} = {j \in 1 .. n : ClassLine(j) <= k + 1}
    BY <2>4
  <2>11. u.kind = "htb" /\ u.def = DefaultOf(p) /\ k + 1 # 1
    BY <2>3, <2>4, <2>6 DEF TreeAfter
  <2>12. DOMAIN u.class = {x \in {1} : k + 1 >= 3}
                          \cup {Minor(j) : j \in {h \in 1 .. n : ClassLine(h) <= k + 1}}
    BY <2>3, <2>4, <2>6, <2>10 DEF TreeAfter
  <2> QED  BY <2>3, <2>4, <2>6, <2>8, <2>9, <2>11, <2>12 DEF TreeAfter
<1>8. ASSUME NEW q \in 1 .. N, k + 1 = FilterLine(p, q)
      PROVE  TreeAfter(u, p, k + 1) /\ Accepts(t, r)
  <2>1. r = Filter(q, Matches(p)[q].match, Matches(p)[q].minor)
    BY <1>8 DEF HTBShape, FilterLine
  <2>2. k = 2 + n + n + q
    BY <1>1, <1>8, SMTT(30) DEF FilterLine
  <2>3. /\ k >= 3 /\ k + 1 >= 3
        /\ \A j \in 1 .. n : ClassLine(j) <= k /\ ClassLine(j) <= k + 1
        /\ \A j \in 1 .. n : LeafLine(p, j) <= k /\ LeafLine(p, j) <= k + 1
    BY <1>1, <2>2, SMTT(30) DEF ClassLine, LeafLine
  <2>4. TreeAfter(t, p, k) /\ IsTree(t) /\ t.kind = "htb"
    BY <2>3 DEF TreeAfter
  <2>5. t.filter = {FilterOf(p, j) : j \in {h \in 1 .. N : FilterLine(p, h) <= k}}
    BY <2>4 DEF TreeAfter
  <2>6. \A f \in t.filter : f.prio # q
    BY <1>1, <2>2, <2>5 DEF FilterLine, FilterOf
  <2>7. /\ IsTree(u) /\ u.kind = t.kind /\ u.def = t.def /\ u.class = t.class /\ u.leaf = t.leaf
        /\ u.filter = t.filter \cup {FilterOf(p, q)} /\ Accepts(t, r)
    BY <2>1, <2>4, <2>6, AppliedFilter DEF FilterOf
  <2> HIDE DEF u
  <2>8. u.filter = {FilterOf(p, j) : j \in {h \in 1 .. N : FilterLine(p, h) <= k + 1}}
    <3>1. {h \in 1 .. N : FilterLine(p, h) <= k + 1}
            = {h \in 1 .. N : FilterLine(p, h) <= k} \cup {q}
      BY <1>1, <2>2, SMTT(30) DEF FilterLine
    <3> QED  BY <2>5, <2>7, <3>1
  <2>9. {j \in 1 .. n : ClassLine(j) <= k} = {j \in 1 .. n : ClassLine(j) <= k + 1}
    BY <2>3
  <2>10. u.kind = "htb" /\ u.def = DefaultOf(p) /\ k + 1 # 1
    BY <2>3, <2>4, <2>7 DEF TreeAfter
  <2>11. DOMAIN u.class = {x \in {1} : k + 1 >= 3}
                          \cup {Minor(j) : j \in {h \in 1 .. n : ClassLine(h) <= k + 1}}
    BY <2>3, <2>4, <2>7, <2>9 DEF TreeAfter
  <2> QED  BY <2>3, <2>4, <2>7, <2>8, <2>10, <2>11 DEF TreeAfter
<1> QED  BY <1>3, <1>4, <1>5, <1>6, <1>7, <1>8, WhichLine

----------------------------------------------------------------------------
(* Batches.                                                                 *)

\* What a batch is made for, and the lines there are.
Acts  == {DelQdisc} \cup {p \in Entries : Valid(p)}
BatchLines == UNION {Range(Rows(a)) : a \in Acts}
ArgsOf(p) == IF p.qdisc = "tbf" THEN TBFArgs(p) ELSE NetemArgs(p)

\* The three kinds of batch.
LEMMA ActKinds ==
  ASSUME NEW a \in Acts
  PROVE  \/ a = DelQdisc /\ Rows(a) = <<Reset, Delete>>
         \/ a \in Entries /\ Valid(a) /\ a.qdisc = "htb" /\ Rows(a) = HTBRows(a)
         \/ /\ a \in Entries /\ Valid(a) /\ a.qdisc \in {"netem", "tbf"}
            /\ Rows(a) = <<Reset, Qdisc(a.qdisc, ArgsOf(a), 0)>>
<1>1. CASE a = DelQdisc
  BY <1>1 DEF Rows
<1>2. CASE a # DelQdisc
  <2>1. a \in Entries /\ Valid(a)
    BY <1>2 DEF Acts
  <2>2. a.qdisc \in {"htb", "netem", "tbf"}
    BY <2>1 DEF Valid
  <2> QED  BY <1>2, <2>1, <2>2 DEF Rows, ClasslessRows, ArgsOf
<1> QED  BY <1>1, <1>2

\* A batch of a valid request is a list of at least two lines, the first a reset.
LEMMA RowsTyped ==
  ASSUME NEW a \in Acts
  PROVE  Rows(a) \in Seq(BatchLines) /\ Len(Rows(a)) >= 2 /\ Rows(a)[1] = Reset
<1>1. \E S : Rows(a) \in Seq(S) /\ Len(Rows(a)) >= 2 /\ Rows(a)[1] = Reset
  <2>1. CASE Rows(a) = <<Reset, Delete>>
    <3> DEFINE q == Delete
    <3> HIDE DEF q
    <3>1. <<Reset, q>> \in Seq({Reset, q}) /\ Len(<<Reset, q>>) = 2 /\ <<Reset, q>>[1] = Reset
      OBVIOUS
    <3>2. Rows(a) = <<Reset, q>>
      BY <2>1 DEF q
    <3>3. Rows(a) \in Seq({Reset, q}) /\ Len(Rows(a)) >= 2 /\ Rows(a)[1] = Reset
      BY <3>1, <3>2
    <3> QED  BY <3>3, Zenon
  <2>2. CASE Rows(a) = <<Reset, Qdisc(a.qdisc, ArgsOf(a), 0)>>
    <3> DEFINE q == Qdisc(a.qdisc, ArgsOf(a), 0)
    <3> HIDE DEF q
    <3>1. <<Reset, q>> \in Seq({Reset, q}) /\ Len(<<Reset, q>>) = 2 /\ <<Reset, q>>[1] = Reset
      OBVIOUS
    <3>2. Rows(a) = <<Reset, q>>
      BY <2>2 DEF q
    <3>3. Rows(a) \in Seq({Reset, q}) /\ Len(Rows(a)) >= 2 /\ Rows(a)[1] = Reset
      BY <3>1, <3>2
    <3> QED  BY <3>3, Zenon
  <2>3. CASE a \in Entries /\ Valid(a) /\ a.qdisc = "htb" /\ Rows(a) = HTBRows(a)
    <3>1. TreeEntry(a)
      BY <2>3, ValidTree
    <3>2. HTBShape(a, Rows(a))
      BY <2>3, <3>1, HTBRowsAre
    <3>3. Classes(a) \in Nat /\ Len(Matches(a)) \in Nat
      BY <3>1 DEF TreeEntry, InOrder
    <3>4. Len(Rows(a)) >= 2 /\ Rows(a)[1] = Reset
      BY <3>2, <3>3 DEF HTBShape
    <3> QED  BY <3>2, <3>4 DEF HTBShape
  <2> QED  BY <2>1, <2>2, <2>3, ActKinds
<1>2. PICK S : Rows(a) \in Seq(S) /\ Len(Rows(a)) >= 2 /\ Rows(a)[1] = Reset
  BY <1>1
<1>3. Len(Rows(a)) \in Nat /\ DOMAIN Rows(a) = 1 .. Len(Rows(a))
  BY <1>2
<1>4. Rows(a) \in [1 .. Len(Rows(a)) -> BatchLines]
  BY <1>2, <1>3 DEF BatchLines, Range
<1>5. Rows(a) \in Seq(BatchLines)
  BY <1>3, <1>4
<1> QED  BY <1>2, <1>5

\* One more line, whatever was there before the first.
LEMMA AfterLine ==
  ASSUME NEW a \in Acts, NEW t, NEW k \in Nat, k < Len(Rows(a)),
         k # 0 => t = After(Rows(a), k)
  PROVE  After(Rows(a), k + 1) = Applied(t, Rows(a)[k + 1])
<1>1. Rows(a) \in Seq(BatchLines) /\ Rows(a)[1] = Reset /\ Len(Rows(a)) \in Nat
  BY RowsTyped
<1>2. After(Rows(a), k + 1) = Applied(After(Rows(a), k), Rows(a)[k + 1])
  BY <1>1, AfterNext
<1>3. k = 0 => Rows(a)[k + 1] = Reset
  BY <1>1
<1>4. k = 0 => Applied(After(Rows(a), k), Reset) = Applied(t, Reset)
  BY AppliedReset
<1> QED  BY <1>2, <1>3, <1>4

\* The first line always leaves the same.
LEMMA AfterFirst ==
  ASSUME NEW a \in Acts
  PROVE  After(Rows(a), 1) = Noqueue
<1>1. After(Rows(a), 0 + 1) = Applied(Unshaped, Rows(a)[0 + 1]) /\ 0 < Len(Rows(a))
  BY RowsTyped, AfterLine
<1> QED  BY <1>1, RowsTyped, AppliedReset

\* The tree that a batch of htbCommands has built after k lines.
LEMMA TreeBuilt ==
  ASSUME NEW p \in Entries, Valid(p), p.qdisc = "htb",
         NEW n \in 1 .. Len(Rows(p))
  PROVE  TreeAfter(After(Rows(p), n), p, n)
<1>1. p \in Acts /\ TreeEntry(p) /\ Rows(p) = HTBRows(p) /\ HTBShape(p, Rows(p))
  <2>1. p \in Acts /\ TreeEntry(p) /\ p # DelQdisc
    BY ValidTree DEF Acts, DelQdisc
  <2> QED  BY <2>1, HTBRowsAre DEF Rows
<1>2. Len(Rows(p)) \in Nat
  BY <1>1, RowsTyped
<1> DEFINE K == {i \in Nat : i \in 1 .. Len(Rows(p)) /\ ~ TreeAfter(After(Rows(p), i), p, i)}
<1> SUFFICES ASSUME n \in K PROVE FALSE
  BY <1>2
<1>3. PICK i \in K : \A y \in K : i <= y
  BY LeastNumber
<1>4. i \in 1 .. Len(Rows(p)) /\ i - 1 \in Nat /\ i - 1 < Len(Rows(p)) /\ (i - 1) + 1 = i
  BY <1>2, <1>3
<1>5. i - 1 # 0 => TreeAfter(After(Rows(p), i - 1), p, i - 1)
  <2>1. ~ (i - 1 \in K)
    BY <1>3, <1>4
  <2> QED  BY <1>2, <1>4, <2>1
<1> DEFINE t == After(Rows(p), i - 1)
<1>6. TreeAfter(Applied(t, Rows(p)[(i - 1) + 1]), p, (i - 1) + 1)
  BY <1>1, <1>4, <1>5, TreeNext
<1>7. After(Rows(p), (i - 1) + 1) = Applied(t, Rows(p)[(i - 1) + 1])
  BY <1>1, <1>4, AfterLine
<1> QED  BY <1>3, <1>4, <1>6, <1>7

\* The arguments of a request without classes are those tc asks for.
LEMMA ArgsAccepted ==
  ASSUME NEW p \in Entries, Valid(p), p.qdisc \in {"netem", "tbf"}
  PROVE  TCAccepts(ArgsOf(p))
<1>1. CASE p.qdisc = "tbf"
  BY <1>1, TBFAccepted DEF ArgsOf, TBFArgs
<1>2. CASE p.qdisc = "netem"
  BY <1>2, NetemAccepted, EntriesAssumption DEF ArgsOf, Valid
<1> QED  BY <1>1, <1>2

\* The kernel takes the next line of a batch, whatever was there before the first.
LEMMA LineAccepted ==
  ASSUME NEW a \in Acts, NEW t, NEW k \in Nat, k < Len(Rows(a)),
         k # 0 => t = After(Rows(a), k)
  PROVE  Accepts(t, Rows(a)[k + 1])
<1>1. CASE k = 0
  BY <1>1, RowsTyped, AppliedReset
<1>2. CASE k # 0 /\ Rows(a) = <<Reset, Delete>>
  <2>1. k = 1 /\ Rows(a)[2] = Delete
    BY <1>2
  <2>2. t.kind # "default"
    BY <1>2, <2>1, AfterFirst, NoqueueIs
  <2>3. Accepts(t, Delete)
    BY <2>2, AppliedDelete
  <2> QED  BY <2>1, <2>3
<1>3. CASE /\ k # 0 /\ a \in Entries /\ Valid(a) /\ a.qdisc \in {"netem", "tbf"}
           /\ Rows(a) = <<Reset, Qdisc(a.qdisc, ArgsOf(a), 0)>>
  <2>1. k = 1 /\ Rows(a)[2] = Qdisc(a.qdisc, ArgsOf(a), 0)
    BY <1>3
  <2>2. t.kind # a.qdisc
    BY <1>3, <2>1, AfterFirst, NoqueueIs
  <2>3. TCAccepts(ArgsOf(a))
    BY <1>3, ArgsAccepted
  <2>4. Accepts(t, Qdisc(a.qdisc, ArgsOf(a), 0))
    BY <2>2, <2>3, AppliedQdisc
  <2> QED  BY <2>1, <2>4
<1>4. CASE k # 0 /\ a \in Entries /\ Valid(a) /\ a.qdisc = "htb" /\ Rows(a) = HTBRows(a)
  <2>1. TreeEntry(a) /\ HTBShape(a, Rows(a))
    BY <1>4, ValidTree, HTBRowsAre
  <2>2. k \in 1 .. Len(Rows(a))
    BY <1>4, RowsTyped
  <2>3. TreeAfter(t, a, k)
    BY <1>4, <2>2, TreeBuilt
  <2> QED  BY <2>1, <2>3, TreeNext
<1> QED  BY <1>1, <1>2, <1>3, <1>4, ActKinds

\* What a batch leaves when it is through.
LEMMA Through ==
  ASSUME NEW a \in Acts
  PROVE  LET t == After(Rows(a), Len(Rows(a))) IN
         /\ a = DelQdisc => t = Unshaped
         /\ a # DelQdisc /\ a.qdisc = "htb" => TreeAfter(t, a, Len(Rows(a)))
         /\ a # DelQdisc /\ a.qdisc # "htb" =>
              /\ t.kind = a.qdisc /\ t.par = ArgsOf(a) /\ DOMAIN t.class = {}
              /\ a.qdisc \in {"netem", "tbf"} /\ TCAccepts(ArgsOf(a))
<1> DEFINE t == After(Rows(a), Len(Rows(a)))
<1>1. CASE a = DelQdisc
  <2>1. Rows(a) = <<Reset, Delete>> /\ Len(Rows(a)) = 2 /\ Rows(a)[2] = Delete
    BY <1>1 DEF Rows
  <2>2. 1 \in Nat /\ 1 < Len(Rows(a)) /\ 1 # 0 /\ 2 = 1 + 1
    BY <2>1
  <2>3. After(Rows(a), 1 + 1) = Applied(After(Rows(a), 1), Rows(a)[1 + 1])
    BY <2>2, AfterLine
  <2>4. t = Unshaped
    BY <2>1, <2>2, <2>3, AppliedDelete
  <2> QED  BY <1>1, <2>4
<1>2. CASE a # DelQdisc /\ a.qdisc = "htb"
  <2>1. Len(Rows(a)) \in 1 .. Len(Rows(a))
    BY RowsTyped
  <2>2. TreeAfter(t, a, Len(Rows(a)))
    BY <1>2, <2>1, TreeBuilt DEF Acts
  <2> QED  BY <1>2, <2>2
<1>3. CASE a # DelQdisc /\ a.qdisc # "htb"
  <2>1. /\ a \in Entries /\ Valid(a) /\ a.qdisc \in {"netem", "tbf"}
        /\ Rows(a) = <<Reset, Qdisc(a.qdisc, ArgsOf(a), 0)>>
    BY <1>3, ActKinds
  <2>2. Len(Rows(a)) = 2 /\ Rows(a)[2] = Qdisc(a.qdisc, ArgsOf(a), 0)
    BY <2>1
  <2>3. 1 \in Nat /\ 1 < Len(Rows(a)) /\ 1 # 0 /\ 2 = 1 + 1
    BY <2>2
  <2>4. After(Rows(a), 1 + 1) = Applied(After(Rows(a), 1), Rows(a)[1 + 1])
    BY <2>3, AfterLine
  <2>5. t = Applied(Noqueue, Qdisc(a.qdisc, ArgsOf(a), 0))
    BY <2>2, <2>3, <2>4, AfterFirst
  <2>6. Noqueue.kind # a.qdisc
    BY <2>1, NoqueueIs
  <2> HIDE DEF t
  <2>7. t.kind = a.qdisc /\ t.par = ArgsOf(a) /\ DOMAIN t.class = {}
    BY <2>5, <2>6, AppliedQdisc
  <2>8. TCAccepts(ArgsOf(a))
    BY <2>1, ArgsAccepted
  <2> QED  BY <1>3, <2>1, <2>7, <2>8 DEF t
<1> QED  BY <1>1, <1>2, <1>3

----------------------------------------------------------------------------
(* Reading it back.                                                         *)

\* A strictly increasing function on 1 .. n with values up to n is the identity.
Rising(h, n) == /\ h \in [1 .. n -> 1 .. n]
                /\ \A i, j \in 1 .. n : i < j => h[i] < h[j]

\* Each of its values is at least its place.
LEMMA RisesAbove ==
  ASSUME NEW n \in Nat, NEW h, Rising(h, n), NEW k \in 1 .. n
  PROVE  h[k] >= k
<1> DEFINE K == {i \in Nat : i \in 1 .. n /\ ~ (h[i] >= i)}
<1> SUFFICES ASSUME k \in K PROVE FALSE
  OBVIOUS
<1>1. PICK i \in K : \A y \in K : i <= y
  BY LeastNumber
<1>2. i \in 1 .. n /\ h[i] \in 1 .. n /\ h[i] < i
  BY <1>1 DEF Rising
<1>3. i - 1 \in 1 .. n /\ i - 1 < i /\ i - 1 \in Nat
  BY <1>2
<1>4. ~ (i - 1 \in K)
  BY <1>1, <1>3
<1>5. h[i - 1] >= i - 1 /\ h[i - 1] < h[i] /\ h[i - 1] \in 1 .. n
  BY <1>2, <1>3, <1>4 DEF Rising
<1> QED  BY <1>2, <1>3, <1>5

\* And at most, seen from the other end.
LEMMA RisingIsIdentity ==
  ASSUME NEW n \in Nat, NEW h, Rising(h, n), NEW k \in 1 .. n
  PROVE  h[k] = k
<1> DEFINE g == [i \in 1 .. n |-> n + 1 - h[n + 1 - i]]
<1>1. \A i \in 1 .. n : n + 1 - i \in 1 .. n
  OBVIOUS
<1>2. \A i \in 1 .. n : h[i] \in 1 .. n
  BY DEF Rising
<1>3. \A i \in 1 .. n : g[i] = n + 1 - h[n + 1 - i] /\ g[i] \in 1 .. n
  BY <1>1, <1>2
<1>4. ASSUME NEW i \in 1 .. n, NEW j \in 1 .. n, i < j PROVE g[i] < g[j]
  <2>1. n + 1 - j < n + 1 - i
    BY <1>4
  <2>2. h[n + 1 - j] < h[n + 1 - i]
    BY <1>1, <2>1 DEF Rising
  <2> QED  BY <1>1, <1>2, <1>3, <2>2
<1>5. Rising(g, n)
  BY <1>3, <1>4 DEF Rising
<1> HIDE DEF g
<1>6. h[k] >= k /\ g[n + 1 - k] >= n + 1 - k
  BY <1>1, <1>5, RisesAbove
<1>7. g[n + 1 - k] = n + 1 - h[k]
  <2>1. n + 1 - (n + 1 - k) = k
    OBVIOUS
  <2> QED  BY <1>1, <1>3, <2>1
<1> QED  BY <1>2, <1>6, <1>7

\* The filters of priorities o + 1 to o + w, and these in order.
Block(p, o, w)  == {FilterOf(p, q) : q \in o + 1 .. o + w}
Sorted(p, o, w) == [j \in 1 .. w |-> FilterOf(p, o + j)]

\* There is one way to order them by priority.
LEMMA PriorityIs ==
  ASSUME NEW p, NEW o \in Nat, NEW w \in Nat
  PROVE  ByPriority(Block(p, o, w)) = Sorted(p, o, w)
<1> DEFINE S == {FilterOf(p, q) : q \in o + 1 .. o + w}
           g == [j \in 1 .. w |-> FilterOf(p, o + j)]
<1>1. \A q \in o + 1 .. o + w : FilterOf(p, q).prio = q
  BY DEF FilterOf
<1>2. \A j \in 1 .. w : o + j \in o + 1 .. o + w
  OBVIOUS
<1>3. \A q \in o + 1 .. o + w : q - o \in 1 .. w /\ o + (q - o) = q
  OBVIOUS
<1>4. Cardinality(S) = w
  <2> DEFINE f == [q \in o + 1 .. o + w |-> FilterOf(p, q)]
  <2>1. f \in Bijection(o + 1 .. o + w, S)
    <3>1. f \in [o + 1 .. o + w -> S]
      OBVIOUS
    <3>2. \A a, b \in o + 1 .. o + w : f[a] = f[b] => a = b
      BY <1>1
    <3>3. \A y \in S : \E q \in o + 1 .. o + w : f[q] = y
      OBVIOUS
    <3> HIDE DEF f, S
    <3> QED  BY <3>1, <3>2, <3>3 DEF Bijection, Injection, Surjection, IsInjective
  <2>2. IsFiniteSet(o + 1 .. o + w) /\ Cardinality(o + 1 .. o + w) = w
    BY FS_Interval
  <2>3. ExistsBijection(o + 1 .. o + w, S)
    BY <2>1, Zenon DEF ExistsBijection
  <2> HIDE DEF f, S
  <2> QED  BY <2>2, <2>3, FS_Bijection
<1>5. /\ g \in [1 .. w -> S] /\ DOMAIN g = 1 .. w
      /\ \A i, j \in DOMAIN g : i < j => g[i].prio < g[j].prio
  <2>1. \A j \in 1 .. w : g[j] = FilterOf(p, o + j) /\ g[j] \in S /\ g[j].prio = o + j
    BY <1>1, <1>2
  <2> QED  BY <2>1
<1>6. ASSUME NEW s \in [1 .. w -> S], \A i, j \in DOMAIN s : i < j => s[i].prio < s[j].prio
      PROVE  s = g
  <2> DEFINE h == [i \in 1 .. w |-> s[i].prio - o]
  <2>1. \A i \in 1 .. w : s[i].prio \in o + 1 .. o + w /\ s[i] = FilterOf(p, s[i].prio)
    <3> TAKE i \in 1 .. w
    <3>1. PICK q \in o + 1 .. o + w : s[i] = FilterOf(p, q)
      OBVIOUS
    <3> QED  BY <3>1, <1>1
  <2>2. \A i \in 1 .. w : h[i] = s[i].prio - o /\ h[i] \in 1 .. w
    BY <2>1, <1>3
  <2>3. ASSUME NEW i \in 1 .. w, NEW j \in 1 .. w, i < j PROVE h[i] < h[j]
    BY <1>6, <2>1, <2>2, <2>3, SMTT(30)
  <2>4. Rising(h, w)
    BY <2>2, <2>3 DEF Rising
  <2> HIDE DEF h
  <2>5. \A i \in 1 .. w : h[i] = i
    BY <2>4, RisingIsIdentity
  <2>6. \A i \in 1 .. w : s[i] = g[i]
    BY <2>1, <2>2, <2>5, SMTT(30)
  <2> QED  BY <1>5, <2>6
<1> HIDE DEF S, g
<1>7. ByPriority(S) = g
  BY <1>4, <1>5, <1>6 DEF ByPriority
<1> QED  BY <1>7 DEF S, g, Block, Sorted

\* The filters of a tree, and those of them that send to class i, as they read back.
Filters(p) == {FilterOf(p, q) : q \in 1 .. Len(Matches(p))}
OfClass(F, minor) ==
  LET order == ByPriority({f \in F : f.minor = minor})
  IN [k \in DOMAIN order |-> order[k].match]

\* These are the matches of the class, in their order.
LEMMA MineAre ==
  ASSUME NEW p, TreeEntry(p), NEW i \in 1 .. Classes(p)
  PROVE  OfClass(Filters(p), Minor(i)) = [j \in 1 .. Width(p, i) |-> p.classes[i].match[j]]
<1> DEFINE m == Matches(p)
           w == Width(p, i)
<1>1. /\ Len(m) \in Nat /\ w \in Nat
  BY DEF TreeEntry, InOrder
<1>2. PICK o \in Nat :
        /\ o + w <= Len(m)
        /\ \A j \in 1 .. w : m[o + j] = Sent(p, i, j)
        /\ \A k \in 1 .. Len(m) : m[k].minor = Minor(i) => k \in o + 1 .. o + w
  BY DEF TreeEntry, InOrder
<1> DEFINE S == {FilterOf(p, q) : q \in o + 1 .. o + w}
<1>3. \A q \in 1 .. Len(m) : FilterOf(p, q).minor = m[q].minor
  BY DEF FilterOf
<1>4. \A q \in o + 1 .. o + w : q \in 1 .. Len(m) /\ m[q].minor = Minor(i)
  <2> TAKE q \in o + 1 .. o + w
  <2>1. q - o \in 1 .. w /\ o + (q - o) = q /\ q \in 1 .. Len(m)
    BY <1>1, <1>2
  <2>2. m[q] = Sent(p, i, q - o)
    BY <1>2, <2>1
  <2> QED  BY <2>1, <2>2 DEF Sent
<1>5. {f \in Filters(p) : f.minor = Minor(i)} = S
  BY <1>2, <1>3, <1>4 DEF Filters
<1>6. ByPriority(S) = [j \in 1 .. w |-> FilterOf(p, o + j)]
  <2>1. ByPriority(Block(p, o, w)) = Sorted(p, o, w)
    BY <1>1, PriorityIs
  <2> QED  BY <2>1 DEF Block, Sorted
<1> DEFINE order == ByPriority(S)
<1>7. DOMAIN order = 1 .. w /\ \A j \in 1 .. w : order[j].match = p.classes[i].match[j]
  <2>1. DOMAIN order = 1 .. w /\ \A j \in 1 .. w : order[j] = FilterOf(p, o + j)
    BY <1>6
  <2> HIDE DEF order
  <2>2. \A j \in 1 .. w : FilterOf(p, o + j).match = Sent(p, i, j).match
    BY <1>2 DEF FilterOf
  <2>3. \A j \in 1 .. w : Sent(p, i, j).match = p.classes[i].match[j]
    BY DEF Sent
  <2> QED  BY <2>1, <2>2, <2>3
<1> HIDE DEF order
<1>8. [k \in DOMAIN order |-> order[k].match] = [j \in 1 .. w |-> p.classes[i].match[j]]
  BY <1>7
<1> HIDE DEF S
<1> QED  BY <1>5, <1>8 DEF order, OfClass

\* The parameters of a netem that tc prints are all of those set but the distribution.
LEMMA OptionsOf ==
  ASSUME NEW q, q.kind = "netem", TCAccepts(q.par)
  PROVE  ReadOptions(q) = q.par \ {"distribution"}
<1>1. DOMAIN Needs = {"jitter", "delay_correlation", "loss_correlation", "reorder",
                      "reorder_correlation"}
  BY DEF Needs
<1>2. DOMAIN Under = {"jitter", "delay_correlation", "loss_correlation", "reorder_correlation"}
  BY DEF Under
<1>3. \A f \in q.par \cap DOMAIN Needs : Needs[f] \in q.par
  BY DEF TCAccepts
<1>4. /\ "jitter" \in q.par => "delay" \in q.par
      /\ "delay_correlation" \in q.par => "jitter" \in q.par
      /\ "loss_correlation" \in q.par => "loss" \in q.par
      /\ "reorder_correlation" \in q.par => "reorder" \in q.par
  BY <1>1, <1>3 DEF Needs
<1>5. \A f \in q.par : f \in DOMAIN Under => Under[f] \in q.par
  BY <1>2, <1>4 DEF Under
<1>6. {f \in q.par \ {"distribution"} : f \in DOMAIN Under => Under[f] \in q.par}
        = q.par \ {"distribution"}
  BY <1>5
<1> QED  BY <1>6 DEF ReadOptions

\* The leaf of a class, as it reads back.
LEMMA LeafReads ==
  ASSUME NEW p \in Entries, Valid(p), p.qdisc = "htb", NEW i \in 1 .. Classes(p)
  PROVE  LET c == p.classes[i] IN
         ReadOptions([kind |-> LeafKind(c), par |-> LeafArgs(c)]) = LeafArgs(c) \ {"distribution"}
<1> DEFINE c == p.classes[i]
           q == [kind |-> LeafKind(c), par |-> LeafArgs(c)]
<1>1. TreeEntry(p) /\ TCAccepts(LeafArgs(c))
  BY ValidTree DEF TreeEntry
<1>2. LeafValid(c)
  BY <1>1 DEF Valid, HTBValid, TreeEntry
<1> HIDE DEF c
<1>3. CASE c.shaping # None
  <2>1. q.kind = "netem" /\ q.par = LeafArgs(c)
    BY <1>3 DEF LeafKind
  <2> QED  BY <1>1, <2>1, OptionsOf DEF c
<1>4. CASE c.shaping = None
  <2>1. LeafKind(c) \in {"pfifo", "fq_codel", "sfq"}
    BY <1>2, <1>4 DEF LeafValid, LeafKind
  <2>2. q.kind \notin {"netem", "tbf"} /\ LeafArgs(c) = {}
    BY <1>4, <2>1 DEF LeafArgs
  <2>3. ReadOptions(q) = {}
    BY <2>2 DEF ReadOptions
  <2> QED  BY <2>2, <2>3 DEF c
<1> QED  BY <1>3, <1>4 DEF c

\* What ReadsAsRecorded asks of one interface: t is what the kernel has, p the
\* request on record.
Reads(t, p) ==
  LET u == ReadQdisc(t) IN
  IF p.qdisc = "htb"
  THEN /\ u.root.kind = "htb" /\ u.rate = p.link
       /\ u.classes = [m \in {Minor(i) : i \in DOMAIN p.classes} |->
            LET c == p.classes[m - tcMinorBase] IN
              [rate |-> c.rate, ceil |-> Ceil(p, c), default |-> c.default,
               leaf |-> [kind |-> LeafKind(c), par |-> LeafArgs(c) \ {"distribution"}],
               match |-> c.match]]
  ELSE /\ u.root.kind = p.qdisc /\ u.classes = <<>>
       /\ u.root.par = IF p.qdisc = "tbf" THEN TBFArgs(p)
                       ELSE p.pos \cup (p.given \cap {"gemodel"})

\* A class of the tree reads back as it was asked for.
LEMMA ClassReads ==
  ASSUME NEW p \in Entries, Valid(p), p.qdisc = "htb", NEW i \in 1 .. Classes(p),
         NEW t, NEW k, TreeAfter(t, p, k), k = Len(Rows(p))
  PROVE  LET c == p.classes[i] IN
         ReadClass(t, Minor(i)) =
           [rate |-> c.rate, ceil |-> Ceil(p, c), default |-> c.default,
            leaf |-> [kind |-> LeafKind(c), par |-> LeafArgs(c) \ {"distribution"}],
            match |-> c.match]
<1> DEFINE c == p.classes[i]
<1>1. /\ TreeEntry(p) /\ Rows(p) = HTBRows(p) /\ HTBShape(p, Rows(p))
      /\ (c.default <=> DefaultOf(p) = Minor(i))
  <2>1. /\ TreeEntry(p) /\ p # DelQdisc
        /\ (c.default <=> DefaultOf(p) = Minor(i))
    BY ValidTree DEF DelQdisc
  <2> QED  BY <2>1, HTBRowsAre DEF Rows
<1>2. Classes(p) \in Nat /\ Len(Matches(p)) \in Nat
  BY <1>1 DEF TreeEntry, InOrder
<1>3. k = 3 + Classes(p) + Classes(p) + Len(Matches(p))
  BY <1>1 DEF HTBShape
<1>4. k >= 2 /\ ClassLine(i) <= k /\ LeafLine(p, i) <= k
      /\ \A q \in 1 .. Len(Matches(p)) : FilterLine(p, q) <= k
  BY <1>2, <1>3 DEF ClassLine, LeafLine, FilterLine
<1>5. /\ t.def = DefaultOf(p) /\ t.class[Minor(i)] = ClassOf(p, i)
      /\ Minor(i) \in DOMAIN t.leaf /\ t.leaf[Minor(i)] = LeafOf(p, i)
  BY <1>4 DEF TreeAfter
<1>6. t.filter = Filters(p)
  <2>1. {j \in 1 .. Len(Matches(p)) : FilterLine(p, j) <= k} = 1 .. Len(Matches(p))
    BY <1>4
  <2> QED  BY <2>1 DEF TreeAfter, Filters
<1>7. c.match = [j \in 1 .. Width(p, i) |-> c.match[j]]
  <2>1. i \in DOMAIN p.classes
    BY <1>1 DEF TreeEntry
  <2>2. PICK M : c.match \in Seq(M)
    BY <2>1, EntriesAssumption
  <2> HIDE DEF c
  <2>3. c.match = [j \in 1 .. Len(c.match) |-> c.match[j]]
    BY <2>2
  <2> QED  BY <2>3 DEF c, Width
<1>8. c.default \in BOOLEAN
  BY <1>1, EntriesAssumption DEF TreeEntry
<1>9. ReadClass(t, Minor(i)).match = c.match
  <2>1. OfClass(t.filter, Minor(i)) = [j \in 1 .. Width(p, i) |-> c.match[j]]
    BY <1>1, <1>6, MineAre
  <2>2. ReadClass(t, Minor(i)).match = OfClass(t.filter, Minor(i))
    BY Zenon DEF ReadClass, OfClass
  <2> QED  BY <1>7, <2>1, <2>2
<1>10. ReadClass(t, Minor(i)).default = c.default
  <2>1. ReadClass(t, Minor(i)).default = (Minor(i) = t.def)
    BY DEF ReadClass
  <2> QED  BY <1>1, <1>5, <1>8, <2>1
<1>11. ReadClass(t, Minor(i)).leaf = [kind |-> LeafKind(c), par |-> LeafArgs(c) \ {"distribution"}]
  <2>1. ReadClass(t, Minor(i)).leaf
          = [kind |-> LeafOf(p, i).kind, par |-> ReadOptions(LeafOf(p, i))]
    <3>1. ReadOptions([kind |-> t.leaf[Minor(i)].kind, par |-> t.leaf[Minor(i)].par])
            = ReadOptions(LeafOf(p, i))
      BY <1>5 DEF LeafOf
    <3> QED  BY <1>5, <3>1 DEF ReadClass
  <2>2. ReadOptions(LeafOf(p, i)) = LeafArgs(c) \ {"distribution"}
    BY LeafReads DEF LeafOf
  <2>3. LeafOf(p, i).kind = LeafKind(c)
    BY DEF LeafOf
  <2> QED  BY <2>1, <2>2, <2>3
<1>12. ReadClass(t, Minor(i)).rate = c.rate /\ ReadClass(t, Minor(i)).ceil = Ceil(p, c)
  BY <1>5 DEF ReadClass, ClassOf
<1> DEFINE r == ReadClass(t, Minor(i))
<1>13. r = [rate |-> r.rate, ceil |-> r.ceil, default |-> r.default, leaf |-> r.leaf,
            match |-> r.match]
  BY Zenon DEF ReadClass
<1> HIDE DEF r
<1> QED  BY <1>9, <1>10, <1>11, <1>12, <1>13 DEF r

\* What a valid request left on an interface reads back as it was asked for.
LEMMA ReadBack ==
  ASSUME NEW p \in Entries, Valid(p)
  PROVE  Reads(After(Rows(p), Len(Rows(p))), p)
<1> DEFINE t == After(Rows(p), Len(Rows(p)))
<1>1. p \in Acts /\ p # DelQdisc
  BY DEF Acts, Valid, DelQdisc
<1>2. CASE p.qdisc = "htb"
  <2>1. TreeAfter(t, p, Len(Rows(p)))
    BY <1>1, <1>2, Through
  <2>2. TreeEntry(p) /\ HTBShape(p, Rows(p))
    BY <1>1, <1>2, ValidTree, HTBRowsAre DEF Rows
  <2>3. Classes(p) \in Nat /\ Len(Matches(p)) \in Nat /\ DOMAIN p.classes = 1 .. Classes(p)
    BY <2>2 DEF TreeEntry, InOrder
  <2>4. Len(Rows(p)) = 3 + Classes(p) + Classes(p) + Len(Matches(p))
    BY <2>2 DEF HTBShape
  <2> HIDE DEF t
  <2>5. t.kind = "htb" /\ t.class[1] = [rate |-> p.link, ceil |-> p.link]
    BY <2>1, <2>3, <2>4 DEF TreeAfter
  <2>6. DOMAIN t.class = {1} \cup {Minor(i) : i \in 1 .. Classes(p)}
    <3>1. /\ {j \in 1 .. Classes(p) : ClassLine(j) <= Len(Rows(p))} = 1 .. Classes(p)
          /\ {x \in {1} : Len(Rows(p)) >= 3} = {1}
      BY <2>3, <2>4 DEF ClassLine
    <3> QED  BY <2>1, <3>1 DEF TreeAfter
  <2>7. \A i \in 1 .. Classes(p) : Minor(i) # 1 /\ Minor(i) - tcMinorBase = i
    BY <2>3 DEF Minor, tcMinorBase
  <2>8. DOMAIN t.class \ {1} = {Minor(i) : i \in DOMAIN p.classes}
    BY <2>3, <2>6, <2>7
  <2>9. ReadQdisc(t).classes = [m \in DOMAIN t.class \ {1} |-> ReadClass(t, m)]
    BY <2>5 DEF ReadQdisc
  <2> DEFINE G == [m \in {Minor(i) : i \in DOMAIN p.classes} |->
                    LET c == p.classes[m - tcMinorBase] IN
                      [rate |-> c.rate, ceil |-> Ceil(p, c), default |-> c.default,
                       leaf |-> [kind |-> LeafKind(c), par |-> LeafArgs(c) \ {"distribution"}],
                       match |-> c.match]]
  <2>10. ASSUME NEW i \in 1 .. Classes(p) PROVE ReadClass(t, Minor(i)) = G[Minor(i)]
    <3> DEFINE c == p.classes[i]
    <3>1. ReadClass(t, Minor(i)) =
           [rate |-> c.rate, ceil |-> Ceil(p, c), default |-> c.default,
            leaf |-> [kind |-> LeafKind(c), par |-> LeafArgs(c) \ {"distribution"}],
            match |-> c.match]
      BY <1>2, <2>1, ClassReads
    <3>2. Minor(i) \in {Minor(j) : j \in DOMAIN p.classes} /\ Minor(i) - tcMinorBase = i
      BY <2>3, <2>7
    <3> HIDE DEF t
    <3> QED  BY <3>1, <3>2, Zenon
  <2>11. ReadQdisc(t).classes = G
    <3> DEFINE M == {Minor(i) : i \in DOMAIN p.classes}
    <3>1. G = [m \in M |-> G[m]]
      OBVIOUS
    <3> HIDE DEF G
    <3>2. \A m \in M : ReadClass(t, m) = G[m]
      BY <2>3, <2>10, Zenon
    <3>3. ReadQdisc(t).classes = [m \in M |-> ReadClass(t, m)]
      BY <2>8, <2>9, Zenon
    <3> HIDE DEF M
    <3>4. [m \in M |-> ReadClass(t, m)] = [m \in M |-> G[m]]
      BY <3>2, Zenon
    <3> QED  BY <3>1, <3>3, <3>4, Zenon
  <2>12. ReadQdisc(t).root.kind = "htb" /\ ReadQdisc(t).rate = p.link
    BY <2>5, <2>6 DEF ReadQdisc, ParseTCQdiscJSON
  <2> QED  BY <1>2, <2>11, <2>12 DEF Reads, t
<1>3. CASE p.qdisc # "htb"
  <2>1. /\ t.kind = p.qdisc /\ t.par = ArgsOf(p) /\ DOMAIN t.class = {}
        /\ p.qdisc \in {"netem", "tbf"} /\ TCAccepts(ArgsOf(p))
    BY <1>1, <1>3, Through
  <2> HIDE DEF t
  <2>2. ReadQdisc(t).root.kind = p.qdisc /\ ReadQdisc(t).root.par = ReadOptions(t)
    BY <2>1 DEF ReadQdisc, ParseTCQdiscJSON
  <2>3. ReadQdisc(t).classes = <<>>
    BY <2>1 DEF ReadQdisc
  <2>4. p.qdisc = "tbf" => ReadOptions(t) = TBFArgs(p)
    BY <2>1 DEF ReadOptions, ArgsOf
  <2>5. p.qdisc = "netem" => ReadOptions(t) = NetemArgs(p) \ {"distribution"}
    BY <2>1, OptionsOf DEF ArgsOf
  <2>6. NetemArgs(p) \ {"distribution"} = p.pos \cup (p.given \cap {"gemodel"})
    BY EntriesAssumption DEF NetemArgs, Parsed
  <2> QED  BY <1>3, <2>1, <2>2, <2>3, <2>4, <2>5, <2>6 DEF Reads, t
<1> QED  BY <1>2, <1>3

\* A packet goes to the class of its first match, or to the default class.
Sorts(t, p) ==
  LET hits(x) == {i \in DOMAIN p.classes : \E j \in DOMAIN p.classes[i].match :
                                             x \in p.classes[i].match[j]}
  IN \A x \in Packets : Classify(t, x) =
       Minor(IF hits(x) = {} THEN CHOOSE i \in DOMAIN p.classes : p.classes[i].default
             ELSE CHOOSE i \in hits(x) : \A j \in hits(x) : i <= j)

\* The classes of a tree one of whose matches has packet x.
Hit(p, x) == {i \in DOMAIN p.classes : \E j \in DOMAIN p.classes[i].match :
                                         x \in p.classes[i].match[j]}

\* The tree that a valid request has left sends each packet where the request says.
LEMMA SortsRight ==
  ASSUME NEW p \in Entries, Valid(p), p.qdisc = "htb"
  PROVE  Sorts(After(Rows(p), Len(Rows(p))), p)
<1> DEFINE t == After(Rows(p), Len(Rows(p)))
           m == Matches(p)
<1>1. TreeEntry(p) /\ HTBShape(p, Rows(p)) /\ p \in Acts /\ p # DelQdisc
  <2>1. TreeEntry(p) /\ p \in Acts /\ p # DelQdisc
    BY ValidTree DEF Acts, DelQdisc
  <2> QED  BY <2>1, HTBRowsAre DEF Rows
<1>2. TreeAfter(t, p, Len(Rows(p)))
  BY <1>1, Through
<1>3. Classes(p) \in Nat /\ Len(m) \in Nat /\ DOMAIN p.classes = 1 .. Classes(p)
  BY <1>1 DEF TreeEntry, InOrder
<1>4. Len(Rows(p)) = 3 + Classes(p) + Classes(p) + Len(m)
  BY <1>1 DEF HTBShape
<1> HIDE DEF t
<1>5. t.def = DefaultOf(p)
  BY <1>2, <1>3, <1>4 DEF TreeAfter
<1>6. t.filter = Filters(p)
  <2>1. {j \in 1 .. Len(m) : FilterLine(p, j) <= Len(Rows(p))} = 1 .. Len(m)
    BY <1>3, <1>4 DEF FilterLine
  <2> QED  BY <1>2, <2>1 DEF TreeAfter, Filters
<1>7. \A q \in 1 .. Len(m) : \E i \in 1 .. Classes(p) : \E j \in 1 .. Width(p, i) :
        m[q] = Sent(p, i, j)
  <2>1. m \in Seq(AllSent(p))
    BY <1>1 DEF TreeEntry, InOrder
  <2>2. \A q \in 1 .. Len(m) : m[q] \in AllSent(p)
    BY <2>1
  <2> QED  BY <2>2 DEF AllSent, Classes
<1>8. \A i \in 1 .. Classes(p) : \A j \in 1 .. Width(p, i) : \E q \in 1 .. Len(m) :
        m[q] = Sent(p, i, j)
  <2> TAKE i \in 1 .. Classes(p)
  <2>1. PICK o \in Nat :
          /\ o + Width(p, i) <= Len(m)
          /\ \A j \in 1 .. Width(p, i) : m[o + j] = Sent(p, i, j)
    BY <1>1 DEF TreeEntry, InOrder
  <2>2. Width(p, i) \in Nat
    BY <1>1 DEF TreeEntry
  <2> TAKE j \in 1 .. Width(p, i)
  <2>3. o + j \in 1 .. Len(m)
    BY <1>3, <2>1, <2>2
  <2> QED  BY <2>1, <2>3
<1>9. \A k, l \in 1 .. Len(m) : k <= l => m[k].minor <= m[l].minor
  BY <1>1 DEF TreeEntry, InOrder
<1>10. \A i \in 1 .. Classes(p) : DOMAIN p.classes[i].match = 1 .. Width(p, i)
  BY <1>1 DEF TreeEntry
<1>11. ASSUME NEW x
       PROVE  Classify(t, x) = Minor(IF Hit(p, x) = {}
                                     THEN CHOOSE i \in DOMAIN p.classes : p.classes[i].default
                                     ELSE CHOOSE i \in Hit(p, x) : \A j \in Hit(p, x) : i <= j)
  <2> DEFINE H == {f \in t.filter : x \in f.match}
             Q == {q \in 1 .. Len(m) : x \in m[q].match}
  <2>1. \A q \in 1 .. Len(m) :
          FilterOf(p, q).prio = q /\ FilterOf(p, q).match = m[q].match
          /\ FilterOf(p, q).minor = m[q].minor
    BY DEF FilterOf
  <2>2. H = {FilterOf(p, q) : q \in Q}
    BY <1>6, <2>1 DEF Filters
  <2>3. \A i \in Hit(p, x) : \E q \in Q : m[q].minor = Minor(i)
    <3> TAKE i \in Hit(p, x)
    <3>1. PICK j \in 1 .. Width(p, i) : x \in p.classes[i].match[j]
      BY <1>3, <1>10 DEF Hit
    <3>2. i \in 1 .. Classes(p)
      BY <1>3 DEF Hit
    <3>3. PICK q \in 1 .. Len(m) : m[q] = Sent(p, i, j)
      BY <1>8, <3>2
    <3> QED  BY <3>1, <3>3 DEF Sent
  <2>4. \A q \in Q : \E i \in Hit(p, x) : m[q].minor = Minor(i)
    <3> TAKE q \in Q
    <3>1. PICK i \in 1 .. Classes(p) : \E j \in 1 .. Width(p, i) : m[q] = Sent(p, i, j)
      BY <1>7
    <3>3. PICK j \in 1 .. Width(p, i) : m[q] = Sent(p, i, j)
      BY <3>1
    <3>2. x \in p.classes[i].match[j] /\ m[q].minor = Minor(i)
      BY <3>3 DEF Sent
    <3> QED  BY <1>3, <1>10, <3>2 DEF Hit
  <2>5. CASE Hit(p, x) = {}
    <3>1. H = {}
      BY <2>2, <2>4, <2>5
    <3>2. Classify(t, x) = t.def
      BY <3>1, Zenon DEF Classify
    <3>3. DefaultOf(p) = Minor(CHOOSE i \in DOMAIN p.classes : p.classes[i].default)
      BY <1>3 DEF DefaultOf, IsDefault
    <3> QED  BY <1>5, <2>5, <3>2, <3>3
  <2>6. CASE Hit(p, x) # {}
    <3>1. Q # {} /\ Q \in SUBSET Nat
      BY <2>3, <2>6
    <3>2. PICK q \in Q : \A l \in Q : q <= l
      BY <3>1, LeastNumber
    <3>3. PICK i \in Hit(p, x) : m[q].minor = Minor(i)
      BY <2>4
    <3>4. \A j \in Hit(p, x) : i <= j
      <4> TAKE j \in Hit(p, x)
      <4>1. PICK l \in Q : m[l].minor = Minor(j)
        BY <2>3
      <4>2. m[q].minor <= m[l].minor
        BY <1>9, <3>2, <4>1
      <4>3. i \in Nat /\ j \in Nat
        BY <1>3 DEF Hit
      <4> QED  BY <3>3, <4>1, <4>2, <4>3 DEF Minor, tcMinorBase
    <3>5. (CHOOSE h \in Hit(p, x) : \A j \in Hit(p, x) : h <= j) = i
      <4>1. \A h \in Hit(p, x) : h \in Nat
        BY <1>3 DEF Hit
      <4>2. \A h \in Hit(p, x) : (\A j \in Hit(p, x) : h <= j) => h = i
        BY <3>4, <4>1
      <4> QED  BY <3>4, <4>2
    <3> DEFINE f == CHOOSE h \in H : \A g \in H : h.prio <= g.prio
    <3>6. f = FilterOf(p, q)
      <4>1. FilterOf(p, q) \in H /\ \A g \in H : FilterOf(p, q).prio <= g.prio
        BY <2>1, <2>2, <3>2
      <4>2. \A h \in H : (\A g \in H : h.prio <= g.prio) => h = FilterOf(p, q)
        BY <2>1, <2>2, <3>2
      <4> HIDE DEF H
      <4> QED  BY <4>1, <4>2
    <3>7. H # {}
      BY <2>2, <3>2
    <3>8. Classify(t, x) = f.minor
      BY <3>7, Zenon DEF Classify
    <3> HIDE DEF f
    <3> QED  BY <2>1, <2>6, <3>2, <3>3, <3>5, <3>6, <3>8
  <2> QED  BY <2>5, <2>6
<1> QED  BY <1>11, Zenon DEF Sorts, Hit, t

----------------------------------------------------------------------------
(* The inductive invariant.                                                 *)

Kernels == {Unshaped} \cup {After(Rows(a), k) : a \in Acts, k \in Nat}
Records == [act : {p \in Entries : Valid(p)}, here : BOOLEAN]
Uses    == [st : {"idle", "tc", "ensure", "wait", "rows", "own"}, act : Acts \cup {None},
            rows : Seq(BatchLines), replay : BOOLEAN]

ShapingTyped ==
  /\ dev \in [Ends -> Kernels] /\ row \in [Ends -> Records \cup {None}]
  /\ use \in [Users -> Uses] /\ tried \in [Ends -> Seq(BatchLines)] /\ torn \subseteq Ends
  /\ choice \in [Pods -> {"unknown", "own", "toolbox"}]
  /\ box \in [Pods -> [starting : Nat, running : Nat]]
  /\ lock \in [Pods -> Users \cup {None}] /\ stuck \subseteq Pods /\ left \in 0 .. MaxRequests

\* The lines of its batch that have been run on end e.
Done(e) == Len(Rows(use[e].act)) - Len(use[e].rows)

\* A batch under way: what is left of it is its end, and once a line has been run
\* the kernel has the beginning of its tree and of nothing else.  A replay is of
\* what is on record, on an interface that is new.
Midway(e) ==
  LET R == Rows(use[e].act)
  IN /\ use[e].act \in Acts /\ Done(e) \in Nat
     /\ \A j \in 1 .. Len(use[e].rows) : use[e].rows[j] = R[Done(e) + j]
     /\ use[e].st \in {"tc", "ensure", "wait"} => Done(e) = 0
     /\ Done(e) # 0 => e \in torn /\ tried[e] = R /\ dev[e] = After(R, Done(e))
     /\ use[e].replay => row[e] # None /\ row[e].act = use[e].act
                         /\ (Done(e) = 0 => dev[e] = Unshaped)

\* What the kernel has when r is on record and nothing is under way.
OnRecord(r) == IF r = None THEN Unshaped ELSE After(Rows(r.act), Len(Rows(r.act)))

EndInv(e) ==
  /\ Busy(e) => Midway(e)
  /\ e \in torn => dev[e] \in Begun(tried[e])
  /\ e \notin torn /\ ~ (Busy(e) /\ use[e].replay) => dev[e] = OnRecord(row[e])

ShapingInv == ShapingTyped /\ (\A e \in Ends : EndInv(e)) /\ ~ refused

\* The pod of a user is one of the pods.
LEMMA PodOfUserIs ==
  ASSUME NEW u \in Users
  PROVE  PodOfUser(u) \in Pods
<1>1. CASE u \in Tools
  BY <1>1, ShapingAssumption DEF PodOfUser
<1>2. CASE u \notin Tools
  <2>1. PICK l \in Links : \E i \in {1, 2} : u = <<l, i>>
    BY <1>2 DEF Users, Ends
  <2>2. PICK i \in {1, 2} : u = <<l, i>>
    BY <2>1
  <2>3. ~ (i = 2 /\ Len(Joins[l]) = 1)
    BY <1>2, <2>2 DEF Users, Ends
  <2>4. Joins[l] \in Seq(Pods) /\ Len(Joins[l]) \in {1, 2}
    BY ShapingAssumption
  <2>5. i \in 1 .. Len(Joins[l])
    <3> DEFINE n == Len(Joins[l])
    <3>1. n \in {1, 2} /\ (i = 2 => n # 1)
      BY <2>3, <2>4
    <3> HIDE DEF n
    <3>2. i \in 1 .. n
      BY <3>1
    <3> QED  BY <3>2 DEF n
  <2>6. Joins[l][i] \in Pods
    BY <2>4, <2>5
  <2> QED  BY <1>2, <2>2, <2>6 DEF PodOfUser, PodOf
<1> QED  BY <1>1, <1>2

\* A user at rest has the type of a user.
LEMMA RestTyped == Rest \in Uses
<1>1. <<>> \in Seq(BatchLines)
  OBVIOUS
<1> QED  BY <1>1 DEF Rest, Uses

\* So has one that starts a batch.
LEMMA StartTyped ==
  ASSUME NEW a \in Acts, NEW replay \in BOOLEAN
  PROVE  Start(a, replay) \in Uses
<1>1. Rows(a) \in Seq(BatchLines)
  BY RowsTyped
<1> QED  BY <1>1 DEF Start, Uses

\* A request that passed the validation is not the removal of a qdisc.
LEMMA ValidActs ==
  ASSUME NEW p \in Entries, Valid(p)
  PROVE  p \in Acts /\ p # DelQdisc
BY DEF Acts, Valid, DelQdisc

----------------------------------------------------------------------------
(* What a step does to one end.                                             *)

\* Nothing.
LEMMA Untouched ==
  ASSUME NEW e \in Ends, EndInv(e), dev'[e] = dev[e], row'[e] = row[e], use'[e] = use[e],
         tried'[e] = tried[e], e \in torn' <=> e \in torn
  PROVE  EndInv(e)'
BY DEF EndInv, Busy, Midway, Done

\* The batch gets nearer to its first line.
LEMMA Moved ==
  ASSUME NEW e \in Ends, ShapingTyped, EndInv(e), Busy(e), NEW s, s # "idle",
         use'[e] = [use[e] EXCEPT !.st = s],
         s \in {"tc", "ensure", "wait"} => use[e].st \in {"tc", "ensure", "wait"},
         dev'[e] = dev[e], row'[e] = row[e], tried'[e] = tried[e], e \in torn' <=> e \in torn
  PROVE  EndInv(e)'
<1>1. use[e] \in Uses
  BY DEF ShapingTyped, Users
<1>2. /\ use'[e].act = use[e].act /\ use'[e].rows = use[e].rows
      /\ use'[e].replay = use[e].replay /\ use'[e].st = s
  BY <1>1 DEF Uses
<1>3. Busy(e)' /\ Done(e)' = Done(e)
  BY <1>2 DEF Busy, Done
<1>4. Midway(e)'
  BY <1>2, <1>3 DEF EndInv, Midway
<1> QED  BY <1>2, <1>3, <1>4 DEF EndInv

\* The batch starts.
LEMMA Started ==
  ASSUME NEW e \in Ends, EndInv(e), ~ Busy(e), NEW a \in Acts, NEW replay \in BOOLEAN,
         use'[e] = Start(a, replay), tried'[e] = tried[e],
         \/ ~ replay /\ dev'[e] = dev[e] /\ row'[e] = row[e] /\ (e \in torn' <=> e \in torn)
         \/ /\ replay /\ row'[e] # None /\ row'[e].act = a
            /\ dev'[e] = Unshaped /\ e \notin torn'
  PROVE  EndInv(e)'
<1>1. /\ use'[e].act = a /\ use'[e].rows = Rows(a) /\ use'[e].replay = replay
      /\ use'[e].st = "tc"
  BY DEF Start
<1>2. Len(Rows(a)) \in Nat
  BY RowsTyped
<1>3. Done(e)' = 0 /\ Busy(e)'
  BY <1>1, <1>2 DEF Done, Busy
<1>4. Midway(e)'
  BY <1>1, <1>2, <1>3 DEF Midway
<1> QED  BY <1>1, <1>3, <1>4 DEF EndInv

\* The batch is given up, and pruned when it is a replay.
LEMMA GivenUp ==
  ASSUME NEW e \in Ends, EndInv(e), Busy(e), use'[e] = Rest, dev'[e] = dev[e],
         row'[e] = IF use[e].replay THEN None ELSE row[e],
         tried'[e] = tried[e], e \in torn' <=> e \in torn
  PROVE  EndInv(e)'
<1>1. ~ Busy(e)'
  BY DEF Busy, Rest
<1>2. Midway(e)
  BY DEF EndInv
<1>3. e \notin torn /\ use[e].replay => dev[e] = Unshaped
  BY <1>2 DEF Midway
<1> QED  BY <1>1, <1>3 DEF EndInv, OnRecord

\* The first line of a batch that has lines left, and what it leaves.
LEMMA LineIs ==
  ASSUME NEW e \in Ends, ShapingTyped, EndInv(e), Busy(e), use[e].rows # <<>>
  PROVE  LET R == Rows(use[e].act)
             k == Done(e)
         IN /\ R \in Seq(BatchLines) /\ k \in Nat /\ k < Len(R) /\ Head(use[e].rows) = R[k + 1]
            /\ Accepts(dev[e], R[k + 1]) /\ Applied(dev[e], R[k + 1]) = After(R, k + 1)
            /\ (use[e].rows = R <=> k = 0)
            /\ Tail(use[e].rows) \in Seq(BatchLines)
            /\ Len(Tail(use[e].rows)) = Len(use[e].rows) - 1
            /\ \A j \in 1 .. Len(use[e].rows) - 1 : Tail(use[e].rows)[j] = R[k + 1 + j]
<1> DEFINE R == Rows(use[e].act)
           k == Done(e)
           q == use[e].rows
<1>1. Midway(e)
  BY DEF EndInv
<1>2. use[e].act \in Acts /\ k \in Nat /\ \A j \in 1 .. Len(q) : q[j] = R[k + j]
  BY <1>1 DEF Midway
<1>3. k # 0 => dev[e] = After(R, k)
  BY <1>1 DEF Midway
<1>4. R \in Seq(BatchLines) /\ Len(R) \in Nat
  BY <1>2, RowsTyped
<1>5. q \in Seq(BatchLines)
  BY DEF ShapingTyped, Users, Uses
<1>6. k = Len(R) - Len(q)
  BY DEF Done
<1> HIDE DEF R, k, q
<1>7. Len(q) \in Nat \ {0}
  BY <1>5 DEF q
<1>8. k < Len(R) /\ 1 \in 1 .. Len(q)
  BY <1>2, <1>4, <1>6, <1>7
<1>9. Head(q) = R[k + 1]
  BY <1>2, <1>5, <1>7, <1>8
<1>10. Accepts(dev[e], R[k + 1])
  BY <1>2, <1>3, <1>8, LineAccepted DEF R
<1>11. After(R, k + 1) = Applied(dev[e], R[k + 1])
  BY <1>2, <1>3, <1>8, AfterLine DEF R
<1>12. q = R <=> k = 0
  <2>1. q = R => k = 0
    BY <1>4, <1>6
  <2>2. ASSUME k = 0 PROVE q = R
    <3>1. Len(q) = Len(R)
      BY <1>4, <1>6, <1>7, <2>2
    <3>2. \A j \in 1 .. Len(q) : q[j] = R[j]
      BY <1>2, <1>7, <2>2
    <3> QED  BY <1>4, <1>5, <3>1, <3>2
  <2> QED  BY <2>1, <2>2
<1>13. /\ Tail(q) \in Seq(BatchLines) /\ Len(Tail(q)) = Len(q) - 1
       /\ \A j \in 1 .. Len(q) - 1 : Tail(q)[j] = q[j + 1]
  BY <1>5, <1>7
<1>14. \A j \in 1 .. Len(q) - 1 : Tail(q)[j] = R[k + 1 + j]
  <2> TAKE j \in 1 .. Len(q) - 1
  <2>1. j + 1 \in 1 .. Len(q) /\ k + (j + 1) = k + 1 + j
    BY <1>2, <1>7
  <2> QED  BY <1>2, <1>13, <2>1
<1> QED  BY <1>2, <1>4, <1>8, <1>9, <1>10, <1>11, <1>12, <1>13, <1>14 DEF R, k, q

\* One more line has been run.
LEMMA LineRun ==
  ASSUME NEW e \in Ends, ShapingTyped, EndInv(e), Busy(e), use[e].st \in {"rows", "own"},
         use[e].rows # <<>>, dev'[e] = Applied(dev[e], Head(use[e].rows)),
         use'[e] = [use[e] EXCEPT !.rows = Tail(use[e].rows)], row'[e] = row[e], e \in torn',
         tried'[e] = IF use[e].rows = Rows(use[e].act) THEN use[e].rows ELSE tried[e]
  PROVE  EndInv(e)'
<1> DEFINE R == Rows(use[e].act)
           k == Done(e)
<1>1. Midway(e)
  BY DEF EndInv
<1>2. use[e] \in Uses
  BY DEF ShapingTyped, Users
<1>3. /\ use'[e].act = use[e].act /\ use'[e].st = use[e].st /\ use'[e].replay = use[e].replay
      /\ use'[e].rows = Tail(use[e].rows)
  BY <1>2 DEF Uses
<1>4. /\ R \in Seq(BatchLines) /\ k \in Nat /\ k < Len(R) /\ dev'[e] = After(R, k + 1)
      /\ (use[e].rows = R <=> k = 0) /\ Len(Tail(use[e].rows)) = Len(use[e].rows) - 1
      /\ \A j \in 1 .. Len(use[e].rows) - 1 : Tail(use[e].rows)[j] = R[k + 1 + j]
  BY LineIs
<1>5. tried'[e] = R
  BY <1>1, <1>4 DEF Midway
<1>6. Len(use[e].rows) \in Nat /\ Len(R) \in Nat
  BY <1>2, <1>4 DEF Uses
<1>7. Done(e)' = k + 1
  <2>1. Done(e)' = Len(R) - Len(Tail(use[e].rows))
    BY <1>3 DEF Done
  <2>2. k = Len(R) - Len(use[e].rows)
    BY DEF Done
  <2> DEFINE m == Len(R)
             n == Len(use[e].rows)
             l == Len(Tail(use[e].rows))
  <2>3. m \in Nat /\ n \in Nat /\ l = n - 1 /\ Done(e)' = m - l /\ k = m - n
    BY <1>4, <1>6, <2>1, <2>2
  <2> HIDE DEF R, k, m, n, l
  <2> QED  BY <2>3
<1>8. Busy(e)' /\ Midway(e)'
  BY <1>1, <1>3, <1>4, <1>5, <1>7 DEF Midway, Busy
<1>9. dev'[e] \in Begun(tried'[e])
  <2>1. k + 1 \in 1 .. Len(R)
    BY <1>4, <1>6
  <2>2. After(R, k + 1) \in Begun(R)
    BY <2>1, Zenon DEF Begun, After
  <2> QED  BY <1>4, <1>5, <2>2
<1> QED  BY <1>8, <1>9 DEF EndInv

\* The batch is through: what it left is what is on record from now on.
LEMMA BatchThrough ==
  ASSUME NEW e \in Ends, ShapingTyped, EndInv(e), Busy(e), use[e].st \in {"rows", "own"},
         use[e].rows = <<>>, use'[e] = Rest, row'[e] = Saved(use[e], row[e]),
         dev'[e] = dev[e], e \notin torn'
  PROVE  EndInv(e)' /\ row'[e] \in Records \cup {None}
<1> DEFINE a == use[e].act
           R == Rows(a)
<1>1. Midway(e) /\ a \in Acts
  BY DEF EndInv, Midway
<1>2. Len(R) \in Nat /\ Len(R) >= 2
  BY <1>1, RowsTyped
<1>3. Done(e) = Len(R) /\ Done(e) # 0
  BY <1>2 DEF Done
<1>4. dev[e] = After(R, Len(R))
  BY <1>1, <1>3 DEF Midway
<1>5. ~ Busy(e)'
  BY DEF Busy, Rest
<1>6. row[e] \in Records \cup {None}
  BY DEF ShapingTyped
<1>7. CASE use[e].replay
  <2>1. row'[e] = row[e] /\ row[e] # None /\ row[e].act = a
    BY <1>1, <1>7 DEF Saved, Midway
  <2> QED  BY <1>4, <1>5, <1>6, <2>1 DEF EndInv, OnRecord
<1>8. CASE ~ use[e].replay /\ a = DelQdisc
  <2>1. row'[e] = None
    BY <1>8 DEF Saved
  <2>2. dev[e] = Unshaped
    BY <1>1, <1>4, <1>8, Through
  <2> QED  BY <1>5, <2>1, <2>2 DEF EndInv, OnRecord
<1>9. CASE ~ use[e].replay /\ a # DelQdisc
  <2>1. row'[e] = [act |-> a, here |-> TRUE]
    BY <1>9 DEF Saved
  <2>2. row'[e] \in Records /\ row'[e].act = a
    BY <1>1, <1>9, <2>1 DEF Acts, Records
  <2>3. row'[e] # None
    BY <2>2, ShapingAssumption DEF Records
  <2> QED  BY <1>4, <1>5, <2>2, <2>3 DEF EndInv, OnRecord
<1> QED  BY <1>7, <1>8, <1>9

----------------------------------------------------------------------------
(* Every step keeps it.                                                     *)

\* No pod has shaping at first.
LEMMA InitInv == ShapingInit => ShapingInv
<1> SUFFICES ASSUME ShapingInit PROVE ShapingInv
  OBVIOUS
<1>1. ShapingTyped
  <2>1. <<>> \in Seq(BatchLines) /\ 0 \in Nat
    OBVIOUS
  <2> QED  BY <2>1, RestTyped, ShapingAssumption DEF ShapingInit, ShapingTyped, Kernels
<1>2. ASSUME NEW e \in Ends PROVE EndInv(e)
  BY DEF ShapingInit, EndInv, Busy, Rest, OnRecord, Users
<1> QED  BY <1>1, <1>2 DEF ShapingInv, ShapingInit

\* The actions a request is expanded to.
LEMMA ExpandedIs ==
  ASSUME NEW e, NEW how, NEW p, NEW r,
         \/ how = "remove"
         \/ how \in {"one", "symmetric", "reverse"} /\ p \in Entries /\ r \in Entries,
         NEW x \in DOMAIN Expanded(e, how, p, r)
  PROVE  Expanded(e, how, p, r)[x] \in Entries \cup {DelQdisc}
<1>1. CASE how = "remove"
  BY <1>1 DEF Expanded
<1>2. CASE how = "one" /\ p \in Entries
  BY <1>2 DEF Expanded
<1>3. CASE how = "symmetric" /\ p \in Entries
  BY <1>3 DEF Expanded
<1>4. CASE how = "reverse" /\ p \in Entries /\ r \in Entries
  BY <1>4 DEF Expanded
<1> QED  BY <1>1, <1>2, <1>3, <1>4

\* A request starts valid batches, and removals, on ends at rest.
LEMMA ConfigureKeeps ==
  ASSUME ShapingInv, NEW e, NEW how, NEW p, NEW r, ConfigureLink(e, how, p, r),
         \/ how = "remove"
         \/ how \in {"one", "symmetric", "reverse"} /\ p \in Entries /\ r \in Entries
  PROVE  ShapingInv'
<1> DEFINE acts == Expanded(e, how, p, r)
           plan == {x \in DOMAIN acts :
                      \/ acts[x] = DelQdisc
                      \/ Valid(acts[x]) /\ row[x] # [act |-> acts[x], here |-> TRUE]}
<1>1. /\ left > 0 /\ \A x \in Ends : ~ Busy(x)
      /\ use' = [u \in Users |-> IF u \in plan THEN Start(acts[u], FALSE) ELSE use[u]]
      /\ left' = left - 1
      /\ dev' = dev /\ row' = row /\ choice' = choice /\ box' = box /\ lock' = lock
      /\ stuck' = stuck /\ torn' = torn /\ tried' = tried /\ refused' = refused
  BY DEF ConfigureLink, toolbox, ghosts
<1>2. \A x \in plan : acts[x] \in Acts
  BY ExpandedIs DEF Acts
<1>3. ShapingTyped /\ ~ refused /\ \A x \in Ends : EndInv(x)
  BY DEF ShapingInv
<1> HIDE DEF acts, plan
<1>4. ShapingTyped'
  <2>1. use' \in [Users -> Uses]
    <3>1. \A u \in Users : u \in plan => Start(acts[u], FALSE) \in Uses
      BY <1>2, StartTyped
    <3> QED  BY <1>1, <1>3, <3>1 DEF ShapingTyped
  <2>2. left' \in 0 .. MaxRequests
    BY <1>1, <1>3, ShapingAssumption DEF ShapingTyped
  <2> QED  BY <1>1, <1>3, <2>1, <2>2 DEF ShapingTyped
<1>5. ASSUME NEW x \in Ends PROVE EndInv(x)'
  <2>1. x \in Users
    BY DEF Users
  <2>2. CASE x \in plan
    <3>1. use'[x] = Start(acts[x], FALSE) /\ acts[x] \in Acts /\ ~ Busy(x) /\ EndInv(x)
      BY <1>1, <1>2, <1>3, <2>1, <2>2
    <3> QED  BY <1>1, <3>1, Started
  <2>3. CASE x \notin plan
    <3>1. use'[x] = use[x]
      BY <1>1, <2>1, <2>3
    <3> QED  BY <1>1, <1>3, <3>1, Untouched
  <2> QED  BY <2>2, <2>3
<1> QED  BY <1>1, <1>3, <1>4, <1>5 DEF ShapingInv

\* A new interface has nothing, and what is on record for it is to be replayed.
LEMMA RecreateKeeps ==
  ASSUME ShapingInv, NEW x \in Pods, Recreate(x)
  PROVE  ShapingInv'
<1> DEFINE new == {e \in Ends : PodOf(e) = x \/ (HasPeer(e) /\ PodOf(Peer(e)) = x)}
<1>1. /\ left > 0 /\ \A e \in new : ~ Busy(e)
      /\ dev' = [e \in Ends |-> IF e \in new THEN Unshaped ELSE dev[e]]
      /\ row' = [e \in Ends |-> IF PodOf(e) = x /\ row[e] # None
                                THEN [row[e] EXCEPT !.here = FALSE] ELSE row[e]]
      /\ use' = [u \in Users |-> IF u \in new /\ row[u] # None
                                 THEN Start(row[u].act, TRUE) ELSE use[u]]
      /\ torn' = torn \ new
      /\ box' = [box EXCEPT ![x] = [starting |-> 0, running |-> 0]]
      /\ stuck' = stuck \ {x} /\ left' = left - 1
      /\ choice' = choice /\ lock' = lock /\ tried' = tried /\ refused' = refused
  BY DEF Recreate
<1>2. ShapingTyped /\ ~ refused /\ \A e \in Ends : EndInv(e)
  BY DEF ShapingInv
<1>3. new \subseteq Ends /\ \A e \in Ends : PodOf(e) = x => e \in new
  OBVIOUS
<1> HIDE DEF new
<1>4. ASSUME NEW e \in Ends, row[e] # None
      PROVE  row[e] \in Records /\ row[e].act \in Acts
  <2>1. row[e] \in Records
    BY <1>2, <1>4 DEF ShapingTyped
  <2> QED  BY <2>1 DEF Records, Acts
<1>5. ASSUME NEW e \in Ends, row[e] # None
      PROVE  row'[e] \in Records /\ row'[e] # None /\ row'[e].act = row[e].act
  <2>1. row[e] \in Records
    BY <1>4, <1>5
  <2>2. row'[e] \in Records /\ row'[e].act = row[e].act
    BY <1>1, <1>5, <2>1 DEF Records
  <2> QED  BY <2>2, ShapingAssumption DEF Records
<1>6. \A e \in Ends : row[e] = None => row'[e] = None
  BY <1>1
<1>7. ShapingTyped'
  <2>1. dev' \in [Ends -> Kernels]
    BY <1>1, <1>2 DEF ShapingTyped, Kernels
  <2>2. row' \in [Ends -> Records \cup {None}]
    BY <1>1, <1>5, <1>6
  <2>3. use' \in [Users -> Uses]
    <3>1. \A u \in Users : u \in new /\ row[u] # None => Start(row[u].act, TRUE) \in Uses
      BY <1>3, <1>4, StartTyped
    <3> QED  BY <1>1, <1>2, <3>1 DEF ShapingTyped
  <2>4. box' \in [Pods -> [starting : Nat, running : Nat]] /\ left' \in 0 .. MaxRequests
    BY <1>1, <1>2, ShapingAssumption DEF ShapingTyped
  <2> QED  BY <1>1, <1>2, <2>1, <2>2, <2>3, <2>4 DEF ShapingTyped
<1>8. ASSUME NEW e \in Ends PROVE EndInv(e)'
  <2>1. e \in Users
    BY DEF Users
  <2>2. CASE e \in new /\ row[e] # None
    <3>1. /\ use'[e] = Start(row[e].act, TRUE) /\ row[e].act \in Acts /\ ~ Busy(e) /\ EndInv(e)
          /\ dev'[e] = Unshaped /\ e \notin torn' /\ row'[e] # None /\ row'[e].act = row[e].act
      BY <1>1, <1>2, <1>4, <1>5, <2>1, <2>2
    <3> QED  BY <1>1, <3>1, Started
  <2>3. CASE e \in new /\ row[e] = None
    <3>1. use'[e] = use[e] /\ ~ Busy(e) /\ dev'[e] = Unshaped /\ e \notin torn' /\ row'[e] = None
      BY <1>1, <1>6, <2>1, <2>3
    <3> QED  BY <3>1 DEF EndInv, Busy, OnRecord
  <2>4. CASE e \notin new
    <3>1. use'[e] = use[e] /\ dev'[e] = dev[e] /\ row'[e] = row[e] /\ (e \in torn' <=> e \in torn)
      BY <1>1, <1>3, <2>1, <2>4
    <3> QED  BY <1>1, <1>2, <3>1, Untouched
  <2> QED  BY <2>2, <2>3, <2>4
<1> QED  BY <1>1, <1>2, <1>7, <1>8 DEF ShapingInv

\* A step of a session leaves the ends alone.
LEMMA ToolKeeps ==
  ASSUME ShapingInv, NEW t \in Tools, Session(t) \/ GetQdisc(t) \/ RunTCJSON(t)
  PROVE  ShapingInv'
<1>1. /\ dev' = dev /\ row' = row /\ torn' = torn /\ tried' = tried /\ refused' = refused
      /\ box' = box /\ lock' = lock /\ stuck' = stuck
      /\ left' = left \/ (left > 0 /\ left' = left - 1)
      /\ \/ choice' = choice
         \/ \E c \in {"own", "toolbox"} : choice' = [choice EXCEPT ![ToolPod[t]] = c]
      /\ \/ use' = [use EXCEPT ![t] = Rest]
         \/ \E s \in {"ensure", "tc"} : use' = [use EXCEPT ![t].st = s]
  BY DEF Session, GetQdisc, RunTCJSON, toolbox, ghosts
<1>2. ShapingTyped /\ ~ refused /\ \A e \in Ends : EndInv(e)
  BY DEF ShapingInv
<1>3. t \in Users /\ use \in [Users -> Uses]
  BY <1>2 DEF Users, ShapingTyped
<1>4. use' \in [Users -> Uses]
  <2>1. CASE use' = [use EXCEPT ![t] = Rest]
    BY <1>3, <2>1, RestTyped
  <2>2. ASSUME NEW s \in {"ensure", "tc"}, use' = [use EXCEPT ![t].st = s]
        PROVE  use' \in [Users -> Uses]
    <3>1. [use[t] EXCEPT !.st = s] \in Uses
      BY <1>3 DEF Uses
    <3> QED  BY <1>3, <2>2, <3>1
  <2> QED  BY <1>1, <2>1, <2>2
<1>5. choice' \in [Pods -> {"unknown", "own", "toolbox"}]
  BY <1>1, <1>2 DEF ShapingTyped
<1>6. left' \in 0 .. MaxRequests
  BY <1>1, <1>2, ShapingAssumption DEF ShapingTyped
<1>7. ShapingTyped'
  BY <1>1, <1>2, <1>4, <1>5, <1>6 DEF ShapingTyped
<1>8. ASSUME NEW e \in Ends PROVE EndInv(e)'
  <2>1. e \in Users /\ e # t
    BY ShapingAssumption DEF Users
  <2>2. use'[e] = use[e]
    BY <1>1, <1>3, <2>1
  <2> QED  BY <1>1, <1>2, <2>2, Untouched
<1> QED  BY <1>1, <1>2, <1>7, <1>8 DEF ShapingInv

\* A user that waits for its tc goes on, and its lines, if it has any, are still
\* to be run.
LEMMA UserMoves ==
  ASSUME ShapingInv, NEW u \in Users, use[u].st \in {"tc", "ensure", "wait"}, NEW v,
         \/ \E s \in {"ensure", "wait", "rows", "own"} : v = [use[u] EXCEPT !.st = s]
         \/ u \in Tools /\ v = Rest,
         use' = [use EXCEPT ![u] = v],
         dev' = dev, row' = row, torn' = torn, tried' = tried
  PROVE  use' \in [Users -> Uses] /\ \A e \in Ends : EndInv(e)'
<1>1. ShapingTyped /\ use \in [Users -> Uses] /\ \A e \in Ends : EndInv(e)
  BY DEF ShapingInv, ShapingTyped
<1>2. v \in Uses
  <2>1. ASSUME NEW s \in {"ensure", "wait", "rows", "own"}
        PROVE  [use[u] EXCEPT !.st = s] \in Uses
    BY <1>1 DEF Uses
  <2> QED  BY <2>1, RestTyped
<1>3. use' \in [Users -> Uses]
  BY <1>1, <1>2
<1>4. ASSUME NEW e \in Ends PROVE EndInv(e)'
  <2>1. CASE e = u
    <3>1. u \notin Tools
      BY <2>1, ShapingAssumption
    <3>2. PICK s \in {"ensure", "wait", "rows", "own"} : v = [use[u] EXCEPT !.st = s]
      BY <3>1
    <3>3. use'[e] = [use[e] EXCEPT !.st = s] /\ Busy(e) /\ use[e].st \in {"tc", "ensure", "wait"}
      BY <1>1, <2>1, <3>2 DEF Busy
    <3> QED  BY <1>1, <3>3, Moved
  <2>2. CASE e # u
    <3>1. use'[e] = use[e]
      BY <1>1, <2>2 DEF Users
    <3> QED  BY <1>1, <3>1, Untouched
  <2> QED  BY <2>1, <2>2
<1> QED  BY <1>3, <1>4

\* A user that picks its tc has run no line yet.
LEMMA ChooseKeeps ==
  ASSUME ShapingInv, NEW u \in Users, ChooseTC(u)
  PROVE  ShapingInv'
<1>1. PICK s \in {"ensure", "own"} : use' = [use EXCEPT ![u] = [use[u] EXCEPT !.st = s]]
  BY DEF ChooseTC
<1>2. /\ use[u].st = "tc" /\ dev' = dev /\ row' = row /\ torn' = torn /\ tried' = tried
      /\ box' = box /\ lock' = lock /\ stuck' = stuck /\ refused' = refused /\ left' = left
      /\ choice' = choice \/ choice' = [choice EXCEPT ![PodOfUser(u)] = "toolbox"]
  BY DEF ChooseTC, ghosts
<1>3. use' \in [Users -> Uses] /\ \A e \in Ends : EndInv(e)'
  BY <1>1, <1>2, UserMoves
<1>4. ShapingTyped'
  BY <1>2, <1>3 DEF ShapingInv, ShapingTyped
<1> QED  BY <1>2, <1>3, <1>4 DEF ShapingInv

\* What a user does once the toolbox is there.
LEMMA ReadyIs ==
  ASSUME NEW u \in Users
  PROVE  \/ \E s \in {"ensure", "wait", "rows", "own"} : Ready(u) = [use[u] EXCEPT !.st = s]
         \/ u \in Tools /\ Ready(u) = Rest
BY DEF Ready

\* One that cannot have the toolbox has run nothing.
LEMMA LeavesIt ==
  ASSUME ShapingInv, NEW u \in Users, use[u].st \in {"ensure", "wait"},
         use' = [use EXCEPT ![u] = Rest], row' = Pruned(u),
         dev' = dev, torn' = torn, tried' = tried
  PROVE  /\ use' \in [Users -> Uses] /\ row' \in [Ends -> Records \cup {None}]
         /\ \A e \in Ends : EndInv(e)'
<1>1. ShapingTyped /\ use \in [Users -> Uses] /\ \A e \in Ends : EndInv(e)
  BY DEF ShapingInv, ShapingTyped
<1>2. use' \in [Users -> Uses] /\ row' \in [Ends -> Records \cup {None}]
  BY <1>1, RestTyped DEF ShapingTyped, Pruned
<1>3. ASSUME NEW e \in Ends PROVE EndInv(e)'
  <2>1. CASE e = u
    <3>1. /\ use'[e] = Rest /\ Busy(e)
          /\ row'[e] = IF use[e].replay THEN None ELSE row[e]
      BY <1>1, <2>1 DEF Pruned, Busy, ShapingTyped
    <3> QED  BY <1>1, <2>1, <3>1, GivenUp
  <2>2. CASE e # u
    <3>1. use'[e] = use[e] /\ row'[e] = row[e]
      BY <1>1, <2>2 DEF Pruned, Users, ShapingTyped
    <3> QED  BY <1>1, <3>1, Untouched
  <2> QED  BY <2>1, <2>2
<1> QED  BY <1>2, <1>3

\* Nor has one that finds the toolbox, starts one or is refused it.
LEMMA EnsureKeeps ==
  ASSUME ShapingInv, NEW u \in Users, Ensure(u)
  PROVE  ShapingInv'
<1> DEFINE x == PodOfUser(u)
<1>1. /\ use[u].st = "ensure" /\ dev' = dev /\ torn' = torn /\ tried' = tried
      /\ choice' = choice /\ refused' = refused /\ left' = left
      /\ \/ /\ use' = [use EXCEPT ![u] = Ready(u)] /\ row' = row
            /\ box' = box /\ lock' = lock /\ stuck' = stuck
         \/ /\ use' = [use EXCEPT ![u] = [use[u] EXCEPT !.st = "wait"]] /\ row' = row
            /\ box' = [box EXCEPT ![x].starting = @ + 1] /\ lock' = [lock EXCEPT ![x] = u]
            /\ stuck' \in {stuck, stuck \cup {x}}
         \/ /\ use' = [use EXCEPT ![u] = Rest] /\ row' = Pruned(u)
            /\ box' = box /\ lock' = lock /\ stuck' = stuck
  BY DEF Ensure, ghosts
<1>2. /\ use' \in [Users -> Uses] /\ row' \in [Ends -> Records \cup {None}]
      /\ \A e \in Ends : EndInv(e)'
  <2>0. row \in [Ends -> Records \cup {None}]
    BY DEF ShapingInv, ShapingTyped
  <2>1. CASE use' = [use EXCEPT ![u] = Ready(u)] /\ row' = row
    BY <1>1, <2>0, <2>1, ReadyIs, UserMoves
  <2>2. CASE use' = [use EXCEPT ![u] = [use[u] EXCEPT !.st = "wait"]] /\ row' = row
    BY <1>1, <2>0, <2>2, UserMoves
  <2>3. CASE use' = [use EXCEPT ![u] = Rest] /\ row' = Pruned(u)
    BY <1>1, <2>3, LeavesIt
  <2> QED  BY <1>1, <2>1, <2>2, <2>3
<1>3. ShapingTyped'
  <2>1. /\ box \in [Pods -> [starting : Nat, running : Nat]]
        /\ lock \in [Pods -> Users \cup {None}] /\ stuck \subseteq Pods /\ x \in Pods
    BY PodOfUserIs DEF ShapingInv, ShapingTyped
  <2> HIDE DEF x
  <2>2. /\ box' \in [Pods -> [starting : Nat, running : Nat]]
        /\ lock' \in [Pods -> Users \cup {None}] /\ stuck' \subseteq Pods
    BY <1>1, <2>1
  <2> QED  BY <1>1, <1>2, <2>2 DEF ShapingInv, ShapingTyped
<1> QED  BY <1>1, <1>2, <1>3 DEF ShapingInv

\* Nor has one that has waited for it: when it gives up, nothing was run.
LEMMA AwaitKeeps ==
  ASSUME ShapingInv, NEW u \in Users, Await(u)
  PROVE  ShapingInv'
<1> DEFINE x == PodOfUser(u)
<1>1. /\ use[u].st = "wait" /\ dev' = dev /\ torn' = torn /\ tried' = tried
      /\ choice' = choice /\ box' = box /\ refused' = refused /\ left' = left
      /\ lock' = [lock EXCEPT ![x] = None] /\ stuck' \in {stuck, stuck \cup {x}}
      /\ \/ use' = [use EXCEPT ![u] = Ready(u)] /\ row' = row
         \/ use' = [use EXCEPT ![u] = Rest] /\ row' = Pruned(u)
  BY DEF Await, ghosts
<1>2. ShapingTyped /\ x \in Pods
  BY PodOfUserIs DEF ShapingInv
<1>3. /\ use' \in [Users -> Uses] /\ row' \in [Ends -> Records \cup {None}]
      /\ \A e \in Ends : EndInv(e)'
  <2>1. CASE use' = [use EXCEPT ![u] = Ready(u)] /\ row' = row
    BY <1>1, <1>2, <2>1, ReadyIs, UserMoves DEF ShapingTyped
  <2>2. CASE use' = [use EXCEPT ![u] = Rest] /\ row' = Pruned(u)
    BY <1>1, <2>2, LeavesIt
  <2> QED  BY <1>1, <2>1, <2>2
<1>4. ShapingTyped'
  BY <1>1, <1>2, <1>3 DEF ShapingTyped
<1> QED  BY <1>1, <1>3, <1>4 DEF ShapingInv

\* The toolbox comes and goes.
LEMMA BoxKeeps ==
  ASSUME ShapingInv, NEW x \in Pods, BoxStarts(x) \/ BoxEnds(x)
  PROVE  ShapingInv'
<1>1. /\ dev' = dev /\ row' = row /\ use' = use /\ torn' = torn /\ tried' = tried
      /\ choice' = choice /\ lock' = lock /\ stuck' = stuck /\ refused' = refused /\ left' = left
  BY DEF BoxStarts, BoxEnds, ghosts
<1>2. ShapingTyped /\ ~ refused /\ \A e \in Ends : EndInv(e)
  BY DEF ShapingInv
<1>3. box \in [Pods -> [starting : Nat, running : Nat]]
  BY <1>2 DEF ShapingTyped
<1>4. box' \in [Pods -> [starting : Nat, running : Nat]]
  BY <1>3 DEF BoxStarts, BoxEnds
<1>5. ShapingTyped'
  BY <1>1, <1>2, <1>4 DEF ShapingTyped
<1>6. ASSUME NEW e \in Ends PROVE EndInv(e)'
  BY <1>1, <1>2, Untouched
<1> QED  BY <1>1, <1>2, <1>5, <1>6 DEF ShapingInv

\* A line is taken and adds to the tree, or the fault of one ends the batch.
LEMMA LineKeeps ==
  ASSUME ShapingInv, NEW e \in Ends, RunLine(e)
  PROVE  ShapingInv'
<1> DEFINE rows == use[e].rows
           ok == Accepts(dev[e], Head(rows))
<1>1. /\ use[e].st \in {"rows", "own"} /\ rows # <<>>
      /\ \/ /\ ok /\ dev' = [dev EXCEPT ![e] = Applied(dev[e], Head(rows))]
            /\ use' = [use EXCEPT ![e] = [use[e] EXCEPT !.rows = Tail(rows)]]
            /\ torn' = torn \cup {e} /\ row' = row /\ refused' = refused
            /\ tried' = IF rows = Rows(use[e].act) THEN [tried EXCEPT ![e] = rows] ELSE tried
         \/ /\ use' = [use EXCEPT ![e] = Rest] /\ row' = Pruned(e)
            /\ refused' = (refused \/ ~ ok) /\ dev' = dev /\ torn' = torn /\ tried' = tried
      /\ choice' = choice /\ box' = box /\ lock' = lock /\ stuck' = stuck /\ left' = left
  BY DEF RunLine, toolbox
<1>2. /\ ShapingTyped /\ use \in [Users -> Uses] /\ dev \in [Ends -> Kernels]
      /\ row \in [Ends -> Records \cup {None}] /\ tried \in [Ends -> Seq(BatchLines)]
      /\ ~ refused /\ \A f \in Ends : EndInv(f)
  BY DEF ShapingInv, ShapingTyped
<1>3. e \in Users /\ Busy(e) /\ use[e] \in Uses /\ use[e].act \in Acts
  <2>1. e \in Users /\ Busy(e)
    BY <1>1 DEF Users, Busy
  <2> QED  BY <1>2, <2>1 DEF EndInv, Midway
<1>4. /\ ok /\ Applied(dev[e], Head(rows)) \in Kernels /\ Tail(rows) \in Seq(BatchLines)
  <2> DEFINE R == Rows(use[e].act)
             k == Done(e)
  <2>1. /\ k \in Nat /\ Head(rows) = R[k + 1] /\ Accepts(dev[e], R[k + 1])
        /\ Applied(dev[e], R[k + 1]) = After(R, k + 1) /\ Tail(rows) \in Seq(BatchLines)
    BY <1>1, <1>2, <1>3, LineIs
  <2> HIDE DEF k
  <2>2. After(R, k + 1) \in Kernels
    BY <1>3, <2>1 DEF Kernels
  <2> QED  BY <2>1, <2>2
<1>5. CASE /\ ok /\ dev' = [dev EXCEPT ![e] = Applied(dev[e], Head(rows))]
           /\ use' = [use EXCEPT ![e] = [use[e] EXCEPT !.rows = Tail(rows)]]
           /\ torn' = torn \cup {e} /\ row' = row /\ refused' = refused
           /\ tried' = IF rows = Rows(use[e].act) THEN [tried EXCEPT ![e] = rows] ELSE tried
  <2>1. [use[e] EXCEPT !.rows = Tail(rows)] \in Uses
    BY <1>3, <1>4 DEF Uses
  <2>2. rows \in Seq(BatchLines)
    BY <1>3 DEF Uses
  <2>3. /\ dev' \in [Ends -> Kernels] /\ use' \in [Users -> Uses] /\ torn' \subseteq Ends
        /\ tried' \in [Ends -> Seq(BatchLines)]
    <3>1. dev' \in [Ends -> Kernels]
      BY <1>2, <1>4, <1>5
    <3>2. use' \in [Users -> Uses]
      BY <1>2, <1>5, <2>1
    <3>3. torn' \subseteq Ends /\ tried' \in [Ends -> Seq(BatchLines)]
      BY <1>2, <1>5, <2>2 DEF ShapingTyped
    <3> QED  BY <3>1, <3>2, <3>3
  <2>4. ShapingTyped'
    BY <1>1, <1>2, <1>5, <2>3 DEF ShapingTyped
  <2>5. ASSUME NEW f \in Ends PROVE EndInv(f)'
    <3>1. CASE f = e
      <4>1. /\ dev'[e] = Applied(dev[e], Head(use[e].rows)) /\ row'[e] = row[e] /\ e \in torn'
            /\ use'[e] = [use[e] EXCEPT !.rows = Tail(use[e].rows)]
            /\ tried'[e] = IF use[e].rows = Rows(use[e].act) THEN use[e].rows ELSE tried[e]
        BY <1>2, <1>3, <1>5
      <4>2. EndInv(e)'
        BY <1>1, <1>2, <1>3, <4>1, LineRun
      <4> QED  BY <3>1, <4>2
    <3>2. CASE f # e
      <4>1. /\ dev'[f] = dev[f] /\ row'[f] = row[f] /\ use'[f] = use[f]
            /\ tried'[f] = tried[f] /\ (f \in torn' <=> f \in torn)
        BY <1>2, <1>5, <3>2 DEF Users
      <4> QED  BY <1>2, <4>1, Untouched
    <3> QED  BY <3>1, <3>2
  <2> QED  BY <1>2, <1>5, <2>4, <2>5 DEF ShapingInv
<1>6. CASE /\ use' = [use EXCEPT ![e] = Rest] /\ row' = Pruned(e)
           /\ refused' = (refused \/ ~ ok) /\ dev' = dev /\ torn' = torn /\ tried' = tried
  <2>1. use' \in [Users -> Uses] /\ row' \in [Ends -> Records \cup {None}]
    BY <1>2, <1>6, RestTyped DEF Pruned
  <2>2. ShapingTyped'
    BY <1>1, <1>2, <1>6, <2>1 DEF ShapingTyped
  <2>3. ASSUME NEW f \in Ends PROVE EndInv(f)'
    <3>1. CASE f = e
      <4>1. use'[e] = Rest /\ row'[e] = IF use[e].replay THEN None ELSE row[e]
        BY <1>2, <1>3, <1>6 DEF Pruned
      <4>2. EndInv(e)'
        BY <1>2, <1>3, <1>6, <4>1, GivenUp
      <4> QED  BY <3>1, <4>2
    <3>2. CASE f # e
      <4>1. use'[f] = use[f] /\ row'[f] = row[f]
        BY <1>2, <1>6, <3>2 DEF Pruned, Users
      <4> QED  BY <1>2, <1>6, <4>1, Untouched
    <3> QED  BY <3>1, <3>2
  <2> QED  BY <1>2, <1>4, <1>6, <2>2, <2>3 DEF ShapingInv
<1> QED  BY <1>1, <1>5, <1>6

\* A batch that is through is on record.
LEMMA FinishKeeps ==
  ASSUME ShapingInv, NEW e \in Ends, Finish(e)
  PROVE  ShapingInv'
<1>1. /\ use[e].st \in {"rows", "own"} /\ use[e].rows = <<>>
      /\ choice' = choice \/ choice' = [choice EXCEPT ![PodOf(e)] = "own"]
      /\ row' = [row EXCEPT ![e] = Saved(use[e], row[e])]
      /\ use' = [use EXCEPT ![e] = Rest]
      /\ torn' = torn \ {e} /\ tried' = [tried EXCEPT ![e] = <<>>]
      /\ dev' = dev /\ box' = box /\ lock' = lock /\ stuck' = stuck /\ refused' = refused
      /\ left' = left
  BY DEF Finish
<1>2. /\ ShapingTyped /\ use \in [Users -> Uses] /\ row \in [Ends -> Records \cup {None}]
      /\ tried \in [Ends -> Seq(BatchLines)] /\ ~ refused /\ \A f \in Ends : EndInv(f)
  BY DEF ShapingInv, ShapingTyped
<1>3. e \in Users /\ Busy(e)
  BY <1>1 DEF Users, Busy
<1>4. use'[e] = Rest /\ row'[e] = Saved(use[e], row[e]) /\ e \notin torn' /\ dev'[e] = dev[e]
  BY <1>1, <1>2, <1>3
<1>5. EndInv(e)' /\ row'[e] \in Records \cup {None}
  BY <1>1, <1>2, <1>3, <1>4, BatchThrough
<1>6. ShapingTyped'
  <2>1. /\ use' \in [Users -> Uses] /\ row' \in [Ends -> Records \cup {None}]
        /\ choice' \in [Pods -> {"unknown", "own", "toolbox"}]
    BY <1>1, <1>2, <1>4, <1>5, RestTyped DEF ShapingTyped
  <2>2. <<>> \in Seq(BatchLines)
    OBVIOUS
  <2>3. tried' \in [Ends -> Seq(BatchLines)]
    BY <1>1, <1>2, <2>2
  <2> QED  BY <1>1, <1>2, <2>1, <2>3 DEF ShapingTyped
<1>7. ASSUME NEW f \in Ends PROVE EndInv(f)'
  <2>1. CASE f # e
    <3>1. /\ row'[f] = row[f] /\ use'[f] = use[f] /\ tried'[f] = tried[f]
          /\ (f \in torn' <=> f \in torn)
      BY <1>1, <1>2, <2>1 DEF Users
    <3> QED  BY <1>1, <1>2, <3>1, Untouched
  <2> QED  BY <1>5, <2>1
<1> QED  BY <1>1, <1>2, <1>6, <1>7 DEF ShapingInv

\* Every step keeps the invariant.
LEMMA InvNext == ShapingInv /\ [ShapingNext]_shapingVars => ShapingInv'
<1> SUFFICES ASSUME ShapingInv, [ShapingNext]_shapingVars PROVE ShapingInv'
  OBVIOUS
<1>1. CASE shapingVars' = shapingVars
  <2>1. /\ dev' = dev /\ row' = row /\ use' = use /\ torn' = torn /\ tried' = tried
        /\ choice' = choice /\ box' = box /\ lock' = lock /\ stuck' = stuck
        /\ refused' = refused /\ left' = left
    BY <1>1 DEF shapingVars
  <2>2. ShapingTyped'
    BY <2>1 DEF ShapingInv, ShapingTyped
  <2>3. ASSUME NEW e \in Ends PROVE EndInv(e)'
    BY <2>1, Untouched DEF ShapingInv
  <2> QED  BY <2>1, <2>2, <2>3 DEF ShapingInv
<1>2. ASSUME NEW e \in Named, NEW p \in Entries,
             \/ ConfigureLink(e, "one", p, p) \/ ConfigureLink(e, "symmetric", p, p)
             \/ \E r \in Reverses : ConfigureLink(e, "reverse", p, r)
      PROVE  ShapingInv'
  <2>1. Reverses \subseteq Entries
    BY ShapingAssumption
  <2> QED  BY <1>2, <2>1, ConfigureKeeps
<1>3. ASSUME NEW e \in Named, ConfigureLink(e, "remove", None, None) PROVE ShapingInv'
  BY <1>3, ConfigureKeeps
<1>4. ASSUME NEW x \in Pods, Recreate(x) \/ BoxStarts(x) \/ BoxEnds(x) PROVE ShapingInv'
  BY <1>4, RecreateKeeps, BoxKeeps
<1>5. ASSUME NEW t \in Tools, Session(t) \/ GetQdisc(t) \/ RunTCJSON(t) PROVE ShapingInv'
  BY <1>5, ToolKeeps
<1>6. ASSUME NEW e \in Ends, RunLine(e) \/ Finish(e) PROVE ShapingInv'
  BY <1>6, LineKeeps, FinishKeeps
<1>7. ASSUME NEW u \in Users, ChooseTC(u) \/ Ensure(u) \/ Await(u) PROVE ShapingInv'
  BY <1>7, ChooseKeeps, EnsureKeeps, AwaitKeeps
<1> QED  BY <1>1, <1>2, <1>3, <1>4, <1>5, <1>6, <1>7 DEF ShapingNext

----------------------------------------------------------------------------
(* One toolbox.                                                             *)

\* A toolbox that starts is waited for under the pod's lock.
BoxInv ==
  /\ box \in [Pods -> [starting : Nat, running : Nat]] /\ lock \in [Pods -> Users \cup {None}]
  /\ \A x \in Pods \ stuck : /\ box[x].starting + box[x].running <= 1
                             /\ box[x].starting > 0 => lock[x] # None

\* There is no toolbox at first.
LEMMA BoxInit == ShapingInit => BoxInv
BY DEF ShapingInit, BoxInv

\* One is started only where none runs, and under the lock of the pod.
LEMMA BoxNext == BoxInv /\ [ShapingNext]_shapingVars => BoxInv'
<1> SUFFICES ASSUME BoxInv, [ShapingNext]_shapingVars PROVE BoxInv'
  OBVIOUS
<1>1. box \in [Pods -> [starting : Nat, running : Nat]] /\ lock \in [Pods -> Users \cup {None}]
  BY DEF BoxInv
<1>2. CASE box' = box /\ lock' = lock /\ stuck' = stuck
  BY <1>2 DEF BoxInv
<1>3. ASSUME NEW x \in Pods, Recreate(x) PROVE BoxInv'
  <2>1. /\ box' = [box EXCEPT ![x] = [starting |-> 0, running |-> 0]]
        /\ stuck' = stuck \ {x} /\ lock' = lock
    BY <1>3 DEF Recreate
  <2>2. box' \in [Pods -> [starting : Nat, running : Nat]]
    BY <1>1, <2>1
  <2>3. box'[x].starting = 0 /\ box'[x].running = 0 /\ \A y \in Pods : y # x => box'[y] = box[y]
    BY <1>1, <2>1
  <2>4. ASSUME NEW y \in Pods \ stuck'
        PROVE  /\ box'[y].starting + box'[y].running <= 1
               /\ box'[y].starting > 0 => lock'[y] # None
    BY <2>1, <2>3 DEF BoxInv
  <2> QED  BY <1>1, <2>1, <2>2, <2>4 DEF BoxInv
<1>4. ASSUME NEW x \in Pods, BoxStarts(x) PROVE BoxInv'
  <2>1. /\ box[x].starting > 0 /\ stuck' = stuck /\ lock' = lock
        /\ box' = [box EXCEPT ![x] = [starting |-> box[x].starting - 1,
                                      running |-> box[x].running + 1]]
    BY <1>1, <1>4 DEF BoxStarts
  <2>2. box[x].starting \in Nat /\ box[x].running \in Nat
    BY <1>1
  <2>3. box' \in [Pods -> [starting : Nat, running : Nat]]
    BY <1>1, <2>1, <2>2
  <2>4. /\ box'[x].starting = box[x].starting - 1 /\ box'[x].running = box[x].running + 1
        /\ \A y \in Pods : y # x => box'[y] = box[y]
    BY <1>1, <2>1
  <2>5. ASSUME NEW y \in Pods \ stuck'
        PROVE  /\ box'[y].starting + box'[y].running <= 1
               /\ box'[y].starting > 0 => lock'[y] # None
    BY <2>1, <2>2, <2>4 DEF BoxInv
  <2> QED  BY <1>1, <2>1, <2>3, <2>5 DEF BoxInv
<1>5. ASSUME NEW x \in Pods, BoxEnds(x) PROVE BoxInv'
  <2>1. /\ box[x].running > 0 /\ stuck' = stuck /\ lock' = lock
        /\ box' = [box EXCEPT ![x].running = @ - 1]
    BY <1>5 DEF BoxEnds
  <2>2. box[x].starting \in Nat /\ box[x].running \in Nat
    BY <1>1
  <2>3. box' \in [Pods -> [starting : Nat, running : Nat]]
    BY <1>1, <2>1, <2>2
  <2>4. /\ box'[x].starting = box[x].starting /\ box'[x].running = box[x].running - 1
        /\ \A y \in Pods : y # x => box'[y] = box[y]
    BY <1>1, <2>1
  <2>5. ASSUME NEW y \in Pods \ stuck'
        PROVE  /\ box'[y].starting + box'[y].running <= 1
               /\ box'[y].starting > 0 => lock'[y] # None
    BY <2>1, <2>2, <2>4 DEF BoxInv
  <2> QED  BY <1>1, <2>1, <2>3, <2>5 DEF BoxInv
<1>6. ASSUME NEW u \in Users, Ensure(u) PROVE BoxInv'
  <2> DEFINE x == PodOfUser(u)
  <2>1. x \in Pods /\ u # None
    BY PodOfUserIs, ShapingAssumption
  <2>2. CASE box' = box /\ lock' = lock /\ stuck' = stuck
    BY <2>2 DEF BoxInv
  <2>3. CASE /\ Free(x)
             /\ \/ box[x].running = 0 /\ stuck' = stuck
                \/ stuck' = stuck \cup {x}
             /\ box' = [box EXCEPT ![x].starting = @ + 1] /\ lock' = [lock EXCEPT ![x] = u]
    <3> HIDE DEF x
    <3>1. box[x].starting \in Nat /\ box[x].running \in Nat
      BY <1>1, <2>1
    <3>2. /\ box' \in [Pods -> [starting : Nat, running : Nat]]
          /\ lock' \in [Pods -> Users \cup {None}]
      BY <1>1, <2>1, <2>3, <3>1
    <3>3. /\ box'[x].starting = box[x].starting + 1 /\ box'[x].running = box[x].running
          /\ lock'[x] = u
          /\ \A y \in Pods : y # x => box'[y] = box[y] /\ lock'[y] = lock[y]
      BY <1>1, <2>1, <2>3
    <3>4. x \notin stuck => box[x].starting = 0
      BY <2>1, <2>3, <3>1 DEF BoxInv, Free
    <3>5. ASSUME NEW y \in Pods \ stuck'
          PROVE  /\ box'[y].starting + box'[y].running <= 1
                 /\ box'[y].starting > 0 => lock'[y] # None
      BY <2>1, <2>3, <3>3, <3>4 DEF BoxInv
    <3> QED  BY <3>2, <3>5 DEF BoxInv
  <2> QED  BY <1>6, <2>2, <2>3 DEF Ensure
<1>7. ASSUME NEW u \in Users, Await(u) PROVE BoxInv'
  <2> DEFINE x == PodOfUser(u)
  <2>1. /\ box' = box /\ lock' = [lock EXCEPT ![x] = None]
        /\ \/ box[x].running > 0 /\ stuck' = stuck
           \/ stuck' = stuck \cup {x}
    BY <1>7 DEF Await
  <2>2. x \in Pods
    BY PodOfUserIs
  <2> HIDE DEF x
  <2>3. lock' \in [Pods -> Users \cup {None}] /\ \A y \in Pods : y # x => lock'[y] = lock[y]
    BY <1>1, <2>1
  <2>4. box[x].starting \in Nat /\ box[x].running \in Nat
    BY <1>1, <2>2
  <2>5. ASSUME NEW y \in Pods \ stuck'
        PROVE  /\ box'[y].starting + box'[y].running <= 1
               /\ box'[y].starting > 0 => lock'[y] # None
    BY <2>1, <2>2, <2>3, <2>4 DEF BoxInv
  <2> QED  BY <1>1, <2>1, <2>3, <2>5 DEF BoxInv
<1>8. \/ box' = box /\ lock' = lock /\ stuck' = stuck
      \/ \E x \in Pods : Recreate(x) \/ BoxStarts(x) \/ BoxEnds(x)
      \/ \E u \in Users : Ensure(u) \/ Await(u)
  <2>1. CASE shapingVars' = shapingVars
    BY <2>1 DEF shapingVars
  <2>2. CASE ShapingNext
    <3>1. \A e, how, p, r :
            ConfigureLink(e, how, p, r) => box' = box /\ lock' = lock /\ stuck' = stuck
      BY DEF ConfigureLink, toolbox
    <3>2. \A t : Session(t) \/ GetQdisc(t) \/ RunTCJSON(t)
                  => box' = box /\ lock' = lock /\ stuck' = stuck
      BY DEF Session, GetQdisc, RunTCJSON, toolbox
    <3>3. \A e : RunLine(e) \/ Finish(e) => box' = box /\ lock' = lock /\ stuck' = stuck
      BY DEF RunLine, Finish, toolbox
    <3>4. \A u : ChooseTC(u) => box' = box /\ lock' = lock /\ stuck' = stuck
      BY DEF ChooseTC
    <3> QED  BY <2>2, <3>1, <3>2, <3>3, <3>4 DEF ShapingNext
  <2> QED  BY <2>1, <2>2
<1> QED  BY <1>2, <1>3, <1>4, <1>5, <1>6, <1>7, <1>8

----------------------------------------------------------------------------
(* The theorems.                                                            *)

\* The invariant holds in every reachable state.
LEMMA ShapingHolds == ShapingSpec => []ShapingInv
BY InitInv, InvNext, PTL DEF ShapingSpec

\* What is on record for an interface at rest: nothing, and the kernel has none of
\* its own, or a valid request, and the kernel has all of it.
LEMMA AtRest ==
  ASSUME ShapingInv, NEW e \in Ends, Settled(e)
  PROVE  \/ row[e] = None /\ dev[e] = Unshaped
         \/ /\ row[e] # None /\ row[e] \in Records /\ row[e].act \in Entries /\ Valid(row[e].act)
            /\ dev[e] = After(Rows(row[e].act), Len(Rows(row[e].act)))
<1>1. EndInv(e) /\ row[e] \in Records \cup {None}
  BY DEF ShapingInv, ShapingTyped
<1>2. dev[e] = OnRecord(row[e])
  BY <1>1 DEF EndInv, Settled
<1> QED  BY <1>1, <1>2 DEF OnRecord, Records

\* RunTCBatch and the readback: whatever was on an interface before, however
\* requests, failures, toolboxes and restarts interleave, the kernel has what is on
\* record for it, tc and the readback of every valid request agree, and what a
\* failed batch left is the beginning of its own tree.
THEOREM ShapingAsRecorded == ShapingSpec => []KernelAsRecorded
<1>1. ASSUME ShapingInv PROVE ShapingTypes
  <2>1. ShapingTyped
    BY <1>1 DEF ShapingInv
  <2>2. ASSUME NEW e \in Ends
        PROVE  row[e] = None \/ (row[e].act \in Entries /\ row[e].here \in BOOLEAN)
    BY <2>1 DEF ShapingTyped, Records
  <2>3. ASSUME NEW u \in Users PROVE use[u].st \in {"idle", "tc", "ensure", "wait", "rows", "own"}
    <3>1. use[u] \in Uses
      BY <2>1 DEF ShapingTyped
    <3> QED  BY <3>1 DEF Uses
  <2>4. ASSUME NEW x \in Pods
        PROVE  /\ choice[x] \in {"unknown", "own", "toolbox"}
               /\ box[x].starting \in Nat /\ box[x].running \in Nat
               /\ lock[x] \in Users \cup {None}
    BY <2>1 DEF ShapingTyped
  <2> QED  BY <2>1, <2>2, <2>3, <2>4 DEF ShapingTypes, ShapingTyped
<1>2. ASSUME ShapingInv PROVE ReadsAsRecorded
  <2>1. ASSUME NEW e \in Ends, Settled(e), row[e] = None
        PROVE  ~ ReadQdisc(dev[e]).root.shaped
    <3>1. dev[e] = Unshaped
      BY <1>2, <2>1, AtRest
    <3> QED  BY <3>1, UnshapedIs DEF ReadQdisc, ParseTCQdiscJSON
  <2>2. ASSUME NEW e \in Ends, Settled(e), row[e] # None
        PROVE  Reads(dev[e], row[e].act)
    <3>1. /\ row[e].act \in Entries /\ Valid(row[e].act)
          /\ dev[e] = After(Rows(row[e].act), Len(Rows(row[e].act)))
      BY <1>2, <2>2, AtRest
    <3> QED  BY <3>1, ReadBack
  <2> QED  BY <2>1, <2>2, Zenon DEF ReadsAsRecorded, Reads
<1>3. ShapingInv => NoMixture
  BY DEF ShapingInv, EndInv, NoMixture, ShapingTyped
<1>4. ShapingInv => KernelAsRecorded
  BY <1>1, <1>2, <1>3 DEF KernelAsRecorded
<1> QED  BY <1>4, ShapingHolds, PTL

\* htbCommands numbers the filters in request order, and Classify takes the least:
\* in every tree a packet goes to the first class that matches it.
THEOREM TreesSortAsAsked == ShapingSpec => []FirstMatchWins
<1>1. ASSUME ShapingInv PROVE FirstMatchWins
  <2>1. ASSUME NEW e \in Ends, Settled(e) /\ row[e] # None /\ row[e].act.qdisc = "htb"
        PROVE  Sorts(dev[e], row[e].act)
    <3>1. /\ row[e].act \in Entries /\ Valid(row[e].act)
          /\ dev[e] = After(Rows(row[e].act), Len(Rows(row[e].act)))
      BY <1>1, <2>1, AtRest
    <3> QED  BY <2>1, <3>1, SortsRight
  <2> QED  BY <2>1, Zenon DEF FirstMatchWins, Sorts
<1> QED  BY <1>1, ShapingHolds, PTL

\* buildShapingCommands checks all that tc and the kernel ask for: no line of a
\* request that passes is refused, whatever batch failed on the interface before.
THEOREM ValidRequestsAreTaken == ShapingSpec => []ValidIsAccepted
<1>1. ShapingInv => ValidIsAccepted
  BY DEF ShapingInv, ValidIsAccepted
<1> QED  BY <1>1, ShapingHolds, PTL

\* EnsureToolbox holds the pod's lock from finding no toolbox until one runs: any
\* number of batches, captures and reads on a pod share one.
THEOREM ToolsShareTheToolbox == ShapingSpec => []OneToolbox
<1>1. BoxInv => OneToolbox
  BY DEF BoxInv, OneToolbox
<1> QED  BY <1>1, BoxInit, BoxNext, PTL DEF ShapingSpec

----------------------------------------------------------------------------
(* ToolRuns: the types.                                                     *)

Kinds   == {"trace", "iperf", "capture", "none"}
Steps   == {"idle", "done", "index", "mtr", "hubs", "stream", "streaming", "prepare", "server",
            "listen", "client", "killclient", "killserver"}
Results == {"none", "error", "unreachable", "delivered", "unreached", "summary", "cancelled",
            "unkilled"}
Routes  == {<<>>} \cup (Pods \X Pods)
           \cup UNION {UNION {{Paths[T][p][q] : q \in Pods} : p \in Pods} :
                         T \in {s.topology : s \in Scenarios}}
Hop     == [kind : {"timeout", "external", "l3"}, node : Pods \cup {None},
            segment : {None, "link", "tunnel"}, path : Routes]
Emitted == [line : Lines, hop : Hop]

Record(P, D) ==
  [kind : Kinds, pc : Steps, src : P, dest : D, port : Nat,
   rest : BOOLEAN, closed : BOOLEAN, ctx : BOOLEAN, stop : BOOLEAN, exec : BOOLEAN,
   pump : BOOLEAN, pipe : Lines \cup {None}, prev : P, resolves : BOOLEAN,
   hops : Seq(Emitted), consecutive : Nat, dropped : BOOLEAN, reached : BOOLEAN,
   metrics : BOOLEAN, listened : BOOLEAN, result : Results]
Run == Record(Pods, Pods \cup {Outside})

Roles == {"probe", "tshark", "client", "server"}
Procs == [run : Runs, role : Roles, pod : Pods \cup {Outside}, port : Nat]

\* The step a run is at, what it holds while it streams, and whose programs run.
Fits(c) ==
  /\ c.pc \in {"index", "mtr", "hubs"} => c.kind = "trace"
  /\ c.pc = "stream" => c.kind \in {"trace", "capture"}
  /\ c.pc \in {"prepare", "server", "listen", "client", "killclient", "killserver"} => c.kind = "iperf"
  /\ c.exec \/ c.pump => c.pc = "streaming"
  /\ c.pc = "streaming" => c.kind # "none"
  /\ c.hops # <<>> => c.kind = "trace" /\ c.pc \in {"hubs", "streaming", "done"}
  /\ Len(c.hops) <= MaxTTL
  /\ c.pipe # None => c.kind = "trace" /\ Len(c.hops) < MaxTTL /\ c.exec
  /\ c.pc \in {"idle", "prepare"} \/ c.kind # "iperf" => c.port = 0
  /\ c.pc \in {"server", "listen"} => c.port # 0
  /\ c.port # 0 => c.dest \in Pods
  /\ c.pc \in {"idle", "prepare", "server"} => ~ c.listened
  /\ c.pc \in {"client", "streaming", "killclient", "killserver"} /\ c.port # 0 => c.listened
  /\ c.pc \in {"idle", "prepare", "server", "listen", "client", "index", "stream"} =>
       c.result = "none"
  /\ c.pc = "killserver" => c.result \in {"cancelled", "unkilled"}

Typed ==
  /\ topology \in {s.topology : s \in Scenarios}
  /\ run \in [Runs -> Run] /\ procs \subseteq Procs /\ listens \subseteq procs
  /\ \A r \in Runs : Fits(run[r])

\* What a request asks for, put into a run that has not begun.
LEMMA BlankIs ==
  ASSUME NEW s \in Scenarios, NEW r \in Runs, NEW c, c = Asked(s.asks[r])
  PROVE  /\ c \in Run /\ c.pc = "idle" /\ ~ c.exec /\ ~ c.pump /\ c.hops = <<>> /\ c.pipe = None
         /\ c.prev = c.src /\ c.port = 0 /\ ~ c.stop /\ ~ c.dropped /\ ~ c.reached /\ ~ c.listened
         /\ c.consecutive = 0 /\ c.result = "none" /\ ~ c.metrics
<1> DEFINE b1 == [Blank EXCEPT !.kind = s.asks[r].kind]
           b2 == [b1 EXCEPT !.src = s.asks[r].src]
           b3 == [b2 EXCEPT !.prev = s.asks[r].src]
           b4 == [b3 EXCEPT !.dest = s.asks[r].dest]
           b5 == [b4 EXCEPT !.rest = s.asks[r].rest]
           P == Pods \cup {None}
           D == Pods \cup {Outside, None}
<1>1. /\ s.asks[r].kind \in Kinds /\ s.asks[r].src \in Pods /\ s.asks[r].rest \in BOOLEAN
      /\ s.asks[r].dest \in Pods \cup {Outside}
  BY ToolAssumption DEF Kinds
<1>2. Blank \in Record(P, D)
  BY DEF Blank, Record, Kinds, Steps, Results
<1>3. b1 \in Record(P, D)
  BY <1>1, <1>2 DEF Record
<1>4. b2 \in Record(P, D) /\ b2.src \in Pods
  BY <1>1, <1>3 DEF Record
<1>5. b3 \in Record(P, D) /\ b3.src \in Pods /\ b3.prev \in Pods
  BY <1>1, <1>4 DEF Record
<1>6. b4 \in Record(P, D) /\ b4.src \in Pods /\ b4.prev \in Pods /\ b4.dest \in Pods \cup {Outside}
  BY <1>1, <1>5 DEF Record
<1>7. b5 \in Record(P, D) /\ b5.src \in Pods /\ b5.prev \in Pods /\ b5.dest \in Pods \cup {Outside}
  BY <1>1, <1>6 DEF Record
<1>8. c = b5
  BY DEF Asked
<1>9. c \in Run
  BY <1>7, <1>8 DEF Run, Record
<1>10. /\ c.pc = "idle" /\ ~ c.exec /\ ~ c.pump /\ c.hops = <<>> /\ c.pipe = None
       /\ c.prev = c.src /\ c.port = 0 /\ ~ c.stop
  BY DEF Asked, Blank
<1>11. /\ ~ c.dropped /\ ~ c.reached /\ ~ c.listened
       /\ c.consecutive = 0 /\ c.result = "none" /\ ~ c.metrics
  BY DEF Asked, Blank
<1> QED  BY <1>9, <1>10, <1>11

LEMMA TypedInit == Init => Typed
<1> SUFFICES ASSUME Init PROVE Typed
  OBVIOUS
<1>1. PICK s \in Scenarios : /\ topology = s.topology
                             /\ run = [r \in Runs |-> Asked(s.asks[r])]
  BY Zenon DEF Init
<1>2. ASSUME NEW r \in Runs PROVE run[r] \in Run /\ Fits(run[r])
  <2>1. run[r] = Asked(s.asks[r])
    BY <1>1
  <2>2. /\ run[r] \in Run /\ run[r].pc = "idle" /\ ~ run[r].exec /\ ~ run[r].pump
        /\ run[r].hops = <<>> /\ run[r].pipe = None /\ run[r].port = 0 /\ ~ run[r].listened
        /\ run[r].result = "none"
    BY <2>1, BlankIs
  <2> QED  BY <2>2, ToolAssumption DEF Fits
<1>3. run \in [Runs -> Run]
  BY <1>1, <1>2
<1> QED  BY <1>1, <1>2, <1>3 DEF Init, Typed

\* What a step leaves of a run as it was: what its request asked for, and the port
\* once it is chosen.
Kept(b, c) ==
  /\ c.kind = b.kind /\ c.src = b.src /\ c.dest = b.dest /\ c.rest = b.rest
  /\ b.pc # "prepare" => c.port = b.port
  /\ b.pc \notin {"idle", "prepare"} => c.pc \notin {"idle", "prepare"}
AllKept == \A q \in Runs : Kept(run[q], run'[q])

LEMMA TypedStep ==
  ASSUME Typed, NEW r \in Runs, NEW c \in Run, Fits(c), Kept(run[r], c),
         run' = [run EXCEPT ![r] = c], topology' = topology,
         procs' \subseteq Procs, listens' \subseteq procs'
  PROVE  Typed' /\ AllKept
<1>1. run' \in [Runs -> Run] /\ run'[r] = c /\ \A q \in Runs \ {r} : run'[q] = run[q]
  BY DEF Typed
<1>2. \A q \in Runs : Fits(run'[q])
  BY <1>1 DEF Typed
<1>3. Typed'
  BY <1>1, <1>2 DEF Typed
<1>4. AllKept
  BY <1>1 DEF AllKept, Kept
<1> QED  BY <1>3, <1>4

\* The run of a handler's step.
LEMMA TypedRun ==
  ASSUME Typed, NEW r \in Runs
  PROVE  run[r] \in Run /\ Fits(run[r]) /\ topology \in {s.topology : s \in Scenarios}
         /\ procs \subseteq Procs /\ listens \subseteq procs
BY DEF Typed

LEMMA ProcTyped ==
  ASSUME Typed, NEW r \in Runs, NEW role \in Roles, NEW x \in Pods \cup {Outside}
  PROVE  Proc(r, role, x) \in Procs
BY TypedRun DEF Proc, Procs, Run, Record

\* What the pump makes of a line.
LEMMA HandledIs ==
  ASSUME Typed, NEW c \in Run, NEW line \in Lines
  PROVE  LET d == Handled(c, line)
             h == IF line.ip = None
                  THEN [kind |-> "timeout", node |-> None, segment |-> None, path |-> <<>>]
                  ELSE AnnotateTraceHop(line.ip, c.prev, c.resolves)
         IN /\ d \in Run /\ h \in Hop /\ d.hops = Append(c.hops, [line |-> line, hop |-> h])
            /\ d.consecutive = IF line.ip = None THEN c.consecutive + 1 ELSE 0
            /\ d.prev = IF h.kind = "l3" THEN h.node ELSE c.prev
            /\ d.dropped = (c.dropped \/ line.flag)
            /\ d.reached = (c.reached \/ (line.ip # None /\ line.ip = c.dest))
            /\ Kept(c, d) /\ d.port = c.port /\ d.pc = c.pc /\ d.ctx = c.ctx /\ d.stop = c.stop
            /\ d.exec = c.exec /\ d.pump = c.pump /\ d.pipe = c.pipe /\ d.metrics = c.metrics
            /\ d.listened = c.listened /\ d.result = c.result
<1> DEFINE t == line.ip = None
           h == IF t THEN [kind |-> "timeout", node |-> None, segment |-> None, path |-> <<>>]
                ELSE AnnotateTraceHop(line.ip, c.prev, c.resolves)
           e == [line |-> line, hop |-> h]
           n == IF t THEN c.consecutive + 1 ELSE 0
           p == IF h.kind = "l3" THEN h.node ELSE c.prev
           x == c.dropped \/ line.flag
           y == c.reached \/ (~ t /\ line.ip = c.dest)
           d == [c EXCEPT !.hops = Append(@, e), !.consecutive = n, !.prev = p, !.dropped = x,
                          !.reached = y]
<1>1. Handled(c, line) = d
  BY DEF Handled
<1>a. /\ c.prev \in Pods /\ c.consecutive \in Nat /\ c.dropped \in BOOLEAN /\ c.reached \in BOOLEAN
      /\ c.hops \in Seq(Emitted)
  BY DEF Run, Record
<1>b. line.flag \in BOOLEAN /\ topology \in {s.topology : s \in Scenarios}
  <2>1. line = [ip |-> None, flag |-> FALSE] \/ line \in [ip : Routers \cup {Outside}, flag : BOOLEAN]
    BY DEF Lines
  <2>2. line.flag \in BOOLEAN
    <3>1. CASE line = [ip |-> None, flag |-> FALSE]
      <4>1. line.flag = FALSE
        BY <3>1
      <4> QED  BY <4>1
    <3>2. CASE line \in [ip : Routers \cup {Outside}, flag : BOOLEAN]
      BY <3>2
    <3> QED  BY <2>1, <3>1, <3>2
  <2>3. topology \in {s.topology : s \in Scenarios}
    BY DEF Typed
  <2> QED  BY <2>2, <2>3
<1>2. /\ c.prev \in Pods /\ c.consecutive \in Nat /\ c.dropped \in BOOLEAN /\ c.reached \in BOOLEAN
      /\ c.hops \in Seq(Emitted) /\ line.flag \in BOOLEAN /\ topology \in {s.topology : s \in Scenarios}
  BY <1>a, <1>b
<1>3. h \in Hop /\ (h.kind = "l3" => h.node \in Pods)
  <2>1. CASE t
    BY <2>1 DEF Hop, Routes
  <2>2. CASE ~ t /\ (~ c.resolves \/ line.ip \notin Pods)
    BY <2>2 DEF Hop, Routes, AnnotateTraceHop
  <2>3. CASE ~ t /\ c.resolves /\ line.ip \in Pods
    <3> DEFINE w == Paths[topology][c.prev][line.ip]
    <3>1. w \in Routes /\ <<c.prev, line.ip>> \in Routes
      <4>1. w \in UNION {UNION {{Paths[T][u][q] : q \in Pods} : u \in Pods} :
                            T \in {s.topology : s \in Scenarios}}
        <5>1. Paths[topology][c.prev][line.ip] \in {Paths[topology][c.prev][q] : q \in Pods}
          BY <2>3
        <5>2. {Paths[topology][c.prev][q] : q \in Pods}
                 \in {{Paths[topology][u][q] : q \in Pods} : u \in Pods}
          BY <1>2
        <5>3. Paths[topology][c.prev][line.ip]
                 \in UNION {{Paths[topology][u][q] : q \in Pods} : u \in Pods}
          BY <5>1, <5>2, Zenon
        <5>4. UNION {{Paths[topology][u][q] : q \in Pods} : u \in Pods}
                 \in {UNION {{Paths[T][u][q] : q \in Pods} : u \in Pods} :
                         T \in {s.topology : s \in Scenarios}}
          <6>1. topology \in {s.topology : s \in Scenarios}
            BY <1>2
          <6> QED  BY <6>1
        <5> QED  BY <5>3, <5>4, Zenon
      <4>2. <<c.prev, line.ip>> \in Pods \X Pods
        BY <1>2, <2>3
      <4> QED  BY <4>1, <4>2, Zenon DEF Routes
    <3> HIDE DEF w
    <3>2. h = [kind |-> "l3", node |-> line.ip, segment |-> IF w # <<>> THEN "link" ELSE "tunnel",
               path |-> IF w # <<>> THEN w ELSE <<c.prev, line.ip>>]
      BY <2>3 DEF AnnotateTraceHop, w
    <3> HIDE DEF h
    <3>3. h \in Hop
      <4>1. CASE w # <<>>
        <5>1. h = [kind |-> "l3", node |-> line.ip, segment |-> "link", path |-> w]
          BY <3>2, <4>1
        <5> QED  BY <3>1, <5>1, <2>3 DEF Hop
      <4>2. CASE w = <<>>
        <5>1. h = [kind |-> "l3", node |-> line.ip, segment |-> "tunnel", path |-> <<c.prev, line.ip>>]
          BY <3>2, <4>2
        <5> QED  BY <3>1, <5>1, <2>3 DEF Hop
      <4> QED  BY <4>1, <4>2
    <3> QED  BY <3>2, <3>3, <2>3
  <2> QED  BY <2>1, <2>2, <2>3
<1> HIDE DEF h
<1>4. e \in Emitted /\ n \in Nat /\ p \in Pods /\ x \in BOOLEAN /\ y \in BOOLEAN
  BY <1>2, <1>3 DEF Emitted
<1> HIDE DEF e, n, p, x, y
<1>5. Append(c.hops, e) \in Seq(Emitted)
  BY <1>2, <1>4
<1>6. d \in Run
  BY <1>4, <1>5 DEF Run, Record
<1>7. /\ d.hops = Append(c.hops, e) /\ d.consecutive = n /\ d.prev = p /\ d.dropped = x /\ d.reached = y
  BY DEF Run, Record
<1>8. /\ Kept(c, d) /\ d.port = c.port /\ d.pc = c.pc /\ d.ctx = c.ctx /\ d.stop = c.stop
      /\ d.exec = c.exec /\ d.pump = c.pump /\ d.pipe = c.pipe /\ d.metrics = c.metrics
      /\ d.listened = c.listened /\ d.result = c.result
  BY DEF Run, Record, Kept
<1> QED  BY <1>1, <1>3, <1>6, <1>7, <1>8 DEF e, n, p, x, y, h

\* In short.
LEMMA HandledKeeps ==
  ASSUME Typed, NEW c \in Run, NEW line \in Lines, NEW d, d = Handled(c, line)
  PROVE  /\ d \in Run /\ Kept(c, d) /\ d.pc = c.pc /\ d.exec = c.exec /\ d.pump = c.pump
         /\ d.pipe = c.pipe /\ d.port = c.port /\ d.listened = c.listened
         /\ d.result = c.result /\ \E e \in Emitted : d.hops = Append(c.hops, e)
<1> DEFINE h == IF line.ip = None
                THEN [kind |-> "timeout", node |-> None, segment |-> None, path |-> <<>>]
                ELSE AnnotateTraceHop(line.ip, c.prev, c.resolves)
<1>1. /\ d \in Run /\ Kept(c, d) /\ d.pc = c.pc /\ d.exec = c.exec /\ d.pump = c.pump
      /\ d.pipe = c.pipe /\ d.port = c.port /\ d.listened = c.listened
      /\ d.result = c.result /\ h \in Hop /\ d.hops = Append(c.hops, [line |-> line, hop |-> h])
  BY HandledIs, Zenon
<1> HIDE DEF h
<1>2. [line |-> line, hop |-> h] \in Emitted
  BY <1>1 DEF Emitted
<1> QED  BY <1>1, <1>2, Zenon

----------------------------------------------------------------------------
(* Each step keeps the types.                                               *)

\* A step that ends the run.
LEMMA EndTyped ==
  ASSUME Typed, NEW r \in Runs, NEW res \in Results, End(r, res), ~ run[r].exec, ~ run[r].pump,
         topology' = topology, procs' \subseteq Procs, listens' \subseteq procs'
  PROVE  Typed' /\ AllKept
<1> DEFINE c == [run[r] EXCEPT !.pc = "done", !.result = res]
<1>1. run[r] \in Run /\ Fits(run[r])
  BY TypedRun
<1>2. run' = [run EXCEPT ![r] = c]
  BY DEF End
<1>3. c \in Run
  BY <1>1 DEF Run, Record, Steps
<1>4. Fits(c) /\ Kept(run[r], c)
  BY <1>1 DEF Run, Record, Fits, Kept
<1> QED  BY <1>2, <1>3, <1>4, TypedStep

\* A trace goes on to its index, or is refused.
LEMMA TraceWebSocketTyped ==
  ASSUME Typed, NEW r \in Runs, TraceWebSocket(r)
  PROVE  Typed' /\ AllKept
<1>1. run[r] \in Run /\ Fits(run[r]) /\ procs \subseteq Procs /\ listens \subseteq procs
  BY TypedRun
<1>2. topology' = topology /\ procs' \subseteq Procs /\ listens' \subseteq procs'
  BY <1>1 DEF TraceWebSocket
<1>3. CASE run' = [run EXCEPT ![r].pc = "index"]
  <2> DEFINE c == [run[r] EXCEPT !.pc = "index"]
  <2>1. run' = [run EXCEPT ![r] = c]
    BY <1>3
  <2>2. c \in Run
    BY <1>1 DEF Run, Record, Steps
  <2>3. Fits(c) /\ Kept(run[r], c)
    BY <1>1 DEF TraceWebSocket, Run, Record, Fits, Kept, At
  <2> QED  BY <2>1, <2>2, <2>3, <1>2, TypedStep
<1>4. CASE End(r, "error")
  <2>1. "error" \in Results /\ ~ run[r].exec /\ ~ run[r].pump
    BY <1>1 DEF TraceWebSocket, Results, Fits, At
  <2> QED  BY <2>1, <1>2, <1>4, EndTyped
<1> QED  BY <1>3, <1>4 DEF TraceWebSocket

\* So does a report.
LEMMA TraceReportTyped ==
  ASSUME Typed, NEW r \in Runs, TraceReport(r)
  PROVE  Typed' /\ AllKept
<1>1. run[r] \in Run /\ Fits(run[r]) /\ procs \subseteq Procs /\ listens \subseteq procs
  BY TypedRun
<1>2. topology' = topology /\ procs' \subseteq Procs /\ listens' \subseteq procs'
  BY <1>1 DEF TraceReport
<1>3. CASE run' = [run EXCEPT ![r].pc = "index"]
  <2> DEFINE c == [run[r] EXCEPT !.pc = "index"]
  <2>1. run' = [run EXCEPT ![r] = c]
    BY <1>3
  <2>2. c \in Run
    BY <1>1 DEF Run, Record, Steps
  <2>3. Fits(c) /\ Kept(run[r], c)
    BY <1>1 DEF TraceReport, Run, Record, Fits, Kept, At
  <2> QED  BY <2>1, <2>2, <2>3, <1>2, TypedStep
<1>4. CASE End(r, "error")
  <2>1. "error" \in Results /\ ~ run[r].exec /\ ~ run[r].pump
    BY <1>1 DEF TraceReport, Results, Fits, At
  <2> QED  BY <2>1, <1>2, <1>4, EndTyped
<1> QED  BY <1>3, <1>4 DEF TraceReport

\* A capture goes on to its exec, or is refused.
LEMMA CaptureRequestTyped ==
  ASSUME Typed, NEW r \in Runs, CaptureRequest(r)
  PROVE  Typed' /\ AllKept
<1>1. run[r] \in Run /\ Fits(run[r]) /\ procs \subseteq Procs /\ listens \subseteq procs
  BY TypedRun
<1>2. topology' = topology /\ procs' \subseteq Procs /\ listens' \subseteq procs'
  BY <1>1 DEF CaptureRequest
<1>3. CASE run' = [run EXCEPT ![r].pc = "stream"]
  <2> DEFINE c == [run[r] EXCEPT !.pc = "stream"]
  <2>1. run' = [run EXCEPT ![r] = c]
    BY <1>3
  <2>2. c \in Run
    BY <1>1 DEF Run, Record, Steps
  <2>3. Fits(c) /\ Kept(run[r], c)
    BY <1>1 DEF CaptureRequest, Run, Record, Fits, Kept, At
  <2> QED  BY <2>1, <2>2, <2>3, <1>2, TypedStep
<1>4. CASE End(r, "error")
  <2>1. "error" \in Results /\ ~ run[r].exec /\ ~ run[r].pump
    BY <1>1 DEF CaptureRequest, Results, Fits, At
  <2> QED  BY <2>1, <1>2, <1>4, EndTyped
<1> QED  BY <1>3, <1>4 DEF CaptureRequest

\* A test goes on to its ends, or is refused.
LEMMA IperfWebSocketTyped ==
  ASSUME Typed, NEW r \in Runs, IperfWebSocket(r)
  PROVE  Typed' /\ AllKept
<1>1. run[r] \in Run /\ Fits(run[r]) /\ procs \subseteq Procs /\ listens \subseteq procs
  BY TypedRun
<1>2. topology' = topology /\ procs' \subseteq Procs /\ listens' \subseteq procs'
  BY <1>1 DEF IperfWebSocket
<1>3. CASE run' = [run EXCEPT ![r].pc = "prepare"]
  <2> DEFINE c == [run[r] EXCEPT !.pc = "prepare"]
  <2>1. run' = [run EXCEPT ![r] = c]
    BY <1>3
  <2>2. c \in Run
    BY <1>1 DEF Run, Record, Steps
  <2>3. Fits(c) /\ Kept(run[r], c)
    BY <1>1 DEF IperfWebSocket, Run, Record, Fits, Kept, At
  <2> QED  BY <2>1, <2>2, <2>3, <1>2, TypedStep
<1>4. CASE End(r, "error")
  <2>1. "error" \in Results /\ ~ run[r].exec /\ ~ run[r].pump
    BY <1>1 DEF IperfWebSocket, Results, Fits, At
  <2> QED  BY <2>1, <1>2, <1>4, EndTyped
<1> QED  BY <1>3, <1>4 DEF IperfWebSocket

\* So does its report.
LEMMA IperfReportTyped ==
  ASSUME Typed, NEW r \in Runs, IperfReport(r)
  PROVE  Typed' /\ AllKept
<1>1. run[r] \in Run /\ Fits(run[r]) /\ procs \subseteq Procs /\ listens \subseteq procs
  BY TypedRun
<1>2. topology' = topology /\ procs' \subseteq Procs /\ listens' \subseteq procs'
  BY <1>1 DEF IperfReport
<1>3. CASE run' = [run EXCEPT ![r].pc = "prepare"]
  <2> DEFINE c == [run[r] EXCEPT !.pc = "prepare"]
  <2>1. run' = [run EXCEPT ![r] = c]
    BY <1>3
  <2>2. c \in Run
    BY <1>1 DEF Run, Record, Steps
  <2>3. Fits(c) /\ Kept(run[r], c)
    BY <1>1 DEF IperfReport, Run, Record, Fits, Kept, At
  <2> QED  BY <2>1, <2>2, <2>3, <1>2, TypedStep
<1>4. CASE End(r, "error")
  <2>1. "error" \in Results /\ ~ run[r].exec /\ ~ run[r].pump
    BY <1>1 DEF IperfReport, Results, Fits, At
  <2> QED  BY <2>1, <1>2, <1>4, EndTyped
<1> QED  BY <1>3, <1>4 DEF IperfReport

\* A report of mtr goes on to its hubs, or fails.
LEMMA MtrReportTyped ==
  ASSUME Typed, NEW r \in Runs, MtrReport(r)
  PROVE  Typed' /\ AllKept
<1>1. run[r] \in Run /\ Fits(run[r]) /\ procs \subseteq Procs /\ listens \subseteq procs
  BY TypedRun
<1>2. topology' = topology /\ procs' \subseteq Procs /\ listens' \subseteq procs'
  BY <1>1 DEF MtrReport
<1>3. CASE run' = [run EXCEPT ![r].pc = "hubs"]
  <2> DEFINE c == [run[r] EXCEPT !.pc = "hubs"]
  <2>1. run' = [run EXCEPT ![r] = c]
    BY <1>3
  <2>2. c \in Run
    BY <1>1 DEF Run, Record, Steps
  <2>3. Fits(c) /\ Kept(run[r], c)
    BY <1>1 DEF MtrReport, Run, Record, Fits, Kept, At
  <2> QED  BY <2>1, <2>2, <2>3, <1>2, TypedStep
<1>4. CASE End(r, "error")
  <2>1. "error" \in Results /\ ~ run[r].exec /\ ~ run[r].pump
    BY <1>1 DEF MtrReport, Results, Fits, At
  <2> QED  BY <2>1, <1>2, <1>4, EndTyped
<1> QED  BY <1>3, <1>4 DEF MtrReport

\* The pump ends.
LEMMA PumpEndsTyped ==
  ASSUME Typed, NEW r \in Runs, PumpEnds(r)
  PROVE  Typed' /\ AllKept
<1> DEFINE c == [run[r] EXCEPT !.pump = FALSE]
<1>1. run[r] \in Run /\ Fits(run[r]) /\ procs \subseteq Procs /\ listens \subseteq procs
  BY TypedRun
<1>2. run' = [run EXCEPT ![r] = c] /\ topology' = topology
  BY DEF PumpEnds
<1>3. c \in Run
  BY <1>1 DEF Run, Record
<1>4. Fits(c) /\ Kept(run[r], c)
  BY <1>1 DEF PumpEnds, Run, Record, Fits, Kept, At, Watched
<1>5. procs' \subseteq Procs /\ listens' \subseteq procs'
  BY <1>1 DEF PumpEnds
<1> QED  BY <1>2, <1>3, <1>4, <1>5, TypedStep

\* The exec returns.
LEMMA ExecReturnsTyped ==
  ASSUME Typed, NEW r \in Runs, ExecReturns(r)
  PROVE  Typed' /\ AllKept
<1> DEFINE c == [run[r] EXCEPT !.exec = FALSE, !.pipe = None]
<1>1. run[r] \in Run /\ Fits(run[r]) /\ procs \subseteq Procs /\ listens \subseteq procs
  BY TypedRun
<1>2. run' = [run EXCEPT ![r] = c] /\ topology' = topology
  BY DEF ExecReturns
<1>3. c \in Run
  BY <1>1 DEF ExecReturns, Run, Record, Steps, Results, At, Program
<1>4. Fits(c) /\ Kept(run[r], c)
  BY <1>1 DEF ExecReturns, Run, Record, Fits, Kept, At, Watched
<1>5. procs' \subseteq Procs /\ listens' \subseteq procs'
  BY <1>1 DEF ExecReturns
<1> QED  BY <1>2, <1>3, <1>4, <1>5, TypedStep

\* The exec fails.
LEMMA ExecFailsTyped ==
  ASSUME Typed, NEW r \in Runs, ExecFails(r)
  PROVE  Typed' /\ AllKept
<1> DEFINE c == [run[r] EXCEPT !.exec = FALSE, !.result = "error"]
<1>1. run[r] \in Run /\ Fits(run[r]) /\ procs \subseteq Procs /\ listens \subseteq procs
  BY TypedRun
<1>2. run' = [run EXCEPT ![r] = c] /\ topology' = topology
  BY DEF ExecFails
<1>3. c \in Run
  BY <1>1 DEF Run, Record, Results
<1>4. Fits(c) /\ Kept(run[r], c)
  BY <1>1 DEF ExecFails, Run, Record, Fits, Kept, At, Watched
<1>5. procs' \subseteq Procs /\ listens' \subseteq procs'
  BY <1>1 DEF ExecFails
<1> QED  BY <1>2, <1>3, <1>4, <1>5, TypedStep

\* The pump of a capture meets a socket that is closed.
LEMMA PumpPacketTyped ==
  ASSUME Typed, NEW r \in Runs, PumpPacket(r)
  PROVE  Typed' /\ AllKept
<1> DEFINE c == [run[r] EXCEPT !.ctx = TRUE, !.pump = FALSE]
<1>1. run[r] \in Run /\ Fits(run[r]) /\ procs \subseteq Procs /\ listens \subseteq procs
  BY TypedRun
<1>2. run' = [run EXCEPT ![r] = c] /\ topology' = topology
  BY DEF PumpPacket
<1>3. c \in Run
  BY <1>1 DEF PumpPacket, Run, Record, Steps, Results, At, Program
<1>4. Fits(c) /\ Kept(run[r], c)
  BY <1>1 DEF PumpPacket, Run, Record, Fits, Kept, At, Watched
<1>5. procs' \subseteq Procs /\ listens' \subseteq procs'
  BY <1>1 DEF PumpPacket
<1> QED  BY <1>2, <1>3, <1>4, <1>5, TypedStep

\* A capture ends.
LEMMA EndCaptureTyped ==
  ASSUME Typed, NEW r \in Runs, EndCapture(r)
  PROVE  Typed' /\ AllKept
<1> DEFINE c == [run[r] EXCEPT !.pc = "done", !.ctx = TRUE]
<1>1. run[r] \in Run /\ Fits(run[r]) /\ procs \subseteq Procs /\ listens \subseteq procs
  BY TypedRun
<1>2. run' = [run EXCEPT ![r] = c] /\ topology' = topology
  BY DEF EndCapture
<1>3. c \in Run
  BY <1>1 DEF EndCapture, Run, Record, Steps, Results, At, Program
<1>4. Fits(c) /\ Kept(run[r], c)
  BY <1>1 DEF EndCapture, Run, Record, Fits, Kept, At, Watched
<1>5. procs' \subseteq Procs /\ listens' \subseteq procs'
  BY <1>1 DEF EndCapture
<1> QED  BY <1>2, <1>3, <1>4, <1>5, TypedStep

\* The server listens.
LEMMA SeeListeningTyped ==
  ASSUME Typed, NEW r \in Runs, SeeListening(r)
  PROVE  Typed' /\ AllKept
<1> DEFINE c == [run[r] EXCEPT !.pc = "client"]
<1>1. run[r] \in Run /\ Fits(run[r]) /\ procs \subseteq Procs /\ listens \subseteq procs
  BY TypedRun
<1>2. run' = [run EXCEPT ![r] = c] /\ topology' = topology
  BY DEF SeeListening
<1>3. c \in Run
  BY <1>1 DEF SeeListening, Run, Record, Steps, Results, At, Program
<1>4. Fits(c) /\ Kept(run[r], c)
  BY <1>1 DEF SeeListening, Run, Record, Fits, Kept, At, Watched
<1>5. procs' \subseteq Procs /\ listens' \subseteq procs'
  BY <1>1 DEF SeeListening
<1> QED  BY <1>2, <1>3, <1>4, <1>5, TypedStep

\* The browser goes.
LEMMA ClientGoneTyped ==
  ASSUME Typed, NEW r \in Runs, ClientGone(r)
  PROVE  Typed' /\ AllKept
<1> DEFINE c == [run[r] EXCEPT !.closed = TRUE]
<1>1. run[r] \in Run /\ Fits(run[r]) /\ procs \subseteq Procs /\ listens \subseteq procs
  BY TypedRun
<1>2. run' = [run EXCEPT ![r] = c] /\ topology' = topology
  BY DEF ClientGone
<1>3. c \in Run
  BY <1>1 DEF ClientGone, Run, Record, Steps, Results, At, Program
<1>4. Fits(c) /\ Kept(run[r], c)
  BY <1>1 DEF ClientGone, Run, Record, Fits, Kept, At, Watched
<1>5. procs' \subseteq Procs /\ listens' \subseteq procs'
  BY <1>1 DEF ClientGone
<1> QED  BY <1>2, <1>3, <1>4, <1>5, TypedStep

\* The backend sees it.
LEMMA SeeGoneTyped ==
  ASSUME Typed, NEW r \in Runs, SeeGone(r)
  PROVE  Typed' /\ AllKept
<1> DEFINE c == [run[r] EXCEPT !.ctx = TRUE, !.stop = @ \/ run[r].kind = "capture"]
<1>1. run[r] \in Run /\ Fits(run[r]) /\ procs \subseteq Procs /\ listens \subseteq procs
  BY TypedRun
<1>2. run' = [run EXCEPT ![r] = c] /\ topology' = topology
  BY DEF SeeGone
<1>3. c \in Run
  BY <1>1 DEF SeeGone, Run, Record, Steps, Results, At, Program
<1>4. Fits(c) /\ Kept(run[r], c)
  BY <1>1 DEF SeeGone, Run, Record, Fits, Kept, At, Watched
<1>5. procs' \subseteq Procs /\ listens' \subseteq procs'
  BY <1>1 DEF SeeGone
<1> QED  BY <1>2, <1>3, <1>4, <1>5, TypedStep

\* A ping fails.
LEMMA PingFailsTyped ==
  ASSUME Typed, NEW r \in Runs, PingFails(r)
  PROVE  Typed' /\ AllKept
<1> DEFINE c == [run[r] EXCEPT !.ctx = TRUE]
<1>1. run[r] \in Run /\ Fits(run[r]) /\ procs \subseteq Procs /\ listens \subseteq procs
  BY TypedRun
<1>2. run' = [run EXCEPT ![r] = c] /\ topology' = topology
  BY DEF PingFails
<1>3. c \in Run
  BY <1>1 DEF PingFails, Run, Record, Steps, Results, At, Program
<1>4. Fits(c) /\ Kept(run[r], c)
  BY <1>1 DEF PingFails, Run, Record, Fits, Kept, At, Watched
<1>5. procs' \subseteq Procs /\ listens' \subseteq procs'
  BY <1>1 DEF PingFails
<1> QED  BY <1>2, <1>3, <1>4, <1>5, TypedStep

\* The deadline.
LEMMA DeadlineTyped ==
  ASSUME Typed, NEW r \in Runs, Deadline(r)
  PROVE  Typed' /\ AllKept
<1> DEFINE c == [run[r] EXCEPT !.ctx = TRUE]
<1>1. run[r] \in Run /\ Fits(run[r]) /\ procs \subseteq Procs /\ listens \subseteq procs
  BY TypedRun
<1>2. run' = [run EXCEPT ![r] = c] /\ topology' = topology
  BY DEF Deadline
<1>3. c \in Run
  BY <1>1 DEF Deadline, Run, Record, Steps, Results, At, Program
<1>4. Fits(c) /\ Kept(run[r], c)
  BY <1>1 DEF Deadline, Run, Record, Fits, Kept, At, Watched
<1>5. procs' \subseteq Procs /\ listens' \subseteq procs'
  BY <1>1 DEF Deadline
<1> QED  BY <1>2, <1>3, <1>4, <1>5, TypedStep

\* The server is started.
LEMMA StartIperfServerTyped ==
  ASSUME Typed, NEW r \in Runs, StartIperfServer(r)
  PROVE  Typed' /\ AllKept
<1> DEFINE c == [run[r] EXCEPT !.pc = "listen"]
<1>1. run[r] \in Run /\ Fits(run[r]) /\ procs \subseteq Procs /\ listens \subseteq procs
  BY TypedRun
<1>2. run' = [run EXCEPT ![r] = c] /\ topology' = topology
  BY DEF StartIperfServer
<1>3. c \in Run
  BY <1>1 DEF StartIperfServer, Run, Record, Steps, Results, At, Program
<1>4. Fits(c) /\ Kept(run[r], c)
  BY <1>1 DEF StartIperfServer, Run, Record, Fits, Kept, At, Watched
<1>5. procs' \subseteq Procs /\ listens' \subseteq procs'
  <2>1. run[r].dest \in Pods \cup {Outside}
    BY <1>1 DEF Run, Record
  <2>2. Proc(r, "server", run[r].dest) \in Procs
    BY <2>1, ProcTyped DEF Roles
  <2> QED  BY <1>1, <2>2 DEF StartIperfServer
<1> QED  BY <1>2, <1>3, <1>4, <1>5, TypedStep

\* Its program is started.
LEMMA StartIperfClientTyped ==
  ASSUME Typed, NEW r \in Runs, StartIperfClient(r)
  PROVE  Typed' /\ AllKept
<1> DEFINE c == [run[r] EXCEPT !.pc = "streaming", !.exec = TRUE, !.pump = TRUE]
<1>1. run[r] \in Run /\ Fits(run[r]) /\ procs \subseteq Procs /\ listens \subseteq procs
  BY TypedRun
<1>2. run' = [run EXCEPT ![r] = c] /\ topology' = topology
  BY DEF StartIperfClient
<1>3. c \in Run
  BY <1>1 DEF StartIperfClient, Run, Record, Steps, Results, At, Program
<1>4. Fits(c) /\ Kept(run[r], c)
  BY <1>1 DEF StartIperfClient, Run, Record, Fits, Kept, At, Watched
<1>5. procs' \subseteq Procs /\ listens' \subseteq procs'
  <2>1. run[r].src \in Pods \cup {Outside} /\ "client" \in Roles
    BY <1>1 DEF Run, Record, Roles, Program
  <2>2. Proc(r, "client", run[r].src) \in Procs
    BY <2>1, ProcTyped
  <2> QED  BY <1>1, <2>2 DEF StartIperfClient
<1> QED  BY <1>2, <1>3, <1>4, <1>5, TypedStep

\* Its program is started.
LEMMA StartStreamTyped ==
  ASSUME Typed, NEW r \in Runs, StartStream(r)
  PROVE  Typed' /\ AllKept
<1> DEFINE c == [run[r] EXCEPT !.pc = "streaming", !.exec = TRUE, !.pump = TRUE]
<1>1. run[r] \in Run /\ Fits(run[r]) /\ procs \subseteq Procs /\ listens \subseteq procs
  BY TypedRun
<1>2. run' = [run EXCEPT ![r] = c] /\ topology' = topology
  BY DEF StartStream
<1>3. c \in Run
  BY <1>1 DEF StartStream, Run, Record, Steps, Results, At, Program
<1>4. Fits(c) /\ Kept(run[r], c)
  BY <1>1 DEF StartStream, Run, Record, Fits, Kept, At, Watched
<1>5. procs' \subseteq Procs /\ listens' \subseteq procs'
  <2>1. run[r].src \in Pods \cup {Outside} /\ Program(r) \in Roles
    BY <1>1 DEF Run, Record, Roles, Program
  <2>2. Proc(r, Program(r), run[r].src) \in Procs
    BY <2>1, ProcTyped
  <2> QED  BY <1>1, <2>2 DEF StartStream
<1> QED  BY <1>2, <1>3, <1>4, <1>5, TypedStep

\* A report ends.
LEMMA EndMtrTyped ==
  ASSUME Typed, NEW r \in Runs, EndMtr(r)
  PROVE  Typed' /\ AllKept
<1> DEFINE res == IF run[r].hops # <<>> /\ Last(run[r].hops).line.ip # None THEN "delivered" ELSE "unreached"
<1>1. run[r] \in Run /\ Fits(run[r]) /\ procs \subseteq Procs /\ listens \subseteq procs
  BY TypedRun
<1>2. topology' = topology /\ procs' \subseteq Procs /\ listens' \subseteq procs'
  BY <1>1 DEF EndMtr
<1>3. End(r, res)
  BY DEF EndMtr
<1>4. res \in Results
  BY DEF Results
<1>5. ~ run[r].exec /\ ~ run[r].pump
  BY <1>1 DEF EndMtr, Fits, At
<1> QED  BY <1>2, <1>3, <1>4, <1>5, EndTyped

\* A trace ends.
LEMMA EndTraceTyped ==
  ASSUME Typed, NEW r \in Runs, EndTrace(r)
  PROVE  Typed' /\ AllKept
<1> DEFINE res == IF run[r].result = "error" /\ ~ Cancelled(r) THEN "error"
                  ELSE IF run[r].dropped THEN "unreachable"
                  ELSE IF run[r].reached THEN "delivered" ELSE "unreached"
<1>1. run[r] \in Run /\ Fits(run[r]) /\ procs \subseteq Procs /\ listens \subseteq procs
  BY TypedRun
<1>2. topology' = topology /\ procs' \subseteq Procs /\ listens' \subseteq procs'
  BY <1>1 DEF EndTrace
<1>3. End(r, res)
  BY DEF EndTrace
<1>4. res \in Results
  BY DEF Results
<1>5. ~ run[r].exec /\ ~ run[r].pump
  BY <1>1 DEF EndTrace, Fits, At
<1> QED  BY <1>2, <1>3, <1>4, <1>5, EndTyped

\* The server exited.
LEMMA ServerExitedTyped ==
  ASSUME Typed, NEW r \in Runs, ServerExited(r)
  PROVE  Typed' /\ AllKept
<1> DEFINE res == "error"
<1>1. run[r] \in Run /\ Fits(run[r]) /\ procs \subseteq Procs /\ listens \subseteq procs
  BY TypedRun
<1>2. topology' = topology /\ procs' \subseteq Procs /\ listens' \subseteq procs'
  BY <1>1 DEF ServerExited
<1>3. End(r, res)
  BY DEF ServerExited
<1>4. res \in Results
  BY DEF Results
<1>5. ~ run[r].exec /\ ~ run[r].pump
  BY <1>1 DEF ServerExited, Fits, At
<1> QED  BY <1>2, <1>3, <1>4, <1>5, EndTyped

\* Nobody waits for the server any longer.
LEMMA ListenEndsTyped ==
  ASSUME Typed, NEW r \in Runs, ListenEnds(r)
  PROVE  Typed' /\ AllKept
<1> DEFINE res == "error"
<1>1. run[r] \in Run /\ Fits(run[r]) /\ procs \subseteq Procs /\ listens \subseteq procs
  BY TypedRun
<1>2. topology' = topology /\ procs' \subseteq Procs /\ listens' \subseteq procs'
  BY <1>1 DEF ListenEnds
<1>3. End(r, res)
  BY DEF ListenEnds
<1>4. res \in Results
  BY DEF Results
<1>5. ~ run[r].exec /\ ~ run[r].pump
  BY <1>1 DEF ListenEnds, Fits, At
<1> QED  BY <1>2, <1>3, <1>4, <1>5, EndTyped

\* The index is built, or is not.
LEMMA BuildTraceIPIndexTyped ==
  ASSUME Typed, NEW r \in Runs, BuildTraceIPIndex(r)
  PROVE  Typed' /\ AllKept
<1>1. run[r] \in Run /\ Fits(run[r]) /\ procs \subseteq Procs /\ listens \subseteq procs
  BY TypedRun
<1>2. PICK ok \in BOOLEAN, m \in BOOLEAN :
        run' = [run EXCEPT ![r].resolves = ok, ![r].metrics = m,
                           ![r].pc = IF m THEN "mtr" ELSE "stream"]
  BY DEF BuildTraceIPIndex
<1> DEFINE k == IF m THEN "mtr" ELSE "stream"
           c == [run[r] EXCEPT !.resolves = ok, !.metrics = m, !.pc = k]
<1>3. run' = [run EXCEPT ![r] = c]
  BY <1>2
<1>4. k \in {"mtr", "stream"}
  OBVIOUS
<1> HIDE DEF k
<1>5. c \in Run
  BY <1>1, <1>4 DEF Run, Record, Steps
<1>6. Fits(c) /\ Kept(run[r], c)
  BY <1>1, <1>4 DEF BuildTraceIPIndex, At, Run, Record, Fits, Kept
<1>7. topology' = topology /\ procs' \subseteq Procs /\ listens' \subseteq procs'
  BY <1>1 DEF BuildTraceIPIndex
<1> QED  BY <1>3, <1>5, <1>6, <1>7, TypedStep

\* One hub of a report.
LEMMA MtrHubTyped ==
  ASSUME Typed, NEW r \in Runs, MtrHub(r)
  PROVE  Typed' /\ AllKept
<1>1. run[r] \in Run /\ Fits(run[r]) /\ procs \subseteq Procs /\ listens \subseteq procs
  BY TypedRun
<1>2. PICK l \in Lines : run' = [run EXCEPT ![r] = Handled(run[r], l)]
  BY DEF MtrHub
<1> DEFINE d == Handled(run[r], l)
<1>3. /\ d \in Run /\ Kept(run[r], d) /\ d.pc = run[r].pc /\ d.exec = run[r].exec
      /\ d.pump = run[r].pump /\ d.pipe = run[r].pipe
      /\ \E e \in Emitted : d.hops = Append(run[r].hops, e)
  BY <1>1, HandledKeeps
<1>4. Len(run[r].hops) < MaxTTL /\ run[r].hops \in Seq(Emitted)
  BY <1>1 DEF MtrHub, Run, Record
<1>5. Fits(d)
  <2>1. Len(d.hops) = Len(run[r].hops) + 1
    BY <1>3, <1>4
  <2>2. Len(d.hops) <= MaxTTL
    BY <2>1, <1>4, ToolAssumption
  <2> HIDE DEF d
  <2> QED  BY <1>1, <1>3, <1>4, <2>2 DEF Fits, MtrHub, At, Kept
<1>6. topology' = topology /\ procs' \subseteq Procs /\ listens' \subseteq procs'
  BY <1>1 DEF MtrHub
<1> QED  BY <1>2, <1>3, <1>5, <1>6, TypedStep

\* A line goes into the pipe.
LEMMA ProbeLineTyped ==
  ASSUME Typed, NEW r \in Runs, ProbeLine(r)
  PROVE  Typed' /\ AllKept
<1>1. run[r] \in Run /\ Fits(run[r]) /\ procs \subseteq Procs /\ listens \subseteq procs
  BY TypedRun
<1>2. PICK l \in Lines : run' = [run EXCEPT ![r].pipe = l]
  BY DEF ProbeLine
<1> DEFINE c == [run[r] EXCEPT !.pipe = l]
<1>3. run' = [run EXCEPT ![r] = c]
  BY <1>2
<1>4. c \in Run
  BY <1>1 DEF Run, Record
<1>5. Fits(c) /\ Kept(run[r], c)
  BY <1>1 DEF ProbeLine, At, Run, Record, Fits, Kept
<1>6. topology' = topology /\ procs' \subseteq Procs /\ listens' \subseteq procs'
  BY <1>1 DEF ProbeLine
<1> QED  BY <1>3, <1>4, <1>5, <1>6, TypedStep

\* What a hop from the pipe makes of a run.
LEMMA PumpHopIs ==
  ASSUME Typed, NEW r \in Runs, PumpHop(r)
  PROVE  LET b == [run[r] EXCEPT !.pipe = None]
             d == Handled(b, run[r].pipe)
         IN /\ run[r].pipe \in Lines /\ b \in Run /\ d \in Run
            /\ run' = [run EXCEPT ![r] = IF GivesUp(d)
                                         THEN [d EXCEPT !.stop = TRUE, !.pump = FALSE] ELSE d]
<1>1. run[r] \in Run /\ Fits(run[r]) /\ procs \subseteq Procs /\ listens \subseteq procs
  BY TypedRun
<1> DEFINE b == [run[r] EXCEPT !.pipe = None]
<1>2. run[r].pipe \in Lines
  BY <1>1 DEF PumpHop, Run, Record
<1>3. b \in Run
  BY <1>1 DEF Run, Record
<1>4. Handled(b, run[r].pipe) \in Run
  BY <1>2, <1>3, HandledIs
<1> QED  BY <1>2, <1>3, <1>4, Zenon DEF PumpHop

\* The pump handles a hop.
LEMMA PumpHopTyped ==
  ASSUME Typed, NEW r \in Runs, PumpHop(r)
  PROVE  Typed' /\ AllKept
<1>1. run[r] \in Run /\ Fits(run[r]) /\ procs \subseteq Procs /\ listens \subseteq procs
  BY TypedRun
<1> DEFINE b == [run[r] EXCEPT !.pipe = None]
           l == run[r].pipe
           d == Handled(b, l)
           e == [d EXCEPT !.stop = TRUE, !.pump = FALSE]
           c == IF GivesUp(d) THEN e ELSE d
<1>2. l \in Lines /\ b \in Run /\ d \in Run /\ run' = [run EXCEPT ![r] = c]
  BY PumpHopIs, Zenon
<1>3. /\ Kept(b, d) /\ d.pc = b.pc /\ d.exec = b.exec /\ d.pump = b.pump /\ d.pipe = b.pipe
      /\ d.port = b.port /\ d.listened = b.listened /\ d.result = b.result
      /\ \E h \in Emitted : d.hops = Append(b.hops, h)
  <2>1. l \in Lines /\ b \in Run
    BY <1>2
  <2>2. d = Handled(b, l)
    OBVIOUS
  <2> HIDE DEF l, b, d
  <2> QED  BY <2>1, <2>2, HandledKeeps
<1>4. /\ Kept(run[r], b) /\ b.pc = run[r].pc /\ b.exec = run[r].exec /\ b.pump = run[r].pump
      /\ b.pipe = None /\ b.hops = run[r].hops /\ b.port = run[r].port
      /\ b.listened = run[r].listened /\ b.result = run[r].result
  BY <1>1 DEF Run, Record, Kept
<1>5. Len(run[r].hops) < MaxTTL /\ run[r].hops \in Seq(Emitted) /\ run[r].pc = "streaming"
      /\ run[r].kind = "trace"
  BY <1>1 DEF PumpHop, Run, Record, Fits, At
<1> HIDE DEF d, b
<1>6. Len(d.hops) <= MaxTTL
  BY <1>3, <1>4, <1>5, ToolAssumption
<1>7. Fits(d) /\ Kept(run[r], d)
  BY <1>1, <1>3, <1>4, <1>5, <1>6 DEF Fits, Kept
<1>8. e \in Run
  BY <1>2 DEF Run, Record
<1>9. Fits(e) /\ Kept(run[r], e)
  BY <1>2, <1>7, <1>3, <1>4, <1>5, SMTT(30) DEF Run, Record, Fits, Kept
<1>10. c \in Run /\ Fits(c) /\ Kept(run[r], c)
  BY <1>2, <1>7, <1>8, <1>9
<1>11. topology' = topology /\ procs' \subseteq Procs /\ listens' \subseteq procs'
  BY <1>1 DEF PumpHop
<1> HIDE DEF c
<1> QED  BY <1>2, <1>10, <1>11, TypedStep

\* The ends of a test are prepared, or are not.
LEMMA PrepareIperfTyped ==
  ASSUME Typed, NEW r \in Runs, PrepareIperf(r)
  PROVE  Typed' /\ AllKept
<1>1. run[r] \in Run /\ Fits(run[r]) /\ procs \subseteq Procs /\ listens \subseteq procs
  BY TypedRun
<1>2. topology' = topology /\ procs' \subseteq Procs /\ listens' \subseteq procs' /\ At(r, "iperf", "prepare")
  BY <1>1 DEF PrepareIperf
<1>3. CASE /\ run[r].dest \in Pods
           /\ \E p \in Ports : run' = [run EXCEPT ![r].pc = "server", ![r].port = p]
  <2>1. PICK p \in Ports : run' = [run EXCEPT ![r].pc = "server", ![r].port = p]
    BY <1>3
  <2> DEFINE c == [run[r] EXCEPT !.pc = "server", !.port = p]
  <2>2. p \in Nat /\ p # 0
    BY ToolAssumption
  <2>3. c \in Run
    BY <1>1, <2>2 DEF Run, Record, Steps
  <2>4. Fits(c) /\ Kept(run[r], c)
    BY <1>1, <1>2, <1>3, <2>2 DEF At, Run, Record, Fits, Kept
  <2> QED  BY <2>1, <2>3, <2>4, <1>2, TypedStep
<1>4. CASE run' = [run EXCEPT ![r].pc = "client"]
  <2> DEFINE c == [run[r] EXCEPT !.pc = "client"]
  <2>1. c \in Run
    BY <1>1 DEF Run, Record, Steps
  <2>2. Fits(c) /\ Kept(run[r], c)
    BY <1>1, <1>2 DEF At, Run, Record, Fits, Kept
  <2> QED  BY <1>4, <2>1, <2>2, <1>2, TypedStep
<1>5. CASE End(r, "error")
  <2>1. "error" \in Results /\ ~ run[r].exec /\ ~ run[r].pump
    BY <1>1, <1>2 DEF Results, Fits, At
  <2> QED  BY <2>1, <1>2, <1>5, EndTyped
<1> QED  BY <1>3, <1>4, <1>5 DEF PrepareIperf

\* A test that is through ends, or goes on to kill.
LEMMA EndIperfTyped ==
  ASSUME Typed, NEW r \in Runs, EndIperf(r)
  PROVE  Typed' /\ AllKept
<1>1. run[r] \in Run /\ Fits(run[r]) /\ procs \subseteq Procs /\ listens \subseteq procs
  BY TypedRun
<1>2. topology' = topology /\ procs' \subseteq Procs /\ listens' \subseteq procs'
      /\ At(r, "iperf", "streaming") /\ ~ run[r].exec /\ ~ run[r].pump
  BY <1>1 DEF EndIperf
<1>3. CASE run' = [run EXCEPT ![r].pc = "killclient"]
  <2> DEFINE c == [run[r] EXCEPT !.pc = "killclient"]
  <2>1. c \in Run
    BY <1>1 DEF Run, Record, Steps
  <2>2. Fits(c) /\ Kept(run[r], c)
    BY <1>1, <1>2, ToolAssumption DEF At, Run, Record, Fits, Kept
  <2> QED  BY <1>3, <2>1, <2>2, <1>2, TypedStep
<1>4. CASE End(r, IF run[r].result = "summary" THEN "summary" ELSE "error")
  <2> DEFINE res == IF run[r].result = "summary" THEN "summary" ELSE "error"
  <2>1. res \in Results
    BY DEF Results
  <2> QED  BY <2>1, <1>2, <1>4, EndTyped
<1> QED  BY <1>3, <1>4 DEF EndIperf

\* A kill takes programs away, and nothing else.
LEMMA KillClientTyped ==
  ASSUME Typed, NEW r \in Runs, KillClient(r)
  PROVE  Typed' /\ AllKept
<1>1. run[r] \in Run /\ Fits(run[r]) /\ procs \subseteq Procs /\ listens \subseteq procs
  BY TypedRun
<1>2. topology' = topology /\ procs' \subseteq procs /\ listens' \subseteq procs'
  BY <1>1 DEF KillClient, KillIperf
<1>3. PICK res \in {"cancelled", "unkilled"} :
        run' = [run EXCEPT ![r].pc = IF run[r].port = 0 THEN "done" ELSE "killserver",
                           ![r].result = res]
  BY DEF KillClient
<1> DEFINE k == IF run[r].port = 0 THEN "done" ELSE "killserver"
           c == [run[r] EXCEPT !.pc = k, !.result = res]
<1>4. run' = [run EXCEPT ![r] = c]
  BY <1>3
<1>5. k \in {"done", "killserver"}
  OBVIOUS
<1> HIDE DEF k
<1>6. c \in Run
  BY <1>1, <1>5 DEF Run, Record, Steps, Results
<1>7. Fits(c) /\ Kept(run[r], c)
  BY <1>1, <1>5 DEF KillClient, At, Run, Record, Fits, Kept
<1>8. procs' \subseteq Procs
  BY <1>1, <1>2
<1> QED  BY <1>2, <1>4, <1>6, <1>7, <1>8, TypedStep

\* So does this one.
LEMMA KillServerTyped ==
  ASSUME Typed, NEW r \in Runs, KillServer(r)
  PROVE  Typed' /\ AllKept
<1>1. run[r] \in Run /\ Fits(run[r]) /\ procs \subseteq Procs /\ listens \subseteq procs
  BY TypedRun
<1>2. topology' = topology /\ procs' \subseteq procs /\ listens' \subseteq procs' /\ procs' \subseteq Procs
  BY <1>1 DEF KillServer, KillIperf
<1>3. PICK ok \in BOOLEAN : End(r, IF ok THEN run[r].result ELSE "unkilled")
  BY DEF KillServer
<1> DEFINE res == IF ok THEN run[r].result ELSE "unkilled"
<1>4. res \in Results
  BY <1>1 DEF Run, Record, Results
<1>5. ~ run[r].exec /\ ~ run[r].pump
  BY <1>1 DEF KillServer, Fits, At
<1> QED  BY <1>2, <1>3, <1>4, <1>5, EndTyped

\* Steps of programs that leave the runs as they are.
LEMMA OnlyPrograms ==
  ASSUME Typed, run' = run, topology' = topology, procs' \subseteq procs, listens' \subseteq procs'
  PROVE  Typed' /\ AllKept
<1>1. procs \subseteq Procs
  BY DEF Typed
<1>2. Typed'
  BY <1>1 DEF Typed
<1> QED  BY <1>2 DEF AllKept, Kept

\* No probe listens.
Listeners == \A p \in listens : p.role = "server"

\* Only a server that binds its port comes to listen.
LEMMA ListensGrow ==
  ASSUME [Next]_vars
  PROVE  listens' \subseteq listens \/ \E p \in procs : ServerBinds(p)
<1>1. ASSUME NEW p \in procs, ClientServed(p) \/ ClientUnserved(p) PROVE listens' \subseteq listens
  BY <1>1 DEF ClientServed, ClientUnserved
<1>2. ASSUME NEW r \in Runs, Handler(r) PROVE listens' \subseteq listens
  BY <1>2 DEF Handler, PrepareIperf, BuildTraceIPIndex, StartStream, MtrReport, EndMtr, PumpHop,
       PumpPacket, PumpEnds, ExecReturns, EndTrace, EndCapture, StartIperfServer, SeeListening,
       ServerExited, ListenEnds, StartIperfClient, EndIperf, KillClient, KillServer, SeeGone,
       PingFails, Deadline
<1>3. ASSUME NEW r \in Runs,
             \/ TraceWebSocket(r) \/ TraceReport(r) \/ CaptureRequest(r) \/ IperfWebSocket(r)
             \/ IperfReport(r) \/ ProbeLine(r) \/ MtrHub(r) \/ ExecFails(r) \/ ClientGone(r)
             \/ ProgramEnds(r) \/ Killed(r)
      PROVE  listens' \subseteq listens
  BY <1>3 DEF TraceWebSocket, TraceReport, CaptureRequest, IperfWebSocket, IperfReport, ProbeLine,
       MtrHub, ExecFails, ClientGone, ProgramEnds, Killed
<1>4. UNCHANGED vars => listens' \subseteq listens
  BY DEF vars
<1> QED  BY <1>1, <1>2, <1>3, <1>4, Zenon DEF Next

LEMMA ListenersNext ==
  ASSUME Typed, Listeners, [Next]_vars
  PROVE  Listeners'
<1>1. CASE listens' \subseteq listens
  BY <1>1 DEF Listeners
<1>2. ASSUME NEW p \in procs, ServerBinds(p) PROVE Listeners'
  BY <1>2 DEF ServerBinds, Listeners
<1> QED  BY <1>1, <1>2, ListensGrow

\* A probe or tshark ends, by itself or as the kubelet ends it.
LEMMA ProgramEndsTyped ==
  ASSUME Typed, Listeners, NEW r \in Runs, ProgramEnds(r) \/ Killed(r)
  PROVE  Typed' /\ AllKept
<1>1. /\ run' = run /\ topology' = topology /\ procs' = procs \ Mine(r, Program(r))
      /\ listens' = listens /\ run[r].kind \in {"trace", "capture"}
  BY DEF ProgramEnds, Killed
<1>2. \A p \in Mine(r, Program(r)) : p.role # "server"
  BY <1>1 DEF Mine, Program
<1>3. procs' \subseteq procs /\ listens' \subseteq procs'
  BY <1>1, <1>2 DEF Listeners, Typed
<1> QED  BY <1>1, <1>3, OnlyPrograms

\* A server binds its port, or exits.
LEMMA ServerBindsTyped ==
  ASSUME Typed, NEW p \in procs, ServerBinds(p)
  PROVE  Typed' /\ AllKept
<1> DEFINE r == p.run
<1>1. procs \subseteq Procs /\ listens \subseteq procs /\ r \in Runs
  BY DEF Typed, Procs
<1>2. run[r] \in Run /\ Fits(run[r])
  BY <1>1, TypedRun
<1>3. CASE run' = run /\ listens' = listens /\ procs' = procs \ {p}
  <2>1. procs' \subseteq procs /\ listens' \subseteq procs' /\ topology' = topology
    BY <1>1, <1>3 DEF ServerBinds
  <2> QED  BY <1>3, <2>1, OnlyPrograms
<1>4. CASE /\ listens' = listens \cup {p} /\ procs' = procs
           /\ run' = [run EXCEPT ![r].listened = @ \/ run[r].pc = "listen"]
  <2> DEFINE v == run[r].listened \/ run[r].pc = "listen"
             c == [run[r] EXCEPT !.listened = v]
  <2>1. run' = [run EXCEPT ![r] = c]
    BY <1>4
  <2>2. v \in BOOLEAN /\ (v <=> run[r].listened \/ run[r].pc = "listen")
    BY <1>2 DEF Run, Record
  <2> HIDE DEF v
  <2>3. c \in Run
    BY <1>2, <2>2 DEF Run, Record
  <2>4. Fits(c) /\ Kept(run[r], c)
    BY <1>2, <2>2 DEF Run, Record, Fits, Kept
  <2>5. topology' = topology /\ procs' \subseteq Procs /\ listens' \subseteq procs'
    BY <1>1, <1>4 DEF ServerBinds
  <2> HIDE DEF c
  <2> QED  BY <1>1, <2>1, <2>3, <2>4, <2>5, TypedStep
<1> QED  BY <1>3, <1>4 DEF ServerBinds

\* What an event of a client makes of its run.
LEMMA EventIs ==
  ASSUME Typed, NEW c \in Run, Fits(c), NEW event
  PROVE  LET d == ParseIperfEvent(c, event)
         IN /\ d \in Run /\ Fits(d) /\ Kept(c, d)
            /\ d = c \/ (c.exec /\ c.pump /\ \E res \in Results : d = [c EXCEPT !.result = res])
<1> DEFINE res == CASE event = "error" -> "error"
                    [] event = "end" /\ c.result # "error" -> "summary"
                    [] OTHER -> c.result
           d == [c EXCEPT !.result = res]
<1>1. res \in Results
  BY DEF Run, Record, Results
<1> HIDE DEF res
<1>2. d \in Run
  BY <1>1 DEF Run, Record
<1>3. Kept(c, d) /\ Kept(c, c) /\ (c.exec /\ c.pump => Fits(d))
  BY DEF Run, Record, Fits, Kept
<1>4. ParseIperfEvent(c, event) = IF ~ (c.exec /\ c.pump) THEN c ELSE d
  BY DEF ParseIperfEvent, res
<1> HIDE DEF d
<1>5. CASE c.exec /\ c.pump
  BY <1>1, <1>2, <1>3, <1>4, <1>5 DEF d
<1>6. CASE ~ (c.exec /\ c.pump)
  BY <1>3, <1>4, <1>6
<1> QED  BY <1>5, <1>6

\* A client ends, served or not.
LEMMA ClientEndsTyped ==
  ASSUME Typed, Listeners, NEW p \in procs, ClientServed(p) \/ ClientUnserved(p)
  PROVE  Typed' /\ AllKept
<1> DEFINE r == p.run
<1>1. procs \subseteq Procs /\ listens \subseteq procs /\ r \in Runs
  BY DEF Typed, Procs
<1>2. run[r] \in Run /\ Fits(run[r])
  BY <1>1, TypedRun
<1>3. PICK event : run' = [run EXCEPT ![r] = ParseIperfEvent(run[r], event)]
  BY DEF ClientServed, ClientUnserved
<1> DEFINE c == ParseIperfEvent(run[r], event)
<1>4. c \in Run /\ Fits(c) /\ Kept(run[r], c)
  BY <1>2, EventIs
<1>5. topology' = topology /\ procs' \subseteq procs /\ listens' \subseteq procs'
  <2>1. CASE ClientServed(p)
    <3>1. \A q \in listens : q # p
      BY <2>1 DEF ClientServed, Listeners
    <3> QED  BY <1>1, <2>1, <3>1 DEF ClientServed
  <2>2. CASE ClientUnserved(p)
    <3>1. \A q \in listens : q # p
      BY <2>2 DEF ClientUnserved, Listeners
    <3> QED  BY <1>1, <2>2, <3>1 DEF ClientUnserved
  <2> QED  BY <2>1, <2>2
<1>6. procs' \subseteq Procs
  BY <1>1, <1>5
<1> HIDE DEF c
<1> QED  BY <1>1, <1>3, <1>4, <1>5, <1>6, TypedStep DEF c

\* All of them.
LEMMA TypedNext == Typed /\ Listeners /\ [Next]_vars => Typed' /\ AllKept
<1> SUFFICES ASSUME Typed, Listeners, [Next]_vars PROVE Typed' /\ AllKept
  OBVIOUS
<1>1. ASSUME NEW r \in Runs, Handler(r) PROVE Typed' /\ AllKept
  BY <1>1, PrepareIperfTyped, BuildTraceIPIndexTyped, StartStreamTyped, MtrReportTyped,
     EndMtrTyped, PumpHopTyped, PumpPacketTyped, PumpEndsTyped, ExecReturnsTyped, EndTraceTyped,
     EndCaptureTyped, StartIperfServerTyped, SeeListeningTyped, ServerExitedTyped,
     ListenEndsTyped, StartIperfClientTyped, EndIperfTyped, KillClientTyped, KillServerTyped,
     SeeGoneTyped, PingFailsTyped, DeadlineTyped, Zenon
     DEF Handler
<1>2. ASSUME NEW r \in Runs,
             \/ TraceWebSocket(r) \/ TraceReport(r) \/ CaptureRequest(r) \/ IperfWebSocket(r)
             \/ IperfReport(r) \/ ProbeLine(r) \/ MtrHub(r) \/ ExecFails(r) \/ ClientGone(r)
             \/ ProgramEnds(r) \/ Killed(r)
      PROVE  Typed' /\ AllKept
  BY <1>2, TraceWebSocketTyped, TraceReportTyped, CaptureRequestTyped, IperfWebSocketTyped,
     IperfReportTyped, ProbeLineTyped, MtrHubTyped, ExecFailsTyped, ClientGoneTyped,
     ProgramEndsTyped, Zenon
<1>3. ASSUME NEW p \in procs, ServerBinds(p) \/ ClientServed(p) \/ ClientUnserved(p)
      PROVE  Typed' /\ AllKept
  BY <1>3, ServerBindsTyped, ClientEndsTyped, Zenon
<1>4. CASE UNCHANGED vars
  <2>1. run' = run /\ topology' = topology /\ procs' = procs /\ listens' = listens
    BY <1>4 DEF vars
  <2>2. procs' \subseteq procs /\ listens' \subseteq procs'
    BY <2>1 DEF Typed
  <2> QED  BY <2>1, <2>2, OnlyPrograms
<1> QED  BY <1>1, <1>2, <1>3, <1>4, Zenon DEF Next

----------------------------------------------------------------------------
(* Traces: what they answer.                                                *)

\* A step of others leaves a trace and its probe alone.
Same(r) == run'[r] = run[r] /\ Mine(r, "probe")' = Mine(r, "probe")

LEMMA SameIs ==
  ASSUME Typed, NEW q \in Runs, NEW r \in Runs, r # q, NEW c, run' = [run EXCEPT ![q] = c],
         \A p \in Procs : p.run # q /\ p.role = "probe" => (p \in procs' <=> p \in procs),
         procs' \subseteq Procs
  PROVE  Same(r)
<1>1. run'[r] = run[r] /\ procs \subseteq Procs
  BY DEF Typed
<1>2. Mine(r, "probe")' = Mine(r, "probe")
  BY <1>1 DEF Mine
<1> QED  BY <1>1, <1>2 DEF Same

LEMMA OthersSame ==
  ASSUME Typed, Listeners, Typed', NEW q \in Runs, NEW r \in Runs, r # q,
         \/ Handler(q) \/ TraceWebSocket(q) \/ TraceReport(q) \/ CaptureRequest(q)
         \/ IperfWebSocket(q) \/ IperfReport(q) \/ ProbeLine(q) \/ MtrHub(q) \/ ExecFails(q)
         \/ ClientGone(q) \/ ProgramEnds(q) \/ Killed(q)
  PROVE  Same(r)
<1> DEFINE Only == \E c : run' = [run EXCEPT ![q] = c]
           Apart == \A p \in Procs : p.run # q /\ p.role = "probe" => (p \in procs' <=> p \in procs)
<1>1. run \in [Runs -> Run] /\ procs' \subseteq Procs
  BY DEF Typed
<1>2. run[q] = run[q] /\ run = [run EXCEPT ![q] = run[q]]
  BY <1>1
<1>3. Only
  <2>1. CASE run' = run
    BY <1>2, <2>1
  <2>2. CASE Handler(q)
    <3>1. CASE PumpHop(q)
      BY <3>1, PumpHopIs
    <3>2. ASSUME NEW res, End(q, res) PROVE Only
      <4>1. run' = [run EXCEPT ![q] = [run[q] EXCEPT !.pc = "done", !.result = res]]
        BY <3>2 DEF End
      <4> QED  BY <4>1
    <3>3. CASE \/ BuildTraceIPIndex(q) \/ StartStream(q) \/ PumpPacket(q) \/ PumpEnds(q)
               \/ ExecReturns(q) \/ EndCapture(q) \/ StartIperfServer(q) \/ SeeListening(q)
               \/ StartIperfClient(q) \/ SeeGone(q) \/ PingFails(q) \/ Deadline(q)
      BY <3>3 DEF BuildTraceIPIndex, StartStream, PumpPacket, PumpEnds, ExecReturns, EndCapture,
           StartIperfServer, SeeListening, StartIperfClient, SeeGone, PingFails, Deadline
    <3>4. CASE PrepareIperf(q) \/ MtrReport(q) \/ EndIperf(q) \/ KillClient(q)
      BY <3>4, <3>2 DEF PrepareIperf, MtrReport, EndIperf, KillClient
    <3>5. CASE EndMtr(q) \/ EndTrace(q) \/ ServerExited(q) \/ ListenEnds(q) \/ KillServer(q)
      BY <3>5, <3>2 DEF EndMtr, EndTrace, ServerExited, ListenEnds, KillServer
    <3> QED  BY <2>2, <3>1, <3>3, <3>4, <3>5 DEF Handler
  <2>3. CASE \/ TraceWebSocket(q) \/ TraceReport(q) \/ CaptureRequest(q) \/ IperfWebSocket(q)
             \/ IperfReport(q) \/ ProbeLine(q) \/ MtrHub(q) \/ ExecFails(q) \/ ClientGone(q)
    BY <2>3 DEF TraceWebSocket, TraceReport, CaptureRequest, IperfWebSocket, IperfReport,
         ProbeLine, MtrHub, ExecFails, ClientGone, End
  <2> QED  BY <2>1, <2>2, <2>3 DEF ProgramEnds, Killed
<1>4. Apart
  <2>1. CASE procs' = procs
    BY <2>1
  <2>2. CASE \E role, x : procs' = procs \cup {Proc(q, role, x)}
    BY <2>2 DEF Proc
  <2>3. CASE \E role : procs' = procs \ Mine(q, role)
    BY <2>3 DEF Mine
  <2>4. CASE \E role \in {"client", "server"} : procs' = procs \ Matching(q, role)
    BY <2>4, SMTT(30) DEF Matching
  <2>5. CASE Handler(q)
    BY <2>5, <2>1, <2>2, <2>4 DEF Handler, PrepareIperf, BuildTraceIPIndex, StartStream,
       MtrReport, EndMtr, PumpHop, PumpPacket, PumpEnds, ExecReturns, EndTrace, EndCapture,
       StartIperfServer, SeeListening, ServerExited, ListenEnds, StartIperfClient, EndIperf,
       KillClient, KillServer, SeeGone, PingFails, Deadline, KillIperf
  <2>6. CASE \/ TraceWebSocket(q) \/ TraceReport(q) \/ CaptureRequest(q) \/ IperfWebSocket(q)
             \/ IperfReport(q) \/ ProbeLine(q) \/ MtrHub(q) \/ ExecFails(q) \/ ClientGone(q)
             \/ ProgramEnds(q) \/ Killed(q)
    BY <2>6, <2>1, <2>3 DEF TraceWebSocket, TraceReport, CaptureRequest, IperfWebSocket,
       IperfReport, ProbeLine, MtrHub, ExecFails, ClientGone, ProgramEnds, Killed
  <2> QED  BY <2>5, <2>6
<1> QED  BY <1>1, <1>3, <1>4, SameIs

\* So does a step of a server or of a client.
LEMMA ProgramsSame ==
  ASSUME Typed, Listeners, NEW p \in procs, NEW r \in Runs, run[r].kind = "trace",
         p.role \in {"client", "server"} => run[p.run].kind = "iperf",
         ServerBinds(p) \/ ClientServed(p) \/ ClientUnserved(p)
  PROVE  Same(r)
<1>1. procs \subseteq Procs /\ listens \subseteq procs /\ p.run \in Runs /\ run \in [Runs -> Run]
  BY DEF Typed, Procs
<1>2. p.role \in {"client", "server"} /\ p.run # r
  BY DEF ServerBinds, ClientServed, ClientUnserved
<1>3. run'[r] = run[r]
  BY <1>1, <1>2 DEF ServerBinds, ClientServed, ClientUnserved
<1>4. Mine(r, "probe")' = Mine(r, "probe")
  BY <1>1, <1>2 DEF ServerBinds, ClientServed, ClientUnserved, Mine, ServerLeaves, Listeners
<1> QED  BY <1>3, <1>4 DEF Same

\* A program runs for the request that started it, where and how that one says.
Belongs ==
  \A p \in procs :
    LET c == run[p.run] IN
    /\ c.pc \notin {"idle", "prepare"} /\ p.port = c.port
    /\ p.pod = IF p.role = "server" THEN c.dest ELSE c.src
    /\ p.role = "probe" => c.kind = "trace"
    /\ p.role = "tshark" => c.kind = "capture"
    /\ p.role \in {"client", "server"} => c.kind = "iperf"
    /\ p.role = "server" => c.port # 0

\* Programs start at three steps only.
LEMMA ProgramsStart ==
  ASSUME Typed, [Next]_vars
  PROVE  \/ procs' \subseteq procs
         \/ \E r \in Runs : StartStream(r) \/ StartIperfServer(r) \/ StartIperfClient(r)
<1>1. ASSUME NEW r \in Runs, Handler(r)
      PROVE  procs' \subseteq procs \/ StartStream(r) \/ StartIperfServer(r) \/ StartIperfClient(r)
  BY <1>1 DEF Handler, PrepareIperf, BuildTraceIPIndex, MtrReport, EndMtr, PumpHop,
       PumpPacket, PumpEnds, ExecReturns, EndTrace, EndCapture, SeeListening,
       ServerExited, ListenEnds, EndIperf, KillClient, KillServer, KillIperf, SeeGone,
       PingFails, Deadline
<1>2. ASSUME NEW r \in Runs,
             \/ TraceWebSocket(r) \/ TraceReport(r) \/ CaptureRequest(r) \/ IperfWebSocket(r)
             \/ IperfReport(r) \/ ProbeLine(r) \/ MtrHub(r) \/ ExecFails(r) \/ ClientGone(r)
             \/ ProgramEnds(r) \/ Killed(r)
      PROVE  procs' \subseteq procs
  BY <1>2 DEF TraceWebSocket, TraceReport, CaptureRequest, IperfWebSocket, IperfReport, ProbeLine,
       MtrHub, ExecFails, ClientGone, ProgramEnds, Killed
<1>3. ASSUME NEW p \in procs, ServerBinds(p) \/ ClientServed(p) \/ ClientUnserved(p)
      PROVE  procs' \subseteq procs
  BY <1>3 DEF ServerBinds, ClientServed, ClientUnserved
<1>4. UNCHANGED vars => procs' \subseteq procs
  BY DEF vars
<1> QED  BY <1>1, <1>2, <1>3, <1>4, SMTT(30) DEF Next

LEMMA BelongsNext ==
  ASSUME Typed, Listeners, Belongs, [Next]_vars
  PROVE  Belongs'
<1>1. Typed' /\ AllKept /\ procs \subseteq Procs
  BY TypedNext DEF Typed
<1> DEFINE Fine(p) ==
    LET c == run'[p.run] IN
    /\ c.pc \notin {"idle", "prepare"} /\ p.port = c.port
    /\ p.pod = IF p.role = "server" THEN c.dest ELSE c.src
    /\ p.role = "probe" => c.kind = "trace"
    /\ p.role = "tshark" => c.kind = "capture"
    /\ p.role \in {"client", "server"} => c.kind = "iperf"
    /\ p.role = "server" => c.port # 0
<1>2. ASSUME NEW p \in procs PROVE Fine(p)
  <2>1. p.run \in Runs /\ Kept(run[p.run], run'[p.run])
    BY <1>1 DEF Procs, AllKept
  <2> QED  BY <2>1 DEF Belongs, Kept
<1>3. CASE procs' \subseteq procs
  BY <1>2, <1>3 DEF Belongs
<1>4. ASSUME NEW r \in Runs, StartStream(r) PROVE Belongs'
  <2> DEFINE p == Proc(r, Program(r), run[r].src)
  <2>1. procs' = procs \cup {p} /\ run[r] \in Run /\ run \in [Runs -> Run]
    BY <1>4 DEF StartStream, Typed
  <2>2. run'[r] = [run[r] EXCEPT !.pc = "streaming", !.exec = TRUE, !.pump = TRUE]
    BY <1>4, <2>1 DEF StartStream
  <2>3. run[r].kind = "trace" \/ run[r].kind = "capture"
    BY <1>4 DEF StartStream, At
  <2>4. p.run = r /\ p.role = Program(r) /\ p.pod = run[r].src /\ p.port = run[r].port
    BY DEF Proc
  <2> HIDE DEF p
  <2>5. Fine(p)
    BY <2>1, <2>2, <2>3, <2>4 DEF Program, Run, Record
  <2> QED  BY <2>1, <2>5, <1>2 DEF Belongs
<1>5. ASSUME NEW r \in Runs, StartIperfServer(r) PROVE Belongs'
  <2> DEFINE p == Proc(r, "server", run[r].dest)
  <2>1. procs' = procs \cup {p} /\ run[r] \in Run /\ run \in [Runs -> Run] /\ Fits(run[r])
    BY <1>5 DEF StartIperfServer, Typed
  <2>2. run'[r] = [run[r] EXCEPT !.pc = "listen"]
    BY <1>5, <2>1 DEF StartIperfServer
  <2>3. run[r].kind = "iperf" /\ run[r].port # 0
    BY <1>5, <2>1 DEF StartIperfServer, At, Fits
  <2>4. p.run = r /\ p.role = "server" /\ p.pod = run[r].dest /\ p.port = run[r].port
    BY DEF Proc
  <2> HIDE DEF p
  <2>5. Fine(p)
    BY <2>1, <2>2, <2>3, <2>4 DEF Run, Record
  <2> QED  BY <2>1, <2>5, <1>2 DEF Belongs
<1>6. ASSUME NEW r \in Runs, StartIperfClient(r) PROVE Belongs'
  <2> DEFINE p == Proc(r, "client", run[r].src)
  <2>1. procs' = procs \cup {p} /\ run[r] \in Run /\ run \in [Runs -> Run]
    BY <1>6 DEF StartIperfClient, Typed
  <2>2. run'[r] = [run[r] EXCEPT !.pc = "streaming", !.exec = TRUE, !.pump = TRUE]
    BY <1>6, <2>1 DEF StartIperfClient
  <2>3. run[r].kind = "iperf"
    BY <1>6 DEF StartIperfClient, At
  <2>4. p.run = r /\ p.role = "client" /\ p.pod = run[r].src /\ p.port = run[r].port
    BY DEF Proc
  <2> HIDE DEF p
  <2>5. Fine(p)
    BY <2>1, <2>2, <2>3, <2>4 DEF Run, Record
  <2> QED  BY <2>1, <2>5, <1>2 DEF Belongs
<1> QED  BY <1>3, <1>4, <1>5, <1>6, ProgramsStart

----------------------------------------------------------------------------
(* What a trace has told so far, and how it got there.                      *)

Told(c) ==
  /\ c.dropped <=> \E i \in DOMAIN c.hops : c.hops[i].line.flag
  /\ \A i \in DOMAIN c.hops : c.hops[i].line.flag => i = Len(c.hops)
  /\ c.reached <=> \E i \in DOMAIN c.hops : c.hops[i].line.ip = c.dest
  /\ c.consecutive <= Len(c.hops)
  /\ \A i \in DOMAIN c.hops : i > Len(c.hops) - c.consecutive => c.hops[i].line.ip = None

Blankish(c) == /\ c.hops = <<>> /\ c.consecutive = 0 /\ ~ c.dropped /\ ~ c.reached
               /\ ~ c.stop /\ ~ c.metrics

\* While it streams: why the pump or the probe is no more.
Streams(c, alive) ==
  /\ c.dropped => ~ c.pump
  /\ c.stop => ~ c.pump /\ (c.dropped \/ c.consecutive >= MaxConsecutiveTraceTimeouts)
  /\ ~ alive /\ ~ c.ctx /\ ~ c.stop /\ c.result # "error" =>
       c.dropped \/ c.reached \/ Len(c.hops) = MaxTTL
  /\ ~ c.exec /\ ~ c.ctx /\ ~ c.stop /\ c.result # "error" => ~ alive

\* Once it is done.
Outcome(c) ==
  /\ c.result = "unreachable" <=> \E i \in DOMAIN c.hops : c.hops[i].line.flag
  /\ \A i \in DOMAIN c.hops : c.hops[i].line.flag => i = Len(c.hops)
  /\ c.result = "delivered" => \E i \in DOMAIN c.hops : c.hops[i].line.ip = c.dest
  /\ c.stop /\ ~ c.dropped =>
       /\ Len(c.hops) >= MaxConsecutiveTraceTimeouts
       /\ \A i \in Len(c.hops) - MaxConsecutiveTraceTimeouts + 1 .. Len(c.hops) :
            c.hops[i].line.ip = None
  /\ c.result = "unreached" /\ ~ c.ctx /\ ~ c.stop =>
       /\ Len(c.hops) = MaxTTL
       /\ \A i \in DOMAIN c.hops : c.hops[i].line.ip # c.dest

TraceOK(c, alive) ==
  c.kind = "trace" =>
    /\ c.pc \in {"idle", "index", "stream"} => Blankish(c)
    /\ c.pc \in {"mtr", "hubs"} => c.metrics
    /\ c.pc = "streaming" => ~ c.metrics /\ Told(c) /\ Streams(c, alive)
    /\ c.pc = "done" /\ ~ c.metrics /\ c.result # "error" => Outcome(c)

Traces == \A r \in Runs : TraceOK(run[r], Mine(r, "probe") # {})

LEMMA TracesInit == Init => Traces
<1> SUFFICES ASSUME Init, NEW r \in Runs PROVE TraceOK(run[r], Mine(r, "probe") # {})
  BY DEF Traces
<1>1. PICK s \in Scenarios : run = [q \in Runs |-> Asked(s.asks[q])]
  BY Zenon DEF Init
<1>2. run[r] = Asked(s.asks[r])
  BY <1>1
<1>3. /\ run[r].pc = "idle" /\ run[r].hops = <<>> /\ ~ run[r].stop /\ ~ run[r].dropped
      /\ ~ run[r].reached /\ run[r].consecutive = 0 /\ ~ run[r].metrics
  BY <1>2, BlankIs
<1> QED  BY <1>3 DEF TraceOK, Blankish

\* A pump's hop keeps what was told.
LEMMA ToldNext ==
  ASSUME NEW c \in Run, NEW d \in Run, NEW e \in Emitted, Told(c), ~ c.dropped,
         d.hops = Append(c.hops, e), d.dest = c.dest, d.dropped = (c.dropped \/ e.line.flag),
         d.reached = (c.reached \/ (e.line.ip # None /\ e.line.ip = c.dest)),
         d.consecutive = IF e.line.ip = None THEN c.consecutive + 1 ELSE 0
  PROVE  Told(d)
<1> DEFINE n == Len(c.hops)
<1>1. c.hops \in Seq(Emitted) /\ n \in Nat /\ c.consecutive \in Nat /\ c.dest \in Pods \cup {Outside}
  BY DEF Run, Record
<1>2. /\ Len(d.hops) = n + 1 /\ DOMAIN d.hops = 1 .. n + 1 /\ DOMAIN c.hops = 1 .. n
      /\ d.hops[n + 1] = e /\ \A i \in 1 .. n : d.hops[i] = c.hops[i]
  BY <1>1
<1>3. c.dest # None
  BY <1>1, ToolAssumption
<1> HIDE DEF n
<1>a. /\ \A i \in 1 .. n : ~ c.hops[i].line.flag
      /\ c.reached <=> \E i \in 1 .. n : c.hops[i].line.ip = c.dest
  BY <1>2 DEF Told
<1>b. \A i \in 1 .. n : ~ d.hops[i].line.flag
  BY <1>a, <1>2
<1>c. d.dropped <=> e.line.flag
  OBVIOUS
<1>4. d.dropped <=> \E i \in DOMAIN d.hops : d.hops[i].line.flag
  <2>1. ASSUME d.dropped PROVE \E i \in DOMAIN d.hops : d.hops[i].line.flag
    <3>1. n + 1 \in DOMAIN d.hops /\ d.hops[n + 1].line.flag
      BY <2>1, <1>c, <1>1, <1>2
    <3> QED  BY <3>1
  <2>2. ASSUME NEW i \in DOMAIN d.hops, d.hops[i].line.flag PROVE d.dropped
    <3>1. i \notin 1 .. n
      BY <2>2, <1>b
    <3>2. i = n + 1
      BY <2>2, <3>1, <1>1, <1>2
    <3> QED  BY <2>2, <3>2, <1>2, <1>c
  <2> QED  BY <2>1, <2>2
<1>5. ASSUME NEW i \in DOMAIN d.hops, d.hops[i].line.flag PROVE i = Len(d.hops)
  <2>1. i \notin 1 .. n
    BY <1>5, <1>b
  <2> QED  BY <2>1, <1>1, <1>2
<1>6. d.reached <=> \E i \in DOMAIN d.hops : d.hops[i].line.ip = d.dest
  <2>1. ASSUME d.reached PROVE \E i \in DOMAIN d.hops : d.hops[i].line.ip = d.dest
    <3>1. CASE c.reached
      <4>1. PICK i \in 1 .. n : c.hops[i].line.ip = c.dest
        BY <3>1, <1>a
      <4>2. i \in DOMAIN d.hops /\ d.hops[i].line.ip = d.dest
        BY <4>1, <1>1, <1>2
      <4> QED  BY <4>2
    <3>2. CASE e.line.ip = c.dest
      <4>1. n + 1 \in DOMAIN d.hops /\ d.hops[n + 1].line.ip = d.dest
        BY <3>2, <1>1, <1>2
      <4> QED  BY <4>1
    <3> QED  BY <2>1, <3>1, <3>2
  <2>2. ASSUME NEW i \in DOMAIN d.hops, d.hops[i].line.ip = d.dest PROVE d.reached
    <3>1. CASE i \in 1 .. n
      <4>1. c.hops[i].line.ip = c.dest
        BY <2>2, <3>1, <1>2
      <4>2. c.reached
        BY <4>1, <3>1, <1>a
      <4> QED  BY <4>2
    <3>2. CASE i \notin 1 .. n
      <4>1. i = n + 1
        BY <3>2, <1>1, <1>2
      <4> QED  BY <2>2, <4>1, <1>2, <1>3
    <3> QED  BY <3>1, <3>2
  <2>3. d.reached \in BOOLEAN
    BY DEF Run, Record
  <2> QED  BY <2>1, <2>2, <2>3
<1>7. d.consecutive <= Len(d.hops)
  BY <1>1, <1>2 DEF Told, n
<1>8. ASSUME NEW i \in DOMAIN d.hops, i > Len(d.hops) - d.consecutive
      PROVE  d.hops[i].line.ip = None
  <2>1. e.line.ip = None
    BY <1>8, <1>1, <1>2
  <2>2. CASE i = n + 1
    BY <2>1, <2>2, <1>2
  <2>3. CASE i # n + 1
    BY <2>1, <2>3, <1>1, <1>2, <1>8 DEF Told, n
  <2> QED  BY <2>2, <2>3
<1> QED  BY <1>4, <1>5, <1>6, <1>7, <1>8 DEF Told

\* A step of a trace that emits no hop.
LEMMA TraceKept ==
  ASSUME NEW c, NEW d, NEW a, NEW b, TraceOK(c, a), c.kind = "trace", d.pc = c.pc, c.pc # "done",
         d.hops = c.hops, d.dest = c.dest, d.consecutive = c.consecutive, d.dropped = c.dropped,
         d.reached = c.reached, d.stop = c.stop, d.metrics = c.metrics,
         c.pc = "streaming" => Streams(d, b)
  PROVE  TraceOK(d, b)
BY DEF TraceOK, Blankish, Told

\* A trace that ends with an error, or with metrics, says nothing more.
LEMMA TraceEnded ==
  ASSUME NEW d, NEW b, d.pc = "done", d.metrics \/ d.result = "error"
  PROVE  TraceOK(d, b)
BY DEF TraceOK

\* RunTrace after streamDone.
LEMMA EndTraceTold ==
  ASSUME NEW c \in Run, NEW d \in Run, NEW a, TraceOK(c, a), c.kind = "trace", c.pc = "streaming",
         ~ c.exec, ~ c.pump, d.pc = "done", d.hops = c.hops, d.dest = c.dest, d.stop = c.stop,
         d.ctx = c.ctx, d.dropped = c.dropped,
         d.result = IF c.result = "error" /\ ~ (c.ctx \/ c.stop) THEN "error"
                    ELSE IF c.dropped THEN "unreachable"
                    ELSE IF c.reached THEN "delivered" ELSE "unreached",
         NEW b
  PROVE  TraceOK(d, b)
<1>1. Told(c) /\ Streams(c, a)
  BY DEF TraceOK
<1>2. CASE d.result = "error"
  BY <1>2, TraceEnded
<1> SUFFICES ASSUME d.result # "error" PROVE Outcome(d)
  BY <1>2 DEF TraceOK
<1>3. /\ d.result = "unreachable" <=> c.dropped
      /\ d.result = "delivered" => c.reached
      /\ d.result = "unreached" => ~ c.dropped /\ ~ c.reached
      /\ ~ c.ctx /\ ~ c.stop => c.result # "error"
  OBVIOUS
<1>4. d.result = "unreachable" <=> \E i \in DOMAIN d.hops : d.hops[i].line.flag
  BY <1>1, <1>3 DEF Told
<1>5. \A i \in DOMAIN d.hops : d.hops[i].line.flag => i = Len(d.hops)
  BY <1>1 DEF Told
<1>6. d.result = "delivered" => \E i \in DOMAIN d.hops : d.hops[i].line.ip = d.dest
  BY <1>1, <1>3 DEF Told
<1>7. ASSUME d.stop, ~ d.dropped
      PROVE  /\ Len(d.hops) >= MaxConsecutiveTraceTimeouts
             /\ \A i \in Len(d.hops) - MaxConsecutiveTraceTimeouts + 1 .. Len(d.hops) :
                  d.hops[i].line.ip = None
  <2>1. /\ c.consecutive >= MaxConsecutiveTraceTimeouts /\ c.consecutive <= Len(c.hops)
        /\ \A i \in DOMAIN c.hops : i > Len(c.hops) - c.consecutive => c.hops[i].line.ip = None
    BY <1>1, <1>7 DEF Told, Streams
  <2>2. /\ c.hops \in Seq(Emitted) /\ c.consecutive \in Nat /\ MaxConsecutiveTraceTimeouts \in Nat
        /\ Len(c.hops) \in Nat /\ DOMAIN c.hops = 1 .. Len(c.hops)
    BY ToolAssumption DEF Run, Record
  <2>3. ASSUME NEW i \in Len(c.hops) - MaxConsecutiveTraceTimeouts + 1 .. Len(c.hops)
        PROVE  c.hops[i].line.ip = None
    <3>1. i \in DOMAIN c.hops /\ i > Len(c.hops) - c.consecutive
      BY <2>1, <2>2
    <3> QED  BY <3>1, <2>1
  <2>4. Len(c.hops) >= MaxConsecutiveTraceTimeouts
    BY <2>1, <2>2
  <2> QED  BY <2>3, <2>4
<1>8. ASSUME d.result = "unreached", ~ d.ctx, ~ d.stop
      PROVE  /\ Len(d.hops) = MaxTTL /\ \A i \in DOMAIN d.hops : d.hops[i].line.ip # d.dest
  <2>1. ~ c.dropped /\ ~ c.reached /\ c.result # "error" /\ ~ c.ctx /\ ~ c.stop
    BY <1>3, <1>8
  <2>2. Len(c.hops) = MaxTTL
    BY <1>1, <2>1 DEF Streams
  <2>3. \A i \in DOMAIN c.hops : c.hops[i].line.ip # c.dest
    BY <1>1, <2>1 DEF Told
  <2> QED  BY <2>2, <2>3
<1> QED  BY <1>4, <1>5, <1>6, <1>7, <1>8 DEF Outcome

\* The pump of RunTrace, on a line.
LEMMA PumpHopTold ==
  ASSUME Typed, NEW r \in Runs, NEW a, TraceOK(run[r], a), PumpHop(r)
  PROVE  TraceOK(run'[r], a)
<1> DEFINE c == run[r]
           l == run[r].pipe
           b == [run[r] EXCEPT !.pipe = None]
           d == Handled(b, l)
           f == IF GivesUp(d) THEN [d EXCEPT !.stop = TRUE, !.pump = FALSE] ELSE d
           h == IF l.ip = None
                THEN [kind |-> "timeout", node |-> None, segment |-> None, path |-> <<>>]
                ELSE AnnotateTraceHop(l.ip, b.prev, b.resolves)
           e == [line |-> l, hop |-> h]
<1>1. /\ c \in Run /\ Fits(c) /\ c.kind = "trace" /\ c.pc = "streaming" /\ c.pump /\ l # None
      /\ run \in [Runs -> Run]
  BY TypedRun DEF PumpHop, At, Typed
<1>2. /\ l \in Lines /\ b \in Run /\ d \in Run /\ run' = [run EXCEPT ![r] = f]
  BY PumpHopIs, Zenon
<1>3. run'[r] = f
  BY <1>1, <1>2
<1>4. /\ b.kind = c.kind /\ b.pc = c.pc /\ b.dest = c.dest /\ b.ctx = c.ctx /\ b.stop = c.stop
      /\ b.exec = c.exec /\ b.pump = c.pump /\ b.hops = c.hops /\ b.consecutive = c.consecutive
      /\ b.dropped = c.dropped /\ b.reached = c.reached /\ b.metrics = c.metrics
      /\ b.result = c.result
  BY <1>1 DEF Run, Record
<1>5. /\ h \in Hop /\ d.hops = Append(b.hops, e)
      /\ d.consecutive = IF l.ip = None THEN b.consecutive + 1 ELSE 0
      /\ d.dropped = (b.dropped \/ l.flag)
      /\ d.reached = (b.reached \/ (l.ip # None /\ l.ip = b.dest))
      /\ Kept(b, d) /\ d.pc = b.pc /\ d.ctx = b.ctx /\ d.stop = b.stop /\ d.exec = b.exec
      /\ d.pump = b.pump /\ d.metrics = b.metrics /\ d.result = b.result
  <2>1. l \in Lines /\ b \in Run
    BY <1>2
  <2> HIDE DEF l, b
  <2> QED  BY <2>1, HandledIs, Zenon
<1> HIDE DEF h
<1>6. e \in Emitted /\ e.line = l
  BY <1>2, <1>5 DEF Emitted
<1> HIDE DEF e, l, b, c, d
<1>7. Told(c) /\ Streams(c, a) /\ ~ c.metrics /\ ~ c.dropped /\ ~ c.stop
  <2>1. Told(c) /\ Streams(c, a) /\ ~ c.metrics
    BY <1>1 DEF TraceOK, c
  <2> QED  BY <1>1, <2>1 DEF Streams
<1>8. Told(d)
  <2>1. /\ d.hops = Append(c.hops, e) /\ d.dest = c.dest /\ d.dropped = (c.dropped \/ e.line.flag)
        /\ d.reached = (c.reached \/ (e.line.ip # None /\ e.line.ip = c.dest))
        /\ d.consecutive = IF e.line.ip = None THEN c.consecutive + 1 ELSE 0
    BY <1>4, <1>5, <1>6 DEF Kept
  <2> QED  BY <2>1, <1>1, <1>2, <1>6, <1>7, ToldNext
<1>9. /\ d.kind = "trace" /\ d.pc = "streaming" /\ ~ d.metrics /\ d.ctx = c.ctx /\ ~ d.stop
      /\ d.exec = c.exec /\ d.result = c.result /\ (c.reached => d.reached)
  BY <1>1, <1>4, <1>5, <1>7 DEF Kept
<1>10. /\ f.kind = "trace" /\ f.pc = "streaming" /\ ~ f.metrics /\ f.ctx = c.ctx
       /\ (f.stop <=> GivesUp(d)) /\ (f.pump => ~ GivesUp(d))
       /\ f.exec = c.exec /\ f.result = c.result /\ (c.reached => f.reached)
       /\ f.hops = d.hops /\ f.dest = d.dest /\ f.consecutive = d.consecutive
       /\ f.dropped = d.dropped /\ f.reached = d.reached
  <2>1. /\ GivesUp(d) => f = [d EXCEPT !.stop = TRUE, !.pump = FALSE]
        /\ ~ GivesUp(d) => f = d
    OBVIOUS
  <2> HIDE DEF f
  <2>2. CASE GivesUp(d)
    BY <1>2, <1>9, <2>1, <2>2, ZenonT(40) DEF Run, Record
  <2>3. CASE ~ GivesUp(d)
    BY <1>9, <2>1, <2>3
  <2> QED  BY <2>2, <2>3
<1> HIDE DEF f
<1>11. Told(f)
  BY <1>8, <1>10 DEF Told
<1>12. Len(c.hops) < MaxTTL /\ c.exec
  BY <1>1 DEF Fits, l, c
<1>13. Streams(f, a)
  <2>1. f.dropped => ~ f.pump
    BY <1>10 DEF GivesUp
  <2>2. f.stop => ~ f.pump /\ (f.dropped \/ f.consecutive >= MaxConsecutiveTraceTimeouts)
    BY <1>10 DEF GivesUp
  <2>3. ~ a /\ ~ c.ctx /\ c.result # "error" => c.reached
    BY <1>7, <1>12 DEF Streams
  <2> QED  BY <2>1, <2>2, <2>3, <1>10, <1>12 DEF Streams
<1> QED  BY <1>3, <1>10, <1>11, <1>13 DEF TraceOK

\* The steps of a trace that start it.
LEMMA TraceStartTold ==
  ASSUME Typed, NEW r \in Runs, run[r].kind = "trace", NEW a, NEW b, TraceOK(run[r], a),
         \/ TraceWebSocket(r) \/ TraceReport(r) \/ BuildTraceIPIndex(r)
         \/ (StartStream(r) /\ b)
  PROVE  TraceOK(run'[r], b)
<1>1. run[r] \in Run /\ Fits(run[r]) /\ run \in [Runs -> Run]
  BY TypedRun DEF Typed
<1>2. ASSUME run[r].pc = "idle",
             run' = [run EXCEPT ![r].pc = "index"] \/ End(r, "error")
      PROVE  TraceOK(run'[r], b)
  <2> DEFINE d == run'[r]
  <2>1. CASE End(r, "error")
    <3>1. d = [run[r] EXCEPT !.pc = "done", !.result = "error"]
      BY <2>1, <1>1 DEF End
    <3>2. d.pc = "done" /\ d.result = "error"
      BY <3>1, <1>1 DEF Run, Record
    <3> QED  BY <3>2, TraceEnded
  <2>2. CASE run' = [run EXCEPT ![r].pc = "index"]
    <3>1. d = [run[r] EXCEPT !.pc = "index"]
      BY <2>2, <1>1
    <3> HIDE DEF d
    <3>2. d.pc = "index" /\ d.hops = run[r].hops /\ d.consecutive = run[r].consecutive
          /\ d.dropped = run[r].dropped /\ d.reached = run[r].reached /\ d.stop = run[r].stop
          /\ d.metrics = run[r].metrics
      BY <3>1, <1>1 DEF Run, Record
    <3>3. TraceOK(d, b)
      BY <3>2, <1>2 DEF TraceOK, Blankish
    <3> QED  BY <3>3 DEF d
  <2> QED  BY <1>2, <2>1, <2>2
<1>3. CASE TraceWebSocket(r) \/ TraceReport(r)
  BY <1>2, <1>3 DEF TraceWebSocket, TraceReport, At
<1>4. CASE BuildTraceIPIndex(r)
  <2>1. PICK ok \in BOOLEAN, m \in BOOLEAN :
          run' = [run EXCEPT ![r].resolves = ok, ![r].metrics = m,
                             ![r].pc = IF m THEN "mtr" ELSE "stream"]
    BY <1>4 DEF BuildTraceIPIndex
  <2> DEFINE p == IF m THEN "mtr" ELSE "stream"
             d == run'[r]
  <2>2. d = [run[r] EXCEPT !.resolves = ok, !.metrics = m, !.pc = p]
    BY <2>1, <1>1
  <2>3. (m => p = "mtr") /\ (~ m => p = "stream")
    OBVIOUS
  <2> HIDE DEF d, p
  <2>4. d.pc = p /\ d.hops = run[r].hops /\ d.consecutive = run[r].consecutive
        /\ d.dropped = run[r].dropped /\ d.reached = run[r].reached /\ d.stop = run[r].stop
        /\ d.metrics = m
    BY <2>2, <1>1 DEF Run, Record
  <2>5. run[r].pc = "index"
    BY <1>4 DEF BuildTraceIPIndex, At
  <2>6. TraceOK(d, b)
    BY <2>3, <2>4, <2>5 DEF TraceOK, Blankish
  <2> QED  BY <2>6 DEF d
<1>5. CASE StartStream(r) /\ b
  <2> DEFINE d == run'[r]
  <2>1. d = [run[r] EXCEPT !.pc = "streaming", !.exec = TRUE, !.pump = TRUE] /\ run[r].pc = "stream"
    BY <1>1, <1>5 DEF StartStream, At
  <2> HIDE DEF d
  <2>2. d.pc = "streaming" /\ d.exec /\ d.pump /\ d.hops = run[r].hops
        /\ d.consecutive = run[r].consecutive /\ d.dest = run[r].dest
        /\ d.dropped = run[r].dropped /\ d.reached = run[r].reached /\ d.stop = run[r].stop
        /\ d.metrics = run[r].metrics
    BY <2>1, <1>1 DEF Run, Record
  <2>3. d.hops = <<>> /\ d.consecutive = 0 /\ ~ d.dropped /\ ~ d.reached /\ ~ d.stop /\ ~ d.metrics
    BY <2>1, <2>2 DEF TraceOK, Blankish
  <2>4. Told(d)
    BY <2>3 DEF Told
  <2>5. Streams(d, b)
    BY <2>2, <2>3, <1>5 DEF Streams
  <2>6. TraceOK(d, b)
    BY <2>2, <2>3, <2>4, <2>5 DEF TraceOK
  <2> QED  BY <2>6 DEF d
<1> QED  BY <1>3, <1>4, <1>5

\* A trace with metrics.
LEMMA TraceMetricsTold ==
  ASSUME Typed, NEW r \in Runs, run[r].kind = "trace", NEW a, NEW b, TraceOK(run[r], a),
         MtrReport(r) \/ MtrHub(r) \/ EndMtr(r)
  PROVE  TraceOK(run'[r], b)
<1> DEFINE d == run'[r]
<1>1. run[r] \in Run /\ run \in [Runs -> Run] /\ run[r].metrics
  BY TypedRun DEF Typed, MtrReport, MtrHub, EndMtr, At, TraceOK
<1>2. ASSUME NEW res, End(r, res) PROVE TraceOK(d, b)
  <2>1. d = [run[r] EXCEPT !.pc = "done", !.result = res]
    BY <1>1, <1>2 DEF End
  <2> HIDE DEF d
  <2>2. d.pc = "done" /\ d.metrics
    BY <1>1, <2>1 DEF Run, Record
  <2> QED  BY <2>2, TraceEnded
<1>3. CASE run' = [run EXCEPT ![r].pc = "hubs"]
  <2>1. d = [run[r] EXCEPT !.pc = "hubs"]
    BY <1>1, <1>3
  <2> HIDE DEF d
  <2>2. d.pc = "hubs" /\ d.metrics
    BY <1>1, <2>1 DEF Run, Record
  <2>3. TraceOK(d, b)
    BY <2>2 DEF TraceOK
  <2> QED  BY <2>3 DEF d
<1>4. CASE MtrHub(r)
  <2>1. PICK l \in Lines : run' = [run EXCEPT ![r] = Handled(run[r], l)]
    BY <1>4 DEF MtrHub
  <2>2. d = Handled(run[r], l)
    BY <1>1, <2>1
  <2> HIDE DEF d
  <2>3. d.pc = run[r].pc /\ d.metrics = run[r].metrics
    BY <1>1, <2>2, HandledIs, Zenon
  <2>4. d.pc = "hubs" /\ d.metrics
    BY <1>1, <1>4, <2>3 DEF MtrHub, At
  <2>5. TraceOK(d, b)
    BY <2>4 DEF TraceOK
  <2> QED  BY <2>5 DEF d
<1> QED  BY <1>2, <1>3, <1>4 DEF MtrReport, EndMtr

\* The steps of a trace that emit no hop.
LEMMA TraceQuietTold ==
  ASSUME Typed, NEW r \in Runs, run[r].kind = "trace", NEW a, NEW b, TraceOK(run[r], a),
         a <=> Mine(r, "probe") # {}, b \in BOOLEAN, b <=> Mine(r, "probe")' # {},
         \/ ProbeLine(r) \/ PumpEnds(r) \/ ExecReturns(r) \/ ExecFails(r) \/ ClientGone(r)
         \/ SeeGone(r) \/ Deadline(r)
  PROVE  TraceOK(run'[r], b)
<1> DEFINE c == run[r]
           d == run'[r]
<1>1. c \in Run /\ run \in [Runs -> Run] /\ Fits(c)
  BY TypedRun DEF Typed
<1>a. Program(r) = "probe"
  BY DEF Program
<1>b. Mine(r, "probe")' \subseteq Mine(r, "probe")
  BY DEF ProbeLine, PumpEnds, ExecReturns, ExecFails, ClientGone, SeeGone, Deadline, Mine
<1>2. c.pc # "done" /\ (c.pc = "streaming" => Streams(c, a))
  BY DEF ProbeLine, PumpEnds, ExecReturns, ExecFails, ClientGone, SeeGone, Deadline, At, Watched,
     TraceOK
<1> DEFINE Quiet == /\ d.pc = c.pc /\ d.hops = c.hops /\ d.dest = c.dest
                    /\ d.consecutive = c.consecutive /\ d.dropped = c.dropped
                    /\ d.reached = c.reached /\ d.stop = c.stop /\ d.metrics = c.metrics
<1>3. CASE ProbeLine(r)
  <2>1. PICK l : d = [c EXCEPT !.pipe = l]
    BY <1>1, <1>3 DEF ProbeLine
  <2>2. procs' = procs
    BY <1>3 DEF ProbeLine
  <2> HIDE DEF d, c
  <2>3. Quiet /\ d.ctx = c.ctx /\ d.exec = c.exec /\ d.pump = c.pump /\ d.result = c.result
    BY <1>1, <2>1 DEF Run, Record
  <2>4. a <=> b
    BY <2>2 DEF Mine
  <2>5. c.pc = "streaming" => Streams(d, b)
    BY <1>2, <2>3, <2>4 DEF Streams
  <2>6. TraceOK(d, b)
    BY <2>3, <2>5, <1>2, TraceKept DEF c
  <2> QED  BY <2>6 DEF d
<1>4. CASE PumpEnds(r)
  <2>1. d = [c EXCEPT !.pump = FALSE]
    BY <1>1, <1>4 DEF PumpEnds
  <2>2. procs' = procs
    BY <1>4 DEF PumpEnds
  <2> HIDE DEF d, c
  <2>3. Quiet /\ d.ctx = c.ctx /\ d.exec = c.exec /\ ~ d.pump /\ d.result = c.result
    BY <1>1, <2>1 DEF Run, Record
  <2>4. a <=> b
    BY <2>2 DEF Mine
  <2>5. c.pc = "streaming" => Streams(d, b)
    BY <1>2, <2>3, <2>4 DEF Streams
  <2>6. TraceOK(d, b)
    BY <2>3, <2>5, <1>2, TraceKept DEF c
  <2> QED  BY <2>6 DEF d
<1>5. CASE ExecReturns(r)
  <2>1. d = [c EXCEPT !.exec = FALSE, !.pipe = None]
    BY <1>1, <1>5 DEF ExecReturns
  <2>2. procs' = procs /\ (c.ctx \/ c.stop \/ ~ a)
    BY <1>5, <1>a DEF ExecReturns, Cancelled
  <2> HIDE DEF d, c
  <2>3. Quiet /\ d.ctx = c.ctx /\ d.pump = c.pump /\ d.result = c.result
    BY <1>1, <2>1 DEF Run, Record
  <2>4. a <=> b
    BY <2>2 DEF Mine
  <2>5. c.pc = "streaming" => Streams(d, b)
    BY <1>2, <2>2, <2>3, <2>4 DEF Streams
  <2>6. TraceOK(d, b)
    BY <2>3, <2>5, <1>2, TraceKept DEF c
  <2> QED  BY <2>6 DEF d
<1>6. CASE ExecFails(r)
  <2>1. d = [c EXCEPT !.exec = FALSE, !.result = "error"]
    BY <1>1, <1>6 DEF ExecFails
  <2> HIDE DEF d, c
  <2>3. Quiet /\ d.ctx = c.ctx /\ d.pump = c.pump /\ d.result = "error"
    BY <1>1, <2>1 DEF Run, Record
  <2>5. c.pc = "streaming" => Streams(d, b)
    BY <1>2, <2>3 DEF Streams
  <2>6. TraceOK(d, b)
    BY <2>3, <2>5, <1>2, TraceKept DEF c
  <2> QED  BY <2>6 DEF d
<1>7. CASE ClientGone(r)
  <2>1. d = [c EXCEPT !.closed = TRUE]
    BY <1>1, <1>7 DEF ClientGone
  <2>2. procs' = procs
    BY <1>7 DEF ClientGone
  <2> HIDE DEF d, c
  <2>3. Quiet /\ d.ctx = c.ctx /\ d.exec = c.exec /\ d.pump = c.pump /\ d.result = c.result
    BY <1>1, <2>1 DEF Run, Record
  <2>4. a <=> b
    BY <2>2 DEF Mine
  <2>5. c.pc = "streaming" => Streams(d, b)
    BY <1>2, <2>3, <2>4 DEF Streams
  <2>6. TraceOK(d, b)
    BY <2>3, <2>5, <1>2, TraceKept DEF c
  <2> QED  BY <2>6 DEF d
<1>8. CASE SeeGone(r) \/ Deadline(r)
  <2>1. d = [c EXCEPT !.ctx = TRUE] \/ d = [c EXCEPT !.ctx = TRUE, !.stop = @ \/ c.kind = "capture"]
    BY <1>1, <1>8 DEF SeeGone, Deadline
  <2> HIDE DEF d
  <2>2. Quiet /\ d.ctx /\ d.pump = c.pump
    BY <1>1, <2>1 DEF Run, Record
  <2> HIDE DEF c
  <2>5. c.pc = "streaming" => Streams(d, b)
    BY <1>2, <2>2 DEF Streams
  <2>6. TraceOK(d, b)
    BY <2>2, <2>5, <1>2, TraceKept DEF c
  <2> QED  BY <2>6 DEF d
<1> QED  BY <1>3, <1>4, <1>5, <1>6, <1>7, <1>8

\* Its end, and the end of its probe.
LEMMA TraceEndTold ==
  ASSUME Typed, NEW r \in Runs, run[r].kind = "trace", NEW a, NEW b, TraceOK(run[r], a),
         a <=> Mine(r, "probe") # {},
         EndTrace(r) \/ ProgramEnds(r) \/ Killed(r)
  PROVE  TraceOK(run'[r], b)
<1> DEFINE c == run[r]
           d == run'[r]
<1>1. c \in Run /\ run \in [Runs -> Run] /\ Fits(c) /\ c.kind = "trace"
  BY TypedRun DEF Typed
<1>2. CASE EndTrace(r)
  <2> DEFINE res == IF c.result = "error" /\ ~ (c.ctx \/ c.stop) THEN "error"
                    ELSE IF c.dropped THEN "unreachable"
                    ELSE IF c.reached THEN "delivered" ELSE "unreached"
  <2>1. d = [c EXCEPT !.pc = "done", !.result = res]
    BY <1>1, <1>2 DEF EndTrace, End, Cancelled
  <2>2. c.pc = "streaming" /\ ~ c.exec /\ ~ c.pump
    BY <1>2 DEF EndTrace, At
  <2>3. res \in Results
    BY DEF Results
  <2> HIDE DEF res, d, c
  <2>4. d \in Run
    BY <1>1, <2>1, <2>3 DEF Run, Record, Steps
  <2>5. d.pc = "done" /\ d.hops = c.hops /\ d.dest = c.dest /\ d.stop = c.stop
        /\ d.ctx = c.ctx /\ d.dropped = c.dropped /\ d.result = res
    BY <1>1, <2>1 DEF Run, Record
  <2>6. TraceOK(c, a)
    BY DEF c
  <2>7. TraceOK(d, b)
    BY <1>1, <2>2, <2>4, <2>5, <2>6, EndTraceTold DEF res
  <2> QED  BY <2>7 DEF d
<1>3. CASE ProgramEnds(r)
  <2>1. d = c /\ c.pc = "streaming" /\ (c.reached \/ c.dropped \/ Len(c.hops) = MaxTTL) /\ a
    BY <1>1, <1>3 DEF ProgramEnds, Program
  <2>2. Streams(c, a) /\ Told(c) /\ ~ c.metrics
    BY <2>1 DEF TraceOK
  <2> HIDE DEF d, c
  <2>3. Streams(d, b)
    BY <2>1, <2>2 DEF Streams
  <2>4. TraceOK(d, b)
    BY <2>1, <2>2, <2>3 DEF TraceOK
  <2> QED  BY <2>4 DEF d
<1>4. CASE Killed(r)
  <2>1. d = c /\ (c.ctx \/ c.stop)
    BY <1>1, <1>4 DEF Killed, Cancelled
  <2>2. TraceOK(c, a)
    OBVIOUS
  <2> HIDE DEF d, c
  <2>3. c.pc = "streaming" => Streams(d, b)
    BY <1>1, <2>1, <2>2 DEF Streams, TraceOK
  <2>4. TraceOK(d, b)
    BY <2>1, <2>2, <2>3 DEF TraceOK
  <2> QED  BY <2>4 DEF d
<1> QED  BY <1>2, <1>3, <1>4

LEMMA TracesNext ==
  ASSUME Typed, Listeners, Belongs, Traces, [Next]_vars
  PROVE  Traces'
<1>1. Typed' /\ AllKept
  BY TypedNext
<1> SUFFICES ASSUME NEW r \in Runs PROVE TraceOK(run'[r], Mine(r, "probe")' # {})
  BY DEF Traces
<1> DEFINE a == Mine(r, "probe") # {}
           b == Mine(r, "probe")' # {}
<1>2. TraceOK(run[r], a)
  BY DEF Traces
<1>3. CASE Same(r)
  BY <1>2, <1>3 DEF Same
<1>4. CASE run[r].kind # "trace"
  BY <1>1, <1>4 DEF AllKept, Kept, TraceOK
<1> SUFFICES ASSUME run[r].kind = "trace" PROVE TraceOK(run'[r], b)
  BY <1>4
<1>5. CASE UNCHANGED vars
  <2>1. Same(r)
    BY <1>5 DEF vars, Same, Mine
  <2> QED  BY <2>1, <1>3
<1>6. ASSUME NEW p \in procs, ServerBinds(p) \/ ClientServed(p) \/ ClientUnserved(p)
      PROVE  TraceOK(run'[r], b)
  <2>1. p.role \in {"client", "server"} => run[p.run].kind = "iperf"
    BY DEF Belongs
  <2> QED  BY <1>6, <2>1, ProgramsSame, <1>3
<1> DEFINE Step(q) == \/ Handler(q) \/ TraceWebSocket(q) \/ TraceReport(q) \/ CaptureRequest(q)
                      \/ IperfWebSocket(q) \/ IperfReport(q) \/ ProbeLine(q) \/ MtrHub(q)
                      \/ ExecFails(q) \/ ClientGone(q) \/ ProgramEnds(q) \/ Killed(q)
<1>7. ASSUME NEW q \in Runs, q # r, Step(q) PROVE TraceOK(run'[r], b)
  BY <1>1, <1>7, OthersSame, <1>3, Zenon
<1>8. CASE Step(r)
  <2> HIDE DEF a, b
  <2>1. CASE TraceWebSocket(r) \/ TraceReport(r) \/ BuildTraceIPIndex(r)
    BY <2>1, <1>2, TraceStartTold
  <2>2. CASE StartStream(r)
    <3>1. Proc(r, "probe", run[r].src) \in Mine(r, "probe")'
      BY <2>2 DEF StartStream, Program, Proc, Mine
    <3>2. b
      BY <3>1 DEF b
    <3> QED  BY <2>2, <3>2, <1>2, TraceStartTold
  <2>3. CASE MtrReport(r) \/ MtrHub(r) \/ EndMtr(r)
    BY <2>3, <1>2, TraceMetricsTold
  <2>4. CASE PumpHop(r)
    <3>1. a = b
      BY <2>4 DEF PumpHop, Mine, a, b
    <3> QED  BY <2>4, <3>1, <1>2, PumpHopTold
  <2>5. CASE \/ ProbeLine(r) \/ PumpEnds(r) \/ ExecReturns(r) \/ ExecFails(r) \/ ClientGone(r)
             \/ SeeGone(r) \/ Deadline(r)
    <3>1. b \in BOOLEAN /\ (a <=> Mine(r, "probe") # {}) /\ (b <=> Mine(r, "probe")' # {})
      BY DEF a, b
    <3> QED  BY <2>5, <3>1, <1>2, TraceQuietTold
  <2>6. CASE EndTrace(r) \/ ProgramEnds(r) \/ Killed(r)
    <3>1. a <=> Mine(r, "probe") # {}
      BY DEF a
    <3> QED  BY <2>6, <3>1, <1>2, TraceEndTold
  <2>7. run[r].kind # "iperf" /\ run[r].kind # "capture"
    OBVIOUS
  <2>8. ~ (\/ PrepareIperf(r) \/ PumpPacket(r) \/ EndCapture(r) \/ StartIperfServer(r)
           \/ SeeListening(r) \/ ServerExited(r) \/ ListenEnds(r) \/ StartIperfClient(r)
           \/ EndIperf(r) \/ KillClient(r) \/ KillServer(r) \/ PingFails(r)
           \/ CaptureRequest(r) \/ IperfWebSocket(r) \/ IperfReport(r))
    BY <2>7 DEF PrepareIperf, PumpPacket, EndCapture, StartIperfServer, SeeListening, ServerExited,
       ListenEnds, StartIperfClient, EndIperf, KillClient, KillServer, PingFails, CaptureRequest,
       IperfWebSocket, IperfReport, At
  <2> QED  BY <1>8, <2>1, <2>2, <2>3, <2>4, <2>5, <2>6, <2>8, Zenon DEF Handler
<1> QED  BY <1>5, <1>6, <1>7, <1>8, Zenon DEF Next

\* The invariant of a trace says what it answers.
LEMMA TracesTell == Traces => OutcomeTold
<1> SUFFICES ASSUME Traces, NEW r \in Runs, At(r, "trace", "done"), ~ run[r].metrics,
                    run[r].result # "error"
             PROVE  LET c == run[r] IN
                      /\ c.result = "unreachable" <=> \E i \in DOMAIN c.hops : c.hops[i].line.flag
                      /\ \A i \in DOMAIN c.hops : c.hops[i].line.flag => i = Len(c.hops)
                      /\ c.result = "delivered" => \E i \in DOMAIN c.hops : c.hops[i].line.ip = c.dest
                      /\ c.stop /\ ~ c.dropped => Silent(r, MaxConsecutiveTraceTimeouts)
                      /\ c.result = "unreached" /\ ~ c.ctx /\ ~ c.stop =>
                           /\ Len(c.hops) = MaxTTL
                           /\ \A i \in DOMAIN c.hops : c.hops[i].line.ip # c.dest
  BY DEF OutcomeTold
<1>1. Outcome(run[r])
  BY DEF Traces, TraceOK, At
<1> QED  BY <1>1 DEF Outcome, Silent

----------------------------------------------------------------------------
(* Throughput tests: what they leave behind.                                *)

\* One server listens at a port of a pod, and a server whose run saw it listen
\* still does.
Bound ==
  /\ \A p, q \in listens : p.pod = q.pod /\ p.port = q.port => p = q
  /\ \A p \in procs : p.role = "server" /\ run[p.run].listened => p \in listens

\* What a test that goes well, or kills by name, has left.
Clean(r) ==
  run[r].kind = "iperf" =>
    /\ run[r].pc = "streaming" /\ run[r].result = "summary" => \A p \in procs : p.run # r
    /\ run[r].pc = "killserver" /\ run[r].result = "cancelled" =>
         \A p \in procs : p.run = r => p.role # "client"
    /\ run[r].pc = "done" /\ run[r].result \in {"summary", "cancelled"} =>
         \A p \in procs : p.run # r
AllClean == \A r \in Runs : Clean(r)

LEMMA CleanInit == Init => Listeners /\ Belongs /\ Bound /\ AllClean
BY DEF Init, Listeners, Belongs, Bound, AllClean, Clean

\* A run has one program of each role.
LEMMA OneProgram ==
  ASSUME Typed, Belongs, NEW p \in procs, NEW q \in procs, p.run = q.run, p.role = q.role
  PROVE  p = q
<1>1. p \in Procs /\ q \in Procs
  BY DEF Typed
<1>2. p.pod = q.pod /\ p.port = q.port
  BY DEF Belongs
<1> QED  BY <1>1, <1>2 DEF Procs

\* A listener that still runs still listens.
LEMMA ListensKeep ==
  ASSUME Typed, [Next]_vars, NEW p \in listens, p \in procs'
  PROVE  p \in listens'
<1>1. ASSUME NEW q \in procs, ServerBinds(q) \/ ClientServed(q) \/ ClientUnserved(q)
      PROVE  p \in listens'
  BY <1>1 DEF ServerBinds, ClientServed, ClientUnserved
<1>2. ASSUME NEW r \in Runs, Handler(r) PROVE p \in listens'
  BY <1>2 DEF Handler, PrepareIperf, BuildTraceIPIndex, StartStream, MtrReport, EndMtr, PumpHop,
       PumpPacket, PumpEnds, ExecReturns, EndTrace, EndCapture, StartIperfServer, SeeListening,
       ServerExited, ListenEnds, StartIperfClient, EndIperf, KillClient, KillServer, SeeGone,
       PingFails, Deadline
<1>3. ASSUME NEW r \in Runs,
             \/ TraceWebSocket(r) \/ TraceReport(r) \/ CaptureRequest(r) \/ IperfWebSocket(r)
             \/ IperfReport(r) \/ ProbeLine(r) \/ MtrHub(r) \/ ExecFails(r) \/ ClientGone(r)
             \/ ProgramEnds(r) \/ Killed(r)
      PROVE  p \in listens'
  BY <1>3 DEF TraceWebSocket, TraceReport, CaptureRequest, IperfWebSocket, IperfReport, ProbeLine,
       MtrHub, ExecFails, ClientGone, ProgramEnds, Killed
<1>4. UNCHANGED vars => p \in listens'
  BY DEF vars
<1> QED  BY <1>1, <1>2, <1>3, <1>4, Zenon DEF Next

\* A handler's step, and its client's, say nothing of listening.
LEMMA ListenedKept ==
  ASSUME Typed, Listeners, [Next]_vars, NEW r \in Runs,
         \A p \in procs : ServerBinds(p) => p.run # r
  PROVE  run'[r].listened = run[r].listened
<1>1. run \in [Runs -> Run] /\ procs \subseteq Procs /\ run[r] \in Run /\ Fits(run[r])
  BY DEF Typed
<1>2. CASE UNCHANGED vars
  BY <1>2 DEF vars
<1>3. ASSUME NEW q \in Runs,
             \/ Handler(q) \/ TraceWebSocket(q) \/ TraceReport(q) \/ CaptureRequest(q)
             \/ IperfWebSocket(q) \/ IperfReport(q) \/ ProbeLine(q) \/ MtrHub(q) \/ ExecFails(q)
             \/ ClientGone(q) \/ ProgramEnds(q) \/ Killed(q), q # r
      PROVE  run'[r].listened = run[r].listened
  <2>1. Same(r)
    BY <1>3, TypedNext, OthersSame, Zenon
  <2> QED  BY <2>1 DEF Same
<1>4. ASSUME NEW p \in procs, ServerBinds(p) \/ ClientServed(p) \/ ClientUnserved(p)
      PROVE  run'[r].listened = run[r].listened
  <2>1. CASE ServerBinds(p)
    BY <1>1, <2>1 DEF ServerBinds
  <2>2. CASE ClientServed(p) \/ ClientUnserved(p)
    <3>1. PICK event : run' = [run EXCEPT ![p.run] = ParseIperfEvent(run[p.run], event)]
      BY <2>2 DEF ClientServed, ClientUnserved
    <3>2. CASE p.run = r
      <4> DEFINE d == ParseIperfEvent(run[r], event)
      <4>1. run'[r] = d
        BY <1>1, <3>1, <3>2
      <4>2. d = run[r] \/ \E res \in Results : d = [run[r] EXCEPT !.result = res]
        BY <1>1, EventIs
      <4> HIDE DEF d
      <4>3. d.listened = run[r].listened
        BY <1>1, <4>2 DEF Run, Record
      <4> QED  BY <4>1, <4>3
    <3>3. CASE p.run # r
      BY <1>1, <3>1, <3>3
    <3> QED  BY <3>2, <3>3
  <2> QED  BY <1>4, <2>1, <2>2
<1>5. CASE run' = run
  BY <1>5
<1>6. ASSUME NEW res, End(r, res) PROVE run'[r].listened = run[r].listened
  <2>1. run'[r] = [run[r] EXCEPT !.pc = "done", !.result = res]
    BY <1>1, <1>6 DEF End
  <2> QED  BY <1>1, <2>1 DEF Run, Record
<1>7. CASE PumpHop(r)
  <2> DEFINE b == [run[r] EXCEPT !.pipe = None]
             l == run[r].pipe
             d == Handled(b, l)
             f == IF GivesUp(d) THEN [d EXCEPT !.stop = TRUE, !.pump = FALSE] ELSE d
  <2>1. l \in Lines /\ b \in Run /\ d \in Run /\ run' = [run EXCEPT ![r] = f]
    BY <1>7, PumpHopIs, Zenon
  <2>2. run'[r] = f
    BY <1>1, <2>1
  <2>3. b.listened = run[r].listened
    BY <1>1 DEF Run, Record
  <2>4. d.listened = b.listened
    <3>1. l \in Lines /\ b \in Run
      BY <2>1
    <3> HIDE DEF l, b
    <3> QED  BY <3>1, HandledIs, Zenon
  <2> HIDE DEF d
  <2>5. f.listened = d.listened
    BY <2>1 DEF Run, Record
  <2> QED  BY <2>2, <2>3, <2>4, <2>5
<1>8. CASE MtrHub(r)
  <2>1. PICK l \in Lines : run' = [run EXCEPT ![r] = Handled(run[r], l)]
    BY <1>8 DEF MtrHub
  <2> DEFINE d == Handled(run[r], l)
  <2>2. run'[r] = d
    BY <1>1, <2>1
  <2>3. run[r] \in Run /\ d = Handled(run[r], l)
    BY <1>1
  <2> HIDE DEF d
  <2>4. d.listened = run[r].listened
    BY <2>3, HandledKeeps, Zenon
  <2> QED  BY <2>2, <2>4
<1>9. CASE \/ BuildTraceIPIndex(r) \/ StartStream(r) \/ PumpPacket(r) \/ PumpEnds(r)
           \/ ExecReturns(r) \/ EndCapture(r) \/ StartIperfServer(r) \/ SeeListening(r)
           \/ StartIperfClient(r) \/ SeeGone(r) \/ PingFails(r) \/ Deadline(r)
  <2>1. CASE BuildTraceIPIndex(r)
    <3>1. PICK ok \in BOOLEAN, m \in BOOLEAN :
            run' = [run EXCEPT ![r].resolves = ok, ![r].metrics = m,
                               ![r].pc = IF m THEN "mtr" ELSE "stream"]
      BY <2>1 DEF BuildTraceIPIndex
    <3>2. run'[r] = [run[r] EXCEPT !.resolves = ok, !.metrics = m,
                                   !.pc = IF m THEN "mtr" ELSE "stream"]
      BY <1>1, <3>1
    <3> QED  BY <1>1, <3>2 DEF Run, Record
  <2>2. CASE StartStream(r) \/ StartIperfClient(r)
    BY <1>1, <2>2 DEF StartStream, StartIperfClient, Run, Record
  <2>3. CASE PumpPacket(r) \/ PumpEnds(r) \/ ExecReturns(r) \/ EndCapture(r)
    BY <1>1, <2>3 DEF PumpPacket, PumpEnds, ExecReturns, EndCapture, Run, Record
  <2>4. CASE StartIperfServer(r) \/ SeeListening(r) \/ PingFails(r) \/ Deadline(r)
    BY <1>1, <2>4 DEF StartIperfServer, SeeListening, PingFails, Deadline, Run, Record
  <2>5. CASE SeeGone(r)
    <3>1. PICK x : run' = [run EXCEPT ![r].ctx = TRUE, ![r].stop = x]
      BY <2>5 DEF SeeGone
    <3>2. run'[r] = [run[r] EXCEPT !.ctx = TRUE, !.stop = x]
      BY <1>1, <3>1
    <3> QED  BY <1>1, <3>2 DEF Run, Record
  <2> QED  BY <1>9, <2>1, <2>2, <2>3, <2>4, <2>5
<1>10. CASE PrepareIperf(r) \/ MtrReport(r) \/ EndIperf(r) \/ KillClient(r)
  <2>1. CASE \E res : End(r, res)
    BY <2>1, <1>6
  <2>2. CASE \E x, y : run' = [run EXCEPT ![r].pc = x, ![r].port = y]
    BY <1>1, <2>2 DEF Run, Record
  <2>3. CASE \E x, y : run' = [run EXCEPT ![r].pc = x, ![r].result = y]
    BY <1>1, <2>3 DEF Run, Record
  <2>4. CASE \E x : run' = [run EXCEPT ![r].pc = x]
    BY <1>1, <2>4 DEF Run, Record
  <2> QED  BY <1>10, <2>1, <2>2, <2>3, <2>4 DEF PrepareIperf, MtrReport, EndIperf, KillClient
<1>11. CASE EndMtr(r) \/ EndTrace(r) \/ ServerExited(r) \/ ListenEnds(r) \/ KillServer(r)
  BY <1>11, <1>6 DEF EndMtr, EndTrace, ServerExited, ListenEnds, KillServer
<1>12. CASE \/ TraceWebSocket(r) \/ TraceReport(r) \/ CaptureRequest(r) \/ IperfWebSocket(r)
            \/ IperfReport(r) \/ ProbeLine(r) \/ ExecFails(r) \/ ClientGone(r)
  <2>1. CASE \E res : End(r, res)
    BY <2>1, <1>6
  <2>2. CASE ~ \E res : End(r, res)
    BY <1>1, <1>12, <2>2 DEF TraceWebSocket, TraceReport, CaptureRequest, IperfWebSocket,
       IperfReport, ProbeLine, ExecFails, ClientGone, Run, Record
  <2> QED  BY <2>1, <2>2
<1>13. CASE ProgramEnds(r) \/ Killed(r)
  BY <1>13 DEF ProgramEnds, Killed
<1>14. CASE Handler(r)
  BY <1>14, <1>7, <1>9, <1>10, <1>11, Zenon DEF Handler
<1> QED  BY <1>2, <1>3, <1>4, <1>8, <1>12, <1>13, <1>14, Zenon DEF Next

\* A program that was not there before is the one its run starts.
LEMMA NewProgram ==
  ASSUME Typed, [Next]_vars, NEW p \in procs', p \notin procs
  PROVE  \/ /\ StartIperfServer(p.run) /\ p.run \in Runs
         \/ /\ StartIperfClient(p.run) /\ p.run \in Runs /\ p.role = "client"
         \/ /\ StartStream(p.run) /\ p.run \in Runs /\ p.role \in {"probe", "tshark"}
<1>1. PICK r \in Runs : StartStream(r) \/ StartIperfServer(r) \/ StartIperfClient(r)
  BY ProgramsStart
<1>2. CASE StartStream(r)
  <2>1. p = Proc(r, Program(r), run[r].src) /\ run[r].kind \in {"trace", "capture"}
    BY <1>2 DEF StartStream, At
  <2> QED  BY <1>2, <2>1 DEF Proc, Program
<1>3. CASE StartIperfServer(r)
  <2>1. p.run = r
    BY <1>3 DEF StartIperfServer, Proc
  <2> QED  BY <1>3, <2>1
<1>4. CASE StartIperfClient(r)
  <2>1. p.run = r /\ p.role = "client"
    BY <1>4 DEF StartIperfClient, Proc
  <2> QED  BY <1>4, <2>1
<1> QED  BY <1>1, <1>2, <1>3, <1>4

LEMMA BoundNext ==
  ASSUME Typed, Listeners, Belongs, Bound, [Next]_vars
  PROVE  Bound'
<1>1. procs \subseteq Procs /\ listens \subseteq procs /\ run \in [Runs -> Run]
      /\ \A r \in Runs : Fits(run[r])
  BY DEF Typed
<1>2. \A p, q \in listens' : p.pod = q.pod /\ p.port = q.port => p = q
  <2>1. CASE listens' \subseteq listens
    BY <2>1 DEF Bound
  <2>2. ASSUME NEW x \in procs, ServerBinds(x)
        PROVE  \A p, q \in listens' : p.pod = q.pod /\ p.port = q.port => p = q
    BY <2>2 DEF ServerBinds, Bound
  <2> QED  BY <2>1, <2>2, ListensGrow
<1>3. ASSUME NEW p \in procs', p.role = "server", run'[p.run].listened PROVE p \in listens'
  <2>1. CASE p \notin procs
    <3>1. StartIperfServer(p.run) /\ p.run \in Runs
      BY <2>1, <1>3, NewProgram
    <3>2. run[p.run] \in Run /\ run[p.run].pc = "server" /\ ~ run[p.run].listened
      BY <1>1, <3>1 DEF StartIperfServer, At, Fits
    <3>3. run'[p.run] = [run[p.run] EXCEPT !.pc = "listen"]
      BY <1>1, <3>1 DEF StartIperfServer
    <3>4. run'[p.run].listened = run[p.run].listened
      BY <3>2, <3>3 DEF Run, Record
    <3> QED  BY <1>3, <3>2, <3>4
  <2>2. CASE p \in procs /\ \E q \in procs : ServerBinds(q) /\ q.run = p.run
    <3>1. PICK q \in procs : ServerBinds(q) /\ q.run = p.run
      BY <2>2
    <3>2. q = p
      BY <1>3, <2>2, <3>1, OneProgram DEF ServerBinds
    <3> QED  BY <1>3, <3>1, <3>2 DEF ServerBinds
  <2>3. CASE p \in procs /\ \A q \in procs : ServerBinds(q) => q.run # p.run
    <3>1. p.run \in Runs
      BY <1>1, <2>3 DEF Procs
    <3>2. run[p.run].listened
      BY <1>3, <2>3, <3>1, ListenedKept
    <3>3. p \in listens
      BY <1>3, <2>3, <3>2 DEF Bound
    <3> QED  BY <3>3, ListensKeep
  <2> QED  BY <2>1, <2>2, <2>3
<1> QED  BY <1>2, <1>3 DEF Bound

\* A run that a step leaves alone.
LEMMA CleanKept ==
  ASSUME Typed, Typed', [Next]_vars, AllKept, NEW r \in Runs, Clean(r),
         run'[r].pc = run[r].pc, run'[r].result = run[r].result
  PROVE  Clean(r)'
<1>1. SUFFICES ASSUME run'[r].kind = "iperf" PROVE Clean(r)'
  BY DEF Clean
<1>2. run[r].kind = "iperf"
  BY <1>1, SMTT(30) DEF AllKept, Kept
<1>3. ASSUME NEW p \in procs', p.run = r, p \notin procs
      PROVE  run[r].pc \in {"server", "client", "stream"}
  BY <1>3, NewProgram DEF StartIperfServer, StartIperfClient, StartStream, At
<1> QED  BY <1>2, <1>3 DEF Clean

\* The client of a test ends.
LEMMA ClientEndsClean ==
  ASSUME Typed, Listeners, Belongs, Bound, Typed', AllKept, [Next]_vars, NEW r \in Runs, Clean(r),
         NEW p \in procs, p.run = r, ClientServed(p) \/ ClientUnserved(p)
  PROVE  Clean(r)'
<1> DEFINE c == run[r]
           d == run'[r]
<1>1. c \in Run /\ Fits(c) /\ run \in [Runs -> Run] /\ procs \subseteq Procs
  BY TypedRun DEF Typed
<1>2. p.role = "client" /\ c.kind = "iperf" /\ p.port = c.port /\ procs' \subseteq procs \ {p}
  BY DEF ClientServed, ClientUnserved, Belongs
<1>3. PICK event : /\ run' = [run EXCEPT ![r] = ParseIperfEvent(c, event)]
                   /\ event = "end" => ClientServed(p) \/ c.port = 0
  <2>1. CASE ClientServed(p)
    BY <2>1 DEF ClientServed
  <2>2. CASE ClientUnserved(p)
    BY <1>2, <2>2 DEF ClientUnserved
  <2> QED  BY <2>1, <2>2
<1>4. d = ParseIperfEvent(c, event)
  BY <1>1, <1>3
<1>5. CASE ~ (c.exec /\ c.pump)
  <2>1. d = c
    BY <1>4, <1>5 DEF ParseIperfEvent
  <2> QED  BY <2>1, CleanKept
<1>6. CASE c.exec /\ c.pump
  <2>1. c.pc = "streaming"
    BY <1>1, <1>6 DEF Fits
  <2>2. d = [c EXCEPT !.result = CASE event = "error" -> "error"
                                   [] event = "end" /\ @ # "error" -> "summary"
                                   [] OTHER -> @]
    BY <1>4, <1>6 DEF ParseIperfEvent
  <2> HIDE DEF d
  <2>3. d.pc = "streaming" /\ (d.result = "summary" => event = "end" \/ c.result = "summary")
    BY <1>1, <2>1, <2>2 DEF Run, Record
  <2>4. ASSUME d.result = "summary", NEW q \in procs', q.run = r PROVE FALSE
    <3>1. q \in procs /\ q # p
      BY <1>2, <2>4
    <3>2. c.result # "summary"
      BY <1>2, <2>1, <3>1, <2>4 DEF Clean
    <3>3. event = "end"
      BY <2>3, <2>4, <3>2
    <3>4. q.role \in {"client", "server"}
      BY <1>1, <1>2, <2>4, <3>1 DEF Belongs, Procs, Roles
    <3>5. q.role # "client"
      BY <1>2, <2>4, <3>1, OneProgram
    <3>6. q.role = "server" /\ c.port # 0 /\ q.pod = c.dest /\ q.port = c.port
      BY <2>4, <3>1, <3>4, <3>5 DEF Belongs
    <3>7. ClientServed(p) /\ c.listened
      BY <1>1, <1>3, <2>1, <3>3, <3>6 DEF Fits
    <3>8. q \in listens
      BY <2>4, <3>1, <3>6, <3>7 DEF Bound
    <3>9. PICK x \in listens : /\ x.pod = c.dest /\ x.port = p.port
                               /\ procs' = procs \ ({p} \cup ServerLeaves(x))
      BY <3>7 DEF ClientServed
    <3>10. x = q
      BY <1>2, <3>6, <3>8, <3>9 DEF Bound
    <3> QED  BY <2>4, <3>9, <3>10 DEF ServerLeaves
  <2> QED  BY <2>3, <2>4 DEF Clean, d
<1> QED  BY <1>5, <1>6

\* Programs that a kill by name takes away.
LEMMA Killing ==
  ASSUME Typed, Belongs, NEW r \in Runs, NEW p \in procs, p.run = r, p.role \in {"client", "server"}
  PROVE  p \in Matching(r, p.role)
BY DEF Belongs, Matching

\* The steps of a test that say how it went.
LEMMA TestEndsClean ==
  ASSUME Typed, Belongs, Typed', NEW r \in Runs, Clean(r),
         EndIperf(r) \/ KillClient(r) \/ KillServer(r)
  PROVE  Clean(r)'
<1> DEFINE c == run[r]
           d == run'[r]
<1>1. c \in Run /\ Fits(c) /\ run \in [Runs -> Run] /\ procs \subseteq Procs /\ c.kind = "iperf"
  BY TypedRun DEF Typed, EndIperf, KillClient, KillServer, At
<1>a. \A p \in procs : p.run = r => p.role \in {"client", "server"}
  BY <1>1 DEF Belongs, Procs, Roles
<1>2. ASSUME NEW res, End(r, res) PROVE d.pc = "done" /\ d.result = res
  <2>1. d = [c EXCEPT !.pc = "done", !.result = res]
    BY <1>1, <1>2 DEF End
  <2> HIDE DEF d
  <2> QED  BY <1>1, <2>1 DEF Run, Record
<1>3. CASE EndIperf(r)
  <2>1. procs' = procs /\ c.pc = "streaming"
    BY <1>3 DEF EndIperf, At
  <2>2. CASE c.ctx
    <3>1. d = [c EXCEPT !.pc = "killclient"]
      BY <1>1, <1>3, <2>2 DEF EndIperf
    <3> HIDE DEF d
    <3>2. d.pc = "killclient"
      BY <1>1, <3>1 DEF Run, Record
    <3> QED  BY <3>2 DEF Clean, d
  <2>3. CASE ~ c.ctx
    <3>1. End(r, IF c.result = "summary" THEN "summary" ELSE "error")
      BY <1>3, <2>3 DEF EndIperf
    <3>2. d.pc = "done" /\ d.result = IF c.result = "summary" THEN "summary" ELSE "error"
      BY <1>2, <3>1
    <3> HIDE DEF d
    <3> QED  BY <1>1, <2>1, <3>2 DEF Clean, d
  <2> QED  BY <2>2, <2>3
<1>4. CASE KillClient(r)
  <2> DEFINE k == IF c.port = 0 THEN "done" ELSE "killserver"
  <2>1. PICK ok \in BOOLEAN :
          /\ procs' = IF ok THEN KillIperf(r, "client") ELSE procs
          /\ run' = [run EXCEPT ![r].pc = k, ![r].result = IF ok THEN "cancelled" ELSE "unkilled"]
    BY <1>4 DEF KillClient
  <2> DEFINE res == IF ok THEN "cancelled" ELSE "unkilled"
  <2>2. d = [c EXCEPT !.pc = k, !.result = res]
    BY <1>1, <2>1
  <2>3. k \in {"done", "killserver"} /\ (k = "done" => c.port = 0) /\ (res = "cancelled" => ok)
        /\ res # "summary"
    OBVIOUS
  <2> HIDE DEF d, k, res
  <2>4. d.pc = k /\ d.result = res
    BY <1>1, <2>2 DEF Run, Record
  <2>5. ASSUME ok, NEW p \in procs', p.run = r PROVE p.role = "server" /\ c.port # 0
    <3>1. p \in procs /\ p \notin Matching(r, "client")
      BY <2>1, <2>5 DEF KillIperf
    <3>2. p.role = "server"
      BY <1>a, <2>5, <3>1, Killing
    <3> QED  BY <2>5, <3>1, <3>2 DEF Belongs
  <2>6. CASE ok
    BY <2>3, <2>4, <2>5, <2>6 DEF Clean, d
  <2>7. CASE ~ ok
    BY <2>3, <2>4, <2>7 DEF Clean, d
  <2> QED  BY <2>6, <2>7
<1>5. CASE KillServer(r)
  <2>1. PICK ok \in BOOLEAN : /\ procs' = IF ok THEN KillIperf(r, "server") ELSE procs
                              /\ End(r, IF ok THEN c.result ELSE "unkilled")
    BY <1>5 DEF KillServer
  <2>2. d.pc = "done" /\ d.result = IF ok THEN c.result ELSE "unkilled"
    BY <1>2, <2>1
  <2>3. c.pc = "killserver" /\ c.result \in {"cancelled", "unkilled"}
    BY <1>1, <1>5 DEF KillServer, At, Fits
  <2>4. CASE ~ ok \/ c.result # "cancelled"
    BY <2>2, <2>3, <2>4 DEF Clean
  <2>5. CASE ok /\ c.result = "cancelled"
    <3>1. ASSUME NEW p \in procs', p.run = r PROVE FALSE
      <4>1. p \in procs /\ p \notin Matching(r, "server")
        BY <2>1, <2>5, <3>1 DEF KillIperf
      <4>2. p.role = "client"
        BY <1>a, <3>1, <4>1, Killing
      <4> QED  BY <1>1, <2>3, <2>5, <3>1, <4>1, <4>2 DEF Clean
    <3> QED  BY <3>1 DEF Clean
  <2> QED  BY <2>4, <2>5
<1> QED  BY <1>3, <1>4, <1>5

\* The other steps of a test.
LEMMA TestGoesOnClean ==
  ASSUME Typed, Belongs, Typed', AllKept, [Next]_vars, NEW r \in Runs, Clean(r), run[r].kind = "iperf",
         \/ IperfWebSocket(r) \/ IperfReport(r) \/ PrepareIperf(r) \/ StartIperfServer(r)
         \/ SeeListening(r) \/ ServerExited(r) \/ ListenEnds(r) \/ StartIperfClient(r)
         \/ PumpEnds(r) \/ ExecReturns(r) \/ ExecFails(r) \/ ClientGone(r) \/ SeeGone(r) \/ Deadline(r)
  PROVE  Clean(r)'
<1> DEFINE c == run[r]
           d == run'[r]
<1>1. c \in Run /\ Fits(c) /\ run \in [Runs -> Run]
  BY TypedRun DEF Typed
<1>2. CASE d.result \notin {"summary", "cancelled"}
  BY <1>2 DEF Clean
<1>3. CASE d.pc = c.pc /\ d.result = c.result
  BY <1>3, CleanKept
<1>4. ASSUME End(r, "error") PROVE d.result = "error"
  <2>1. d = [c EXCEPT !.pc = "done", !.result = "error"]
    BY <1>1, <1>4 DEF End
  <2> HIDE DEF d
  <2> QED  BY <1>1, <2>1 DEF Run, Record
<1>5. ASSUME c.result = "none",
             (\E x : d = [c EXCEPT !.pc = x]) \/ (\E x, y : d = [c EXCEPT !.pc = x, !.port = y])
      PROVE  d.result = "none"
  <2> HIDE DEF d
  <2> QED  BY <1>1, <1>5 DEF Run, Record
<1>6. CASE \/ IperfWebSocket(r) \/ IperfReport(r) \/ PrepareIperf(r) \/ StartIperfServer(r)
           \/ SeeListening(r) \/ ServerExited(r) \/ ListenEnds(r)
  <2>1. c.result = "none"
    BY <1>1, <1>6 DEF Fits, IperfWebSocket, IperfReport, PrepareIperf, StartIperfServer,
       SeeListening, ServerExited, ListenEnds, At
  <2>2. CASE End(r, "error")
    BY <1>2, <1>4, <2>2
  <2>3. CASE \E x : run' = [run EXCEPT ![r].pc = x]
    <3>1. \E x : d = [c EXCEPT !.pc = x]
      BY <1>1, <2>3
    <3> QED  BY <1>2, <1>5, <2>1, <3>1
  <2>4. CASE PrepareIperf(r) /\ \E p \in Ports : run' = [run EXCEPT ![r].pc = "server", ![r].port = p]
    <3>1. PICK p \in Ports : run' = [run EXCEPT ![r].pc = "server", ![r].port = p]
      BY <2>4
    <3>2. d = [c EXCEPT !.pc = "server", !.port = p]
      BY <1>1, <3>1
    <3>3. d.result = "none"
      <4> HIDE DEF c, d
      <4>1. \E x, y : d = [c EXCEPT !.pc = x, !.port = y]
        BY <3>2
      <4> QED  BY <1>5, <2>1, <4>1, Zenon
    <3> QED  BY <1>2, <3>3
  <2> QED  BY <1>6, <2>2, <2>3, <2>4 DEF IperfWebSocket, IperfReport, PrepareIperf,
               StartIperfServer, SeeListening, ServerExited, ListenEnds
<1>7. CASE StartIperfClient(r)
  <2>1. d = [c EXCEPT !.pc = "streaming", !.exec = TRUE, !.pump = TRUE] /\ c.result = "none"
    BY <1>1, <1>7 DEF StartIperfClient, Fits, At
  <2> HIDE DEF d
  <2>2. d.result = "none"
    BY <1>1, <2>1 DEF Run, Record
  <2> QED  BY <1>2, <2>2
<1>8. CASE ExecFails(r)
  <2>1. d = [c EXCEPT !.exec = FALSE, !.result = "error"]
    BY <1>1, <1>8 DEF ExecFails
  <2> HIDE DEF d
  <2>2. d.result = "error"
    BY <1>1, <2>1 DEF Run, Record
  <2> QED  BY <1>2, <2>2
<1>9. CASE PumpEnds(r) \/ ExecReturns(r) \/ ClientGone(r) \/ Deadline(r)
  <2>1. \/ d = [c EXCEPT !.pump = FALSE] \/ d = [c EXCEPT !.exec = FALSE, !.pipe = None]
        \/ d = [c EXCEPT !.closed = TRUE] \/ d = [c EXCEPT !.ctx = TRUE]
    BY <1>1, <1>9 DEF PumpEnds, ExecReturns, ClientGone, Deadline
  <2> HIDE DEF d
  <2>2. d.pc = c.pc /\ d.result = c.result
    BY <1>1, <2>1 DEF Run, Record
  <2> QED  BY <1>3, <2>2
<1>10. CASE SeeGone(r)
  <2>1. d = [c EXCEPT !.ctx = TRUE, !.stop = @ \/ c.kind = "capture"]
    BY <1>1, <1>10 DEF SeeGone
  <2> HIDE DEF d
  <2>2. d.pc = c.pc /\ d.result = c.result
    BY <1>1, <2>1 DEF Run, Record
  <2> QED  BY <1>3, <2>2
<1> QED  BY <1>6, <1>7, <1>8, <1>9, <1>10

LEMMA CleanNext ==
  ASSUME Typed, Listeners, Belongs, Bound, AllClean, [Next]_vars
  PROVE  AllClean'
<1>1. Typed' /\ AllKept /\ run \in [Runs -> Run] /\ procs \subseteq Procs
  BY TypedNext DEF Typed
<1> SUFFICES ASSUME NEW r \in Runs PROVE Clean(r)'
  BY DEF AllClean
<1>2. Clean(r)
  BY DEF AllClean
<1>3. CASE run'[r] = run[r]
  BY <1>1, <1>2, <1>3, CleanKept
<1>4. CASE run[r].kind # "iperf"
  BY <1>1, <1>4 DEF AllKept, Kept, Clean
<1> SUFFICES ASSUME run[r].kind = "iperf" PROVE Clean(r)'
  BY <1>4
<1>5. CASE UNCHANGED vars
  BY <1>3, <1>5 DEF vars
<1>6. ASSUME NEW p \in procs, ServerBinds(p) \/ ClientServed(p) \/ ClientUnserved(p)
      PROVE  Clean(r)'
  <2>1. CASE p.run # r
    <3>1. run'[r] = run[r]
      BY <1>1, <1>6, <2>1 DEF ServerBinds, ClientServed, ClientUnserved
    <3> QED  BY <1>3, <3>1
  <2>2. CASE p.run = r /\ ServerBinds(p)
    <3>1. \/ run'[r] = run[r]
          \/ \E x : run'[r] = [run[r] EXCEPT !.listened = x]
      BY <1>1, <2>2 DEF ServerBinds
    <3>2. run'[r].pc = run[r].pc /\ run'[r].result = run[r].result
      BY <1>1, <3>1 DEF Run, Record
    <3> QED  BY <1>1, <1>2, <3>2, CleanKept
  <2>3. CASE p.run = r /\ (ClientServed(p) \/ ClientUnserved(p))
    BY <1>1, <1>2, <2>3, ClientEndsClean
  <2> QED  BY <1>6, <2>1, <2>2, <2>3
<1> DEFINE Step(q) == \/ Handler(q) \/ TraceWebSocket(q) \/ TraceReport(q) \/ CaptureRequest(q)
                      \/ IperfWebSocket(q) \/ IperfReport(q) \/ ProbeLine(q) \/ MtrHub(q)
                      \/ ExecFails(q) \/ ClientGone(q) \/ ProgramEnds(q) \/ Killed(q)
<1>7. ASSUME NEW q \in Runs, q # r, Step(q) PROVE Clean(r)'
  <2>1. Same(r)
    BY <1>1, <1>7, OthersSame, Zenon
  <2> QED  BY <1>3, <2>1 DEF Same
<1>8. CASE Step(r)
  <2>1. CASE EndIperf(r) \/ KillClient(r) \/ KillServer(r)
    BY <1>1, <1>2, <2>1, TestEndsClean
  <2>2. CASE \/ IperfWebSocket(r) \/ IperfReport(r) \/ PrepareIperf(r) \/ StartIperfServer(r)
             \/ SeeListening(r) \/ ServerExited(r) \/ ListenEnds(r) \/ StartIperfClient(r)
             \/ PumpEnds(r) \/ ExecReturns(r) \/ ExecFails(r) \/ ClientGone(r) \/ SeeGone(r)
             \/ Deadline(r)
    BY <1>1, <1>2, <2>2, TestGoesOnClean
  <2>3. run[r].kind # "trace" /\ run[r].kind # "capture"
    OBVIOUS
  <2>4. ~ (\/ TraceWebSocket(r) \/ TraceReport(r) \/ BuildTraceIPIndex(r) \/ StartStream(r)
           \/ MtrReport(r) \/ MtrHub(r) \/ EndMtr(r) \/ ProbeLine(r) \/ PumpHop(r) \/ EndTrace(r)
           \/ PumpPacket(r) \/ EndCapture(r) \/ CaptureRequest(r) \/ PingFails(r)
           \/ ProgramEnds(r) \/ Killed(r))
    BY <2>3 DEF TraceWebSocket, TraceReport, BuildTraceIPIndex, StartStream, MtrReport, MtrHub,
       EndMtr, ProbeLine, PumpHop, EndTrace, PumpPacket, EndCapture, CaptureRequest, PingFails,
       ProgramEnds, Killed, At
  <2> QED  BY <1>8, <2>1, <2>2, <2>4, Zenon DEF Handler
<1> QED  BY <1>5, <1>6, <1>7, <1>8, Zenon DEF Next

\* What the programs of a pod are, at every step.
ToolInv == Typed /\ Listeners /\ Belongs /\ Bound /\ AllClean /\ Traces

LEMMA ToolInvInit == Init => ToolInv
BY TypedInit, CleanInit, TracesInit, Zenon DEF ToolInv

LEMMA ToolInvNext == ToolInv /\ [Next]_vars => ToolInv'
BY TypedNext, ListenersNext, BelongsNext, BoundNext, CleanNext, TracesNext, Zenon DEF ToolInv

LEMMA ToolInvHolds == Spec => []ToolInv
BY ToolInvInit, ToolInvNext, PTL DEF Spec

\* Each program runs for the request that started it, in one of its two pods, and
\* a throughput test that ends with its summary, or whose cancellation got as far
\* as killing by name, leaves neither its client nor its server behind (RunIperf):
\* whatever other tests of the same pods and ports do.
THEOREM ProgramsAreAccounted == Spec => []ProgramsAccounted
<1>1. ToolInv => TypeOK
  <2> SUFFICES ASSUME ToolInv PROVE TypeOK
    OBVIOUS
  <2>1. Typed /\ Belongs
    BY DEF ToolInv
  <2>2. \A p \in procs : p.pod \in {run[p.run].src, run[p.run].dest} /\ p.port = run[p.run].port
    BY <2>1 DEF Belongs
  <2>3. ASSUME NEW r \in Runs
        PROVE  /\ Len(run[r].hops) <= MaxTTL /\ run[r].prev \in Pods
               /\ run[r].pc \in {"idle", "done"} => ~ run[r].exec /\ ~ run[r].pump
    BY <2>1, TypedRun DEF Fits, Run, Record
  <2> QED  BY <2>1, <2>2, <2>3 DEF TypeOK, Typed
<1>2. ToolInv => NoLeftovers
  <2> SUFFICES ASSUME ToolInv PROVE NoLeftovers
    OBVIOUS
  <2>1. AllClean
    BY DEF ToolInv
  <2> QED  BY <2>1 DEF AllClean, Clean, NoLeftovers
<1>3. ToolInv => ProgramsAccounted
  BY <1>1, <1>2 DEF ProgramsAccounted
<1> QED  BY <1>3, ToolInvHolds, PTL

\* What a streamed trace answers follows from the hops it emitted, however the
\* exec, the pump, the silence limit and the two cancellations interleave
\* (RunTrace): for every topology, every probe and every limit.
THEOREM OutcomeIsTold == Spec => []OutcomeTold
<1>1. ToolInv => OutcomeTold
  BY TracesTell DEF ToolInv
<1> QED  BY <1>1, ToolInvHolds, PTL

----------------------------------------------------------------------------
(* The search: pods within some links of another.                           *)

\* Induction up to a number.
LEMMA Climb ==
  ASSUME NEW n \in Nat, NEW K, 0 \in K, \A k \in 1 .. n : k - 1 \in K => k \in K
  PROVE  n \in K
<1> DEFINE R == (0 .. n) \ K
<1> SUFFICES ASSUME n \notin K PROVE FALSE
  OBVIOUS
<1>1. R \in SUBSET Nat
  OBVIOUS
<1>2. PICK k \in R : \A y \in R : k <= y
  <2>1. R # {}
    OBVIOUS
  <2> HIDE DEF R
  <2> QED  BY <1>1, <2>1, LeastNumber
<1>3. k \in Nat /\ k # 0 /\ k \in 1 .. n
  BY <1>2
<1>4. k - 1 \in 0 .. n /\ k - 1 \notin R
  BY <1>2, <1>3
<1> QED  BY <1>2, <1>3, <1>4

\* A link leads from p to q.
Near(p, q) == \E i \in DOMAIN topology : topology[i] \in {<<p, q>>, <<q, p>>}

\* One link further than N.
Spread(N) == N \cup {q \in Pods : \E i \in DOMAIN topology : \E o \in N :
                                    topology[i] \in {<<o, q>>, <<q, o>>}}

\* f is the function near of Within(p, n).
Nears(f, p, n) ==
  f = [k \in 0 .. n |-> IF k = 0 THEN {p}
                        ELSE LET N == f[k - 1]
                             IN N \cup {q \in Pods : \E i \in DOMAIN topology : \E o \in N :
                                           topology[i] \in {<<o, q>>, <<q, o>>}}]

LEMMA NearsExists ==
  ASSUME NEW p, NEW n \in Nat
  PROVE  \E f : Nears(f, p, n)
<1> DEFINE K == {k \in Nat : \E f : Nears(f, p, k)}
<1>1. 0 \in K
  <2>1. [k \in 0 .. 0 |-> {p}] = [k \in 0 .. 0 |-> IF k = 0 THEN {p} ELSE Spread([x \in 0 .. 0 |-> {p}][k - 1])]
    OBVIOUS
  <2>2. Nears([k \in 0 .. 0 |-> {p}], p, 0)
    BY <2>1 DEF Nears, Spread
  <2> QED  BY <2>2
<1>2. ASSUME NEW k \in 1 .. n, k - 1 \in K PROVE k \in K
  <2>1. PICK f : Nears(f, p, k - 1)
    BY <1>2
  <2> DEFINE g == [x \in 0 .. k |-> IF x = k THEN Spread(f[k - 1]) ELSE f[x]]
  <2>2. \A x \in 0 .. k - 1 : f[x] = IF x = 0 THEN {p} ELSE Spread(f[x - 1])
    BY <2>1, Zenon DEF Nears, Spread
  <2>3. ASSUME NEW x \in 0 .. k
        PROVE  g[x] = IF x = 0 THEN {p} ELSE Spread(g[x - 1])
    <3>1. CASE x = k
      <4>1. x - 1 \in 0 .. k /\ x - 1 # k /\ x # 0
        BY <3>1
      <4>2. g[x - 1] = f[x - 1]
        BY <4>1
      <4> QED  BY <3>1, <4>1, <4>2
    <3>2. CASE x # k
      <4>1. x \in 0 .. k - 1 /\ g[x] = f[x]
        BY <3>2
      <4>2. x # 0 => x - 1 \in 0 .. k /\ x - 1 # k
        BY <3>2
      <4>3. x # 0 => g[x - 1] = f[x - 1]
        BY <4>2
      <4> QED  BY <2>2, <4>1, <4>3
    <3> QED  BY <3>1, <3>2
  <2>4. g = [x \in 0 .. k |-> IF x = 0 THEN {p} ELSE Spread(g[x - 1])]
    BY <2>3, Zenon
  <2>5. Nears(g, p, k)
    BY <2>4, Zenon DEF Nears, Spread
  <2> QED  BY <2>5
<1>3. n \in K
  <2> HIDE DEF K
  <2> QED  BY <1>1, <1>2, Climb
<1> QED  BY <1>3

\* f climbs from p, a link at a time, to the pods within n.
Climbs(f, p, n) ==
  /\ f[0] = {p}
  /\ \A k \in 1 .. n : f[k] = Spread(f[k - 1])
  /\ Within(p, n) = f[n]

LEMMA WithinIs ==
  ASSUME NEW p, NEW n \in Nat
  PROVE  \E f : Climbs(f, p, n)
<1> DEFINE f == CHOOSE g : Nears(g, p, n)
<1>1. Nears(f, p, n)
  BY NearsExists, Zenon
<1>2. Within(p, n) = f[n]
  BY Zenon DEF Within, Nears
<1> HIDE DEF f
<1>3. \A k \in 0 .. n : f[k] = IF k = 0 THEN {p} ELSE Spread(f[k - 1])
  BY <1>1, Zenon DEF Nears, Spread
<1>4. f[0] = {p}
  BY <1>3
<1>5. ASSUME NEW k \in 1 .. n PROVE f[k] = Spread(f[k - 1])
  <2>1. k \in 0 .. n /\ k # 0
    OBVIOUS
  <2> QED  BY <1>3, <2>1
<1>6. Climbs(f, p, n)
  BY <1>2, <1>4, <1>5, Zenon DEF Climbs
<1> QED  BY <1>6, Zenon

\* One link more.
LEMMA WithinNext ==
  ASSUME NEW p, NEW n \in Nat
  PROVE  Within(p, 0) = {p} /\ Within(p, n + 1) = Spread(Within(p, n))
<1>1. 0 \in Nat /\ n + 1 \in Nat
  OBVIOUS
<1>2. PICK z : Climbs(z, p, 0)
  BY <1>1, WithinIs, Zenon
<1>3. PICK f : Climbs(f, p, n)
  BY WithinIs, Zenon
<1>4. PICK g : Climbs(g, p, n + 1)
  BY <1>1, WithinIs, Zenon
<1>5. Within(p, 0) = {p}
  BY <1>2, Zenon DEF Climbs
<1>6. /\ f[0] = {p}
      /\ \A k \in 1 .. n : f[k] = Spread(f[k - 1])
      /\ Within(p, n) = f[n]
  BY <1>3, Zenon DEF Climbs
<1>7. /\ g[0] = {p}
      /\ \A k \in 1 .. n + 1 : g[k] = Spread(g[k - 1])
      /\ Within(p, n + 1) = g[n + 1]
  BY <1>4, Zenon DEF Climbs
<1> DEFINE K == {k \in 0 .. n : f[k] = g[k]}
<1>8. 0 \in K
  BY <1>6, <1>7
<1>9. ASSUME NEW k \in 1 .. n, k - 1 \in K PROVE k \in K
  <2>1. k \in 1 .. n + 1 /\ k \in 0 .. n
    OBVIOUS
  <2>2. f[k - 1] = g[k - 1]
    BY <1>9, Zenon
  <2>3. f[k] = Spread(f[k - 1]) /\ g[k] = Spread(g[k - 1])
    BY <1>6, <1>7, <2>1, Zenon
  <2>4. f[k] = g[k]
    BY <2>2, <2>3, Zenon
  <2> QED  BY <2>1, <2>4, Zenon
<1>10. n \in K
  <2> HIDE DEF K
  <2> QED  BY <1>8, <1>9, Climb
<1>11. f[n] = g[n]
  BY <1>10, Zenon
<1>12. n + 1 \in 1 .. n + 1 /\ (n + 1) - 1 = n
  OBVIOUS
<1>13. g[n + 1] = Spread(g[(n + 1) - 1])
  BY <1>7, <1>12, Zenon
<1>14. Within(p, n + 1) = Spread(Within(p, n))
  BY <1>6, <1>7, <1>11, <1>12, <1>13
<1> QED  BY <1>5, <1>14, Zenon

LEMMA WithinPods ==
  ASSUME NEW p \in Pods, NEW n \in Nat
  PROVE  Within(p, n) \subseteq Pods /\ p \in Within(p, n)
<1> DEFINE K == {k \in 0 .. n : Within(p, k) \subseteq Pods /\ p \in Within(p, k)}
<1>1. 0 \in K
  BY WithinNext
<1>2. ASSUME NEW k \in 1 .. n, k - 1 \in K PROVE k \in K
  <2>1. k - 1 \in Nat /\ (k - 1) + 1 = k
    OBVIOUS
  <2>2. Within(p, k) = Spread(Within(p, k - 1))
    BY <2>1, WithinNext
  <2> QED  BY <1>2, <2>2 DEF Spread
<1>3. n \in K
  <2> HIDE DEF K
  <2> QED  BY <1>1, <1>2, Climb
<1> QED  BY <1>3

\* More links reach more.
LEMMA WithinMore ==
  ASSUME NEW p \in Pods, NEW n \in Nat, NEW m \in Nat, m <= n
  PROVE  Within(p, m) \subseteq Within(p, n)
<1> DEFINE K == {k \in 0 .. n - m : Within(p, m) \subseteq Within(p, m + k)}
<1>1. 0 \in K /\ n - m \in Nat
  OBVIOUS
<1>2. ASSUME NEW k \in 1 .. n - m, k - 1 \in K PROVE k \in K
  <2>1. m + (k - 1) \in Nat /\ (m + (k - 1)) + 1 = m + k
    OBVIOUS
  <2>2. Within(p, m + k) = Spread(Within(p, m + (k - 1)))
    BY <2>1, WithinNext
  <2> QED  BY <1>2, <2>2 DEF Spread
<1>3. n - m \in K
  <2> HIDE DEF K
  <2> QED  BY <1>1, <1>2, Climb
<1>4. m + (n - m) = n
  OBVIOUS
<1> QED  BY <1>3, <1>4

\* A neighbour of a pod within n links is within n + 1.
LEMMA WithinNear ==
  ASSUME NEW p \in Pods, NEW n \in Nat, NEW o \in Within(p, n), NEW q \in Pods, Near(o, q)
  PROVE  q \in Within(p, n + 1)
BY WithinNext DEF Spread, Near

\* Neighbours, and the pod itself, are within one.
LEMMA WithinOne ==
  ASSUME NEW p \in Pods, NEW q
  PROVE  q \in Within(p, 1) <=> q = p \/ (q \in Pods /\ Near(p, q))
<1>1. Within(p, 0 + 1) = Spread(Within(p, 0)) /\ Within(p, 0) = {p}
  BY WithinNext
<1> QED  BY <1>1 DEF Spread, Near

----------------------------------------------------------------------------
(* Neighbours in the order of the links.                                    *)

\* Sequence s has q.
Has(s, q) == \E j \in 1 .. Len(s) : s[j] = q

\* What two sequences have, one after the other.
LEMMA BothHave ==
  ASSUME NEW a \in Seq(Pods), NEW b \in Seq(Pods), NEW q
  PROVE  a \o b \in Seq(Pods) /\ (Has(a \o b, q) <=> Has(a, q) \/ Has(b, q))
<1>1. /\ a \o b \in Seq(Pods) /\ Len(a) \in Nat /\ Len(b) \in Nat /\ Len(a \o b) = Len(a) + Len(b)
      /\ \A j \in 1 .. Len(a) + Len(b) :
           (a \o b)[j] = IF j <= Len(a) THEN a[j] ELSE b[j - Len(a)]
  OBVIOUS
<1>2. ASSUME NEW j \in 1 .. Len(a) PROVE j \in 1 .. Len(a \o b) /\ (a \o b)[j] = a[j]
  BY <1>1
<1>3. ASSUME NEW j \in 1 .. Len(b)
      PROVE  j + Len(a) \in 1 .. Len(a \o b) /\ (a \o b)[j + Len(a)] = b[j]
  BY <1>1
<1>4. ASSUME NEW j \in 1 .. Len(a \o b)
      PROVE  \/ j \in 1 .. Len(a) /\ (a \o b)[j] = a[j]
             \/ j - Len(a) \in 1 .. Len(b) /\ (a \o b)[j] = b[j - Len(a)]
  BY <1>1
<1>5. Has(a \o b, q) => Has(a, q) \/ Has(b, q)
  BY <1>4 DEF Has
<1>6. Has(a, q) \/ Has(b, q) => Has(a \o b, q)
  BY <1>2, <1>3 DEF Has
<1> QED  BY <1>1, <1>5, <1>6

\* Link i joins p and q.
Tie(i, p, q) == topology[i] \in {<<p, q>>, <<q, p>>}

\* g has the neighbours of p along the first k links.
Gathered(g, p, k) ==
  g \in Seq(Pods) /\ \A q \in Pods : Has(g, q) <=> \E i \in 1 .. k : Tie(i, p, q)

LEMMA GatheredNext ==
  ASSUME NEW p, NEW k \in Nat \ {0}, NEW g, Gathered(g, p, k - 1), NEW h \in Seq(Pods),
         \A q \in Pods : Has(h, q) <=> Tie(k, p, q)
  PROVE  Gathered(g \o h, p, k)
<1>1. 1 .. k = (1 .. k - 1) \cup {k}
  OBVIOUS
<1>2. g \in Seq(Pods)
  BY DEF Gathered
<1>3. g \o h \in Seq(Pods) /\ \A q : Has(g \o h, q) <=> Has(g, q) \/ Has(h, q)
  BY <1>2, BothHave
<1>4. ASSUME NEW q \in Pods PROVE Has(g \o h, q) <=> \E i \in 1 .. k : Tie(i, p, q)
  <2>1. Has(g, q) <=> \E i \in 1 .. k - 1 : Tie(i, p, q)
    BY DEF Gathered
  <2> QED  BY <1>1, <1>3, <2>1, Zenon
<1> QED  BY <1>3, <1>4 DEF Gathered

LEMMA AdjacencyIs ==
  ASSUME topology \in Seq(Pods \X Pods), NEW p \in Pods
  PROVE  /\ Adjacency(topology)[p] \in Seq(Pods)
         /\ \A q \in Pods : Has(Adjacency(topology)[p], q) <=> Near(p, q)
<1> DEFINE n == Len(topology)
           To(i) == IF topology[i][1] = p THEN <<topology[i][2]>> ELSE <<>>
           Of(i) == IF topology[i][2] = p THEN <<topology[i][1]>> ELSE <<>>
           s == [i \in DOMAIN topology |-> To(i) \o Of(i)]
           A == Adjacency(topology)[p]
<1>1. n \in Nat /\ DOMAIN topology = 1 .. n /\ \A i \in 1 .. n : topology[i] \in Pods \X Pods
  OBVIOUS
<1>2. A = FlattenSeq(s)
  BY DEF Adjacency
<1>3. ASSUME NEW i \in 1 .. n
      PROVE  s[i] \in Seq(Pods) /\ \A q \in Pods : Has(s[i], q) <=> Tie(i, p, q)
  <2>1. PICK a \in Pods, b \in Pods : topology[i] = <<a, b>>
    BY <1>1
  <2>2. To(i) \in Seq(Pods) /\ Of(i) \in Seq(Pods) /\ s[i] = To(i) \o Of(i)
    BY <1>1, <2>1
  <2>3. ASSUME NEW q \in Pods
        PROVE  (Has(To(i), q) <=> topology[i] = <<p, q>>) /\ (Has(Of(i), q) <=> topology[i] = <<q, p>>)
    BY <2>1 DEF Has
  <2> HIDE DEF To, Of, s
  <2>4. ASSUME NEW q \in Pods
        PROVE  Has(s[i], q) <=> Tie(i, p, q)
    BY <2>2, <2>3, BothHave, SMTT(30) DEF Tie
  <2> QED  BY <2>2, <2>4, BothHave
<1>4. Len(s) = n /\ (n = 0 => s = <<>>)
  BY <1>1
<1>5. Gathered(<<>>, p, 0)
  BY DEF Gathered, Has
<1> HIDE DEF s, To, Of, A
<1>6. Gathered(A, p, n)
  <2>1. CASE n = 0
    <3>1. FlattenSeq(s) = <<>>
      BY <1>4, <2>1, Zenon DEF FlattenSeq
    <3> QED  BY <1>2, <1>5, <2>1, <3>1
  <2>2. CASE n # 0
    <3>1. n \in Nat \ {0}
      BY <1>1, <2>2
    <3> HIDE DEF n
    <3>2. PICK f : Joined(f, s, n) /\ FlattenSeq(s) = f[n]
      BY <1>4, <3>1, FlattenIs
    <3>3. \A i \in 1 .. n : f[i] = IF i = 1 THEN s[i] ELSE f[i - 1] \o s[i]
      BY <3>2, Zenon DEF Joined
    <3> DEFINE K == {k \in 0 .. n : k # 0 => Gathered(f[k], p, k)}
    <3>4. 0 \in K
      BY <3>1
    <3>5. ASSUME NEW k \in 1 .. n, k - 1 \in K PROVE k \in K
      <4>1. CASE k = 1
        <5>1. f[k] = s[k] /\ s[k] = <<>> \o s[k] /\ k - 1 = 0 /\ k \in Nat \ {0}
          BY <1>3, <3>3, <4>1
        <5>2. Gathered(<<>> \o s[k], p, k)
          BY <1>3, <1>5, <5>1, GatheredNext
        <5> QED  BY <5>1, <5>2
      <4>2. CASE k # 1
        <5>a. k - 1 # 0 /\ k \in Nat \ {0}
          BY <3>1, <4>2
        <5>b. f[k] = f[k - 1] \o s[k]
          <6>1. f[k] = IF k = 1 THEN s[k] ELSE f[k - 1] \o s[k]
            BY <3>3, Zenon
          <6> QED  BY <4>2, <6>1, Zenon
        <5>c. Gathered(f[k - 1], p, k - 1)
          BY <3>5, <5>a, Zenon
        <5>1. f[k] = f[k - 1] \o s[k] /\ Gathered(f[k - 1], p, k - 1) /\ k \in Nat \ {0}
          BY <5>a, <5>b, <5>c, Zenon
        <5>2. s[k] \in Seq(Pods) /\ \A q \in Pods : Has(s[k], q) <=> Tie(k, p, q)
          BY <1>3
        <5>3. Gathered(f[k], p, k)
          BY <5>1, <5>2, GatheredNext
        <5> QED  BY <3>1, <5>3
      <4> QED  BY <4>1, <4>2
    <3>6. n \in K
      <4> HIDE DEF K
      <4> QED  BY <3>1, <3>4, <3>5, Climb
    <3> QED  BY <1>2, <3>1, <3>2, <3>6
  <2> QED  BY <2>1, <2>2
<1> QED  BY <1>1, <1>6 DEF Gathered, Near, Tie, A

----------------------------------------------------------------------------
(* A round of the search: its neighbours one by one.                        *)

\* g[S] is what the neighbours that S numbers make of search s.
Seen(g, s, nbs, cur, dst, n) ==
  g = [S \in SUBSET (1 .. n) |-> IF S = {} THEN s
                                 ELSE Visit(g[S \ {Max(S)}], cur, nbs[Max(S)], dst)]

LEMMA SeenExists ==
  ASSUME NEW s, NEW nbs, NEW cur, NEW dst, NEW n \in Nat
  PROVE  \E g : Seen(g, s, nbs, cur, dst, n)
<1> DEFINE K == {i \in Nat : \E g : Seen(g, s, nbs, cur, dst, i)}
<1>1. 0 \in K
  <2> DEFINE g == [S \in SUBSET (1 .. 0) |-> s]
  <2>1. \A S \in SUBSET (1 .. 0) : S = {}
    OBVIOUS
  <2>2. g = [S \in SUBSET (1 .. 0) |-> IF S = {} THEN s
                                       ELSE Visit(g[S \ {Max(S)}], cur, nbs[Max(S)], dst)]
    BY <2>1, Zenon
  <2>3. Seen(g, s, nbs, cur, dst, 0)
    BY <2>2, Zenon DEF Seen
  <2> QED  BY <2>3
<1>2. ASSUME NEW i \in 1 .. n, i - 1 \in K PROVE i \in K
  <2>1. i \in Nat /\ i - 1 \in Nat
    OBVIOUS
  <2>2. PICK f : Seen(f, s, nbs, cur, dst, i - 1)
    BY <1>2
  <2> DEFINE g == [S \in SUBSET (1 .. i) |-> IF i \in S THEN Visit(f[S \ {i}], cur, nbs[i], dst)
                                             ELSE f[S]]
  <2>3. \A S \in SUBSET (1 .. i - 1) :
          f[S] = IF S = {} THEN s ELSE Visit(f[S \ {Max(S)}], cur, nbs[Max(S)], dst)
    BY <2>2, Zenon DEF Seen
  <2>4. ASSUME NEW S \in SUBSET (1 .. i)
        PROVE  g[S] = IF S = {} THEN s ELSE Visit(g[S \ {Max(S)}], cur, nbs[Max(S)], dst)
    <3>1. CASE i \in S
      <4>1. Max(S) = i
        BY <2>1, <3>1, MaxIs
      <4>2. S \ {i} \in SUBSET (1 .. i) /\ i \notin S \ {i}
        OBVIOUS
      <4>3. g[S \ {i}] = f[S \ {i}]
        BY <4>2
      <4>4. g[S] = Visit(f[S \ {i}], cur, nbs[i], dst)
        BY <3>1
      <4> HIDE DEF g
      <4> QED  BY <3>1, <4>1, <4>3, <4>4
    <3>2. CASE i \notin S
      <4>1. S \in SUBSET (1 .. i - 1)
        BY <2>1, <3>2
      <4>2. S \ {Max(S)} \in SUBSET (1 .. i) /\ i \notin S \ {Max(S)}
        BY <3>2
      <4>3. g[S \ {Max(S)}] = f[S \ {Max(S)}]
        BY <4>2
      <4>4. g[S] = f[S]
        BY <3>2
      <4> HIDE DEF g
      <4> QED  BY <2>3, <4>1, <4>3, <4>4
    <3> QED  BY <3>1, <3>2
  <2>5. Seen(g, s, nbs, cur, dst, i)
    BY <2>4, Zenon DEF Seen
  <2> QED  BY <2>5
<1>3. n \in K
  <2> HIDE DEF K
  <2> QED  BY <1>1, <1>2, Climb
<1> QED  BY <1>3

\* The search without the pod that it serves.
Popped(s) == [s EXCEPT !.queue = Tail(s.queue)]

\* u[k] is the search when the pod it serves has k of its n neighbours seen.
Serves(u, A, dst, s, n) ==
  /\ u[0] = Popped(s)
  /\ \A k \in 1 .. n : u[k] = Visit(u[k - 1], Head(s.queue), A[Head(s.queue)][k], dst)
  /\ Round(A, dst, s) = u[n]

\* A round goes through the neighbours of the pod it takes, one by one.
LEMMA RoundIs ==
  ASSUME NEW A, NEW dst, NEW s, ~ s.found, s.queue # <<>>, NEW n \in Nat,
         DOMAIN A[Head(s.queue)] = 1 .. n
  PROVE  \E u : Serves(u, A, dst, s, n)
<1> DEFINE c == Take(s.queue)[1]
           e == Take(s.queue)[2]
           D == DOMAIN A[c]
           b0 == [s EXCEPT !.queue = e]
           g == CHOOSE h : h = [S \in SUBSET D |-> IF S = {} THEN b0
                                 ELSE Visit(h[S \ {Max(S)}], c, A[c][Max(S)], dst)]
           cur == Head(s.queue)
           b == [s EXCEPT !.queue = Tail(s.queue)]
           u == [k \in 0 .. n |-> g[1 .. k]]
<1>a. Round(A, dst, s) = g[D]
  BY Zenon DEF Round, FoldLeft, MapThenFoldSet
<1>b. c = cur /\ e = Tail(s.queue)
  BY DEF Take
<1>c. D = 1 .. n /\ b0 = b
  BY <1>b
<1>d. g = [S \in SUBSET D |-> IF S = {} THEN b0 ELSE Visit(g[S \ {Max(S)}], c, A[c][Max(S)], dst)]
  <2> HIDE DEF c, b0, e
  <2>1. PICK h : Seen(h, b0, A[c], c, dst, n)
    BY SeenExists, Zenon
  <2>2. SUBSET D = SUBSET (1 .. n)
    BY <1>c
  <2> HIDE DEF D
  <2>3. h = [S \in SUBSET D |-> IF S = {} THEN b0 ELSE Visit(h[S \ {Max(S)}], c, A[c][Max(S)], dst)]
    BY <2>1, <2>2, Zenon DEF Seen
  <2> QED  BY <2>3, Zenon
<1> HIDE DEF c, D, e, b0
<1>1. \A S \in SUBSET D : g[S] = IF S = {} THEN b0 ELSE Visit(g[S \ {Max(S)}], c, A[c][Max(S)], dst)
  BY <1>d, Zenon
<1> HIDE DEF g, b, cur
<1>3. Round(A, dst, s) = g[1 .. n]
  BY <1>a, <1>c
<1>4. \A S \in SUBSET (1 .. n) :
        g[S] = IF S = {} THEN b ELSE Visit(g[S \ {Max(S)}], cur, A[cur][Max(S)], dst)
  BY <1>1, <1>b, <1>c
<1>5. u[0] = b
  <2>1. 1 .. 0 = {} /\ {} \in SUBSET (1 .. n) /\ 0 \in 0 .. n
    OBVIOUS
  <2>2. g[{}] = b
    BY <1>4, <2>1, Zenon
  <2>3. u[0] = g[1 .. 0]
    BY <2>1
  <2> QED  BY <2>1, <2>2, <2>3, Zenon
<1>6. ASSUME NEW k \in 1 .. n PROVE u[k] = Visit(u[k - 1], cur, A[cur][k], dst)
  <2>1. /\ 1 .. k \in SUBSET (1 .. n) /\ 1 .. k # {} /\ Max(1 .. k) = k
        /\ (1 .. k) \ {k} = 1 .. k - 1
    BY Interval
  <2>2. g[1 .. k] = Visit(g[1 .. k - 1], cur, A[cur][k], dst)
    BY <1>4, <2>1, Zenon
  <2>3. u[k] = g[1 .. k] /\ u[k - 1] = g[1 .. k - 1]
    OBVIOUS
  <2> QED  BY <2>2, <2>3, Zenon
<1>7. Round(A, dst, s) = u[n]
  <2>1. u[n] = g[1 .. n]
    OBVIOUS
  <2> QED  BY <1>3, <2>1
<1> HIDE DEF u
<1>8. b = Popped(s)
  BY DEF b, Popped
<1> QED  BY <1>5, <1>6, <1>7, <1>8, Zenon DEF cur, Serves

----------------------------------------------------------------------------
(* The tree that the search grows.                                          *)

\* Pod p is k links away from a, by a shortest way.
Away(a, p, k) == p \in Within(a, k) /\ (k # 0 => p \notin Within(a, k - 1))

\* The pods seen hang from src, each one link farther than its parent.
Grown(u, src, n) ==
  /\ DOMAIN u = {"prev", "queue", "found"}
  /\ DOMAIN u.prev \subseteq Within(src, n) /\ src \in DOMAIN u.prev /\ u.prev[src] = None
  /\ \A p \in DOMAIN u.prev \ {src} :
       /\ u.prev[p] \in DOMAIN u.prev /\ Near(u.prev[p], p)
       /\ \E k \in Nat : Away(src, u.prev[p], k) /\ Away(src, p, k + 1)

\* All neighbours of p were seen.
Closed(u, p) == \A q \in Pods : Near(p, q) => q \in DOMAIN u.prev

\* The search goes on: what waits in the queue, in the order of its distance,
\* has not been served; all else, C apart, has, and D is some of it.
Border(u, src, dst, m, C, D) ==
  /\ ~ u.found /\ dst \notin DOMAIN u.prev
  /\ u.queue \in Seq(DOMAIN u.prev)
  /\ \A i, j \in 1 .. Len(u.queue) : u.queue[i] = u.queue[j] => i = j
  /\ \A p \in DOMAIN u.prev \ C : Has(u.queue, p) \/ Closed(u, p)
  /\ Within(src, m) \subseteq DOMAIN u.prev /\ DOMAIN u.prev \subseteq Within(src, m + 1)
  /\ \A i, j \in 1 .. Len(u.queue) :
       i <= j /\ u.queue[j] \in Within(src, m) => u.queue[i] \in Within(src, m)
  /\ \A p \in D : p \in DOMAIN u.prev /\ ~ Has(u.queue, p)

\* A pod that was not seen hangs from the one that is served.
LEMMA HangsOne ==
  ASSUME NEW src \in Pods, NEW m \in Nat, NEW cur \in Within(src, m), NEW nb \in Pods,
         Near(cur, nb), nb \notin Within(src, m)
  PROVE  Away(src, cur, m) /\ Away(src, nb, m + 1)
<1>1. nb \in Within(src, m + 1)
  BY WithinNear
<1>2. ASSUME m # 0, cur \in Within(src, m - 1) PROVE FALSE
  <2>1. m - 1 \in Nat /\ (m - 1) + 1 = m
    BY <1>2
  <2>2. nb \in Within(src, (m - 1) + 1)
    BY <1>2, <2>1, WithinNear
  <2> QED  BY <2>1, <2>2
<1>3. (m + 1) - 1 = m /\ m + 1 # 0
  OBVIOUS
<1> QED  BY <1>1, <1>2, <1>3 DEF Away

\* The queue with one pod more.
LEMMA Appended ==
  ASSUME NEW S, NEW q \in Seq(S), NEW nb
  PROVE  /\ Append(q, nb) \in Seq(S \cup {nb}) /\ Len(Append(q, nb)) = Len(q) + 1
         /\ Len(q) \in Nat
         /\ \A i \in 1 .. Len(q) : Append(q, nb)[i] = q[i]
         /\ Append(q, nb)[Len(q) + 1] = nb
         /\ \A p : Has(Append(q, nb), p) <=> Has(q, p) \/ p = nb
<1>1. q \in Seq(S \cup {nb})
  OBVIOUS
<1>2. /\ Append(q, nb) \in Seq(S \cup {nb}) /\ Len(Append(q, nb)) = Len(q) + 1
      /\ Len(q) \in Nat
      /\ \A i \in 1 .. Len(q) : Append(q, nb)[i] = q[i]
      /\ Append(q, nb)[Len(q) + 1] = nb
  BY <1>1
<1>3. 1 .. Len(q) + 1 = (1 .. Len(q)) \cup {Len(q) + 1}
  BY <1>2
<1>4. \A p : Has(Append(q, nb), p) <=> Has(q, p) \/ p = nb
  BY <1>2, <1>3, Zenon DEF Has
<1> QED  BY <1>2, <1>4

\* A neighbour of the pod that is served.
LEMMA VisitGrows ==
  ASSUME NEW src \in Pods, NEW dst \in Pods, NEW m \in Nat, NEW n \in Nat, NEW D, NEW u,
         NEW cur \in D, Border(u, src, dst, m, {cur}, D), Grown(u, src, n + 1),
         cur \in Within(src, m), cur \in Within(src, n),
         NEW nb \in Pods, Near(cur, nb)
  PROVE  LET v == Visit(u, cur, nb, dst) IN
           /\ Grown(v, src, n + 1) /\ nb \in DOMAIN v.prev
           /\ DOMAIN u.prev \subseteq DOMAIN v.prev
           /\ IF v.found THEN dst \in DOMAIN v.prev ELSE Border(v, src, dst, m, {cur}, D)
<1> DEFINE v == Visit(u, cur, nb, dst)
           S == DOMAIN u.prev
           T == S \cup {nb}
<1>1. CASE nb \in S
  <2>1. v = u
    BY <1>1 DEF Visit
  <2> QED  BY <1>1, <2>1 DEF Border
<1>2. CASE nb \notin S
  <2>1. ~ u.found /\ cur \in S /\ u.queue \in Seq(S) /\ Within(src, m) \subseteq S
    BY DEF Border
  <2>2. /\ DOMAIN v.prev = T /\ v.prev[nb] = cur /\ \A p \in S : v.prev[p] = u.prev[p]
        /\ v.queue = IF nb = dst THEN u.queue ELSE Append(u.queue, nb)
        /\ v.found = (nb = dst) /\ DOMAIN v = {"prev", "queue", "found"}
    BY <1>2, <2>1 DEF Visit
  <2> HIDE DEF v
  <2>3. Away(src, cur, m) /\ Away(src, nb, m + 1)
    BY <1>2, <2>1, HangsOne
  <2>4. nb \in Within(src, n + 1) /\ nb \in Within(src, m + 1)
    BY WithinNear
  <2>5. Grown(v, src, n + 1)
    <3>1. T \subseteq Within(src, n + 1) /\ src \in S /\ v.prev[src] = None
      BY <2>2, <2>4 DEF Grown
    <3>2. ASSUME NEW p \in T \ {src}
          PROVE  /\ v.prev[p] \in T /\ Near(v.prev[p], p)
                 /\ \E k \in Nat : Away(src, v.prev[p], k) /\ Away(src, p, k + 1)
      <4>1. CASE p = nb
        BY <2>1, <2>2, <2>3, <4>1
      <4>2. CASE p # nb
        <5>1. p \in S \ {src} /\ v.prev[p] = u.prev[p]
          BY <2>2, <4>2
        <5> QED  BY <5>1 DEF Grown
      <4> QED  BY <4>1, <4>2
    <3> HIDE DEF T
    <3> QED  BY <2>2, <3>1, <3>2 DEF Grown, T
  <2>6. CASE nb = dst
    <3>1. v.found /\ dst \in DOMAIN v.prev
      BY <2>2, <2>6
    <3> QED  BY <2>2, <2>5, <3>1 DEF v
  <2>7. CASE nb # dst
    <3> DEFINE q == u.queue
    <3>1. ~ v.found /\ v.queue = Append(q, nb)
      BY <2>2, <2>7
    <3>2. /\ v.queue \in Seq(T) /\ Len(v.queue) = Len(q) + 1 /\ Len(q) \in Nat
          /\ \A i \in 1 .. Len(q) : v.queue[i] = q[i]
          /\ v.queue[Len(q) + 1] = nb
          /\ \A p : Has(v.queue, p) <=> Has(q, p) \/ p = nb
      <4>1. q \in Seq(S)
        BY <2>1
      <4> HIDE DEF q, S
      <4>2. /\ Append(q, nb) \in Seq(S \cup {nb}) /\ Len(Append(q, nb)) = Len(q) + 1
            /\ Len(q) \in Nat
            /\ \A i \in 1 .. Len(q) : Append(q, nb)[i] = q[i]
            /\ Append(q, nb)[Len(q) + 1] = nb
            /\ \A p : Has(Append(q, nb), p) <=> Has(q, p) \/ p = nb
        BY <4>1, Appended, Zenon
      <4> QED  BY <3>1, <4>2, Zenon
    <3>3. \A i \in 1 .. Len(q) : q[i] \in S
      BY <2>1
    <3>4. \A i \in 1 .. Len(v.queue) : i \in 1 .. Len(q) \/ i = Len(q) + 1
      BY <3>2
    <3>5. \A i, j \in 1 .. Len(v.queue) : v.queue[i] = v.queue[j] => i = j
      <4>1. \A i, j \in 1 .. Len(q) : q[i] = q[j] => i = j
        BY DEF Border
      <4> QED  BY <1>2, <3>2, <3>3, <3>4, <4>1
    <3>6. \A p \in T \ {cur} : Has(v.queue, p) \/ Closed(v, p)
      <4>1. \A p \in S \ {cur} : Has(q, p) \/ Closed(u, p)
        BY DEF Border
      <4>2. \A p : Closed(u, p) => Closed(v, p)
        BY <2>2 DEF Closed
      <4> QED  BY <3>2, <4>1, <4>2
    <3>7. Within(src, m) \subseteq T /\ T \subseteq Within(src, m + 1)
      BY <2>4 DEF Border
    <3>8. \A i, j \in 1 .. Len(v.queue) :
            i <= j /\ v.queue[j] \in Within(src, m) => v.queue[i] \in Within(src, m)
      <4>1. \A i, j \in 1 .. Len(q) :
              i <= j /\ q[j] \in Within(src, m) => q[i] \in Within(src, m)
        BY DEF Border
      <4>2. nb \notin Within(src, m)
        BY <1>2, <2>1
      <4>3. \A i, j \in 1 .. Len(v.queue) : i <= j /\ j \in 1 .. Len(q) => i \in 1 .. Len(q)
        BY <3>2
      <4> QED  BY <3>2, <3>4, <4>1, <4>2, <4>3
    <3>9. \A p \in D : p \in T /\ ~ Has(v.queue, p)
      <4>1. \A p \in D : p \in S /\ ~ Has(q, p)
        BY DEF Border
      <4> QED  BY <1>2, <3>2, <4>1
    <3>10. dst \notin T
      BY <2>7 DEF Border
    <3> HIDE DEF T, S, q
    <3>11. Border(v, src, dst, m, {cur}, D)
      BY <2>2, <3>1, <3>2, <3>5, <3>6, <3>7, <3>8, <3>9, <3>10 DEF Border
    <3> QED  BY <2>2, <2>5, <3>1, <3>11 DEF v, T, S
  <2> QED  BY <2>6, <2>7
<1> QED  BY <1>1, <1>2

\* The queue without its head.
LEMMA Shortened ==
  ASSUME NEW S, NEW q \in Seq(S), q # <<>>
  PROVE  /\ Head(q) \in S /\ Tail(q) \in Seq(S)
         /\ Len(q) \in Nat \ {0} /\ Len(Tail(q)) = Len(q) - 1 /\ q[1] = Head(q)
         /\ \A i \in 1 .. Len(q) - 1 : Tail(q)[i] = q[i + 1] /\ i + 1 \in 1 .. Len(q)
         /\ \A p : Has(q, p) => Has(Tail(q), p) \/ p = Head(q)
         /\ \A p : Has(Tail(q), p) => \E i \in 2 .. Len(q) : q[i] = p
<1>1. /\ Head(q) \in S /\ Tail(q) \in Seq(S)
      /\ Len(q) \in Nat \ {0} /\ Len(Tail(q)) = Len(q) - 1 /\ q[1] = Head(q)
      /\ \A i \in 1 .. Len(q) - 1 : Tail(q)[i] = q[i + 1] /\ i + 1 \in 1 .. Len(q)
  OBVIOUS
<1>2. ASSUME NEW i \in 1 .. Len(q), i # 1
      PROVE  i - 1 \in 1 .. Len(Tail(q)) /\ Tail(q)[i - 1] = q[i]
  <2>1. i - 1 \in 1 .. Len(q) - 1 /\ (i - 1) + 1 = i
    BY <1>1, <1>2
  <2> QED  BY <1>1, <2>1
<1>3. \A p : Has(q, p) => Has(Tail(q), p) \/ p = Head(q)
  BY <1>1, <1>2 DEF Has
<1>4. \A i \in 1 .. Len(q) - 1 : i + 1 \in 2 .. Len(q)
  BY <1>1
<1>5. \A p : Has(Tail(q), p) => \E i \in 2 .. Len(q) : q[i] = p
  BY <1>1, <1>4 DEF Has
<1> QED  BY <1>1, <1>3, <1>5

\* When all within m links were served, so far as they were seen, all within
\* one more were seen.
LEMMA LevelUp ==
  ASSUME NEW src \in Pods, NEW dst \in Pods, NEW m \in Nat, NEW D, NEW s,
         Border(s, src, dst, m, {}, D), s.queue # <<>>, Head(s.queue) \notin Within(src, m)
  PROVE  Border(s, src, dst, m + 1, {}, D) /\ Head(s.queue) \in Within(src, m + 1)
<1> DEFINE q == s.queue
           S == DOMAIN s.prev
<1>1. q \in Seq(S) /\ Within(src, m) \subseteq S /\ S \subseteq Within(src, m + 1)
  BY DEF Border
<1>2. /\ Head(q) \in S /\ Len(q) \in Nat \ {0} /\ q[1] = Head(q)
  BY <1>1, Shortened
<1>3. \A p : Has(q, p) => p \in S /\ p \notin Within(src, m)
  <2>1. \A i \in 1 .. Len(q) : q[i] \in S /\ 1 <= i
    BY <1>1
  <2>2. 1 \in 1 .. Len(q)
    BY <1>2
  <2>3. \A i \in 1 .. Len(q) : q[i] \notin Within(src, m)
    BY <1>2, <2>1, <2>2 DEF Border
  <2> QED  BY <2>1, <2>3 DEF Has
<1>4. ASSUME NEW p \in Within(src, m + 1) PROVE p \in S
  <2>1. p \in Spread(Within(src, m))
    BY WithinNext
  <2>2. CASE p \in Within(src, m)
    BY <1>1, <2>2
  <2>3. CASE p \notin Within(src, m)
    <3>1. p \in Pods /\ \E o \in Within(src, m) : Near(o, p)
      BY <2>1, <2>3 DEF Spread, Near
    <3>2. PICK o \in Within(src, m) : Near(o, p)
      BY <3>1
    <3>3. o \in S /\ ~ Has(q, o)
      BY <1>1, <1>3
    <3>4. Closed(s, o)
      BY <3>3 DEF Border
    <3> QED  BY <3>1, <3>2, <3>4 DEF Closed
  <2> QED  BY <2>2, <2>3
<1>5. S \subseteq Within(src, (m + 1) + 1)
  <2>1. m + 1 \in Nat
    OBVIOUS
  <2>2. Within(src, m + 1) \subseteq Within(src, (m + 1) + 1)
    BY <2>1, WithinNext DEF Spread
  <2> QED  BY <1>1, <2>2
<1>6. \A i, j \in 1 .. Len(q) : i <= j /\ q[j] \in Within(src, m + 1) => q[i] \in Within(src, m + 1)
  <2>1. \A i \in 1 .. Len(q) : q[i] \in S
    BY <1>1
  <2> QED  BY <1>1, <2>1
<1>7. Head(q) \in Within(src, m + 1)
  BY <1>1, <1>2
<1> QED  BY <1>4, <1>5, <1>6, <1>7 DEF Border

\* The next pod is within the links that are being served, or one more.
LEMMA NextServed ==
  ASSUME NEW src \in Pods, NEW dst \in Pods, NEW m \in Nat, NEW D, NEW s,
         Border(s, src, dst, m, {}, D), s.queue # <<>>
  PROVE  \E k \in Nat : Border(s, src, dst, k, {}, D) /\ Head(s.queue) \in Within(src, k)
<1>1. CASE Head(s.queue) \in Within(src, m)
  BY <1>1
<1>2. CASE Head(s.queue) \notin Within(src, m)
  <2>1. m + 1 \in Nat
    OBVIOUS
  <2> QED  BY <1>2, <2>1, LevelUp
<1> QED  BY <1>1, <1>2

\* It is taken off the queue.
LEMMA Taken ==
  ASSUME NEW src \in Pods, NEW dst \in Pods, NEW m \in Nat, NEW D, NEW s, NEW n \in Nat,
         Border(s, src, dst, m, {}, D), Grown(s, src, n), s.queue # <<>>,
         Head(s.queue) \in Within(src, m)
  PROVE  LET b == Popped(s) IN
           /\ Border(b, src, dst, m, {Head(s.queue)}, D \cup {Head(s.queue)})
           /\ Grown(b, src, n + 1) /\ Head(s.queue) \notin D /\ ~ b.found
           /\ Head(s.queue) \in DOMAIN s.prev
<1> DEFINE q == s.queue
           S == DOMAIN s.prev
           b == Popped(s)
           c == Head(q)
<1>1. q \in Seq(S) /\ ~ s.found /\ dst \notin S
  BY DEF Border
<1>2. b.prev = s.prev /\ b.found = s.found /\ b.queue = Tail(q) /\ DOMAIN b = DOMAIN s
  BY DEF Grown, Popped
<1> HIDE DEF b
<1>3. /\ c \in S /\ Tail(q) \in Seq(S)
      /\ Len(q) \in Nat \ {0} /\ Len(Tail(q)) = Len(q) - 1 /\ q[1] = c
      /\ \A i \in 1 .. Len(q) - 1 : Tail(q)[i] = q[i + 1] /\ i + 1 \in 1 .. Len(q)
      /\ \A p : Has(q, p) => Has(Tail(q), p) \/ p = c
      /\ \A p : Has(Tail(q), p) => \E i \in 2 .. Len(q) : q[i] = p
  BY <1>1, Shortened
<1>4. Has(q, c)
  BY <1>3 DEF Has
<1>5. c \notin D
  BY <1>4 DEF Border
<1>6. \A i, j \in 1 .. Len(q) : q[i] = q[j] => i = j
  BY DEF Border
<1>7. ~ Has(Tail(q), c)
  <2>1. 1 \in 1 .. Len(q) /\ \A i \in 2 .. Len(q) : i \in 1 .. Len(q) /\ i # 1
    BY <1>3
  <2> QED  BY <1>3, <1>6, <2>1
<1>8. \A p : Has(Tail(q), p) => Has(q, p)
  <2>1. \A i \in 2 .. Len(q) : i \in 1 .. Len(q)
    BY <1>3
  <2> QED  BY <1>3, <2>1 DEF Has
<1>9. \A i, j \in 1 .. Len(Tail(q)) : Tail(q)[i] = Tail(q)[j] => i = j
  <2>1. ASSUME NEW i \in 1 .. Len(Tail(q)), NEW j \in 1 .. Len(Tail(q)), Tail(q)[i] = Tail(q)[j]
        PROVE  i = j
    <3>1. q[i + 1] = q[j + 1] /\ i + 1 \in 1 .. Len(q) /\ j + 1 \in 1 .. Len(q)
      BY <1>3, <2>1
    <3>2. i + 1 = j + 1
      BY <1>6, <3>1
    <3> QED  BY <3>2
  <2> QED  BY <2>1
<1>10. \A i, j \in 1 .. Len(Tail(q)) :
         i <= j /\ Tail(q)[j] \in Within(src, m) => Tail(q)[i] \in Within(src, m)
  <2>1. ASSUME NEW i \in 1 .. Len(Tail(q)), NEW j \in 1 .. Len(Tail(q)), i <= j,
               Tail(q)[j] \in Within(src, m)
        PROVE  Tail(q)[i] \in Within(src, m)
    <3>1. /\ Tail(q)[i] = q[i + 1] /\ Tail(q)[j] = q[j + 1]
          /\ i + 1 \in 1 .. Len(q) /\ j + 1 \in 1 .. Len(q) /\ i + 1 <= j + 1
      BY <1>3, <2>1
    <3> QED  BY <2>1, <3>1 DEF Border
  <2> QED  BY <2>1
<1>11. \A p \in S \ {c} : Has(Tail(q), p) \/ Closed(b, p)
  <2>1. \A p \in S : Has(q, p) \/ Closed(s, p)
    BY DEF Border
  <2>2. \A p : Closed(s, p) => Closed(b, p)
    BY <1>2 DEF Closed
  <2> QED  BY <1>3, <2>1, <2>2
<1>12. \A p \in D \cup {c} : p \in S /\ ~ Has(Tail(q), p)
  BY <1>3, <1>7, <1>8 DEF Border
<1>13. Within(src, m) \subseteq S /\ S \subseteq Within(src, m + 1)
  BY DEF Border
<1>14. Border(b, src, dst, m, {c}, D \cup {c})
  <2> HIDE DEF c, q, S
  <2>1. DOMAIN b.prev = S
    BY <1>2 DEF S
  <2> QED  BY <1>1, <1>2, <1>3, <1>9, <1>10, <1>11, <1>12, <1>13, <2>1 DEF Border
<1>15. Grown(b, src, n + 1)
  <2>1. Within(src, n) \subseteq Within(src, n + 1)
    BY WithinNext DEF Spread
  <2> QED  BY <1>2, <2>1 DEF Grown
<1> QED  BY <1>1, <1>2, <1>3, <1>5, <1>14, <1>15 DEF b

\* A round sees the neighbours of the pod it serves.
LEMMA RoundGrows ==
  ASSUME topology \in Seq(Pods \X Pods), NEW src \in Pods, NEW dst \in Pods, NEW m \in Nat,
         NEW D, NEW s, NEW n \in Nat,
         Border(s, src, dst, m, {}, D), Grown(s, src, n), s.queue # <<>>,
         Head(s.queue) \in Within(src, m)
  PROVE  LET r == Round(Adjacency(topology), dst, s) IN
           /\ Grown(r, src, n + 1)
           /\ IF r.found THEN dst \in DOMAIN r.prev
              ELSE Border(r, src, dst, m, {}, D \cup {Head(s.queue)})
           /\ Head(s.queue) \in Pods \ D
<1> DEFINE A == Adjacency(topology)
           c == Head(s.queue)
           E == D \cup {c}
           N == Len(A[c])
           b == Popped(s)
           r == Round(A, dst, s)
<1>1. /\ Border(b, src, dst, m, {c}, E) /\ Grown(b, src, n + 1) /\ c \notin D /\ ~ b.found
      /\ c \in DOMAIN s.prev
  BY Taken
<1>2. c \in Within(src, n) /\ c \in Pods /\ ~ s.found
  <2>1. c \in Within(src, n)
    BY <1>1 DEF Grown
  <2> QED  BY <2>1, WithinPods DEF Border
<1>3. A[c] \in Seq(Pods) /\ \A q \in Pods : Has(A[c], q) <=> Near(c, q)
  BY <1>2, AdjacencyIs
<1>4. N \in Nat /\ DOMAIN A[c] = 1 .. N /\ \A k \in 1 .. N : A[c][k] \in Pods /\ Near(c, A[c][k])
  <2>1. N \in Nat /\ DOMAIN A[c] = 1 .. N /\ \A k \in 1 .. N : A[c][k] \in Pods
    BY <1>3
  <2>2. \A k \in 1 .. N : Has(A[c], A[c][k])
    BY DEF Has
  <2> QED  BY <1>3, <2>1, <2>2
<1> HIDE DEF A
<1>5. PICK u : /\ u[0] = b
               /\ \A k \in 1 .. N : u[k] = Visit(u[k - 1], c, A[c][k], dst)
               /\ r = u[N]
  <2>1. PICK u : Serves(u, A, dst, s, N)
    <3> HIDE DEF N
    <3> QED  BY <1>2, <1>4, RoundIs, Zenon
  <2> QED  BY <2>1, Zenon DEF Serves
<1> HIDE DEF b, r, N, c, E
<1> DEFINE K == {k \in 0 .. N :
                   /\ Grown(u[k], src, n + 1)
                   /\ IF u[k].found THEN dst \in DOMAIN u[k].prev
                      ELSE /\ Border(u[k], src, dst, m, {c}, E)
                           /\ \A j \in 1 .. k : A[c][j] \in DOMAIN u[k].prev}
<1>6. 0 \in K
  BY <1>1, <1>4, <1>5
<1>7. ASSUME NEW k \in 1 .. N, k - 1 \in K PROVE k \in K
  <2>1. /\ k - 1 \in 0 .. N /\ k \in 0 .. N /\ 1 .. k = (1 .. k - 1) \cup {k}
    BY <1>4
  <2> DEFINE v == u[k - 1]
             nb == A[c][k]
  <2>2. u[k] = Visit(v, c, nb, dst) /\ nb \in Pods /\ Near(c, nb)
    BY <1>4, <1>5
  <2>3. /\ Grown(v, src, n + 1)
        /\ IF v.found THEN dst \in DOMAIN v.prev
           ELSE /\ Border(v, src, dst, m, {c}, E)
                /\ \A j \in 1 .. k - 1 : A[c][j] \in DOMAIN v.prev
    BY <1>7
  <2> HIDE DEF v, nb
  <2>4. CASE v.found
    <3>1. u[k] = v
      BY <2>2, <2>4 DEF Visit
    <3> QED  BY <2>1, <2>3, <2>4, <3>1
  <2>5. CASE ~ v.found
    <3>1. c \in E /\ c \in Within(src, m)
      BY DEF E, c
    <3>2. /\ Grown(u[k], src, n + 1) /\ nb \in DOMAIN u[k].prev
          /\ DOMAIN v.prev \subseteq DOMAIN u[k].prev
          /\ IF u[k].found THEN dst \in DOMAIN u[k].prev ELSE Border(u[k], src, dst, m, {c}, E)
      <4> DEFINE w == Visit(v, c, nb, dst)
      <4>1. /\ Grown(w, src, n + 1) /\ nb \in DOMAIN w.prev /\ DOMAIN v.prev \subseteq DOMAIN w.prev
            /\ IF w.found THEN dst \in DOMAIN w.prev ELSE Border(w, src, dst, m, {c}, E)
        BY <1>2, <2>2, <2>3, <2>5, <3>1, VisitGrows, Zenon
      <4> HIDE DEF w
      <4>2. u[k] = w
        BY <2>2 DEF w
      <4> QED  BY <4>1, <4>2
    <3>3. \A j \in 1 .. k : A[c][j] \in DOMAIN u[k].prev
      BY <2>1, <2>3, <2>5, <3>2 DEF nb
    <3> QED  BY <2>1, <3>2, <3>3
  <2> QED  BY <2>4, <2>5
<1>8. N \in K
  <2> HIDE DEF K
  <2> QED  BY <1>4, <1>6, <1>7, Climb
<1>9. /\ Grown(r, src, n + 1)
      /\ IF r.found THEN dst \in DOMAIN r.prev
         ELSE /\ Border(r, src, dst, m, {c}, E)
              /\ \A j \in 1 .. N : A[c][j] \in DOMAIN r.prev
  BY <1>5, <1>8
<1>10. ASSUME ~ r.found PROVE Border(r, src, dst, m, {}, E)
  <2>1. Closed(r, c)
    <3>1. \A q \in Pods : Near(c, q) => \E j \in 1 .. N : A[c][j] = q
      BY <1>3 DEF Has, N
    <3> QED  BY <1>9, <1>10, <3>1 DEF Closed
  <2> QED  BY <1>9, <1>10, <2>1 DEF Border
<1> QED  BY <1>1, <1>2, <1>9, <1>10 DEF r, c, E, A

----------------------------------------------------------------------------
(* All rounds.                                                              *)

\* The search as it begins.
Origin(src) == [prev |-> [p \in {src} |-> None], queue |-> <<src>>, found |-> FALSE]

\* f[k] is the search after k rounds.
Searched(f, A, src, dst, n) ==
  f = [k \in 0 .. n |-> IF k = 0 THEN [prev |-> [p \in {src} |-> None], queue |-> <<src>>, found |-> FALSE]
                        ELSE Round(A, dst, f[k - 1])]

LEMMA SearchedExists ==
  ASSUME NEW A, NEW src, NEW dst, NEW n \in Nat
  PROVE  \E f : Searched(f, A, src, dst, n)
<1> DEFINE K == {k \in Nat : \E f : Searched(f, A, src, dst, k)}
<1>1. 0 \in K
  <2> DEFINE f == [k \in 0 .. 0 |-> Origin(src)]
  <2>1. \A k \in 0 .. 0 : k = 0
    OBVIOUS
  <2>2. f = [k \in 0 .. 0 |-> IF k = 0 THEN Origin(src) ELSE Round(A, dst, f[k - 1])]
    BY <2>1, Zenon
  <2>3. Searched(f, A, src, dst, 0)
    BY <2>2, Zenon DEF Searched, Origin
  <2> QED  BY <2>3
<1>2. ASSUME NEW k \in 1 .. n, k - 1 \in K PROVE k \in K
  <2>1. PICK f : Searched(f, A, src, dst, k - 1)
    BY <1>2
  <2> DEFINE g == [x \in 0 .. k |-> IF x = k THEN Round(A, dst, f[k - 1]) ELSE f[x]]
  <2>2. \A x \in 0 .. k - 1 : f[x] = IF x = 0 THEN Origin(src) ELSE Round(A, dst, f[x - 1])
    BY <2>1, Zenon DEF Searched, Origin
  <2>3. ASSUME NEW x \in 0 .. k
        PROVE  g[x] = IF x = 0 THEN Origin(src) ELSE Round(A, dst, g[x - 1])
    <3>1. CASE x = k
      <4>1. x - 1 \in 0 .. k /\ x - 1 # k /\ x # 0
        BY <3>1
      <4>2. g[x - 1] = f[x - 1]
        BY <4>1
      <4>3. g[x] = Round(A, dst, f[k - 1])
        BY <3>1
      <4> HIDE DEF g
      <4> QED  BY <3>1, <4>1, <4>2, <4>3
    <3>2. CASE x # k
      <4>1. x \in 0 .. k - 1 /\ g[x] = f[x]
        BY <3>2
      <4>2. x # 0 => x - 1 \in 0 .. k /\ x - 1 # k
        BY <3>2
      <4>3. x # 0 => g[x - 1] = f[x - 1]
        BY <4>2
      <4> HIDE DEF g
      <4> QED  BY <2>2, <4>1, <4>3
    <3> QED  BY <3>1, <3>2
  <2>4. g = [x \in 0 .. k |-> IF x = 0 THEN Origin(src) ELSE Round(A, dst, g[x - 1])]
    BY <2>3, Zenon
  <2>5. Searched(g, A, src, dst, k)
    BY <2>4, Zenon DEF Searched, Origin
  <2> QED  BY <2>5
<1>3. n \in K
  <2> HIDE DEF K
  <2> QED  BY <1>1, <1>2, Climb
<1> QED  BY <1>3

\* f[k] is the search after k rounds, of which there are as many as pods.
Searches(f, A, src, dst) ==
  /\ f[0] = Origin(src)
  /\ \A k \in 1 .. Cardinality(Pods) : f[k] = Round(A, dst, f[k - 1])
  /\ Search(A, src, dst) = f[Cardinality(Pods)]

LEMMA SearchIs ==
  ASSUME NEW A, NEW src, NEW dst
  PROVE  \E f : Searches(f, A, src, dst)
<1> DEFINE n == Cardinality(Pods)
           f == CHOOSE g : Searched(g, A, src, dst, n)
<1>1. n \in Nat
  BY ToolAssumption, FS_CardinalityType
<1>2. Searched(f, A, src, dst, n)
  BY <1>1, SearchedExists, Zenon
<1>3. Search(A, src, dst) = f[n]
  BY Zenon DEF Search, Searched
<1> HIDE DEF f, n
<1>4. \A k \in 0 .. n : f[k] = IF k = 0 THEN Origin(src) ELSE Round(A, dst, f[k - 1])
  BY <1>2, Zenon DEF Searched, Origin
<1>5. f[0] = Origin(src)
  BY <1>1, <1>4
<1>6. ASSUME NEW k \in 1 .. n PROVE f[k] = Round(A, dst, f[k - 1])
  <2>1. k \in 0 .. n /\ k # 0
    OBVIOUS
  <2> QED  BY <1>4, <2>1
<1> QED  BY <1>3, <1>5, <1>6, Zenon DEF n, Searches

\* When the search begins.
LEMMA BeginsRight ==
  ASSUME NEW src \in Pods, NEW dst \in Pods, src # dst
  PROVE  Grown(Origin(src), src, 0) /\ Border(Origin(src), src, dst, 0, {}, {})
<1> DEFINE s == Origin(src)
<1>1. /\ DOMAIN s = {"prev", "queue", "found"} /\ DOMAIN s.prev = {src} /\ s.prev[src] = None
      /\ s.queue = <<src>> /\ s.found = FALSE
  BY DEF Origin
<1> HIDE DEF s
<1>2. Within(src, 0) = {src} /\ {src} \subseteq Within(src, 0 + 1)
  <2>1. Within(src, 0 + 1) = Spread(Within(src, 0)) /\ Within(src, 0) = {src}
    BY WithinNext
  <2> QED  BY <2>1 DEF Spread
<1>3. Grown(s, src, 0)
  BY <1>1, <1>2 DEF Grown
<1>4. s.queue \in Seq({src}) /\ Len(s.queue) = 1 /\ s.queue[1] = src /\ Has(s.queue, src)
  BY <1>1 DEF Has
<1>5. Border(s, src, dst, 0, {}, {})
  <2>1. \A i, j \in 1 .. Len(s.queue) : i = j
    BY <1>4
  <2> QED  BY <1>1, <1>2, <1>4, <2>1 DEF Border
<1> QED  BY <1>3, <1>5 DEF s

\* Every pod that can be reached is seen, if the search does not stop before.
LEMMA AllSeen ==
  ASSUME NEW src \in Pods, NEW u, src \in DOMAIN u.prev, \A p \in DOMAIN u.prev : Closed(u, p),
         NEW n \in Nat
  PROVE  Within(src, n) \subseteq DOMAIN u.prev
<1> DEFINE K == {k \in 0 .. n : Within(src, k) \subseteq DOMAIN u.prev}
<1>1. 0 \in K
  BY WithinNext
<1>2. ASSUME NEW k \in 1 .. n, k - 1 \in K PROVE k \in K
  <2>1. k - 1 \in Nat /\ (k - 1) + 1 = k /\ k \in 0 .. n
    OBVIOUS
  <2>2. Within(src, k) = Spread(Within(src, k - 1))
    BY <2>1, WithinNext
  <2>3. \A p \in Spread(Within(src, k - 1)) : p \in DOMAIN u.prev
    BY <1>2 DEF Spread, Closed, Near
  <2> QED  BY <2>1, <2>2, <2>3
<1>3. n \in K
  <2> HIDE DEF K
  <2> QED  BY <1>1, <1>2, Climb
<1> QED  BY <1>3

\* The search finds the destination when links lead there, and only then.
LEMMA SearchRight ==
  ASSUME topology \in Seq(Pods \X Pods), NEW src \in Pods, NEW dst \in Pods, src # dst
  PROVE  LET s == Search(Adjacency(topology), src, dst)
             N == Cardinality(Pods)
         IN /\ s.found => dst \in DOMAIN s.prev /\ Grown(s, src, N)
            /\ ~ s.found => dst \notin Within(src, N)
<1> DEFINE A == Adjacency(topology)
           N == Cardinality(Pods)
           s == Search(A, src, dst)
<1>1. N \in Nat
  BY ToolAssumption, FS_CardinalityType
<1>2. PICK f : /\ f[0] = Origin(src) /\ \A k \in 1 .. N : f[k] = Round(A, dst, f[k - 1])
               /\ s = f[N]
  <2>1. PICK f : Searches(f, A, src, dst)
    BY SearchIs, Zenon
  <2> QED  BY <2>1, Zenon DEF Searches
<1> HIDE DEF N, s, A
<1> DEFINE K == {k \in 0 .. N :
                   /\ Grown(f[k], src, k)
                   /\ IF f[k].found THEN dst \in DOMAIN f[k].prev
                      ELSE \E m \in Nat : \E D \in SUBSET Pods :
                             /\ Border(f[k], src, dst, m, {}, D)
                             /\ f[k].queue = <<>> \/ Cardinality(D) = k}
<1>3. 0 \in K
  <2>1. {} \in SUBSET Pods /\ Cardinality({}) = 0
    BY FS_EmptySet
  <2>2. f[0] = Origin(src) /\ ~ f[0].found
    BY <1>2 DEF Origin
  <2> QED  BY <1>1, <2>1, <2>2, BeginsRight
<1>4. ASSUME NEW k \in 1 .. N, k - 1 \in K PROVE k \in K
  <2> DEFINE g == f[k - 1]
             h == f[k]
  <2>1. k - 1 \in Nat /\ (k - 1) + 1 = k /\ k \in 0 .. N /\ h = Round(A, dst, g)
    BY <1>2
  <2>2. Grown(g, src, k - 1)
    BY <1>4
  <2>3. ASSUME h = g PROVE Grown(h, src, k)
    <3>1. Within(src, k - 1) \subseteq Within(src, k)
      BY <2>1, WithinNext DEF Spread
    <3> QED  BY <2>2, <2>3, <3>1 DEF Grown
  <2>4. CASE g.found
    <3>1. h = g
      BY <2>1, <2>4 DEF Round
    <3> QED  BY <1>4, <2>1, <2>3, <2>4, <3>1
  <2>5. CASE ~ g.found
    <3>1. PICK m \in Nat : \E D \in SUBSET Pods :
            Border(g, src, dst, m, {}, D) /\ (g.queue = <<>> \/ Cardinality(D) = k - 1)
      BY <1>4, <2>5
    <3>2. PICK D \in SUBSET Pods :
            Border(g, src, dst, m, {}, D) /\ (g.queue = <<>> \/ Cardinality(D) = k - 1)
      BY <3>1
    <3>3. CASE g.queue = <<>>
      <4>1. h = g
        BY <2>1, <3>3 DEF Round
      <4> QED  BY <2>1, <2>3, <2>5, <3>2, <3>3, <4>1
    <3>4. CASE g.queue # <<>>
      <4> DEFINE c == Head(g.queue)
      <4> HIDE DEF g, h
      <4>1. PICK i \in Nat : Border(g, src, dst, i, {}, D) /\ c \in Within(src, i)
        BY <3>2, <3>4, NextServed
      <4>2. /\ Grown(h, src, (k - 1) + 1)
            /\ IF h.found THEN dst \in DOMAIN h.prev ELSE Border(h, src, dst, i, {}, D \cup {c})
            /\ c \in Pods \ D
        <5> DEFINE w == Round(Adjacency(topology), dst, g)
        <5>1. /\ Grown(w, src, (k - 1) + 1)
              /\ IF w.found THEN dst \in DOMAIN w.prev ELSE Border(w, src, dst, i, {}, D \cup {c})
              /\ c \in Pods \ D
          BY <2>1, <2>2, <3>4, <4>1, RoundGrows, Zenon
        <5> HIDE DEF w
        <5>2. h = w
          BY <2>1 DEF w, A
        <5> QED  BY <5>1, <5>2
      <4>3. Cardinality(D \cup {c}) = k /\ D \cup {c} \in SUBSET Pods
        <5>1. IsFiniteSet(D)
          BY ToolAssumption, FS_Subset
        <5> QED  BY <2>1, <3>2, <3>4, <4>2, <5>1, FS_AddElement
      <4>4. h = f[k]
        BY DEF h
      <4> QED  BY <2>1, <4>2, <4>3, <4>4
    <3> QED  BY <3>3, <3>4
  <2> QED  BY <2>4, <2>5
<1>5. N \in K
  <2> HIDE DEF K
  <2> QED  BY <1>1, <1>3, <1>4, Climb
<1>6. /\ Grown(s, src, N)
      /\ IF s.found THEN dst \in DOMAIN s.prev
         ELSE \E m \in Nat : \E D \in SUBSET Pods :
                /\ Border(s, src, dst, m, {}, D)
                /\ s.queue = <<>> \/ Cardinality(D) = N
  BY <1>2, <1>5
<1>7. ASSUME ~ s.found PROVE dst \notin Within(src, N)
  <2>1. PICK m \in Nat : \E D \in SUBSET Pods :
          Border(s, src, dst, m, {}, D) /\ (s.queue = <<>> \/ Cardinality(D) = N)
    BY <1>6, <1>7
  <2>2. PICK D \in SUBSET Pods :
          Border(s, src, dst, m, {}, D) /\ (s.queue = <<>> \/ Cardinality(D) = N)
    BY <2>1
  <2>3. DOMAIN s.prev \subseteq Pods
    BY <1>1, <1>6, WithinPods DEF Grown
  <2>4. \A p \in DOMAIN s.prev : ~ Has(s.queue, p)
    <3>1. CASE s.queue = <<>>
      BY <3>1 DEF Has
    <3>2. CASE Cardinality(D) = N
      <4>1. D = Pods
        BY <3>2, ToolAssumption, FS_Subset DEF N
      <4> QED  BY <2>2, <2>3, <4>1 DEF Border
    <3> QED  BY <2>2, <3>1, <3>2
  <2>5. \A p \in DOMAIN s.prev : Closed(s, p)
    BY <2>2, <2>4 DEF Border
  <2>6. Within(src, N) \subseteq DOMAIN s.prev
    BY <1>1, <1>6, <2>5, AllSeen DEF Grown
  <2> QED  BY <2>2, <2>6 DEF Border
<1> QED  BY <1>6, <1>7 DEF s, N, A

----------------------------------------------------------------------------
(* The way back.                                                            *)

\* A pod is at one distance only.
LEMMA AwayOne ==
  ASSUME NEW a \in Pods, NEW p, NEW k \in Nat, NEW j \in Nat, Away(a, p, k), Away(a, p, j)
  PROVE  k = j
<1>1. ASSUME NEW x \in Nat, NEW y \in Nat, Away(a, p, x), Away(a, p, y), x < y PROVE FALSE
  <2>1. y - 1 \in Nat /\ x <= y - 1 /\ y # 0
    BY <1>1
  <2>2. Within(a, x) \subseteq Within(a, y - 1)
    BY <2>1, WithinMore
  <2> QED  BY <1>1, <2>1, <2>2 DEF Away
<1>2. k < j \/ j < k \/ k = j
  OBVIOUS
<1> QED  BY <1>1, <1>2

\* f[i] is i steps back from dst.
Backed(f, prev, dst, n) ==
  f = [i \in 0 .. n |-> IF i = 0 THEN dst ELSE IF f[i - 1] = None THEN None ELSE prev[f[i - 1]]]

LEMMA BackedExists ==
  ASSUME NEW prev, NEW dst, NEW n \in Nat
  PROVE  \E f : Backed(f, prev, dst, n)
<1> DEFINE K == {k \in Nat : \E f : Backed(f, prev, dst, k)}
           Up(x) == IF x = None THEN None ELSE prev[x]
<1>1. 0 \in K
  <2> DEFINE f == [k \in 0 .. 0 |-> dst]
  <2>1. \A k \in 0 .. 0 : k = 0
    OBVIOUS
  <2>2. f = [k \in 0 .. 0 |-> IF k = 0 THEN dst ELSE Up(f[k - 1])]
    BY <2>1, Zenon
  <2>3. Backed(f, prev, dst, 0)
    BY <2>2, Zenon DEF Backed
  <2> QED  BY <2>3
<1>2. ASSUME NEW k \in 1 .. n, k - 1 \in K PROVE k \in K
  <2>1. PICK f : Backed(f, prev, dst, k - 1)
    BY <1>2
  <2> DEFINE g == [x \in 0 .. k |-> IF x = k THEN Up(f[k - 1]) ELSE f[x]]
  <2>2. \A x \in 0 .. k - 1 : f[x] = IF x = 0 THEN dst ELSE Up(f[x - 1])
    BY <2>1, Zenon DEF Backed
  <2> HIDE DEF Up
  <2>3. ASSUME NEW x \in 0 .. k
        PROVE  g[x] = IF x = 0 THEN dst ELSE Up(g[x - 1])
    <3>1. CASE x = k
      <4>1. x - 1 \in 0 .. k /\ x - 1 # k /\ x # 0
        BY <3>1
      <4>2. g[x - 1] = f[x - 1]
        BY <4>1
      <4>3. g[x] = Up(f[k - 1])
        BY <3>1
      <4> HIDE DEF g
      <4> QED  BY <3>1, <4>1, <4>2, <4>3
    <3>2. CASE x # k
      <4>1. x \in 0 .. k - 1 /\ g[x] = f[x]
        BY <3>2
      <4>2. x # 0 => x - 1 \in 0 .. k /\ x - 1 # k
        BY <3>2
      <4>3. x # 0 => g[x - 1] = f[x - 1]
        BY <4>2
      <4> HIDE DEF g
      <4> QED  BY <2>2, <4>1, <4>3
    <3> QED  BY <3>1, <3>2
  <2>4. g = [x \in 0 .. k |-> IF x = 0 THEN dst ELSE Up(g[x - 1])]
    BY <2>3, Zenon
  <2>5. Backed(g, prev, dst, k)
    BY <2>4, Zenon DEF Backed, Up
  <2> QED  BY <2>5
<1>3. n \in K
  <2> HIDE DEF K
  <2> QED  BY <1>1, <1>2, Climb
<1> QED  BY <1>3

\* The steps back, and how many of them lead to a pod.
StepsBack(f, prev, dst, N) ==
  /\ f[0] = dst
  /\ \A i \in 1 .. N : f[i] = IF f[i - 1] = None THEN None ELSE prev[f[i - 1]]
  /\ LET n == Cardinality({i \in 0 .. N : f[i] # None})
     IN Back(prev, dst) = [i \in 1 .. n |-> f[n - i]]

LEMMA BackIs ==
  ASSUME NEW prev, NEW dst
  PROVE  \E f : StepsBack(f, prev, dst, Cardinality(Pods))
<1> DEFINE N == Cardinality(Pods)
           f == CHOOSE g : Backed(g, prev, dst, N)
           n == Cardinality({i \in DOMAIN f : f[i] # None})
<1>1. N \in Nat
  BY ToolAssumption, FS_CardinalityType
<1>2. Backed(f, prev, dst, N)
  BY <1>1, BackedExists, Zenon
<1>3. Back(prev, dst) = [i \in 1 .. n |-> f[n - i]]
  BY Zenon DEF Back, Backed
<1> HIDE DEF f
<1>4. DOMAIN f = 0 .. N
  BY <1>2, Zenon DEF Backed
<1>5. Back(prev, dst) = LET k == Cardinality({i \in 0 .. N : f[i] # None})
                        IN [i \in 1 .. k |-> f[k - i]]
  BY <1>3, <1>4
<1> HIDE DEF N
<1>6. \A i \in 0 .. N : f[i] = IF i = 0 THEN dst ELSE IF f[i - 1] = None THEN None ELSE prev[f[i - 1]]
  BY <1>2, Zenon DEF Backed
<1>7. f[0] = dst
  BY <1>1, <1>6
<1>8. ASSUME NEW i \in 1 .. N PROVE f[i] = IF f[i - 1] = None THEN None ELSE prev[f[i - 1]]
  <2>1. i \in 0 .. N /\ i # 0
    OBVIOUS
  <2> QED  BY <1>6, <2>1
<1>9. StepsBack(f, prev, dst, N)
  BY <1>5, <1>7, <1>8, Zenon DEF StepsBack
<1> QED  BY <1>9, Zenon DEF N

\* A shortest way from src to dst, along links.
Shortest(path, src, dst, L) ==
  /\ path \in Seq(Pods) /\ Len(path) = L + 1 /\ path[1] = src /\ path[L + 1] = dst
  /\ \A i \in 1 .. L : Near(path[i], path[i + 1]) /\ path[i] # path[i + 1]
  /\ dst \notin Within(src, L - 1)

\* The steps back from a pod that the search has seen.
LEMMA BackRight ==
  ASSUME NEW src \in Pods, NEW dst \in Pods, src # dst, NEW s,
         Grown(s, src, Cardinality(Pods)), dst \in DOMAIN s.prev
  PROVE  \E L \in Nat \ {0} : Shortest(Back(s.prev, dst), src, dst, L)
<1> DEFINE N == Cardinality(Pods)
           S == DOMAIN s.prev
<1>1. N \in Nat
  BY ToolAssumption, FS_CardinalityType
<1>2. PICK f : StepsBack(f, s.prev, dst, N)
  BY BackIs, Zenon
<1> HIDE DEF N
<1>3. /\ S \subseteq Within(src, N) /\ src \in S /\ s.prev[src] = None
      /\ \A p \in S \ {src} :
           /\ s.prev[p] \in S /\ Near(s.prev[p], p)
           /\ \E k \in Nat : Away(src, s.prev[p], k) /\ Away(src, p, k + 1)
  BY DEF Grown, N
<1>4. S \subseteq Pods /\ None \notin S
  <2>1. S \subseteq Pods
    BY <1>1, <1>3, WithinPods
  <2> QED  BY <2>1, ToolAssumption
<1>5. PICK L \in Nat \ {0} : Away(src, dst, L)
  <2>1. PICK k \in Nat : Away(src, dst, k + 1)
    BY <1>3
  <2>2. k + 1 \in Nat \ {0}
    OBVIOUS
  <2> QED  BY <2>1, <2>2
<1>6. L <= N
  <2> SUFFICES ASSUME N < L PROVE FALSE
    BY <1>1
  <2>1. L - 1 \in Nat /\ N <= L - 1 /\ L # 0
    BY <1>1
  <2>2. Within(src, N) \subseteq Within(src, L - 1)
    BY <1>1, <2>1, WithinMore
  <2> QED  BY <1>3, <1>5, <2>1, <2>2 DEF Away
<1>7. f[0] = dst /\ \A i \in 1 .. N : f[i] = IF f[i - 1] = None THEN None ELSE s.prev[f[i - 1]]
  BY <1>2, Zenon DEF StepsBack
<1> HIDE DEF S
<1>8. ASSUME NEW i \in 1 .. L, f[i - 1] \in S, Away(src, f[i - 1], L - (i - 1))
      PROVE  /\ f[i] \in S /\ Away(src, f[i], L - i) /\ Near(f[i], f[i - 1]) /\ f[i] # f[i - 1]
  <2> DEFINE p == f[i - 1]
  <2>1. i \in 1 .. N /\ L - i \in Nat /\ L - (i - 1) = (L - i) + 1 /\ L - (i - 1) \in Nat \ {0}
        /\ (L - (i - 1)) - 1 = L - i
    BY <1>1, <1>6
  <2>2. p # src
    <3>1. src \in Within(src, L - i)
      BY <2>1, WithinPods
    <3> QED  BY <1>8, <2>1, <3>1 DEF Away
  <2>3. f[i] = s.prev[p]
    BY <1>4, <1>7, <1>8, <2>1
  <2> HIDE DEF p
  <2>4. p \in S \ {src}
    BY <1>8, <2>2 DEF p
  <2>5. PICK k \in Nat : Away(src, s.prev[p], k) /\ Away(src, p, k + 1)
    BY <1>3, <2>4
  <2>6. k = L - i
    <3>1. k + 1 \in Nat /\ Away(src, p, L - (i - 1))
      BY <1>8 DEF p
    <3>2. k + 1 = L - (i - 1)
      BY <2>1, <2>5, <3>1, AwayOne
    <3> QED  BY <2>1, <3>2
  <2>7. s.prev[p] # p
    <3> SUFFICES ASSUME s.prev[p] = p PROVE FALSE
      OBVIOUS
    <3>1. k + 1 \in Nat /\ Away(src, p, k)
      BY <2>5
    <3>2. k = k + 1
      BY <2>5, <3>1, AwayOne
    <3> QED  BY <3>2
  <2> QED  BY <1>3, <2>3, <2>4, <2>5, <2>6, <2>7 DEF p
<1> DEFINE K == {i \in 0 .. L : f[i] \in S /\ Away(src, f[i], L - i)}
<1>9. ASSUME NEW i \in 0 .. L PROVE i \in K
  <2>1. 0 \in K
    <3>1. dst \in S
      BY DEF S
    <3> QED  BY <1>5, <1>7, <3>1
  <2>2. \A k \in 1 .. i : k - 1 \in K => k \in K
    <3>1. ASSUME NEW k \in 1 .. i, k - 1 \in K PROVE k \in K
      <4>1. k \in 1 .. L /\ k \in 0 .. L
        OBVIOUS
      <4> QED  BY <1>8, <3>1, <4>1
    <3> QED  BY <3>1
  <2> HIDE DEF K
  <2> QED  BY <2>1, <2>2, Climb
<1>10. \A i \in 0 .. L : f[i] \in S
  BY <1>9
<1>11. \A i \in 1 .. L : Near(f[i], f[i - 1]) /\ f[i] # f[i - 1]
  <2>1. ASSUME NEW i \in 1 .. L PROVE Near(f[i], f[i - 1]) /\ f[i] # f[i - 1]
    <3>1. i - 1 \in 0 .. L
      OBVIOUS
    <3> QED  BY <1>8, <1>9, <3>1
  <2> QED  BY <2>1
<1>12. f[L] = src
  <2>1. L \in 0 .. L /\ L - L = 0
    OBVIOUS
  <2>2. f[L] \in Within(src, 0)
    BY <1>9, <2>1 DEF Away
  <2> QED  BY <2>2, WithinNext
<1>13. ASSUME NEW i \in L + 1 .. N PROVE f[i] = None
  <2> DEFINE n == i - (L + 1)
             J == {k \in 0 .. n : f[k + (L + 1)] = None}
  <2>1. n \in Nat /\ L + 1 \in 1 .. N /\ (L + 1) - 1 = L
    BY <1>1
  <2>2. 0 \in J
    <3>1. f[L + 1] = None
      <4>1. f[L + 1] = IF f[L] = None THEN None ELSE s.prev[f[L]]
        BY <1>7, <2>1
      <4> QED  BY <1>3, <1>12, <4>1
    <3>2. 0 + (L + 1) = L + 1
      OBVIOUS
    <3> QED  BY <2>1, <3>1, <3>2
  <2>3. ASSUME NEW k \in 1 .. n, k - 1 \in J PROVE k \in J
    <3>1. /\ k + (L + 1) \in 1 .. N /\ (k + (L + 1)) - 1 = (k - 1) + (L + 1) /\ k \in 0 .. n
      BY <1>1, <2>1
    <3>2. f[k + (L + 1)] = None
      BY <1>7, <2>3, <3>1
    <3> QED  BY <3>1, <3>2
  <2>4. n \in J
    <3> HIDE DEF J, n
    <3> QED  BY <2>1, <2>2, <2>3, Climb
  <2>5. n + (L + 1) = i
    BY <1>1
  <2> QED  BY <2>4, <2>5
<1>14. {i \in 0 .. N : f[i] # None} = 0 .. L
  <2>1. \A i \in 0 .. L : i \in 0 .. N /\ f[i] # None
    BY <1>1, <1>4, <1>6, <1>10
  <2>2. \A i \in 0 .. N : i \in 0 .. L \/ i \in L + 1 .. N
    BY <1>1
  <2> QED  BY <1>13, <2>1, <2>2
<1>15. Cardinality(0 .. L) = L + 1
  BY FS_Interval
<1> DEFINE path == Back(s.prev, dst)
<1>16. path = [i \in 1 .. L + 1 |-> f[(L + 1) - i]]
  BY <1>2, <1>14, <1>15, Zenon DEF StepsBack
<1>17. \A i \in 1 .. L + 1 : path[i] = f[(L + 1) - i] /\ (L + 1) - i \in 0 .. L
  BY <1>16
<1>18. path \in Seq(Pods) /\ Len(path) = L + 1
  BY <1>4, <1>10, <1>16
<1>19. path[1] = src /\ path[L + 1] = dst
  <2>1. 1 \in 1 .. L + 1 /\ L + 1 \in 1 .. L + 1 /\ (L + 1) - 1 = L /\ (L + 1) - (L + 1) = 0
    OBVIOUS
  <2> QED  BY <1>7, <1>12, <1>17, <2>1
<1> HIDE DEF path
<1>20. ASSUME NEW i \in 1 .. L
       PROVE  Near(path[i], path[i + 1]) /\ path[i] # path[i + 1]
  <2> DEFINE j == (L + 1) - i
  <2>1. /\ i \in 1 .. L + 1 /\ i + 1 \in 1 .. L + 1 /\ j \in 1 .. L
        /\ (L + 1) - (i + 1) = j - 1
    OBVIOUS
  <2>2. path[i] = f[j] /\ path[i + 1] = f[j - 1]
    BY <1>17, <2>1
  <2> HIDE DEF j
  <2> QED  BY <1>11, <2>1, <2>2
<1>21. dst \notin Within(src, L - 1)
  BY <1>5 DEF Away
<1>22. Shortest(path, src, dst, L)
  BY <1>18, <1>19, <1>20, <1>21 DEF Shortest
<1> QED  BY <1>22 DEF path

\* BFSPath: a shortest way when links lead there, and none when they do not.
LEMMA BFSPathRight ==
  ASSUME topology \in Seq(Pods \X Pods), NEW src \in Pods, NEW dst \in Pods
  PROVE  LET path == BFSPath(Adjacency(topology), src, dst) IN
         IF dst \in Within(src, Cardinality(Pods))
         THEN /\ path # <<>> /\ Head(path) = src /\ Last(path) = dst
              /\ \A i \in 1 .. Len(path) - 1 : path[i + 1] \in Within(path[i], 1) \ {path[i]}
              /\ src # dst => dst \notin Within(src, Len(path) - 2)
         ELSE path = <<>>
<1> DEFINE path == BFSPath(Adjacency(topology), src, dst)
           N == Cardinality(Pods)
<1>1. N \in Nat
  BY ToolAssumption, FS_CardinalityType
<1>2. CASE src = dst
  <2>1. path = <<src>>
    BY <1>2 DEF BFSPath
  <2>2. src \in Within(src, N)
    BY <1>1, WithinPods
  <2> HIDE DEF path
  <2>3. path # <<>> /\ Head(path) = src /\ Last(path) = dst /\ Len(path) = 1
    BY <1>2, <2>1 DEF Last
  <2>4. \A i \in 1 .. Len(path) - 1 : FALSE
    BY <2>3
  <2> QED  BY <1>2, <2>2, <2>3, <2>4 DEF path
<1>3. CASE src # dst
  <2> DEFINE s == Search(Adjacency(topology), src, dst)
  <2>1. /\ s.found => dst \in DOMAIN s.prev /\ Grown(s, src, N)
        /\ ~ s.found => dst \notin Within(src, N)
    BY <1>3, SearchRight, Zenon
  <2>2. path = IF s.found THEN Back(s.prev, dst) ELSE <<>>
    BY <1>3, Zenon DEF BFSPath
  <2> HIDE DEF s, path, N
  <2>3. CASE ~ s.found
    BY <2>1, <2>2, <2>3 DEF path, N
  <2>4. CASE s.found
    <3>1. dst \in Within(src, N)
      BY <2>1, <2>4 DEF Grown
    <3>2. PICK L \in Nat \ {0} : Shortest(Back(s.prev, dst), src, dst, L)
      BY <1>3, <2>1, <2>4, BackRight DEF N
    <3>3. Shortest(path, src, dst, L)
      BY <2>2, <2>4, <3>2
    <3>4. /\ path \in Seq(Pods) /\ Len(path) = L + 1 /\ path[1] = src /\ path[L + 1] = dst
          /\ \A i \in 1 .. L : Near(path[i], path[i + 1]) /\ path[i] # path[i + 1]
          /\ dst \notin Within(src, L - 1)
      BY <3>3 DEF Shortest
    <3>5. path # <<>> /\ Head(path) = src /\ Last(path) = dst /\ Len(path) - 1 = L
          /\ Len(path) - 2 = L - 1
      BY <3>4 DEF Last
    <3>6. ASSUME NEW i \in 1 .. L PROVE path[i + 1] \in Within(path[i], 1) \ {path[i]}
      <4>1. path[i] \in Pods /\ path[i + 1] \in Pods
        BY <3>4
      <4>2. Near(path[i], path[i + 1]) /\ path[i] # path[i + 1]
        BY <3>4
      <4> QED  BY <4>1, <4>2, WithinOne
    <3> QED  BY <3>1, <3>4, <3>5, <3>6 DEF path, N
  <2> QED  BY <2>3, <2>4
<1> QED  BY <1>2, <1>3

----------------------------------------------------------------------------
(* Traces: the hops they draw.                                              *)

\* From, of hops and a source.
Origins(hs, k) == {i \in 1 .. k - 1 : hs[i].hop.kind = "l3"}
Latest(hs, src, O) ==
  IF O = {} THEN src ELSE hs[CHOOSE i \in O : \A j \in O : j <= i].hop.node
DrawnFrom(hs, src, k) == Latest(hs, src, Origins(hs, k))

\* A hop on the way from a pod to another.
Route(T, p, q) ==
  LET w == Paths[T][p][q]
  IN [kind |-> "l3", node |-> q, segment |-> IF w # <<>> THEN "link" ELSE "tunnel",
      path |-> IF w # <<>> THEN w ELSE <<p, q>>]

\* Every resolved hop was drawn from the one before.
Drawn(T, hs, src, prev) ==
  /\ prev = DrawnFrom(hs, src, Len(hs) + 1)
  /\ \A k \in 1 .. Len(hs) : hs[k].hop.kind = "l3" =>
       /\ DrawnFrom(hs, src, k) \in Pods /\ hs[k].hop.node \in Pods
       /\ hs[k].hop = Route(T, DrawnFrom(hs, src, k), hs[k].hop.node)

LEMMA DrawnNext ==
  ASSUME NEW T, NEW src, NEW prev \in Pods, NEW hs \in Seq(Emitted), NEW e \in Emitted,
         Drawn(T, hs, src, prev),
         e.hop.kind = "l3" => e.hop.node \in Pods /\ e.hop = Route(T, prev, e.hop.node)
  PROVE  Drawn(T, Append(hs, e), src, IF e.hop.kind = "l3" THEN e.hop.node ELSE prev)
<1> DEFINE n == Len(hs)
           gs == Append(hs, e)
<1>1. /\ n \in Nat /\ Len(gs) = n + 1 /\ gs[n + 1] = e /\ \A i \in 1 .. n : gs[i] = hs[i]
  OBVIOUS
<1> HIDE DEF gs, n
<1>2. ASSUME NEW k \in 1 .. n + 1 PROVE DrawnFrom(gs, src, k) = DrawnFrom(hs, src, k)
  <2>1. \A i \in 1 .. k - 1 : gs[i] = hs[i]
    BY <1>1
  <2>2. Origins(gs, k) = Origins(hs, k)
    BY <2>1 DEF Origins
  <2> DEFINE O == Origins(hs, k)
             i == CHOOSE x \in O : \A y \in O : y <= x
  <2>3. CASE O = {}
    BY <2>2, <2>3 DEF DrawnFrom, Latest
  <2>4. CASE O # {}
    <3>1. O \in SUBSET (1 .. n) /\ \A x \in O : x <= k
      BY <1>1 DEF Origins
    <3>2. \E x \in O : \A y \in O : y <= x
      <4>1. {k - x : x \in O} \in SUBSET Nat /\ {k - x : x \in O} # {}
        BY <1>1, <2>4, <3>1
      <4>2. PICK z \in {k - x : x \in O} : \A y \in {k - x : x \in O} : z <= y
        BY <4>1, LeastNumber
      <4>3. PICK x \in O : z = k - x
        BY <4>2
      <4>4. \A y \in O : k - x <= k - y
        BY <4>2, <4>3
      <4>5. \A y \in O : y <= x
        BY <3>1, <4>4
      <4> QED  BY <4>5
    <3>3. i \in O
      BY <3>2
    <3>4. hs[i] = gs[i]
      BY <2>1, <3>3 DEF Origins
    <3> HIDE DEF i
    <3>5. DrawnFrom(hs, src, k) = hs[i].hop.node
      BY <2>4, Zenon DEF DrawnFrom, Latest, i
    <3>6. DrawnFrom(gs, src, k) = gs[i].hop.node
      BY <2>2, <2>4, Zenon DEF DrawnFrom, Latest, i
    <3> QED  BY <3>4, <3>5, <3>6
  <2> QED  BY <2>3, <2>4
<1>3. DrawnFrom(gs, src, (n + 1) + 1) = IF e.hop.kind = "l3" THEN e.hop.node ELSE prev
  <2> DEFINE O == Origins(gs, (n + 1) + 1)
             i == CHOOSE x \in O : \A y \in O : y <= x
  <2>1. 1 .. ((n + 1) + 1) - 1 = (1 .. n) \cup {n + 1} /\ 1 .. (n + 1) - 1 = 1 .. n
    BY <1>1
  <2>2. CASE e.hop.kind = "l3"
    <3>1. n + 1 \in O /\ \A y \in O : y <= n + 1 /\ y \in Nat
      BY <1>1, <2>1, <2>2 DEF Origins
    <3>2. i = n + 1
      <4>1. \A x \in O : (\A y \in O : y <= x) => x = n + 1
        BY <1>1, <3>1
      <4> HIDE DEF O
      <4> QED  BY <3>1, <4>1
    <3>3. DrawnFrom(gs, src, (n + 1) + 1) = gs[i].hop.node
      BY <3>1, Zenon DEF DrawnFrom, Latest
    <3> QED  BY <1>1, <2>2, <3>2, <3>3
  <2>3. CASE e.hop.kind # "l3"
    <3>1. O = Origins(gs, n + 1)
      BY <1>1, <2>1, <2>3 DEF Origins
    <3>2. DrawnFrom(gs, src, (n + 1) + 1) = DrawnFrom(gs, src, n + 1)
      BY <3>1, Zenon DEF DrawnFrom
    <3>3. DrawnFrom(gs, src, n + 1) = DrawnFrom(hs, src, n + 1)
      BY <1>1, <1>2
    <3>4. DrawnFrom(hs, src, n + 1) = prev
      BY DEF Drawn, n
    <3> QED  BY <2>3, <3>2, <3>3, <3>4
  <2> QED  BY <2>2, <2>3
<1>4. ASSUME NEW k \in 1 .. Len(gs), gs[k].hop.kind = "l3"
      PROVE  /\ DrawnFrom(gs, src, k) \in Pods /\ gs[k].hop.node \in Pods
             /\ gs[k].hop = Route(T, DrawnFrom(gs, src, k), gs[k].hop.node)
  <2>1. DrawnFrom(gs, src, k) = DrawnFrom(hs, src, k)
    BY <1>1, <1>2
  <2>2. CASE k \in 1 .. n
    <3>1. gs[k] = hs[k]
      BY <1>1, <2>2
    <3> QED  BY <1>4, <2>1, <2>2, <3>1 DEF Drawn, n
  <2>3. CASE k \notin 1 .. n
    <3>1. k = n + 1
      BY <1>1, <2>3
    <3>2. DrawnFrom(gs, src, k) = prev
      BY <2>1, <3>1 DEF Drawn, n
    <3> QED  BY <1>1, <1>4, <3>1, <3>2
  <2> QED  BY <2>2, <2>3
<1>5. Drawn(T, gs, src, IF e.hop.kind = "l3" THEN e.hop.node ELSE prev)
  BY <1>1, <1>3, <1>4, Zenon DEF Drawn
<1> QED  BY <1>5 DEF gs

\* Such hops are what PathsReal says.
LEMMA DrawnReal ==
  ASSUME topology \in {s.topology : s \in Scenarios}, NEW r \in Runs,
         run[r].hops \in Seq(Emitted), NEW k \in DOMAIN run[r].hops,
         Drawn(topology, run[r].hops, run[r].src, run[r].prev),
         run[r].hops[k].hop.kind = "l3"
  PROVE  LET h == run[r].hops[k].hop
             p == From(r, k)
         IN IF h.node \in Within(p, Cardinality(Pods))
            THEN /\ h.segment = "link" /\ Head(h.path) = p /\ Last(h.path) = h.node
                 /\ \A i \in 1 .. Len(h.path) - 1 : h.path[i + 1] \in Within(h.path[i], 1) \ {h.path[i]}
                 /\ p # h.node => h.node \notin Within(p, Len(h.path) - 2)
            ELSE h.segment = "tunnel" /\ h.path = <<p, h.node>>
<1> DEFINE hs == run[r].hops
           h == hs[k].hop
           p == From(r, k)
<1>1. topology \in Seq(Pods \X Pods)
  BY ToolAssumption
<1>2. p = DrawnFrom(hs, run[r].src, k)
  BY Zenon DEF From, DrawnFrom, Latest, Origins
<1>3. k \in 1 .. Len(hs)
  OBVIOUS
<1>4. p \in Pods /\ h.node \in Pods /\ h = Route(topology, p, h.node)
  BY <1>2, <1>3 DEF Drawn
<1> HIDE DEF p, h
<1> DEFINE w == Paths[topology][p][h.node]
           q == h.node
           path == BFSPath(Adjacency(topology), p, q)
<1>5. w = path
  BY <1>4 DEF Paths
<1>6. IF q \in Within(p, Cardinality(Pods))
      THEN /\ path # <<>> /\ Head(path) = p /\ Last(path) = q
           /\ \A i \in 1 .. Len(path) - 1 : path[i + 1] \in Within(path[i], 1) \ {path[i]}
           /\ p # q => q \notin Within(p, Len(path) - 2)
      ELSE path = <<>>
  BY <1>1, <1>4, BFSPathRight, Zenon
<1> HIDE DEF path, w
<1>7. /\ h.segment = IF w # <<>> THEN "link" ELSE "tunnel"
      /\ h.path = IF w # <<>> THEN w ELSE <<p, q>>
  <2>1. h = [kind |-> "l3", node |-> q, segment |-> IF w # <<>> THEN "link" ELSE "tunnel",
             path |-> IF w # <<>> THEN w ELSE <<p, q>>]
    BY <1>4, Zenon DEF Route, w
  <2> HIDE DEF q
  <2> QED  BY <2>1
<1>8. CASE q \in Within(p, Cardinality(Pods))
  <2>1. h.segment = "link" /\ h.path = path
    BY <1>5, <1>6, <1>7, <1>8
  <2> QED  BY <1>6, <1>8, <2>1 DEF p, h
<1>9. CASE q \notin Within(p, Cardinality(Pods))
  <2>1. h.segment = "tunnel" /\ h.path = <<p, q>>
    BY <1>5, <1>6, <1>7, <1>9
  <2> QED  BY <1>9, <2>1 DEF p, h
<1> QED  BY <1>8, <1>9

\* A step that leaves the hops of a run alone.
HopsKept(b, c) == c.hops = b.hops /\ c.prev = b.prev /\ c.src = b.src

LEMMA EndQuiet ==
  ASSUME Typed, NEW q \in Runs, NEW res, End(q, res)
  PROVE  \A r \in Runs : HopsKept(run[r], run'[r])
<1>1. /\ run'[q] = [run[q] EXCEPT !.pc = "done", !.result = res]
      /\ \A r \in Runs \ {q} : run'[r] = run[r]
  BY DEF Typed, End
<1>2. run[q] \in Run
  BY DEF Typed
<1>3. HopsKept(run[q], run'[q])
  BY <1>1, <1>2 DEF HopsKept, Run, Record
<1> QED  BY <1>1, <1>3 DEF HopsKept

\* All steps of a handler but the pump's on a hop.
LEMMA HandlerQuiet ==
  ASSUME Typed, NEW q \in Runs, Handler(q), ~ PumpHop(q)
  PROVE  \A r \in Runs : HopsKept(run[r], run'[r])
<1> DEFINE All == \A r \in Runs : HopsKept(run[r], run'[r])
           c == run[q]
           d == run'[q]
           Alone == \A r \in Runs \ {q} : run'[r] = run[r]
<1>1. run \in [Runs -> Run] /\ c \in Run
  BY DEF Typed
<1>2. ASSUME NEW res, End(q, res) PROVE All
  BY <1>2, EndQuiet
<1>3. ASSUME HopsKept(c, d), Alone PROVE All
  BY <1>3 DEF HopsKept
<1> SUFFICES All
  OBVIOUS
<1> HIDE DEF All
<1>4. CASE PrepareIperf(q)
  <2>1. ASSUME NEW p, run' = [run EXCEPT ![q].pc = "server", ![q].port = p] PROVE All
    <3>1. d = [c EXCEPT !.pc = "server", !.port = p] /\ Alone
      BY <1>1, <2>1
    <3>2. HopsKept(c, d)
      <4> HIDE DEF c, d
      <4> QED  BY <1>1, <3>1 DEF HopsKept, Run, Record
    <3> QED  BY <1>3, <3>1, <3>2
  <2>2. ASSUME run' = [run EXCEPT ![q].pc = "client"] PROVE All
    <3>1. d = [c EXCEPT !.pc = "client"] /\ Alone
      BY <1>1, <2>2
    <3>2. HopsKept(c, d)
      <4> HIDE DEF c, d
      <4> QED  BY <1>1, <3>1 DEF HopsKept, Run, Record
    <3> QED  BY <1>3, <3>1, <3>2
  <2> QED  BY <1>2, <1>4, <2>1, <2>2 DEF PrepareIperf
<1>5. CASE BuildTraceIPIndex(q)
  <2>1. PICK ok, m : run' = [run EXCEPT ![q].resolves = ok, ![q].metrics = m,
                                        ![q].pc = IF m THEN "mtr" ELSE "stream"]
    BY <1>5 DEF BuildTraceIPIndex
  <2> DEFINE p == IF m THEN "mtr" ELSE "stream"
  <2> HIDE DEF p
  <2>2. d = [c EXCEPT !.resolves = ok, !.metrics = m, !.pc = p] /\ Alone
    BY <1>1, <2>1 DEF p
  <2>3. HopsKept(c, d)
    <3> HIDE DEF c, d
    <3> QED  BY <1>1, <2>2 DEF HopsKept, Run, Record
  <2> QED  BY <1>3, <2>2, <2>3
<1>6. CASE StartStream(q) \/ StartIperfClient(q)
  <2>1. d = [c EXCEPT !.pc = "streaming", !.exec = TRUE, !.pump = TRUE] /\ Alone
    BY <1>1, <1>6 DEF StartStream, StartIperfClient
  <2>2. HopsKept(c, d)
    <3> HIDE DEF c, d
    <3> QED  BY <1>1, <2>1 DEF HopsKept, Run, Record
  <2> QED  BY <1>3, <2>1, <2>2
<1>7. CASE PumpPacket(q)
  <2>1. d = [c EXCEPT !.ctx = TRUE, !.pump = FALSE] /\ Alone
    BY <1>1, <1>7 DEF PumpPacket
  <2>2. HopsKept(c, d)
    <3> HIDE DEF c, d
    <3> QED  BY <1>1, <2>1 DEF HopsKept, Run, Record
  <2> QED  BY <1>3, <2>1, <2>2
<1>8. CASE PumpEnds(q)
  <2>1. d = [c EXCEPT !.pump = FALSE] /\ Alone
    BY <1>1, <1>8 DEF PumpEnds
  <2>2. HopsKept(c, d)
    <3> HIDE DEF c, d
    <3> QED  BY <1>1, <2>1 DEF HopsKept, Run, Record
  <2> QED  BY <1>3, <2>1, <2>2
<1>9. CASE ExecReturns(q)
  <2>1. d = [c EXCEPT !.exec = FALSE, !.pipe = None] /\ Alone
    BY <1>1, <1>9 DEF ExecReturns
  <2>2. HopsKept(c, d)
    <3> HIDE DEF c, d
    <3> QED  BY <1>1, <2>1 DEF HopsKept, Run, Record
  <2> QED  BY <1>3, <2>1, <2>2
<1>10. CASE EndCapture(q)
  <2>1. d = [c EXCEPT !.pc = "done", !.ctx = TRUE] /\ Alone
    BY <1>1, <1>10 DEF EndCapture
  <2>2. HopsKept(c, d)
    <3> HIDE DEF c, d
    <3> QED  BY <1>1, <2>1 DEF HopsKept, Run, Record
  <2> QED  BY <1>3, <2>1, <2>2
<1>11. CASE StartIperfServer(q)
  <2>1. d = [c EXCEPT !.pc = "listen"] /\ Alone
    BY <1>1, <1>11 DEF StartIperfServer
  <2>2. HopsKept(c, d)
    <3> HIDE DEF c, d
    <3> QED  BY <1>1, <2>1 DEF HopsKept, Run, Record
  <2> QED  BY <1>3, <2>1, <2>2
<1>12. CASE SeeListening(q)
  <2>1. d = [c EXCEPT !.pc = "client"] /\ Alone
    BY <1>1, <1>12 DEF SeeListening
  <2>2. HopsKept(c, d)
    <3> HIDE DEF c, d
    <3> QED  BY <1>1, <2>1 DEF HopsKept, Run, Record
  <2> QED  BY <1>3, <2>1, <2>2
<1>13. CASE PingFails(q) \/ Deadline(q)
  <2>1. d = [c EXCEPT !.ctx = TRUE] /\ Alone
    BY <1>1, <1>13 DEF PingFails, Deadline
  <2>2. HopsKept(c, d)
    <3> HIDE DEF c, d
    <3> QED  BY <1>1, <2>1 DEF HopsKept, Run, Record
  <2> QED  BY <1>3, <2>1, <2>2
<1>14. CASE SeeGone(q)
  <2>1. d = [c EXCEPT !.ctx = TRUE, !.stop = (@ \/ c.kind = "capture")] /\ Alone
    BY <1>1, <1>14 DEF SeeGone
  <2>2. HopsKept(c, d)
    <3> HIDE DEF c, d
    <3> QED  BY <1>1, <2>1 DEF HopsKept, Run, Record
  <2> QED  BY <1>3, <2>1, <2>2
<1>15. CASE MtrReport(q)
  <2>1. ASSUME run' = [run EXCEPT ![q].pc = "hubs"] PROVE All
    <3>1. d = [c EXCEPT !.pc = "hubs"] /\ Alone
      BY <1>1, <2>1
    <3>2. HopsKept(c, d)
      <4> HIDE DEF c, d
      <4> QED  BY <1>1, <3>1 DEF HopsKept, Run, Record
    <3> QED  BY <1>3, <3>1, <3>2
  <2> QED  BY <1>2, <1>15, <2>1 DEF MtrReport
<1>16. CASE EndIperf(q)
  <2>1. ASSUME run' = [run EXCEPT ![q].pc = "killclient"] PROVE All
    <3>1. d = [c EXCEPT !.pc = "killclient"] /\ Alone
      BY <1>1, <2>1
    <3>2. HopsKept(c, d)
      <4> HIDE DEF c, d
      <4> QED  BY <1>1, <3>1 DEF HopsKept, Run, Record
    <3> QED  BY <1>3, <3>1, <3>2
  <2> QED  BY <1>2, <1>16, <2>1 DEF EndIperf
<1>17. CASE KillClient(q)
  <2>1. PICK p, res : run' = [run EXCEPT ![q].pc = p, ![q].result = res]
    BY <1>17 DEF KillClient
  <2>2. d = [c EXCEPT !.pc = p, !.result = res] /\ Alone
    BY <1>1, <2>1
  <2>3. HopsKept(c, d)
    <3> HIDE DEF c, d
    <3> QED  BY <1>1, <2>2 DEF HopsKept, Run, Record
  <2> QED  BY <1>3, <2>2, <2>3
<1>18. CASE EndMtr(q) \/ EndTrace(q) \/ ServerExited(q) \/ ListenEnds(q) \/ KillServer(q)
  <2>1. \E res : End(q, res)
    BY <1>18 DEF EndMtr, EndTrace, ServerExited, ListenEnds, KillServer
  <2> QED  BY <1>2, <2>1
<1> QED  BY <1>4, <1>5, <1>6, <1>7, <1>8, <1>9, <1>10, <1>11, <1>12, <1>13, <1>14, <1>15, <1>16, <1>17, <1>18, Zenon DEF Handler

\* The steps of the requests, of the browser and of the programs.
LEMMA OutsideQuiet ==
  ASSUME Typed, NEW q \in Runs,
         \/ TraceWebSocket(q) \/ TraceReport(q) \/ CaptureRequest(q) \/ IperfWebSocket(q)
         \/ IperfReport(q) \/ ProbeLine(q) \/ ExecFails(q) \/ ClientGone(q) \/ ProgramEnds(q)
         \/ Killed(q)
  PROVE  \A r \in Runs : HopsKept(run[r], run'[r])
<1> DEFINE All == \A r \in Runs : HopsKept(run[r], run'[r])
           c == run[q]
           d == run'[q]
           Alone == \A r \in Runs \ {q} : run'[r] = run[r]
<1>1. run \in [Runs -> Run] /\ c \in Run
  BY DEF Typed
<1>2. ASSUME End(q, "error") PROVE All
  BY <1>2, EndQuiet
<1>3. ASSUME HopsKept(c, d), Alone PROVE All
  BY <1>3 DEF HopsKept
<1>4. ASSUME run' = run PROVE All
  BY <1>4 DEF HopsKept
<1> SUFFICES All
  OBVIOUS
<1> HIDE DEF All
<1>5. ASSUME NEW x, run' = [run EXCEPT ![q].pc = x] PROVE All
  <2>1. d = [c EXCEPT !.pc = x] /\ Alone
    BY <1>1, <1>5
  <2>2. HopsKept(c, d)
    <3> HIDE DEF c, d
    <3> QED  BY <1>1, <2>1 DEF HopsKept, Run, Record
  <2> QED  BY <1>3, <2>1, <2>2
<1>6. CASE TraceWebSocket(q) \/ TraceReport(q) \/ CaptureRequest(q) \/ IperfWebSocket(q) \/ IperfReport(q)
  BY <1>2, <1>5, <1>6 DEF TraceWebSocket, TraceReport, CaptureRequest, IperfWebSocket, IperfReport
<1>7. CASE ProbeLine(q)
  <2>1. PICK l : run' = [run EXCEPT ![q].pipe = l]
    BY <1>7 DEF ProbeLine
  <2>2. d = [c EXCEPT !.pipe = l] /\ Alone
    BY <1>1, <2>1
  <2>3. HopsKept(c, d)
    <3> HIDE DEF c, d
    <3> QED  BY <1>1, <2>2 DEF HopsKept, Run, Record
  <2> QED  BY <1>3, <2>2, <2>3
<1>8. CASE ExecFails(q)
  <2>1. d = [c EXCEPT !.exec = FALSE, !.result = "error"] /\ Alone
    BY <1>1, <1>8 DEF ExecFails
  <2>2. HopsKept(c, d)
    <3> HIDE DEF c, d
    <3> QED  BY <1>1, <2>1 DEF HopsKept, Run, Record
  <2> QED  BY <1>3, <2>1, <2>2
<1>9. CASE ClientGone(q)
  <2>1. d = [c EXCEPT !.closed = TRUE] /\ Alone
    BY <1>1, <1>9 DEF ClientGone
  <2>2. HopsKept(c, d)
    <3> HIDE DEF c, d
    <3> QED  BY <1>1, <2>1 DEF HopsKept, Run, Record
  <2> QED  BY <1>3, <2>1, <2>2
<1>10. CASE ProgramEnds(q) \/ Killed(q)
  BY <1>4, <1>10 DEF ProgramEnds, Killed
<1> QED  BY <1>6, <1>7, <1>8, <1>9, <1>10, Zenon

\* The servers and clients of tests.
LEMMA ProgramsQuiet ==
  ASSUME Typed, NEW p \in procs, ServerBinds(p) \/ ClientServed(p) \/ ClientUnserved(p)
  PROVE  \A r \in Runs : HopsKept(run[r], run'[r])
<1> DEFINE q == p.run
           c == run[q]
           d == run'[q]
           Alone == \A r \in Runs \ {q} : run'[r] = run[r]
           All == \A r \in Runs : HopsKept(run[r], run'[r])
<1>1. run \in [Runs -> Run] /\ q \in Runs /\ c \in Run
  BY DEF Typed, Procs
<1>3. ASSUME HopsKept(c, d), Alone PROVE All
  BY <1>1, <1>3 DEF HopsKept
<1>4. ASSUME run' = run PROVE All
  BY <1>4 DEF HopsKept
<1> SUFFICES All
  OBVIOUS
<1> HIDE DEF All
<1>5. CASE ServerBinds(p)
  <2>1. ASSUME NEW x, run' = [run EXCEPT ![p.run].listened = x] PROVE All
    <3>1. d = [c EXCEPT !.listened = x] /\ Alone
      BY <1>1, <2>1
    <3>2. HopsKept(c, d)
      <4> HIDE DEF c, d
      <4> QED  BY <1>1, <3>1 DEF HopsKept, Run, Record
    <3> QED  BY <1>3, <3>1, <3>2
  <2> QED  BY <1>4, <1>5, <2>1 DEF ServerBinds
<1>6. CASE ClientServed(p) \/ ClientUnserved(p)
  <2>1. PICK event : run' = [run EXCEPT ![p.run] = ParseIperfEvent(run[p.run], event)]
    BY <1>6 DEF ClientServed, ClientUnserved
  <2>2. d = ParseIperfEvent(c, event) /\ Alone
    BY <1>1, <2>1
  <2>3. d = c \/ \E x : d = [c EXCEPT !.result = x]
    <3> HIDE DEF d, c
    <3> QED  BY <2>2 DEF ParseIperfEvent
  <2>4. HopsKept(c, d)
    <3> HIDE DEF c, d
    <3> QED  BY <1>1, <2>3 DEF HopsKept, Run, Record
  <2> QED  BY <1>3, <2>2, <2>4
<1> QED  BY <1>5, <1>6, Zenon

----------------------------------------------------------------------------
(* Traces: the hops that are drawn are drawn along the links.               *)

\* No step changes the links.
LEMMA LinksStay == [Next]_vars => topology' = topology
<1> SUFFICES ASSUME [Next]_vars PROVE topology' = topology
  OBVIOUS
<1>1. ASSUME NEW r \in Runs, Handler(r) PROVE topology' = topology
  BY <1>1, Zenon DEF Handler, PrepareIperf, BuildTraceIPIndex, StartStream, MtrReport, EndMtr,
     PumpHop, PumpPacket, PumpEnds, ExecReturns, EndTrace, EndCapture, StartIperfServer,
     SeeListening, ServerExited, ListenEnds, StartIperfClient, EndIperf, KillClient, KillServer,
     SeeGone, PingFails, Deadline
<1>2. ASSUME NEW r \in Runs,
             \/ TraceWebSocket(r) \/ TraceReport(r) \/ CaptureRequest(r) \/ IperfWebSocket(r)
             \/ IperfReport(r) \/ ProbeLine(r) \/ MtrHub(r) \/ ExecFails(r) \/ ClientGone(r)
             \/ ProgramEnds(r) \/ Killed(r)
      PROVE  topology' = topology
  BY <1>2, Zenon DEF TraceWebSocket, TraceReport, CaptureRequest, IperfWebSocket, IperfReport,
     ProbeLine, MtrHub, ExecFails, ClientGone, ProgramEnds, Killed
<1>3. ASSUME NEW p \in procs, ServerBinds(p) \/ ClientServed(p) \/ ClientUnserved(p)
      PROVE  topology' = topology
  BY <1>3, Zenon DEF ServerBinds, ClientServed, ClientUnserved
<1> QED  BY <1>1, <1>2, <1>3, Zenon DEF Next, vars

\* The hop a line makes is drawn from the last resolved pod.
LEMMA HandledDrawn ==
  ASSUME Typed, NEW c \in Run, NEW line \in Lines, Drawn(topology, c.hops, c.src, c.prev),
         NEW d, d = Handled(c, line)
  PROVE  Drawn(topology, d.hops, d.src, d.prev)
<1> DEFINE h == IF line.ip = None
                THEN [kind |-> "timeout", node |-> None, segment |-> None, path |-> <<>>]
                ELSE AnnotateTraceHop(line.ip, c.prev, c.resolves)
           e == [line |-> line, hop |-> h]
<1>1. /\ h \in Hop /\ d.hops = Append(c.hops, e) /\ d.src = c.src
      /\ d.prev = IF h.kind = "l3" THEN h.node ELSE c.prev
  BY HandledIs, Zenon DEF Kept
<1>2. c.prev \in Pods /\ c.hops \in Seq(Emitted)
  BY DEF Run, Record
<1>3. h.kind = "l3" => h.node \in Pods /\ h = Route(topology, c.prev, h.node)
  <2>1. CASE line.ip = None
    BY <2>1
  <2>2. CASE line.ip # None
    <3>1. h = AnnotateTraceHop(line.ip, c.prev, c.resolves)
      BY <2>2
    <3>2. CASE ~ c.resolves \/ line.ip \notin Pods
      <4>1. h = [kind |-> "external", node |-> None, segment |-> None, path |-> <<>>]
        BY <3>1, <3>2 DEF AnnotateTraceHop
      <4> HIDE DEF h
      <4> QED  BY <4>1
    <3>3. CASE c.resolves /\ line.ip \in Pods
      <4>1. h = Route(topology, c.prev, line.ip)
        BY <3>1, <3>3 DEF AnnotateTraceHop, Route
      <4>2. h.node = line.ip
        <5> HIDE DEF h
        <5> QED  BY <4>1 DEF Route
      <4> QED  BY <3>3, <4>1, <4>2
    <3> QED  BY <3>2, <3>3
  <2> QED  BY <2>1, <2>2
<1> HIDE DEF h
<1>4. e \in Emitted /\ e.hop = h
  BY <1>1 DEF Emitted
<1> HIDE DEF e
<1>5. Drawn(topology, Append(c.hops, e), c.src, IF e.hop.kind = "l3" THEN e.hop.node ELSE c.prev)
  BY <1>2, <1>3, <1>4, DrawnNext
<1> QED  BY <1>1, <1>4, <1>5

\* The hops of every run are drawn from one resolved pod to the next.
AllDrawn == \A r \in Runs : Drawn(topology, run[r].hops, run[r].src, run[r].prev)

LEMMA DrawnInit == Init => AllDrawn
<1> SUFFICES ASSUME Init, NEW r \in Runs
             PROVE  Drawn(topology, run[r].hops, run[r].src, run[r].prev)
  BY DEF AllDrawn
<1>1. PICK s \in Scenarios : run = [q \in Runs |-> Asked(s.asks[q])]
  BY Zenon DEF Init
<1>2. run[r] = Asked(s.asks[r])
  BY <1>1
<1>3. run[r].hops = <<>> /\ run[r].prev = run[r].src
  BY <1>2, BlankIs
<1>4. Origins(<<>>, 1) = {}
  BY DEF Origins
<1> QED  BY <1>3, <1>4 DEF Drawn, DrawnFrom, Latest

LEMMA DrawnStep ==
  ASSUME Typed, AllDrawn, [Next]_vars
  PROVE  AllDrawn'
<1>1. topology' = topology
  BY LinksStay
<1>2. ASSUME \A r \in Runs : HopsKept(run[r], run'[r]) PROVE AllDrawn'
  BY <1>1, <1>2 DEF AllDrawn, HopsKept
<1>3. ASSUME NEW q \in Runs, \A r \in Runs \ {q} : run'[r] = run[r],
             Drawn(topology, run'[q].hops, run'[q].src, run'[q].prev)
      PROVE  AllDrawn'
  BY <1>1, <1>3 DEF AllDrawn
<1>4. ASSUME NEW q \in Runs, MtrHub(q) PROVE AllDrawn'
  <2>1. PICK l \in Lines : run' = [run EXCEPT ![q] = Handled(run[q], l)]
    BY <1>4 DEF MtrHub
  <2>2. run[q] \in Run /\ Drawn(topology, run[q].hops, run[q].src, run[q].prev)
    BY DEF Typed, AllDrawn
  <2>3. run'[q] = Handled(run[q], l) /\ \A r \in Runs \ {q} : run'[r] = run[r]
    BY <2>1 DEF Typed
  <2>4. Drawn(topology, run'[q].hops, run'[q].src, run'[q].prev)
    BY <2>2, <2>3, HandledDrawn
  <2> QED  BY <1>3, <2>3, <2>4
<1>5. ASSUME NEW q \in Runs, PumpHop(q) PROVE AllDrawn'
  <2> DEFINE b == [run[q] EXCEPT !.pipe = None]
             l == run[q].pipe
             d == Handled(b, l)
             c == IF GivesUp(d) THEN [d EXCEPT !.stop = TRUE, !.pump = FALSE] ELSE d
  <2>1. l \in Lines /\ b \in Run /\ d \in Run /\ run' = [run EXCEPT ![q] = c]
    BY <1>5, PumpHopIs, Zenon
  <2>2. b.hops = run[q].hops /\ b.src = run[q].src /\ b.prev = run[q].prev
    BY DEF Typed, Run, Record
  <2>3. Drawn(topology, b.hops, b.src, b.prev)
    BY <2>2 DEF AllDrawn
  <2>4. run'[q] = c /\ \A r \in Runs \ {q} : run'[r] = run[r]
    <3> HIDE DEF c
    <3> QED  BY <2>1 DEF Typed
  <2> HIDE DEF b, l
  <2>5. Drawn(topology, d.hops, d.src, d.prev)
    BY <2>1, <2>3, HandledDrawn
  <2> HIDE DEF d
  <2>6. c.hops = d.hops /\ c.src = d.src /\ c.prev = d.prev
    BY <2>1 DEF Run, Record
  <2> QED  BY <1>3, <2>4, <2>5, <2>6
<1>6. ASSUME NEW q \in Runs,
             \/ Handler(q) \/ TraceWebSocket(q) \/ TraceReport(q) \/ CaptureRequest(q)
             \/ IperfWebSocket(q) \/ IperfReport(q) \/ ProbeLine(q) \/ ExecFails(q)
             \/ ClientGone(q) \/ ProgramEnds(q) \/ Killed(q)
      PROVE  AllDrawn'
  BY <1>2, <1>5, <1>6, HandlerQuiet, OutsideQuiet, Zenon
<1>7. ASSUME NEW p \in procs, ServerBinds(p) \/ ClientServed(p) \/ ClientUnserved(p)
      PROVE  AllDrawn'
  BY <1>2, <1>7, ProgramsQuiet, Zenon
<1>8. CASE UNCHANGED vars
  BY <1>2, <1>8 DEF vars, HopsKept
<1> QED  BY <1>4, <1>6, <1>7, <1>8, Zenon DEF Next

\* A hop that the index resolves is drawn along links of the topology, from the
\* previous resolved pod and by a shortest way, and as a tunnel exactly when no
\* links lead there (AnnotateTraceHop, BFSPath): for every topology, with cycles,
\* parallel links and links of a pod to itself, and every order of replies.
THEOREM PathsAreReal == Spec => []PathsReal
<1> DEFINE I == ToolInv /\ AllDrawn
<1>1. Init => I
  BY ToolInvInit, DrawnInit
<1>2. I /\ [Next]_vars => I'
  <2>1. ToolInv => Typed
    BY DEF ToolInv
  <2> QED  BY <2>1, ToolInvNext, DrawnStep
<1>3. I => PathsReal
  <2> SUFFICES ASSUME I, NEW r \in Runs, NEW k \in DOMAIN run[r].hops,
                      run[r].hops[k].hop.kind = "l3"
               PROVE  LET h == run[r].hops[k].hop
                          p == From(r, k)
                      IN IF h.node \in Within(p, Cardinality(Pods))
                         THEN /\ h.segment = "link" /\ Head(h.path) = p /\ Last(h.path) = h.node
                              /\ \A i \in 1 .. Len(h.path) - 1 :
                                   h.path[i + 1] \in Within(h.path[i], 1) \ {h.path[i]}
                              /\ p # h.node => h.node \notin Within(p, Len(h.path) - 2)
                         ELSE h.segment = "tunnel" /\ h.path = <<p, h.node>>
    BY Zenon DEF PathsReal
  <2>1. Typed /\ AllDrawn
    BY DEF ToolInv
  <2>2. topology \in {s.topology : s \in Scenarios} /\ run[r].hops \in Seq(Emitted)
    BY <2>1 DEF Typed, Run, Record
  <2>3. Drawn(topology, run[r].hops, run[r].src, run[r].prev)
    BY <2>1 DEF AllDrawn
  <2> QED  BY <2>2, <2>3, DrawnReal, Zenon
<1> HIDE DEF I
<1> QED  BY <1>1, <1>2, <1>3, PTL DEF Spec

=============================================================================
