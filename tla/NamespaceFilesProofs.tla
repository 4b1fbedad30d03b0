------------------------ MODULE NamespaceFilesProofs ------------------------
(***************************************************************************)
(* Proofs about module NamespaceFiles, for any tree of paths, any contents, *)
(* nodes, workers and faults and any number of requests.                    *)
(***************************************************************************)
EXTENDS NamespaceFiles, SequenceTheorems, FiniteSetTheorems, TLAPS

\* What the theorems assume of the parameters: paths are sequences of names,
\* and the absence of a resource is not one.
Parameters ==
  /\ \E Parts : Paths \subseteq Seq(Parts)
  /\ None \notin Resource

----------------------------------------------------------------------------
(* Paths.                                                                   *)

\* What the assumption on the parameters says of the values a path can have.
LEMMA Distinct ==
  /\ Bad # Dir /\ Dir # None /\ Bad # None
  /\ Bad \notin Contents /\ Dir \notin Contents /\ None \notin Contents
<1>1. ASSUME NEW x, NEW y PROVE Cardinality({x, y}) <= 2
  <2>1. IsFiniteSet({x}) /\ Cardinality({x}) = 1
    BY FS_Singleton
  <2>2. {x, y} = {x} \cup {y}
    OBVIOUS
  <2>3. Cardinality({x, y}) = IF y \in {x} THEN 1 ELSE 2
    BY <2>1, <2>2, FS_AddElement
  <2> QED
    BY <2>3
<1>2. ASSUME Bad = Dir \/ Dir = None \/ Bad = None PROVE FALSE
  <2>1. \/ {Bad, Dir, None} = {Bad, None} \/ {Bad, Dir, None} = {Bad, Dir}
    BY <1>2
  <2>2. Cardinality({Bad, Dir, None}) <= 2
    BY <1>1, <2>1
  <2> QED
    BY <2>2, FilesAssumption
<1> QED
  BY <1>2, FilesAssumption

\* The folders above a path: they are paths, shorter than it, and theirs are
\* above it too.
LEMMA ParentsFacts ==
  ASSUME Parameters, NEW p \in Paths
  PROVE  /\ Parents(p) \subseteq Paths
         /\ p \notin Parents(p)
         /\ \A q \in Parents(p) : /\ Len(q) \in Nat /\ Len(q) < Len(p)
                                  /\ q = SubSeq(p, 1, Len(q))
                                  /\ Parents(q) \subseteq Parents(p)
<1>1. PICK Parts : Paths \subseteq Seq(Parts)
  BY DEF Parameters
<1>2. p \in Seq(Parts) /\ Len(p) \in Nat /\ p # <<>>
  BY <1>1, FilesAssumption
<1>3. ASSUME NEW i \in 1 .. Len(p)
      PROVE  SubSeq(p, 1, i) \in Paths /\ Len(SubSeq(p, 1, i)) = i
  BY <1>2, <1>3, FilesAssumption, SubSeqProperties
<1>4. ASSUME NEW q \in Parents(p)
      PROVE  /\ Len(q) \in Nat /\ Len(q) < Len(p) /\ q = SubSeq(p, 1, Len(q))
             /\ q \in Paths /\ q # p /\ Parents(q) \subseteq Parents(p)
  <2>1. PICK i \in 1 .. Len(p) - 1 : q = SubSeq(p, 1, i)
    BY DEF Parents
  <2>2. Len(q) = i /\ q \in Paths /\ i \in 1 .. Len(p)
    BY <1>2, <1>3, <2>1
  <2>3. ASSUME NEW j \in 1 .. Len(q) - 1 PROVE SubSeq(q, 1, j) \in Parents(p)
    <3>1. SubSeq(q, 1, j) = SubSeq(p, 1, j)
      BY <1>2, <2>1, <2>2, SubSeqOfSubSeq, SubSeqProperties
    <3>2. j \in 1 .. Len(p) - 1
      BY <1>2, <2>2
    <3> QED
      BY <3>1, <3>2 DEF Parents
  <2>4. Parents(q) \subseteq Parents(p)
    BY <2>3 DEF Parents
  <2> QED
    BY <1>2, <2>1, <2>2, <2>4
<1> QED
  BY <1>4

\* Prefixes, element by element.
LEMMA PrefixIs ==
  ASSUME NEW Parts, NEW s \in Seq(Parts), NEW t \in Seq(Parts)
  PROVE  IsPrefix(s, t) <=> Len(s) <= Len(t) /\ \A i \in 1 .. Len(s) : s[i] = t[i]
<1>1. Len(s) \in Nat /\ Len(t) \in Nat /\ SubSeq(s, 1, Len(s)) = s
  BY SubSeqFull, LenProperties
<1>2. ASSUME Len(s) <= Len(t)
      PROVE  /\ SubSeq(t, 1, Len(s)) \in Seq(Parts)
             /\ Len(SubSeq(t, 1, Len(s))) = Len(s)
             /\ \A i \in 1 .. Len(s) : SubSeq(t, 1, Len(s))[i] = t[i]
  BY <1>1, <1>2, ElementOfSeq, SubSeqProperties
<1> QED
  BY <1>1, <1>2, SeqEqual DEF IsPrefix

\* A parent of a path, element by element.
LEMMA ParentsAre ==
  ASSUME NEW Parts, NEW x \in Seq(Parts), NEW r \in Seq(Parts)
  PROVE  x \in Parents(r) <=>
           /\ 1 <= Len(x) /\ Len(x) < Len(r)
           /\ \A i \in 1 .. Len(x) : x[i] = r[i]
<1>1. Len(x) \in Nat /\ Len(r) \in Nat
  BY LenProperties
<1>2. ASSUME NEW i \in 1 .. Len(r) - 1
      PROVE  /\ SubSeq(r, 1, i) \in Seq(Parts) /\ Len(SubSeq(r, 1, i)) = i
             /\ \A j \in 1 .. i : SubSeq(r, 1, i)[j] = r[j]
  BY <1>1, ElementOfSeq, SubSeqProperties
<1>3. ASSUME x \in Parents(r)
      PROVE  1 <= Len(x) /\ Len(x) < Len(r) /\ \A i \in 1 .. Len(x) : x[i] = r[i]
  <2>1. PICK i \in 1 .. Len(r) - 1 : x = SubSeq(r, 1, i)
    BY <1>3, SMTT(30) DEF Parents
  <2> QED
    BY <1>1, <1>2, <2>1
<1>4. ASSUME 1 <= Len(x), Len(x) < Len(r), \A i \in 1 .. Len(x) : x[i] = r[i]
      PROVE  x \in Parents(r)
  <2>1. Len(x) \in 1 .. Len(r) - 1
    BY <1>1, <1>4
  <2>2. x = SubSeq(r, 1, Len(x))
    BY <1>2, <1>4, <2>1, SeqEqual
  <2> QED
    BY <2>1, <2>2 DEF Parents
<1> QED
  BY <1>3, <1>4

\* What lies in a folder stays in it further down, and a path in a folder has
\* the folder among its parents.
LEMMA UnderFacts ==
  ASSUME Parameters, NEW p \in Paths, NEW r \in Paths
  PROVE  /\ \A x \in Parents(r) : x \in Under(p) => r \in Under(p)
         /\ IsPrefix(p, r) /\ p # r => p \in Parents(r)
<1>1. PICK Parts : Paths \subseteq Seq(Parts)
  BY DEF Parameters
<1>2. /\ p \in Seq(Parts) /\ Len(p) \in Nat /\ Len(p) >= 1
      /\ r \in Seq(Parts) /\ Len(r) \in Nat
  BY <1>1, FilesAssumption, EmptySeq
<1>3. ASSUME NEW x \in Parents(r), x \in Under(p) PROVE r \in Under(p)
  <2>1. x \in Paths /\ x \in Seq(Parts) /\ IsPrefix(p, x) /\ Len(x) \in Nat
    BY <1>1, <1>3, LenProperties DEF Under
  <2>2. Len(x) < Len(r) /\ \A i \in 1 .. Len(x) : x[i] = r[i]
    BY <1>2, <1>3, <2>1, ParentsAre
  <2>3. Len(p) <= Len(x) /\ \A i \in 1 .. Len(p) : p[i] = x[i]
    BY <1>2, <2>1, PrefixIs
  <2>4. Len(p) <= Len(r) /\ \A i \in 1 .. Len(p) : p[i] = r[i]
    BY <1>2, <2>1, <2>2, <2>3
  <2> QED
    BY <1>2, <2>4, PrefixIs DEF Under
<1>4. ASSUME IsPrefix(p, r), p # r PROVE p \in Parents(r)
  <2>1. Len(p) <= Len(r) /\ \A i \in 1 .. Len(p) : p[i] = r[i]
    BY <1>2, <1>4, PrefixIs
  <2>2. Len(p) # Len(r)
    BY <1>2, <1>4, <2>1, SeqEqual
  <2> QED
    BY <1>2, <2>1, <2>2, ParentsAre
<1> QED
  BY <1>3, <1>4

\* Where a path is moved with its folder, element by element.
MovedShape(Parts, p, q, r) ==
  /\ Moved(p, q, r) \in Seq(Parts)
  /\ Len(Moved(p, q, r)) = Len(q) + (Len(r) - Len(p))
  /\ \A i \in 1 .. Len(q) : Moved(p, q, r)[i] = q[i]
  /\ \A i \in Len(p) + 1 .. Len(r) : Moved(p, q, r)[Len(q) + (i - Len(p))] = r[i]

\* Moving has that shape.
LEMMA MovedIs ==
  ASSUME NEW Parts, NEW p \in Seq(Parts), NEW q \in Seq(Parts), NEW r \in Seq(Parts),
         Len(p) <= Len(r)
  PROVE  MovedShape(Parts, p, q, r)
<1>1. Len(p) \in Nat /\ Len(q) \in Nat /\ Len(r) \in Nat
  BY LenProperties
<1> DEFINE t == SubSeq(r, Len(p) + 1, Len(r))
<1>2. /\ t \in Seq(Parts) /\ Len(t) = Len(r) - Len(p)
      /\ \A i \in 1 .. Len(r) - Len(p) : t[i] = r[Len(p) + i]
  <2>1. \A i \in Len(p) + 1 .. Len(r) : r[i] \in Parts
    BY <1>1, ElementOfSeq
  <2> QED
    BY <1>1, <2>1, SubSeqProperties
<1>3. /\ q \o t \in Seq(Parts) /\ Len(q \o t) = Len(q) + Len(t)
      /\ \A i \in 1 .. Len(q) + Len(t) :
           (q \o t)[i] = IF i <= Len(q) THEN q[i] ELSE t[i - Len(q)]
  BY <1>2, ConcatProperties
<1>4. Moved(p, q, r) = q \o t
  BY DEF Moved
<1>5. ASSUME NEW i \in Len(p) + 1 .. Len(r)
      PROVE  Moved(p, q, r)[Len(q) + (i - Len(p))] = r[i]
  <2>1. Len(q) + (i - Len(p)) \in 1 .. Len(q) + Len(t)
    BY <1>1, <1>2
  <2>2. (q \o t)[Len(q) + (i - Len(p))] = t[i - Len(p)]
    BY <1>1, <1>3, <2>1
  <2>3. t[i - Len(p)] = r[i]
    BY <1>1, <1>2
  <2> QED
    BY <1>4, <2>2, <2>3
<1>6. ASSUME NEW i \in 1 .. Len(q) PROVE Moved(p, q, r)[i] = q[i]
  BY <1>1, <1>2, <1>3, <1>4
<1> QED
  BY <1>1, <1>2, <1>3, <1>4, <1>5, <1>6 DEF MovedShape

\* Moving a folder moves what is in it, each path to one of its own, and the
\* folders above a moved path are above the new folder or were moved too.
LEMMA MovedFacts ==
  ASSUME Parameters, NEW p \in Paths, NEW q \in Paths, NEW r \in Under(p)
  PROVE  /\ \A s \in Under(p) : Moved(p, q, r) = Moved(p, q, s) => r = s
         /\ Moved(p, q, r) \notin Parents(q)
         /\ Moved(p, q, r) \in Paths => IsPrefix(q, Moved(p, q, r))
         /\ Moved(p, q, r) \in Paths =>
              \A x \in Parents(Moved(p, q, r)) :
                \/ x \in Parents(q)
                \/ \E t \in Under(p) \cap Parents(r) : Moved(p, q, t) = x
<1>1. PICK Parts : Paths \subseteq Seq(Parts)
  BY DEF Parameters
<1>2. /\ p \in Seq(Parts) /\ Len(p) \in Nat /\ Len(p) >= 1
      /\ q \in Seq(Parts) /\ Len(q) \in Nat /\ Len(q) >= 1
  BY <1>1, FilesAssumption, EmptySeq
<1>3. ASSUME NEW s \in Under(p)
      PROVE  /\ s \in Paths /\ s \in Seq(Parts) /\ Len(s) \in Nat
             /\ Len(p) <= Len(s) /\ \A i \in 1 .. Len(p) : p[i] = s[i]
  <2>1. s \in Paths /\ s \in Seq(Parts) /\ Len(s) \in Nat /\ IsPrefix(p, s)
    BY <1>1, LenProperties DEF Under
  <2> QED
    BY <1>2, <2>1, PrefixIs
<1>p. p \in Seq(Parts)
  BY <1>2
<1>q. q \in Seq(Parts)
  BY <1>2
<1>m. ASSUME NEW s \in Seq(Parts), Len(p) <= Len(s) PROVE MovedShape(Parts, p, q, s)
  BY <1>p, <1>q, <1>m, MovedIs
<1> DEFINE m == Moved(p, q, r)
<1>4. /\ m \in Seq(Parts) /\ Len(m) = Len(q) + (Len(r) - Len(p))
      /\ \A i \in 1 .. Len(q) : m[i] = q[i]
      /\ \A i \in Len(p) + 1 .. Len(r) : m[Len(q) + (i - Len(p))] = r[i]
  <2>1. r \in Seq(Parts) /\ Len(p) <= Len(r)
    BY <1>3
  <2> QED
    BY <2>1, <1>m DEF m, MovedShape
<1>5. r \in Seq(Parts) /\ Len(r) \in Nat /\ Len(p) <= Len(r) /\ r \in Paths
  BY <1>3
<1> HIDE DEF m
<1>6. ASSUME NEW s \in Under(p), m = Moved(p, q, s) PROVE r = s
  <2>1. /\ Len(m) = Len(q) + (Len(s) - Len(p))
        /\ \A i \in Len(p) + 1 .. Len(s) : m[Len(q) + (i - Len(p))] = s[i]
    <3>1. s \in Seq(Parts) /\ Len(p) <= Len(s)
      BY <1>3
    <3> QED
      BY <1>6, <3>1, <1>m DEF MovedShape
  <2>2. Len(r) = Len(s) /\ Len(s) \in Nat /\ s \in Seq(Parts)
    BY <1>2, <1>3, <1>4, <1>5, <2>1
  <2>3. ASSUME NEW i \in 1 .. Len(r) PROVE r[i] = s[i]
    <3>1. CASE i <= Len(p)
      BY <1>2, <1>3, <3>1
    <3>2. CASE i > Len(p)
      BY <1>2, <1>4, <1>5, <2>1, <2>2, <3>2, SMTT(30)
    <3> QED
      BY <1>2, <1>5, <3>1, <3>2
  <2> QED
    BY <1>5, <2>2, <2>3, SeqEqual
<1>7. m \notin Parents(q)
  BY <1>2, <1>4, <1>5, ParentsAre
<1>8. IsPrefix(q, m)
  BY <1>2, <1>4, <1>5, PrefixIs
<1>9. ASSUME m \in Paths, NEW x \in Parents(m), x \notin Parents(q)
      PROVE  \E t \in Under(p) \cap Parents(r) : Moved(p, q, t) = x
  <2>1. x \in Paths /\ x \in Seq(Parts) /\ Len(x) \in Nat
    BY <1>1, <1>9, ParentsFacts, LenProperties
  <2>2. 1 <= Len(x) /\ Len(x) < Len(m) /\ \A i \in 1 .. Len(x) : x[i] = m[i]
    BY <1>4, <1>9, <2>1, ParentsAre
  <2>3. Len(q) <= Len(x)
    <3>1. ASSUME Len(x) < Len(q) PROVE FALSE
      <4>1. \A i \in 1 .. Len(x) : x[i] = q[i]
        BY <1>2, <1>4, <2>1, <2>2, <3>1
      <4> QED
        BY <1>2, <1>9, <2>1, <2>2, <3>1, <4>1, ParentsAre
    <3> QED
      BY <1>2, <2>1, <3>1
  <2> DEFINE n == Len(p) + (Len(x) - Len(q))
             t == SubSeq(r, 1, n)
  <2>4. n \in Nat /\ Len(p) <= n /\ n < Len(r) /\ n \in 1 .. Len(r) - 1 /\ n \in 1 .. Len(r)
    BY <1>2, <1>4, <1>5, <2>1, <2>2, <2>3
  <2>5. t \in Parents(r)
    BY <2>4 DEF Parents
  <2>6. t \in Paths
    BY <1>5, <2>4, FilesAssumption
  <2>7. t \in Seq(Parts) /\ Len(t) = n /\ \A i \in 1 .. n : t[i] = r[i]
    <3>1. \A i \in 1 .. n : r[i] \in Parts
      BY <1>5, <2>4, ElementOfSeq
    <3> QED
      BY <2>4, <3>1, SubSeqProperties, SMTT(30)
  <2> HIDE DEF t
  <2>8. t \in Under(p)
    <3>1. \A i \in 1 .. Len(p) : p[i] = t[i]
      BY <1>2, <1>3, <2>4, <2>7
    <3> QED
      BY <1>2, <2>4, <2>6, <2>7, <3>1, PrefixIs DEF Under
  <2>9. /\ Moved(p, q, t) \in Seq(Parts) /\ Len(Moved(p, q, t)) = Len(x)
        /\ \A i \in 1 .. Len(q) : Moved(p, q, t)[i] = q[i]
        /\ \A i \in Len(p) + 1 .. n : Moved(p, q, t)[Len(q) + (i - Len(p))] = t[i]
    <3>1. Len(p) <= Len(t)
      BY <2>4, <2>7
    <3>2. /\ Moved(p, q, t) \in Seq(Parts)
          /\ Len(Moved(p, q, t)) = Len(q) + (Len(t) - Len(p))
          /\ \A i \in 1 .. Len(q) : Moved(p, q, t)[i] = q[i]
          /\ \A i \in Len(p) + 1 .. Len(t) : Moved(p, q, t)[Len(q) + (i - Len(p))] = t[i]
      BY <2>7, <3>1, <1>m DEF MovedShape
    <3>3. Len(q) + (Len(t) - Len(p)) = Len(x)
      BY <1>2, <2>1, <2>7
    <3> QED
      BY <2>7, <3>2, <3>3
  <2>10. ASSUME NEW i \in 1 .. Len(x) PROVE Moved(p, q, t)[i] = x[i]
    <3>1. CASE i <= Len(q)
      BY <1>2, <1>4, <2>2, <2>9, <3>1
    <3>2. CASE i > Len(q)
      <4> DEFINE j == Len(p) + (i - Len(q))
      <4>1. j \in Len(p) + 1 .. n /\ i = Len(q) + (j - Len(p))
        BY <1>2, <2>1, <3>2
      <4>2. Moved(p, q, t)[i] = t[j]
        BY <2>9, <4>1
      <4>3. t[j] = r[j] /\ j \in Len(p) + 1 .. Len(r)
        BY <1>2, <1>5, <2>4, <2>7, <4>1, SMTT(30)
      <4>4. m[i] = r[j]
        BY <1>4, <4>1, <4>3
      <4> QED
        BY <2>2, <4>2, <4>3, <4>4
    <3> QED
      BY <1>2, <2>1, <3>1, <3>2
  <2>11. Moved(p, q, t) = x
    BY <2>1, <2>9, <2>10, SeqEqual
  <2> QED
    BY <2>5, <2>8, <2>11
<1> QED
  BY <1>6, <1>7, <1>8, <1>9 DEF m

----------------------------------------------------------------------------
(* The inductive invariant.                                                 *)

UserSteps == {"idle", "sync", "put", "forget", "forgetall", "moved"}
TopoSteps == {"idle", "read", "drop", "put", "set", "bare"}

JobRecords ==
  [at : UserSteps \cup TopoSteps, file : Paths \cup {<<>>}, to : Paths \cup {<<>>},
   data : Contents \cup {None}, node : Nodes \cup {None}, kind : Kinds]

\* A request past its first step has the path, the content and the node the
\* steps before gave it.
UserJob(j) ==
  /\ j.at \in UserSteps
  /\ j.at \in {"sync", "put", "forget", "moved"} => j.file \in Paths
  /\ j.at = "moved" => j.to \in Paths
  /\ j.at = "put" => j.data \in Contents

TopoJob(j) ==
  /\ j.at \in TopoSteps
  /\ j.at # "idle" => j.file \in Paths /\ j.node \in Nodes
  /\ j.at \in {"drop", "put"} => j.data \in Contents

JobsTyped ==
  /\ job \in [Workers -> JobRecords]
  /\ \A u \in Users : UserJob(job[u])
  /\ TopoJob(job[Topo])

\* Everything above a file or a folder is a folder.
DiskTyped ==
  /\ disk \in [Paths -> Contents \cup {Bad, Dir, None}]
  /\ \A p \in Paths : disk[p] # None => \A q \in Parents(p) : disk[q] = Dir

\* A resource is found under the name made from its file.
StoreTyped ==
  /\ meta \in [Paths -> {"none", "plain", "sensitive"}]
  /\ res \in [Kinds -> [Names -> Resource \cup {None}]]
  /\ \A k \in Kinds, n \in Names : res[k][n] # None => n = Sanitized[res[k][n].file]
  /\ set \in [Nodes -> Volume \cup {None}]
  /\ left \in 0 .. MaxRequests

Typed == DiskTyped /\ StoreTyped /\ JobsTyped

\* The name, and the kind, of the resource the topology's operation works on.
Name == Sanitized[job[Topo].file]
Kind == job[Topo].kind

\* A mount that is about to write a resource has the other kind out of the
\* way, and one that is about to drop the other kind has none of its own.
KindsApart ==
  /\ OneKind
  /\ At(Topo, "put") => res[Other(Kind)][Name] = None \/ Name \in refused
  /\ At(Topo, "drop") => res[Kind][Name] = None

\* Of the resources r, the one of kind k behind file p is there and carries p.
Carries(r, k, p) == r[k][Sanitized[p]] # None /\ r[k][Sanitized[p]].file = p

\* A volume whose file kept its flag has the kind of the flag, and its resource
\* is there.
VolumesOK ==
  \A n \in Nodes :
    set[n] # None /\ set[n].file # None /\ set[n].file \notin misled =>
      set[n].kind = KindOf(set[n].file) /\ Carries(res, set[n].kind, set[n].file)

\* So has the mount being made, once its kind is chosen; its resource is there
\* once it has been written.
MountOK ==
  /\ job[Topo].at \in {"drop", "put", "set"} /\ job[Topo].file \notin misled =>
       Kind = KindOf(job[Topo].file)
  /\ At(Topo, "set") /\ job[Topo].file \notin misled => Carries(res, Kind, job[Topo].file)

MountsResolve == VolumesOK /\ MountOK

\* Of the jobs j, a save of p that has not come to its end.
Saving(j, p) == \E u \in Users : j[u].at \in {"sync", "put"} /\ j[u].file = p

\* Why a resource may be as it is.
Excused(k, n) ==
  LET r == res[k][n]
  IN  \/ disk[r.file] \notin Contents \/ r.file \in stale \/ n \in refused
      \/ r.data = disk[r.file] \/ Saving(job, r.file)

ResourcesCurrent == \A k \in Kinds, n \in Names : res[k][n] # None => Excused(k, n)

FilesInv == Typed /\ KindsApart /\ MountsResolve /\ ResourcesCurrent

----------------------------------------------------------------------------
(* The disk stays a tree.                                                   *)

\* Writing a file where there is no folder, or a folder where there is no
\* file, with the folders above it.
LEMMA WrittenTyped ==
  ASSUME Parameters, DiskTyped, NEW p \in Paths, NEW c \in Contents \cup {Bad, Dir},
         HasRoom(p), disk[p] = Dir <=> c = Dir /\ disk[p] # None, disk' = Written(p, c)
  PROVE  DiskTyped'
<1>1. Parents(p) \subseteq Paths /\ p \notin Parents(p)
  BY ParentsFacts
<1>2. disk' \in [Paths -> Contents \cup {Bad, Dir, None}]
  BY DEF Written, DiskTyped
<1>3. ASSUME NEW r \in Paths, disk'[r] # None, NEW q \in Parents(r) PROVE disk'[q] = Dir
  <2>1. q \in Paths /\ Parents(q) \subseteq Parents(r) /\ Parents(r) \subseteq Paths
    BY <1>3, ParentsFacts
  <2>2. CASE r = p
    BY <1>1, <2>1, <2>2 DEF Written
  <2>3. CASE r \in Parents(p)
    <3>1. q \in Parents(p)
      BY <2>3, ParentsFacts
    <3> QED
      BY <1>1, <2>1, <3>1 DEF Written
  <2>4. CASE r # p /\ r \notin Parents(p)
    <3>1. disk[r] # None /\ disk[q] = Dir
      BY <1>3, <2>1, <2>4 DEF Written, DiskTyped
    <3> QED
      BY <1>1, <2>1, <3>1, Distinct DEF Written
  <2> QED
    BY <2>2, <2>3, <2>4
<1> QED
  BY <1>2, <1>3 DEF DiskTyped

\* A save over a file finds the folders above it.
LEMMA FileHasRoom ==
  ASSUME DiskTyped, NEW p \in Paths, IsFile(p)
  PROVE  HasRoom(p)
BY DEF DiskTyped, IsFile, HasRoom

\* Removing a folder takes all in it.
LEMMA RemovedTyped ==
  ASSUME Parameters, DiskTyped, NEW p \in Paths, disk' = Removed(p)
  PROVE  DiskTyped'
<1>1. disk' \in [Paths -> Contents \cup {Bad, Dir, None}]
  BY DEF Removed, DiskTyped
<1>2. ASSUME NEW r \in Paths, disk'[r] # None, NEW q \in Parents(r) PROVE disk'[q] = Dir
  <2>1. r \notin Under(p) /\ disk[r] # None
    BY <1>2 DEF Removed
  <2>2. q \in Paths /\ q \notin Under(p)
    BY <2>1, UnderFacts, ParentsFacts
  <2> QED
    BY <2>1, <2>2 DEF Removed, DiskTyped
<1> QED
  BY <1>1, <1>2 DEF DiskTyped

\* So does removing everything.
LEMMA ClearedTyped ==
  ASSUME disk' = [p \in Paths |-> None]
  PROVE  DiskTyped'
BY DEF DiskTyped

\* The paths that renaming p moves.
All(p) == {r \in Under(p) : disk[r] # None}

\* Each moved path has a single origin.
LEMMA Origin ==
  ASSUME Parameters, NEW p \in Paths, NEW q \in Paths, NEW s \in All(p)
  PROVE  (CHOOSE t \in All(p) : Moved(p, q, t) = Moved(p, q, s)) = s
<1>1. \A t \in All(p) : Moved(p, q, t) = Moved(p, q, s) => t = s
  BY MovedFacts DEF All
<1> QED
  BY <1>1

\* A folder moves with all in it, to a path that was free and not in itself.
LEMMA RenamedTyped ==
  ASSUME Parameters, DiskTyped, NEW u, NEW p \in Paths, NEW q \in Paths, Rename(u, p, q)
  PROVE  DiskTyped'
<1>1. /\ disk[q] = None /\ ~ IsPrefix(p, q) /\ HasRoom(q) /\ p # q
      /\ \A r \in All(p) : Moved(p, q, r) \in Paths
      /\ disk' = [r \in Paths |->
           IF \E s \in All(p) : Moved(p, q, s) = r
             THEN disk[CHOOSE s \in All(p) : Moved(p, q, s) = r]
           ELSE IF r \in All(p) THEN None
           ELSE IF r \in Parents(q) THEN Dir ELSE disk[r]]
  BY DEF Rename, All
<1>2. ASSUME NEW s \in All(p)
      PROVE  /\ s \in Paths /\ s \in Under(p) /\ disk[s] # None
             /\ Moved(p, q, s) \in Paths /\ disk'[Moved(p, q, s)] = disk[s]
  BY <1>1, Origin DEF All, Under
<1>3. ASSUME NEW r \in Paths, \A s \in All(p) : Moved(p, q, s) # r
      PROVE  disk'[r] = IF r \in All(p) THEN None ELSE IF r \in Parents(q) THEN Dir ELSE disk[r]
  BY <1>1, <1>3
<1>4. disk' \in [Paths -> Contents \cup {Bad, Dir, None}]
  <2>1. ASSUME NEW r \in Paths PROVE disk'[r] \in Contents \cup {Bad, Dir, None}
    <3>1. CASE \E s \in All(p) : Moved(p, q, s) = r
      BY <1>2, <3>1 DEF DiskTyped
    <3>2. CASE \A s \in All(p) : Moved(p, q, s) # r
      BY <1>3, <3>2 DEF DiskTyped
    <3> QED
      BY <3>1, <3>2
  <2> QED
    BY <1>1, <2>1
<1>5. ASSUME NEW x \in Parents(q) PROVE x \in Paths /\ disk'[x] = Dir
  <2>1. x \in Paths /\ x \notin Under(p)
    <3>1. x \in Paths
      BY ParentsFacts
    <3> QED
      BY <1>1, <3>1, UnderFacts DEF Under
  <2>2. \A s \in All(p) : Moved(p, q, s) # x
    BY <1>2, MovedFacts
  <2> QED
    BY <1>3, <2>1, <2>2 DEF All
<1>6. ASSUME NEW r \in Paths, disk'[r] # None, NEW x \in Parents(r) PROVE disk'[x] = Dir
  <2>1. x \in Paths
    BY ParentsFacts
  <2>2. CASE \E s \in All(p) : Moved(p, q, s) = r
    <3>1. PICK s \in All(p) : Moved(p, q, s) = r
      BY <2>2
    <3>2. s \in Under(p) /\ s \in Paths /\ disk[s] # None
      BY <1>2
    <3>3. \/ x \in Parents(q)
          \/ \E t \in Under(p) \cap Parents(s) : Moved(p, q, t) = x
      BY <1>2, <3>1, <3>2, MovedFacts
    <3>4. ASSUME NEW t \in Under(p) \cap Parents(s), Moved(p, q, t) = x PROVE disk'[x] = Dir
      <4>1. disk[t] = Dir /\ t \in All(p)
        BY <3>2, Distinct DEF DiskTyped, All
      <4> QED
        BY <1>2, <3>4, <4>1
    <3> QED
      BY <1>5, <3>3, <3>4
  <2>3. CASE \A s \in All(p) : Moved(p, q, s) # r
    <3>1. disk'[r] = IF r \in All(p) THEN None ELSE IF r \in Parents(q) THEN Dir ELSE disk[r]
      BY <1>3, <2>3
    <3>2. CASE r \in Parents(q)
      <4>1. x \in Parents(q)
        BY <3>2, ParentsFacts
      <4> QED
        BY <1>5, <4>1
    <3>3. CASE r \notin Parents(q)
      <4>1. r \notin All(p) /\ disk[r] # None /\ disk[x] = Dir
        BY <1>6, <3>1, <3>3 DEF DiskTyped
      <4>2. r \notin Under(p)
        BY <4>1 DEF All
      <4>3. x \notin Under(p)
        BY <4>2, UnderFacts
      <4>4. \A s \in All(p) : Moved(p, q, s) # x
        <5>1. ASSUME NEW s \in All(p), Moved(p, q, s) = x PROVE FALSE
          <6>1. IsPrefix(q, x)
            BY <1>2, <2>1, <5>1, MovedFacts
          <6>2. x \in Under(q)
            BY <2>1, <6>1 DEF Under
          <6>3. r \in Under(q)
            BY <6>2, UnderFacts
          <6>4. q \in Parents(r) \/ q = r
            BY <6>3, UnderFacts DEF Under
          <6>5. disk[q] # None
            BY <4>1, <6>4, Distinct DEF DiskTyped
          <6> QED
            BY <1>1, <6>5
        <5> QED
          BY <5>1
      <4> QED
        BY <1>3, <2>1, <4>1, <4>3, <4>4 DEF All
    <3> QED
      BY <3>2, <3>3
  <2> QED
    BY <2>2, <2>3
<1> QED
  BY <1>4, <1>6 DEF DiskTyped

\* Every step keeps the tree.
LEMMA DiskKept ==
  ASSUME Parameters, Typed, Next
  PROVE  DiskTyped'
<1> USE DEF Typed
<1>1. ASSUME NEW u \in Users, NEW p \in Paths, NEW c \in Contents, Upload(u, p, c)
      PROVE  DiskTyped'
  BY <1>1, WrittenTyped, Distinct DEF Upload, Save
<1>2. ASSUME NEW u \in Users, NEW p \in Paths, NEW c \in Contents, UpdateFileContent(u, p, c)
      PROVE  DiskTyped'
  BY <1>2, WrittenTyped, FileHasRoom, Distinct DEF UpdateFileContent, Save, IsFile
<1>3. ASSUME NEW u \in Users, NEW p \in Paths, NEW c \in Contents \cup {Bad, Dir},
             ImportEntry(u, p, c)
      PROVE  DiskTyped'
  <2>1. disk[p] = Dir <=> c = Dir /\ disk[p] # None
    BY <1>3, Distinct DEF ImportEntry, Extractable
  <2> QED
    BY <1>3, <2>1, WrittenTyped DEF ImportEntry, Extractable
<1>4. ASSUME NEW u \in Users, NEW p \in Paths, CreateFolder(u, p) PROVE DiskTyped'
  BY <1>4, WrittenTyped, Distinct DEF CreateFolder
<1>5. ASSUME NEW u \in Users, NEW p \in Paths, DeleteFile(u, p) PROVE DiskTyped'
  BY <1>5, RemovedTyped DEF DeleteFile
<1>6. ASSUME NEW u \in Users, NEW p \in Paths, NEW q \in Paths, Rename(u, p, q) PROVE DiskTyped'
  BY <1>6, RenamedTyped
<1>7. ASSUME disk' = [p \in Paths |-> None] PROVE DiskTyped'
  BY <1>7, ClearedTyped
<1>8. ASSUME UNCHANGED disk PROVE DiskTyped'
  BY <1>8 DEF DiskTyped
<1>9. ASSUME NEW u \in Users, FileRequest(u) PROVE DiskTyped'
  BY <1>1, <1>2, <1>3, <1>4, <1>5, <1>6, <1>7, <1>8, <1>9
     DEF FileRequest, UpdateFileMeta, DeleteAllNamespaceFiles
<1>10. ASSUME NEW u \in Users, FileStep(u) PROVE DiskTyped'
  BY <1>8, <1>10 DEF FileStep, SyncRead, SyncPut, DeleteMeta, RenameFileMeta
<1>11. ASSUME TopologyRequest PROVE DiskTyped'
  BY <1>7, <1>8, <1>11 DEF TopologyRequest, BeginMount, DeleteNode, ClearTopology
<1>12. ASSUME TopologyStep PROVE DiskTyped'
  BY <1>8, <1>12 DEF TopologyStep, ReadMount, DropOther, PutMount, CreateSet
<1> QED
  BY <1>9, <1>10, <1>11, <1>12 DEF Next

----------------------------------------------------------------------------
(* Types.                                                                   *)

\* The steps of a job.
LEMMA IdleJob ==
  /\ Idle \in JobRecords /\ UserJob(Idle) /\ TopoJob(Idle)
  /\ Idle.at = "idle" /\ Idle.file = <<>> /\ Idle.kind = "ConfigMap"
BY DEF Idle, JobRecords, UserJob, TopoJob, UserSteps, TopoSteps, Kinds

\* What a worker does to its job leaves the others' alone.
LEMMA OneJob ==
  ASSUME JobsTyped, NEW w \in Workers, job' \in [Workers -> JobRecords],
         \A v \in Workers \ {w} : job'[v] = job[v],
         w \in Users => UserJob(job'[w]), w = Topo => TopoJob(job'[w])
  PROVE  JobsTyped'
<1>1. \A u \in Users : u \in Workers /\ u # Topo
  BY FilesAssumption DEF Workers
<1>2. Topo \in Workers
  BY DEF Workers
<1>3. ASSUME NEW u \in Users PROVE UserJob(job'[u])
  BY <1>1 DEF JobsTyped
<1>4. TopoJob(job'[Topo])
  BY <1>2 DEF JobsTyped
<1> QED
  BY <1>3, <1>4 DEF JobsTyped, UserJob, TopoJob

\* Leaving a job.
LEMMA DoneTyped ==
  ASSUME JobsTyped, NEW w \in Workers, Done(w)
  PROVE  JobsTyped'
<1>1. job' = [job EXCEPT ![w] = Idle] /\ job \in [Workers -> JobRecords]
  BY DEF Done, JobsTyped
<1>2. /\ job' \in [Workers -> JobRecords] /\ job'[w] = Idle
      /\ \A v \in Workers \ {w} : job'[v] = job[v]
  BY <1>1, IdleJob
<1> QED
  BY <1>2, IdleJob, OneJob

\* The kinds a mount may choose: the one the flag asks for, or a ConfigMap.
LEMMA KindsReadFacts ==
  ASSUME NEW p
  PROVE  /\ KindOf(p) \in Kinds /\ KindsRead(p) \subseteq Kinds
         /\ \A k \in KindsRead(p) : k = KindOf(p) \/ (Sensitive(p) /\ k = "ConfigMap")
<1>1. KindOf(p) \in Kinds /\ (~ Sensitive(p) => KindOf(p) = "ConfigMap")
  BY DEF KindOf, Kinds, Sensitive
<1>2. ASSUME NEW k \in KindsRead(p) PROVE k = KindOf(p) \/ k = "ConfigMap"
  <2>1. CASE Refuse("db") \/ Refuse("api")
    BY <1>2, <2>1 DEF KindsRead
  <2>2. CASE ~ (Refuse("db") \/ Refuse("api"))
    BY <1>2, <2>2 DEF KindsRead
  <2> QED
    BY <2>1, <2>2
<1>3. "ConfigMap" \in Kinds
  BY DEF Kinds
<1>4. KindsRead(p) \subseteq Kinds
  BY <1>1, <1>2, <1>3
<1> QED
  BY <1>1, <1>2, <1>4 DEF Sensitive

\* Every step keeps the jobs in shape.
LEMMA JobsKept ==
  ASSUME Parameters, Typed, Next
  PROVE  JobsTyped'
<1> USE DEF Typed
<1>1. /\ job \in [Workers -> JobRecords] /\ Topo \in Workers
      /\ \A u \in Users : u \in Workers /\ u # Topo
      /\ disk \in [Paths -> Contents \cup {Bad, Dir, None}]
  BY FilesAssumption DEF JobsTyped, Workers, DiskTyped
<1>2. ASSUME NEW u \in Users, NEW p \in Paths, NEW c \in Contents, Save(u, p, c), Start(u)
      PROVE  JobsTyped'
  <2>1. /\ job' \in [Workers -> JobRecords]
        /\ job'[u].at = "sync" /\ job'[u].file = p
        /\ \A v \in Workers \ {u} : job'[v] = job[v]
    BY <1>1, <1>2 DEF Save, JobRecords, UserSteps
  <2> QED
    BY <1>1, <2>1, OneJob DEF UserJob, UserSteps
<1>3. ASSUME NEW u \in Users, NEW p \in Paths, DeleteFile(u, p) PROVE JobsTyped'
  <2>1. PICK a \in {"forget", "forgetall"} : job' = [job EXCEPT ![u].at = a, ![u].file = p]
    BY <1>3 DEF DeleteFile
  <2>2. /\ job' \in [Workers -> JobRecords]
        /\ job'[u].at = a /\ job'[u].file = p
        /\ \A v \in Workers \ {u} : job'[v] = job[v]
    BY <1>1, <2>1, SMTT(30) DEF JobRecords, UserSteps
  <2> QED
    BY <1>1, <2>2, OneJob DEF UserJob, UserSteps
<1>4. ASSUME NEW u \in Users, DeleteAllNamespaceFiles(u) PROVE JobsTyped'
  <2>1. /\ job' \in [Workers -> JobRecords] /\ job'[u].at = "forgetall"
        /\ \A v \in Workers \ {u} : job'[v] = job[v]
    BY <1>1, <1>4, SMTT(30) DEF DeleteAllNamespaceFiles, Go, JobRecords, UserSteps
  <2> QED
    BY <1>1, <2>1, OneJob DEF UserJob, UserSteps
<1>5. ASSUME NEW u \in Users, NEW p \in Paths, NEW q \in Paths, Rename(u, p, q) PROVE JobsTyped'
  <2>1. job' = [job EXCEPT ![u].at = "moved", ![u].file = p, ![u].to = q]
    BY <1>5 DEF Rename
  <2>2. /\ job' \in [Workers -> JobRecords]
        /\ job'[u].at = "moved" /\ job'[u].file = p /\ job'[u].to = q
        /\ \A v \in Workers \ {u} : job'[v] = job[v]
    BY <1>1, <2>1, SMTT(30) DEF JobRecords, UserSteps
  <2> QED
    BY <1>1, <2>2, OneJob DEF UserJob, UserSteps
<1>6. ASSUME UNCHANGED job PROVE JobsTyped'
  BY <1>6 DEF JobsTyped, UserJob, TopoJob
<1>7. ASSUME NEW u \in Users, FileRequest(u) PROVE JobsTyped'
  BY <1>2, <1>3, <1>4, <1>5, <1>6, <1>7
     DEF FileRequest, UpdateFileMeta, Upload, UpdateFileContent, CreateFolder, ImportEntry
<1>8. ASSUME NEW u \in Users, SyncRead(u) PROVE JobsTyped'
  <2>1. CASE Mountable(disk[job[u].file])
    <3>1. /\ job[u].at = "sync" /\ disk[job[u].file] \in Contents
          /\ job' = [job EXCEPT ![u].at = "put", ![u].data = disk[job[u].file]]
      BY <1>8, <2>1 DEF SyncRead, Mountable, At
    <3>2. /\ job' \in [Workers -> JobRecords]
          /\ job'[u].at = "put" /\ job'[u].file = job[u].file
          /\ job'[u].data = disk[job[u].file]
          /\ \A v \in Workers \ {u} : job'[v] = job[v]
      BY <1>1, <3>1, SMTT(30) DEF JobRecords, UserSteps
    <3>3. job[u].file \in Paths
      BY <3>1 DEF JobsTyped, UserJob
    <3> QED
      BY <1>1, <3>1, <3>2, <3>3, OneJob DEF UserJob, UserSteps
  <2>2. CASE ~ Mountable(disk[job[u].file])
    BY <1>1, <1>8, <2>2, DoneTyped DEF SyncRead
  <2> QED
    BY <2>1, <2>2
<1>9. ASSUME NEW u \in Users, FileStep(u) PROVE JobsTyped'
  BY <1>1, <1>8, <1>9, DoneTyped DEF FileStep, SyncPut, DeleteMeta, RenameFileMeta
<1>10. ASSUME NEW n \in Nodes, NEW p \in Paths, NEW mark, BeginMount(n, p, mark) PROVE JobsTyped'
  <2>1. job' = [job EXCEPT ![Topo].at = "read", ![Topo].file = p, ![Topo].node = n]
    BY <1>10 DEF BeginMount
  <2>2. /\ job' \in [Workers -> JobRecords]
        /\ job'[Topo].at = "read" /\ job'[Topo].file = p /\ job'[Topo].node = n
        /\ \A v \in Workers \ {Topo} : job'[v] = job[v]
    <3> DEFINE j == [job[Topo] EXCEPT !.at = "read", !.file = p, !.node = n]
    <3>1. job[Topo] \in JobRecords
      BY <1>1
    <3>2. j \in JobRecords /\ j.at = "read" /\ j.file = p /\ j.node = n
      BY <3>1 DEF JobRecords, TopoSteps
    <3>3. job' = [job EXCEPT ![Topo] = j]
      BY <1>1, <2>1
    <3> HIDE DEF j
    <3> QED
      BY <1>1, <3>2, <3>3
  <2>3. Topo \notin Users
    BY <1>1
  <2> QED
    BY <1>1, <2>2, <2>3, OneJob DEF TopoJob, TopoSteps
<1>11. ASSUME TopologyRequest PROVE JobsTyped'
  BY <1>6, <1>10, <1>11 DEF TopologyRequest, DeleteNode, ClearTopology
<1>12. ASSUME NEW a \in {"bare", "put", "set"}, Go(Topo, a), ~ At(Topo, "idle"),
              a = "put" => At(Topo, "drop")
       PROVE  JobsTyped'
  <2>1. /\ job' \in [Workers -> JobRecords] /\ job'[Topo].at = a
        /\ job'[Topo].file = job[Topo].file /\ job'[Topo].node = job[Topo].node
        /\ job'[Topo].data = job[Topo].data
        /\ \A v \in Workers \ {Topo} : job'[v] = job[v]
    BY <1>1, <1>12 DEF Go, JobRecords, TopoSteps
  <2>2. Topo \notin Users
    BY <1>1
  <2>3. TopoJob(job'[Topo])
    BY <1>12, <2>1, SMTT(30) DEF JobsTyped, TopoJob, TopoSteps, At
  <2> QED
    BY <1>1, <2>1, <2>2, <2>3, OneJob
<1>13. ASSUME ReadMount PROVE JobsTyped'
  <2> DEFINE p == job[Topo].file
  <2>1. CASE Go(Topo, "bare")
    BY <1>12, <1>13, <2>1 DEF ReadMount, At
  <2>2. CASE Done(Topo)
    BY <1>1, <2>2, DoneTyped
  <2>3. ASSUME NEW a \in {"put", "drop"}, NEW k \in KindsRead(p), Mountable(disk[p]),
               job' = [job EXCEPT ![Topo].at = a, ![Topo].data = disk[p], ![Topo].kind = k]
        PROVE  JobsTyped'
    <3>1. disk[p] \in Contents /\ k \in Kinds
      BY <2>3, KindsReadFacts DEF Mountable
    <3>2. /\ job' \in [Workers -> JobRecords] /\ job'[Topo].at = a
          /\ job'[Topo].file = job[Topo].file /\ job'[Topo].node = job[Topo].node
          /\ job'[Topo].data = disk[p]
          /\ \A v \in Workers \ {Topo} : job'[v] = job[v]
      <4> DEFINE j == [job[Topo] EXCEPT !.at = a, !.data = disk[p], !.kind = k]
      <4>1. job[Topo] \in JobRecords
        BY <1>1
      <4>2. /\ j \in JobRecords /\ j.at = a /\ j.file = job[Topo].file
            /\ j.node = job[Topo].node /\ j.data = disk[p]
        BY <3>1, <4>1 DEF JobRecords, TopoSteps
      <4>3. job' = [job EXCEPT ![Topo] = j]
        BY <1>1, <2>3
      <4> HIDE DEF j
      <4> QED
        BY <1>1, <4>2, <4>3
    <3>3. TopoJob(job'[Topo])
      BY <1>13, <3>1, <3>2 DEF JobsTyped, TopoJob, TopoSteps, At, ReadMount
    <3>4. Topo \notin Users
      BY <1>1
    <3> QED
      BY <1>1, <3>2, <3>3, <3>4, OneJob
  <2> QED
    BY <1>13, <2>1, <2>2, <2>3 DEF ReadMount
<1>14. ASSUME TopologyStep PROVE JobsTyped'
  BY <1>1, <1>12, <1>13, <1>14, DoneTyped DEF TopologyStep, DropOther, PutMount, CreateSet, At
<1> QED
  BY <1>7, <1>9, <1>11, <1>14 DEF Next

\* The resources are typed and found under their names.
ResTyped ==
  /\ res \in [Kinds -> [Names -> Resource \cup {None}]]
  /\ \A k \in Kinds, n \in Names : res[k][n] # None => n = Sanitized[res[k][n].file]

\* What writing a resource does.
LEMMA PutFacts ==
  ASSUME Parameters, ResTyped, NEW w, job[w].file \in Paths, job[w].data \in Contents,
         NEW k \in Kinds, Put(w, k)
  PROVE  /\ ResTyped'
         /\ Sanitized[job[w].file] \in Names
         /\ res'[k][Sanitized[job[w].file]] # None
         /\ res'[k][Sanitized[job[w].file]].file = job[w].file
         /\ res'[k][Sanitized[job[w].file]].data = job[w].data
         /\ \A i \in Kinds, n \in Names :
              i # k \/ n # Sanitized[job[w].file] => res'[i][n] = res[i][n]
<1> DEFINE f == job[w].file
           r == [file |-> f, data |-> job[w].data]
           m == Sanitized[f]
<1>1. /\ m \in Names /\ r \in Resource /\ r # None /\ r.file = f /\ r.data = job[w].data
      /\ res' = [res EXCEPT ![k][m] = r]
  BY DEF Names, Resource, Parameters, Put
<1> HIDE DEF f, r, m
<1>2. /\ res'[k][m] = r
      /\ \A i \in Kinds, n \in Names : i # k \/ n # m => res'[i][n] = res[i][n]
      /\ res' \in [Kinds -> [Names -> Resource \cup {None}]]
  BY <1>1 DEF ResTyped
<1>3. ASSUME NEW i \in Kinds, NEW n \in Names, res'[i][n] # None
      PROVE  n = Sanitized[res'[i][n].file]
  <2>1. CASE i = k /\ n = m
    BY <1>1, <1>2, <2>1 DEF m
  <2>2. CASE i # k \/ n # m
    BY <1>2, <1>3, <2>2 DEF ResTyped
  <2> QED
    BY <2>1, <2>2
<1> QED
  BY <1>1, <1>2, <1>3 DEF ResTyped, f, m

\* What removing resources does.
LEMMA WithoutFacts ==
  ASSUME ResTyped, NEW S, res' = Without(S)
  PROVE  /\ ResTyped'
         /\ \A k \in Kinds, n \in Names :
              res'[k][n] = IF <<k, n>> \in S THEN None ELSE res[k][n]
BY DEF ResTyped, Without

\* What dropping the other kind does.
LEMMA DropFacts ==
  ASSUME ResTyped, NEW i \in Kinds, NEW m \in Names, res' = [res EXCEPT ![i][m] = None]
  PROVE  /\ ResTyped' /\ res'[i][m] = None
         /\ \A k \in Kinds, n \in Names : k # i \/ n # m => res'[k][n] = res[k][n]
BY DEF ResTyped

\* Every step keeps the resources typed.
LEMMA ResKept ==
  ASSUME Parameters, Typed, Next
  PROVE  ResTyped'
<1> USE DEF Typed
<1>1. ResTyped
  BY DEF StoreTyped, ResTyped
<1>2. ASSUME UNCHANGED res PROVE ResTyped'
  BY <1>1, <1>2 DEF ResTyped
<1>3. ASSUME NEW u \in Users, SyncPut(u) PROVE ResTyped'
  <2>1. job[u].file \in Paths /\ job[u].data \in Contents /\ SyncKind(job[u].file) \in Kinds
    BY <1>3 DEF SyncPut, At, JobsTyped, UserJob, SyncKind, Kinds
  <2> QED
    BY <1>1, <1>2, <1>3, <2>1, PutFacts DEF SyncPut
<1>4. ASSUME DropOther PROVE ResTyped'
  <2>1. Sanitized[job[Topo].file] \in Names /\ Other(job[Topo].kind) \in Kinds
    BY <1>4 DEF DropOther, At, JobsTyped, TopoJob, Names, Other, Kinds
  <2> QED
    BY <1>1, <1>2, <1>4, <2>1, DropFacts DEF DropOther
<1>5. ASSUME PutMount PROVE ResTyped'
  <2>1. job[Topo].file \in Paths /\ job[Topo].data \in Contents /\ job[Topo].kind \in Kinds
    BY <1>5 DEF PutMount, At, JobsTyped, TopoJob, JobRecords, Workers
  <2> QED
    BY <1>1, <1>2, <1>5, <2>1, PutFacts DEF PutMount
<1>6. ASSUME NEW u \in Users, FileRequest(u) PROVE ResTyped'
  BY <1>2, <1>6
     DEF FileRequest, UpdateFileMeta, Upload, UpdateFileContent, Save, CreateFolder, ImportEntry,
         DeleteFile, DeleteAllNamespaceFiles, Rename
<1>7. ASSUME NEW u \in Users, FileStep(u) PROVE ResTyped'
  BY <1>2, <1>3, <1>7 DEF FileStep, SyncRead, DeleteMeta, RenameFileMeta
<1>8. ASSUME TopologyRequest PROVE ResTyped'
  BY <1>1, <1>2, <1>8, WithoutFacts DEF TopologyRequest, BeginMount, DeleteNode, ClearTopology
<1>9. ASSUME TopologyStep PROVE ResTyped'
  BY <1>2, <1>4, <1>5, <1>9 DEF TopologyStep, ReadMount, CreateSet
<1> QED
  BY <1>6, <1>7, <1>8, <1>9 DEF Next

\* Every step keeps the rows, the volumes and the count of requests typed.
LEMMA StoreKept ==
  ASSUME Parameters, Typed, Next
  PROVE  StoreTyped'
<1> USE DEF Typed
<1> DEFINE Meta == meta \in [Paths -> {"none", "plain", "sensitive"}]
           Set  == set \in [Nodes -> Volume \cup {None}]
           Left == left \in 0 .. MaxRequests
<1>1. Meta /\ Set /\ Left
  BY DEF StoreTyped
<1>2. Left'
  <2>1. ASSUME UNCHANGED left PROVE Left'
    BY <1>1, <2>1
  <2>2. ASSUME NEW w, Start(w) PROVE Left'
    BY <1>1, <2>2, FilesAssumption DEF Start
  <2>3. ASSUME NEW u \in Users, FileRequest(u) PROVE Left'
    BY <2>2, <2>3
       DEF FileRequest, UpdateFileMeta, Upload, UpdateFileContent, CreateFolder, ImportEntry,
           DeleteFile, DeleteAllNamespaceFiles, Rename
  <2>4. ASSUME NEW u \in Users, FileStep(u) PROVE Left'
    BY <2>1, <2>4 DEF FileStep, SyncRead, SyncPut, DeleteMeta, RenameFileMeta
  <2>5. ASSUME TopologyRequest PROVE Left'
    BY <2>2, <2>5 DEF TopologyRequest, BeginMount, DeleteNode, ClearTopology
  <2>6. ASSUME TopologyStep PROVE Left'
    BY <2>1, <2>6 DEF TopologyStep, ReadMount, DropOther, PutMount, CreateSet
  <2> QED
    BY <2>3, <2>4, <2>5, <2>6 DEF Next
<1>3. Meta'
  <2>1. ASSUME UNCHANGED meta PROVE Meta'
    BY <1>1, <2>1
  <2>2. ASSUME NEW p \in Paths, NEW flag \in {"plain", "sensitive"}, SetFileSensitive(p, flag)
        PROVE  Meta'
    BY <1>1, <2>2 DEF SetFileSensitive
  <2>3. ASSUME NEW u \in Users, DeleteMeta(u) PROVE Meta'
    BY <1>1, <2>3 DEF DeleteMeta
  <2>4. ASSUME NEW u \in Users, RenameFileMeta(u) PROVE Meta'
    <3>1. job[u].file \in Paths /\ job[u].to \in Paths
      BY <2>4 DEF RenameFileMeta, At, JobsTyped, UserJob
    <3> QED
      BY <1>1, <2>4, <3>1 DEF RenameFileMeta
  <2>5. ASSUME NEW u \in Users, FileRequest(u) PROVE Meta'
    BY <2>1, <2>2, <2>5
       DEF FileRequest, UpdateFileMeta, Upload, UpdateFileContent, Save, CreateFolder, ImportEntry,
           DeleteFile, DeleteAllNamespaceFiles, Rename
  <2>6. ASSUME NEW u \in Users, FileStep(u) PROVE Meta'
    BY <2>1, <2>3, <2>4, <2>6 DEF FileStep, SyncRead, SyncPut
  <2>7. ASSUME TopologyRequest PROVE Meta'
    BY <2>1, <2>2, <2>7 DEF TopologyRequest, BeginMount, DeleteNode, ClearTopology
  <2>8. ASSUME TopologyStep PROVE Meta'
    BY <2>1, <2>8 DEF TopologyStep, ReadMount, DropOther, PutMount, CreateSet
  <2> QED
    BY <2>5, <2>6, <2>7, <2>8 DEF Next
<1>4. Set'
  <2>1. ASSUME UNCHANGED set PROVE Set'
    BY <1>1, <2>1
  <2>2. ASSUME CreateSet PROVE Set'
    <3>1. /\ job[Topo].node \in Nodes /\ job[Topo].file \in Paths
          /\ KindsRead(job[Topo].file) \subseteq Kinds
      BY <2>2, KindsReadFacts DEF CreateSet, JobsTyped, TopoJob
    <3>2. ASSUME NEW k \in KindsRead(job[Topo].file), NEW f \in {None, job[Topo].file},
                 set' = [set EXCEPT ![job[Topo].node] = [kind |-> k, file |-> f]]
          PROVE  Set'
      BY <1>1, <3>1, <3>2 DEF Volume
    <3> QED
      BY <2>1, <2>2, <3>2 DEF CreateSet
  <2>3. ASSUME NEW u \in Users, FileRequest(u) PROVE Set'
    BY <2>1, <2>3
       DEF FileRequest, UpdateFileMeta, Upload, UpdateFileContent, Save, CreateFolder, ImportEntry,
           DeleteFile, DeleteAllNamespaceFiles, Rename
  <2>4. ASSUME NEW u \in Users, FileStep(u) PROVE Set'
    BY <2>1, <2>4 DEF FileStep, SyncRead, SyncPut, DeleteMeta, RenameFileMeta
  <2>5. ASSUME TopologyRequest PROVE Set'
    BY <1>1, <2>1, <2>5 DEF TopologyRequest, BeginMount, DeleteNode, ClearTopology
  <2>6. ASSUME TopologyStep PROVE Set'
    BY <2>1, <2>2, <2>6 DEF TopologyStep, ReadMount, DropOther, PutMount
  <2> QED
    BY <2>3, <2>4, <2>5, <2>6 DEF Next
<1> QED
  BY <1>2, <1>3, <1>4, ResKept DEF StoreTyped, ResTyped

\* Types are kept by every step.
LEMMA TypedNext ==
  ASSUME Parameters, Typed, [Next]_vars
  PROVE  Typed'
<1>1. CASE Next
  BY <1>1, DiskKept, StoreKept, JobsKept DEF Typed
<1>2. CASE UNCHANGED vars
  BY <1>2 DEF Typed, vars, DiskTyped, StoreTyped, JobsTyped, UserJob, TopoJob
<1> QED
  BY <1>1, <1>2

\* And hold at the start.
LEMMA TypedInit == Init => Typed
<1> SUFFICES ASSUME Init PROVE Typed
  OBVIOUS
<1>1. DiskTyped
  BY DEF Init, DiskTyped
<1>2. StoreTyped
  BY FilesAssumption DEF Init, StoreTyped, Kinds
<1>3. JobsTyped
  BY IdleJob DEF Init, JobsTyped, Workers
<1> QED
  BY <1>1, <1>2, <1>3 DEF Typed

----------------------------------------------------------------------------
(* One kind of resource behind a file.                                      *)

\* A file request leaves the topology's operation alone.
LEMMA TopoApart ==
  ASSUME Typed, NEW u \in Users, FileRequest(u) \/ FileStep(u)
  PROVE  job'[Topo] = job[Topo] /\ \A v \in Users \ {u} : job'[v] = job[v]
<1>1. /\ job \in [Workers -> JobRecords] /\ Topo \in Workers /\ u \in Workers /\ u # Topo
      /\ Users \subseteq Workers
  BY FilesAssumption, SMTT(30) DEF Typed, JobsTyped, Workers
<1>2. CASE FileRequest(u)
  BY <1>1, <1>2
     DEF FileRequest, UpdateFileMeta, Upload, UpdateFileContent, Save, CreateFolder, ImportEntry,
         DeleteFile, DeleteAllNamespaceFiles, Rename, Go
<1>3. CASE FileStep(u)
  BY <1>1, <1>3 DEF FileStep, SyncRead, SyncPut, DeleteMeta, RenameFileMeta, Done
<1> QED
  BY <1>2, <1>3

\* A file request changes no resource but the one it syncs.
LEMMA ResApart ==
  ASSUME NEW u \in Users, FileRequest(u) \/ SyncRead(u) \/ DeleteMeta(u) \/ RenameFileMeta(u)
  PROVE  UNCHANGED <<res, refused>>
BY DEF FileRequest, UpdateFileMeta, Upload, UpdateFileContent, Save, CreateFolder, ImportEntry,
       DeleteFile, DeleteAllNamespaceFiles, Rename, SyncRead, DeleteMeta, RenameFileMeta

\* A sync writes over a resource that is there; it makes none and takes none.
LEMMA SyncKeeps ==
  ASSUME Parameters, Typed, NEW u \in Users, SyncPut(u)
  PROVE  \A k \in Kinds, n \in Names : res'[k][n] = None <=> res[k][n] = None
<1> DEFINE f == job[u].file
<1>1. f \in Paths /\ job[u].data \in Contents /\ SyncKind(f) \in Kinds
  BY DEF SyncPut, At, JobsTyped, UserJob, SyncKind, Kinds, Typed
<1>2. CASE UNCHANGED res
  BY <1>2
<1>3. CASE SyncKind(f) \in Backing(f) /\ Put(u, SyncKind(f))
  <2>1. ResTyped
    BY DEF Typed, StoreTyped, ResTyped
  <2>2. res[SyncKind(f)][Sanitized[f]] # None
    BY <1>3 DEF Backing
  <2> QED
    BY <1>1, <1>3, <2>1, <2>2, PutFacts
<1> QED
  BY <1>2, <1>3 DEF SyncPut

\* The kinds, and the other one of each.
LEMMA KindFacts ==
  \A k \in Kinds : Other(k) \in Kinds /\ Other(k) # k /\ \A i \in Kinds : i = k \/ i = Other(k)
BY DEF Kinds, Other

\* OneKind, for either kind.
LEMMA OneKindIs ==
  OneKind <=> \A k \in Kinds, n \in Names : res[k][n] # None /\ res[Other(k)][n] # None => n \in refused
BY DEF OneKind, Kinds, Other

\* Every step keeps the kinds apart.
LEMMA KindsKept ==
  ASSUME Parameters, Typed, KindsApart, Next
  PROVE  KindsApart'
<1>1. /\ ResTyped /\ job \in [Workers -> JobRecords] /\ Topo \in Workers
      /\ job[Topo] \in JobRecords /\ Kind \in Kinds
  BY DEF Typed, StoreTyped, ResTyped, JobsTyped, Workers, JobRecords, Kind
<1>2. ASSUME NEW u \in Users, FileRequest(u) \/ FileStep(u), UNCHANGED refused,
             \A k \in Kinds, n \in Names : res'[k][n] = None <=> res[k][n] = None
      PROVE  KindsApart'
  <2>1. job'[Topo] = job[Topo]
    BY <1>2, TopoApart
  <2>2. OneKind'
    BY <1>2 DEF KindsApart, OneKind, Kinds
  <2>3. At(Topo, "put") \/ At(Topo, "drop") => Name \in Names
    BY DEF At, Name, Names, Typed, JobsTyped, TopoJob
  <2> QED
    BY <1>1, <1>2, <2>1, <2>2, <2>3, KindFacts DEF KindsApart, At, Kind, Name
<1>3. ASSUME NEW u \in Users, FileRequest(u) \/ FileStep(u) PROVE KindsApart'
  <2>1. CASE SyncPut(u)
    <3>1. UNCHANGED refused
      BY <2>1 DEF SyncPut
    <3> QED
      BY <1>2, <1>3, <2>1, <3>1, SyncKeeps
  <2>2. CASE FileRequest(u) \/ SyncRead(u) \/ DeleteMeta(u) \/ RenameFileMeta(u)
    BY <1>2, <1>3, <2>2, ResApart
  <2> QED
    BY <1>3, <2>1, <2>2 DEF FileStep
<1>4. ASSUME UNCHANGED <<res, refused>>, job'[Topo].at \notin {"put", "drop"} PROVE KindsApart'
  BY <1>4 DEF KindsApart, OneKind, At
<1>5. ASSUME NEW S, res' = Without(S), UNCHANGED refused, job'[Topo].at \notin {"put", "drop"}
      PROVE  KindsApart'
  <2>1. \A k \in Kinds, n \in Names : res'[k][n] # None => res[k][n] # None
    BY <1>1, <1>5, WithoutFacts
  <2>2. OneKind'
    BY <1>5, <2>1 DEF KindsApart, OneKind, Kinds
  <2> QED
    BY <1>5, <2>2 DEF KindsApart, At
<1>6. ASSUME TopologyRequest PROVE KindsApart'
  <2>1. job[Topo].at = "idle"
    BY <1>6, IdleJob DEF TopologyRequest, BeginMount, DeleteNode, ClearTopology, Start
  <2>2. ASSUME NEW n \in Nodes, NEW p \in Paths, NEW mark, BeginMount(n, p, mark) PROVE KindsApart'
    <3>1. job'[Topo].at = "read"
      BY <1>1, <2>2 DEF BeginMount, JobRecords
    <3> QED
      BY <1>4, <2>2, <3>1 DEF BeginMount
  <2>3. ASSUME NEW n \in Nodes, DeleteNode(n) PROVE KindsApart'
    BY <1>4, <1>5, <2>1, <2>3 DEF DeleteNode
  <2>4. ASSUME NEW files, ClearTopology(files) PROVE KindsApart'
    BY <1>4, <1>5, <2>1, <2>4, SMTT(30) DEF ClearTopology
  <2> QED
    BY <1>6, <2>2, <2>3, <2>4 DEF TopologyRequest
<1>7. ASSUME ReadMount PROVE KindsApart'
  <2> DEFINE p == job[Topo].file
  <2>1. p \in Paths /\ Sanitized[p] \in Names /\ KindsRead(p) \subseteq Kinds
    BY <1>7, KindsReadFacts DEF ReadMount, At, Typed, JobsTyped, TopoJob, Names
  <2>2. UNCHANGED <<res, refused>>
    BY <1>7 DEF ReadMount
  <2>3. CASE Go(Topo, "bare") \/ Done(Topo)
    <3>1. job'[Topo].at \in {"bare", "idle"}
      BY <1>1, <2>3, IdleJob DEF Go, Done, JobRecords
    <3> QED
      BY <1>4, <2>2, <3>1
  <2>4. ASSUME NEW k \in KindsRead(p),
               job' = [job EXCEPT
                 ![Topo].at = IF k \in Backing(p) THEN "put" ELSE "drop",
                 ![Topo].data = disk[p], ![Topo].kind = k]
        PROVE  KindsApart'
    <3>1. /\ job'[Topo].file = p /\ job'[Topo].kind = k
          /\ job'[Topo].at = IF k \in Backing(p) THEN "put" ELSE "drop"
      BY <1>1, <2>4 DEF JobRecords
    <3>2. k \in Backing(p) <=> res[k][Sanitized[p]] # None
      BY <2>1 DEF Backing
    <3>3. OneKind'
      BY <2>2 DEF KindsApart, OneKind
    <3>4. res[k][Sanitized[p]] # None =>
            res[Other(k)][Sanitized[p]] = None \/ Sanitized[p] \in refused
      BY <2>1, OneKindIs DEF KindsApart
    <3> QED
      BY <2>2, <3>1, <3>2, <3>3, <3>4 DEF KindsApart, At, Kind, Name
  <2> QED
    BY <1>7, <2>3, <2>4 DEF ReadMount
<1>8. ASSUME DropOther PROVE KindsApart'
  <2>1. /\ job[Topo].file \in Paths /\ Name \in Names /\ Other(Kind) \in Kinds
        /\ Other(Kind) # Kind
    BY <1>1, <1>8, KindFacts DEF DropOther, At, Typed, JobsTyped, TopoJob, Names, Name, Kind
  <2>2. job'[Topo].at = "put" /\ Name' = Name /\ Kind' = Kind
    BY <1>1, <1>8 DEF DropOther, Go, JobRecords, Name, Kind
  <2>3. CASE res' = [res EXCEPT ![Other(Kind)][Name] = None] /\ refused' = refused \ {Name}
    <3>1. /\ res'[Other(Kind)][Name] = None
          /\ \A k \in Kinds, n \in Names : k # Other(Kind) \/ n # Name => res'[k][n] = res[k][n]
      BY <1>1, <2>1, <2>3, DropFacts
    <3>2. OneKind'
      <4>1. ASSUME NEW n \in Names, res'["ConfigMap"][n] # None, res'["Secret"][n] # None
            PROVE  n \in refused'
        <5>1. n # Name
          BY <1>1, <3>1, <4>1 DEF Kinds, Other
        <5>2. res["ConfigMap"][n] # None /\ res["Secret"][n] # None
          BY <3>1, <4>1, <5>1 DEF Kinds
        <5> QED
          BY <2>3, <5>1, <5>2 DEF KindsApart, OneKind
      <4> QED
        BY <4>1 DEF OneKind
    <3> QED
      BY <2>2, <3>1, <3>2 DEF KindsApart, At
  <2>4. CASE UNCHANGED res /\ refused' = refused \cup {Name}
    BY <2>2, <2>4 DEF KindsApart, OneKind, At
  <2> QED
    BY <1>8, <2>3, <2>4 DEF DropOther, Name, Kind
<1>9. ASSUME PutMount PROVE KindsApart'
  <2>1. CASE Done(Topo) /\ UNCHANGED res
    <3>1. job'[Topo].at = "idle"
      BY <1>1, <2>1, IdleJob DEF Done
    <3> QED
      BY <1>4, <1>9, <2>1, <3>1 DEF PutMount
  <2>2. CASE Put(Topo, Kind) /\ Go(Topo, "set")
    <3>1. /\ job[Topo].file \in Paths /\ job[Topo].data \in Contents /\ UNCHANGED refused
          /\ At(Topo, "put")
      BY <1>9 DEF PutMount, At, Typed, JobsTyped, TopoJob
    <3>2. /\ Name \in Names
          /\ \A k \in Kinds, n \in Names : k # Kind \/ n # Name => res'[k][n] = res[k][n]
      BY <1>1, <2>2, <3>1, PutFacts DEF Name
    <3>3. job'[Topo].at = "set"
      BY <1>1, <2>2 DEF Go, JobRecords
    <3>4. OneKind'
      <4>1. ASSUME NEW n \in Names, res'["ConfigMap"][n] # None, res'["Secret"][n] # None
            PROVE  n \in refused'
        <5>1. CASE n # Name
          BY <3>1, <3>2, <4>1, <5>1 DEF KindsApart, OneKind, Kinds
        <5>2. CASE n = Name
          <6>1. res'[Other(Kind)][Name] = res[Other(Kind)][Name] /\ res'[Other(Kind)][Name] # None
            BY <1>1, <3>2, <4>1, <5>2, KindFacts DEF Kinds, Other
          <6> QED
            BY <3>1, <5>2, <6>1 DEF KindsApart
        <5> QED
          BY <5>1, <5>2
      <4> QED
        BY <4>1 DEF OneKind
    <3> QED
      BY <3>3, <3>4 DEF KindsApart, At
  <2> QED
    BY <1>9, <2>1, <2>2 DEF PutMount, Kind
<1>10. ASSUME CreateSet PROVE KindsApart'
  <2>1. job'[Topo].at = "idle"
    BY <1>1, <1>10, IdleJob DEF CreateSet, Done
  <2> QED
    BY <1>4, <1>10, <2>1 DEF CreateSet
<1> QED
  BY <1>3, <1>6, <1>7, <1>8, <1>9, <1>10 DEF Next, TopologyStep

----------------------------------------------------------------------------
(* Volumes resolve.                                                         *)

\* A mounted file that is not misled was not before, and the step left its flag
\* alone, read it as it is, and wrote no other file's resource over its own.
LEMMA NotMisled ==
  ASSUME Remember, NEW p \in Mounted', p \notin misled'
  PROVE  /\ p \notin misled /\ (meta'[p] = "sensitive" <=> meta[p] = "sensitive")
         /\ ~ Misread(p) /\ ~ Contested(p)
BY DEF Remember, Sensitive

\* A step that writes a resource leaves that of a file whose name no request
\* for another file touched.
LEMMA PutCarries ==
  ASSUME Parameters, ResTyped, NEW w \in Workers, job[w].file \in Paths,
         job[w].data \in Contents, job'[w] # job[w],
         NEW i \in Kinds, Put(w, i), NEW k \in Kinds, NEW p \in Paths, ~ Contested(p),
         Carries(res, k, p)
  PROVE  Carries(res', k, p)
<1>1. Sanitized[p] \in Names
  BY DEF Names
<1>2. CASE k = i /\ job[w].file = p
  BY <1>2, PutFacts DEF Carries
<1>3. CASE Sanitized[p] = Sanitized[job[w].file] /\ job[w].file # p
  <2>1. res' = res
    BY <1>3 DEF Contested
  <2> QED
    BY <2>1
<1>4. CASE k # i \/ Sanitized[p] # Sanitized[job[w].file]
  BY <1>1, <1>4, PutFacts DEF Carries
<1> QED
  BY <1>2, <1>3, <1>4

\* A step that adds no volume keeps those whose resource it leaves.
LEMMA VolumesKept ==
  ASSUME Remember, VolumesOK,
         \A n \in Nodes : set'[n] # None => set'[n] = set[n],
         \A n \in Nodes :
           /\ set'[n] # None /\ set[n] # None /\ set[n].file # None
           /\ set[n].file \notin misled /\ set[n].kind = KindOf(set[n].file)
           /\ ~ Contested(set[n].file) /\ Carries(res, set[n].kind, set[n].file)
           => Carries(res', set[n].kind, set[n].file)
  PROVE  VolumesOK'
<1> SUFFICES ASSUME NEW n \in Nodes, set'[n] # None, set'[n].file # None,
                    set'[n].file \notin misled'
             PROVE  /\ set'[n].kind = IF meta'[set'[n].file] = "sensitive" THEN "Secret" ELSE "ConfigMap"
                    /\ Carries(res', set'[n].kind, set'[n].file)
  BY DEF VolumesOK, KindOf, Sensitive, Carries
<1>1. set'[n] = set[n]
  OBVIOUS
<1>2. set'[n].file \in Mounted'
  <2>1. set'[n] \in Volumes'
    BY DEF Volumes, VolumesOf
  <2> QED
    BY <2>1 DEF Mounted
<1>3. /\ set[n].file \notin misled /\ ~ Contested(set[n].file)
      /\ meta'[set[n].file] = "sensitive" <=> meta[set[n].file] = "sensitive"
  BY <1>1, <1>2, NotMisled
<1>4. set[n].kind = KindOf(set[n].file) /\ Carries(res, set[n].kind, set[n].file)
  BY <1>1, <1>3 DEF VolumesOK
<1>5. Carries(res', set[n].kind, set[n].file)
  BY <1>1, <1>3, <1>4, SMTT(30)
<1> QED
  BY <1>1, <1>3, <1>4, <1>5, SMTT(30) DEF KindOf, Sensitive

\* A step that leaves the mount being made where it is, or goes on from a
\* step where its kind was chosen, keeps it.
LEMMA MountKept ==
  ASSUME Remember, MountOK,
         job'[Topo].file = job[Topo].file, job'[Topo].kind = job[Topo].kind,
         job'[Topo].at \in {"drop", "put", "set"} =>
           job[Topo].file \in Paths /\ job[Topo].at \in {"drop", "put", "set"},
         job'[Topo].at = "set" =>
           \/ Carries(res', job[Topo].kind, job[Topo].file)
           \/ /\ job[Topo].at = "set"
              /\ ~ Contested(job[Topo].file) /\ Carries(res, job[Topo].kind, job[Topo].file)
                   => Carries(res', job[Topo].kind, job[Topo].file)
  PROVE  MountOK'
<1>1. ASSUME job'[Topo].at \in {"drop", "put", "set"}, job'[Topo].file \notin misled'
      PROVE  /\ job[Topo].file \notin misled /\ ~ Contested(job[Topo].file)
             /\ meta'[job[Topo].file] = "sensitive" <=> meta[job[Topo].file] = "sensitive"
  <2>1. job'[Topo].file \in Mounted'
    BY <1>1 DEF Mounted
  <2> QED
    BY <1>1, <2>1, NotMisled
<1>2. ASSUME job'[Topo].at \in {"drop", "put", "set"}, job'[Topo].file \notin misled'
      PROVE  job'[Topo].kind = IF meta'[job[Topo].file] = "sensitive" THEN "Secret" ELSE "ConfigMap"
  BY <1>1, <1>2 DEF MountOK, Kind, KindOf, Sensitive
<1>3. ASSUME job'[Topo].at = "set", job'[Topo].file \notin misled'
      PROVE  Carries(res', job[Topo].kind, job[Topo].file)
  BY <1>1, <1>3 DEF MountOK, Kind, At
<1> QED
  BY <1>2, <1>3 DEF MountOK, Kind, KindOf, Sensitive, At, Carries

\* A mount that has not chosen its kind has nothing to keep.
LEMMA NoMount ==
  ASSUME job'[Topo].at \notin {"drop", "put", "set"}
  PROVE  MountOK'
BY DEF MountOK, At

\* Every step keeps the mounts.
LEMMA MountsKept ==
  ASSUME Parameters, "list" \notin Faults, Typed, MountsResolve, Next
  PROVE  MountsResolve'
<1>1. /\ ResTyped /\ job \in [Workers -> JobRecords] /\ Topo \in Workers
      /\ job[Topo] \in JobRecords /\ Kind \in Kinds
  BY DEF Typed, StoreTyped, ResTyped, JobsTyped, Workers, JobRecords, Kind
<1>2. Remember /\ VolumesOK /\ MountOK
  BY DEF Next, MountsResolve
<1>3. ASSUME NEW n \in Nodes, set[n] # None, set[n].file # None
      PROVE  set[n].file \in Paths /\ set[n].kind \in Kinds
  BY <1>3 DEF Typed, StoreTyped, Volume
<1>4. job[Topo].at # "idle" => job[Topo].file \in Paths
  BY DEF Typed, JobsTyped, TopoJob
<1>5. ASSUME UNCHANGED set,
             \A k \in Kinds, p \in Paths :
               ~ Contested(p) /\ Carries(res, k, p) => Carries(res', k, p)
      PROVE  VolumesOK'
  BY <1>2, <1>3, <1>5, VolumesKept
<1>6. ASSUME NEW u \in Users, FileRequest(u) \/ FileStep(u) PROVE MountsResolve'
  <2>1. job'[Topo] = job[Topo]
    BY <1>6, TopoApart, SMTT(30)
  <2>2. UNCHANGED set
    BY <1>6
       DEF FileRequest, UpdateFileMeta, Upload, UpdateFileContent, Save, CreateFolder, ImportEntry,
           DeleteFile, DeleteAllNamespaceFiles, Rename, FileStep, SyncRead, SyncPut, DeleteMeta,
           RenameFileMeta
  <2>3. ASSUME NEW k \in Kinds, NEW p \in Paths, ~ Contested(p), Carries(res, k, p)
        PROVE  Carries(res', k, p)
    <3>1. CASE UNCHANGED res
      BY <2>3, <3>1
    <3>2. CASE SyncPut(u)
      <4>1. /\ u \in Workers /\ job[u].at = "put"
            /\ job[u].file \in Paths /\ job[u].data \in Contents /\ SyncKind(job[u].file) \in Kinds
        BY <3>2 DEF SyncPut, At, Typed, JobsTyped, UserJob, SyncKind, Kinds, Workers
      <4>2. job'[u] # job[u]
        BY <1>1, <3>2, <4>1, IdleJob DEF SyncPut, Done
      <4> QED
        BY <1>1, <2>3, <3>1, <3>2, <4>1, <4>2, PutCarries DEF SyncPut
    <3> QED
      BY <1>6, <3>1, <3>2, ResApart DEF FileStep
  <2>4. VolumesOK'
    BY <1>5, <2>2, <2>3
  <2>5. MountOK'
    BY <1>1, <1>2, <1>4, <2>1, <2>3, MountKept DEF Kind
  <2> QED
    BY <2>4, <2>5 DEF MountsResolve
<1>7. ASSUME NEW n \in Nodes, NEW p \in Paths, NEW mark, BeginMount(n, p, mark) PROVE MountsResolve'
  <2>1. job'[Topo].at = "read"
    BY <1>1, <1>7 DEF BeginMount, JobRecords
  <2>2. UNCHANGED <<set, res>>
    BY <1>7 DEF BeginMount
  <2> QED
    BY <1>5, <2>1, <2>2, NoMount DEF MountsResolve
<1>8. ASSUME NEW n \in Nodes, DeleteNode(n) PROVE MountsResolve'
  <2>1. UNCHANGED job /\ job[Topo].at = "idle" /\ set' = [set EXCEPT ![n] = None]
    BY <1>8, IdleJob DEF DeleteNode, Start
  <2>2. set \in [Nodes -> Volume \cup {None}]
    BY DEF Typed, StoreTyped
  <2>3. \A m \in Nodes : set'[m] # None => m # n /\ set'[m] = set[m]
    BY <2>1, <2>2
  <2>4. ASSUME NEW m \in Nodes, set'[m] # None, set[m] # None, set[m].file # None,
               Carries(res, set[m].kind, set[m].file)
        PROVE  Carries(res', set[m].kind, set[m].file)
    <3>1. CASE UNCHANGED res
      BY <2>4, <3>1
    <3>2. CASE res' = Without(Unused(n))
      <4>1. set[m] \in VolumesOf(Nodes \ {n})
        BY <2>3, <2>4 DEF VolumesOf
      <4>2. <<set[m].kind, Sanitized[set[m].file]>> \notin Unused(n)
        BY <4>1 DEF Unused, Behind
      <4>3. set[m].kind \in Kinds /\ Sanitized[set[m].file] \in Names
        BY <1>3, <2>4 DEF Names
      <4>4. res'[set[m].kind][Sanitized[set[m].file]] = res[set[m].kind][Sanitized[set[m].file]]
        BY <1>1, <3>2, <4>2, <4>3, WithoutFacts
      <4> QED
        BY <2>4, <4>4 DEF Carries
    <3> QED
      BY <1>8, <3>1, <3>2 DEF DeleteNode, Refuse
  <2>5. VolumesOK'
    BY <1>2, <2>3, <2>4, VolumesKept
  <2> QED
    BY <2>1, <2>5, NoMount DEF MountsResolve
<1>9. ASSUME NEW files, ClearTopology(files) PROVE MountsResolve'
  <2>1. UNCHANGED job /\ job[Topo].at = "idle"
    BY <1>9, IdleJob DEF ClearTopology, Start
  <2>2. VolumesOK'
    <3>1. CASE set' = [m \in Nodes |-> None]
      BY <3>1 DEF VolumesOK
    <3>2. ASSUME NEW S, set' = [m \in Nodes |-> IF m \in S THEN None ELSE set[m]], UNCHANGED res
          PROVE  VolumesOK'
      <4>1. \A m \in Nodes : set'[m] # None => set'[m] = set[m]
        BY <3>2, SMTT(30)
      <4> QED
        BY <1>2, <3>2, <4>1, VolumesKept
    <3> QED
      BY <1>9, <3>1, <3>2 DEF ClearTopology
  <2> QED
    BY <2>1, <2>2, NoMount DEF MountsResolve
<1>10. ASSUME ReadMount PROVE MountsResolve'
  <2> DEFINE p == job[Topo].file
  <2>1. UNCHANGED <<set, res, meta>>
    BY <1>10 DEF ReadMount
  <2>2. VolumesOK'
    BY <1>5, <2>1
  <2>3. CASE Go(Topo, "bare") \/ Done(Topo)
    <3>1. job'[Topo].at \in {"bare", "idle"}
      BY <1>1, <2>3, IdleJob DEF Go, Done, JobRecords
    <3> QED
      BY <2>2, <3>1, NoMount DEF MountsResolve
  <2>4. ASSUME NEW k \in KindsRead(p),
               job' = [job EXCEPT
                 ![Topo].at = IF k \in Backing(p) THEN "put" ELSE "drop",
                 ![Topo].data = disk[p], ![Topo].kind = k]
        PROVE  MountsResolve'
    <3>1. /\ job'[Topo].file = p /\ job'[Topo].kind = k
          /\ job'[Topo].at \in {"put", "drop"} /\ job[Topo].at = "read"
      BY <1>1, <1>10, <2>4 DEF JobRecords, ReadMount, At
    <3>2. ASSUME p \notin misled' PROVE k = KindOf(p)
      <4>1. p \in Mounted'
        BY <1>4, <3>1 DEF Mounted
      <4>2. ~ Misread(p)
        BY <1>2, <3>2, <4>1, NotMisled
      <4> QED
        BY <2>4, <3>1, <4>2, KindsReadFacts DEF Misread
    <3>3. MountOK'
      BY <2>1, <3>1, <3>2 DEF MountOK, Kind, KindOf, Sensitive, At
    <3> QED
      BY <2>2, <3>3 DEF MountsResolve
  <2> QED
    BY <1>10, <2>3, <2>4 DEF ReadMount
<1>11. ASSUME DropOther PROVE MountsResolve'
  <2>1. /\ At(Topo, "drop") /\ job[Topo].file \in Paths /\ Name \in Names
        /\ Other(Kind) \in Kinds /\ Other(Kind) # Kind
    BY <1>1, <1>11, KindFacts DEF DropOther, At, Typed, JobsTyped, TopoJob, Names, Name, Kind
  <2>2. /\ UNCHANGED <<set, meta>>
        /\ job'[Topo].at = "put" /\ job'[Topo].file = job[Topo].file /\ job'[Topo].kind = job[Topo].kind
    BY <1>1, <1>11 DEF DropOther, Go, JobRecords
  <2>3. MountOK'
    BY <1>2, <2>1, <2>2, MountKept DEF At
  <2>4. ASSUME NEW n \in Nodes, set[n] # None, set[n].file # None, set[n].file \notin misled,
               set[n].kind = KindOf(set[n].file), ~ Contested(set[n].file),
               Carries(res, set[n].kind, set[n].file)
        PROVE  Carries(res', set[n].kind, set[n].file)
    <3>1. set[n].file \in Paths /\ set[n].kind \in Kinds /\ Sanitized[set[n].file] \in Names
      BY <1>3, <2>4 DEF Names
    <3>2. CASE UNCHANGED res
      BY <2>4, <3>2
    <3>3. CASE res' = [res EXCEPT ![Other(Kind)][Name] = None] /\ res' # res
      <4>1. set[n].kind # Other(Kind) \/ Sanitized[set[n].file] # Name
        <5>1. ASSUME Sanitized[set[n].file] = Name PROVE set[n].kind = Kind
          <6>1. job'[Topo] # job[Topo]
            BY <2>1, <2>2 DEF At
          <6>2. set[n].file = job[Topo].file
            BY <1>1, <2>1, <2>4, <3>3, <5>1, <6>1 DEF Contested, Name
          <6> QED
            BY <1>2, <2>1, <2>4, <6>2 DEF MountOK, At
        <5> QED
          BY <2>1, <5>1
      <4>2. res'[set[n].kind][Sanitized[set[n].file]] = res[set[n].kind][Sanitized[set[n].file]]
        BY <1>1, <2>1, <3>1, <3>3, <4>1, DropFacts
      <4> QED
        BY <2>4, <4>2 DEF Carries
    <3> QED
      BY <1>11, <3>2, <3>3 DEF DropOther, Name, Kind
  <2>5. VolumesOK'
    BY <1>2, <2>2, <2>4, VolumesKept
  <2> QED
    BY <2>3, <2>5 DEF MountsResolve
<1>12. ASSUME PutMount PROVE MountsResolve'
  <2>1. UNCHANGED <<set, meta>>
    BY <1>12 DEF PutMount
  <2>2. CASE Done(Topo) /\ UNCHANGED res
    <3>1. job'[Topo].at = "idle"
      BY <1>1, <2>2, IdleJob DEF Done
    <3> QED
      BY <1>5, <2>1, <2>2, <3>1, NoMount DEF MountsResolve
  <2>3. CASE Put(Topo, Kind) /\ Go(Topo, "set")
    <3>1. job[Topo].file \in Paths /\ job[Topo].data \in Contents /\ At(Topo, "put")
      BY <1>12 DEF PutMount, At, Typed, JobsTyped, TopoJob
    <3>4. /\ job'[Topo].at = "set" /\ job'[Topo].file = job[Topo].file
          /\ job'[Topo].kind = job[Topo].kind /\ job'[Topo] # job[Topo]
      BY <1>1, <2>3, <3>1 DEF Go, JobRecords, At
    <3>2. \A k \in Kinds, p \in Paths :
            ~ Contested(p) /\ Carries(res, k, p) => Carries(res', k, p)
      BY <1>1, <2>3, <3>1, <3>4, PutCarries
    <3>3. Carries(res', job[Topo].kind, job[Topo].file)
      BY <1>1, <2>3, <3>1, PutFacts DEF Carries, Kind
    <3>5. MountOK'
      BY <1>2, <3>1, <3>3, <3>4, MountKept DEF At
    <3> QED
      BY <1>5, <2>1, <3>2, <3>5 DEF MountsResolve
  <2> QED
    BY <1>12, <2>2, <2>3 DEF PutMount, Kind
<1>13. ASSUME CreateSet PROVE MountsResolve'
  <2> DEFINE p == job[Topo].file
             n == job[Topo].node
             v(k) == [kind |-> k, file |-> IF At(Topo, "bare") THEN None ELSE p]
  <2>1. /\ n \in Nodes /\ p \in Paths /\ job[Topo].at \in {"set", "bare"}
        /\ UNCHANGED <<meta, res>>
        /\ UNCHANGED set \/ \E k \in KindsRead(p) : set' = [set EXCEPT ![n] = v(k)]
    BY <1>13 DEF CreateSet, Typed, JobsTyped, TopoJob
  <2>2. set \in [Nodes -> Volume \cup {None}]
    BY DEF Typed, StoreTyped
  <2>v. \A k : v(k).kind = k /\ v(k).file = IF At(Topo, "bare") THEN None ELSE p
    OBVIOUS
  <2> HIDE DEF v
  <2>3. job'[Topo].at = "idle"
    BY <1>1, <1>13, IdleJob DEF CreateSet, Done
  <2>4. ASSUME NEW k \in KindsRead(p), set' = [set EXCEPT ![n] = v(k)], set' # set,
               NEW m \in Nodes, set'[m] # None, set'[m].file # None, set'[m].file \notin misled'
        PROVE  set'[m].kind = KindOf(set'[m].file) /\ Carries(res, set'[m].kind, set'[m].file)
    <3>1. set'[m].file \in Mounted'
      <4>1. set'[m] \in Volumes'
        BY <2>4 DEF Volumes, VolumesOf
      <4> QED
        BY <4>1 DEF Mounted
    <3>2. set'[m].file \notin misled /\ ~ Misread(set'[m].file)
      BY <1>2, <2>4, <3>1, NotMisled
    <3>3. CASE m = n
      <4>1. set'[n] = v(k) /\ set'[m] = v(k)
        BY <2>1, <2>2, <2>4, <3>3
      <4>2. At(Topo, "set") /\ set'[m].file = p /\ set'[m].kind = k
        BY <2>1, <2>4, <2>v, <4>1 DEF At
      <4>3. Kind = KindOf(p) /\ Carries(res, Kind, p)
        BY <1>2, <3>2, <4>2 DEF MountOK, At
      <4>4. k = KindOf(p)
        BY <2>4, <3>2, <3>3, <4>2, KindsReadFacts DEF Misread
      <4> QED
        BY <4>2, <4>3, <4>4
    <3>4. CASE m # n
      <4>1. set'[m] = set[m]
        BY <2>1, <2>2, <2>4, <3>4
      <4> QED
        BY <1>2, <2>4, <3>2, <4>1 DEF VolumesOK
    <3> QED
      BY <3>3, <3>4
  <2>5. VolumesOK'
    <3>1. CASE UNCHANGED set
      BY <1>5, <2>1, <3>1
    <3>2. CASE set' # set
      BY <2>1, <2>4, <3>2 DEF VolumesOK, KindOf, Sensitive
    <3> QED
      BY <3>1, <3>2
  <2> QED
    BY <2>3, <2>5, NoMount DEF MountsResolve
<1> QED
  BY <1>6, <1>7, <1>8, <1>9, <1>10, <1>11, <1>12, <1>13
     DEF Next, TopologyRequest, TopologyStep

----------------------------------------------------------------------------
(* What is synced is current.                                               *)

\* A resource that a step leaves stays excused when the step leaves the
\* file's content, or gives a reason why not.
LEMMA ExcuseKept ==
  ASSUME NEW k \in Kinds, NEW n \in Names, NEW f, f = res[k][n].file,
         res'[k][n] = res[k][n], Excused(k, n),
         \/ disk'[f] = disk[f] \/ disk'[f] \notin Contents
         \/ f \in stale' \/ n \in refused' \/ Saving(job', f),
         f \in stale => f \in stale' \/ n \in refused',
         n \in refused => n \in refused',
         Saving(job, f) => Saving(job', f) \/ f \in stale' \/ n \in refused'
  PROVE  Excused(k, n)'
BY DEF Excused, Saving

\* Every step that writes no resource keeps them current when it keeps the
\* excuses.
LEMMA CurrentFrame ==
  ASSUME Typed, ResourcesCurrent,
         \A k \in Kinds, n \in Names : res'[k][n] # None => res'[k][n] = res[k][n],
         \A f \in Paths :
           /\ \/ disk'[f] = disk[f] \/ disk'[f] \notin Contents \/ f \in stale' \/ Saving(job', f)
           /\ f \in stale => f \in stale'
           /\ Saving(job, f) => Saving(job', f) \/ f \in stale',
         refused \subseteq refused'
  PROVE  ResourcesCurrent'
<1> SUFFICES ASSUME NEW k \in Kinds, NEW n \in Names, res'[k][n] # None PROVE Excused(k, n)'
  BY DEF ResourcesCurrent
<1>1. res'[k][n] = res[k][n] /\ res[k][n] \in Resource /\ Excused(k, n)
  BY DEF Typed, StoreTyped, ResourcesCurrent
<1>2. res[k][n].file \in Paths
  BY <1>1 DEF Resource
<1> QED
  BY <1>1, <1>2, ExcuseKept

\* A worker that saves nothing can do what it likes to its own job.
LEMMA SavingKept ==
  ASSUME NEW u \in Users, job[u].at \notin {"sync", "put"},
         \A v \in Users \ {u} : job'[v] = job[v], NEW f, Saving(job, f)
  PROVE  Saving(job', f)
BY DEF Saving

\* Requests on files.
LEMMA RequestsCurrent ==
  ASSUME Parameters, Typed, ResourcesCurrent, NEW u \in Users, FileRequest(u)
  PROVE  ResourcesCurrent'
<1>1. /\ job[u].at = "idle" /\ UNCHANGED <<res, refused>>
      /\ \A v \in Users \ {u} : job'[v] = job[v]
  <2>1. job[u] = Idle
    BY DEF FileRequest, UpdateFileMeta, Upload, UpdateFileContent, CreateFolder, ImportEntry,
           DeleteFile, DeleteAllNamespaceFiles, Rename, Start
  <2> QED
    BY <2>1, IdleJob, ResApart, TopoApart
<1>2. \A f : Saving(job, f) => Saving(job', f)
  BY <1>1, SavingKept
<1>3. job \in [Workers -> JobRecords] /\ u \in Workers
  BY DEF Typed, JobsTyped, Workers
<1>4. ASSUME NEW f \in Paths
      PROVE  /\ \/ disk'[f] = disk[f] \/ disk'[f] \notin Contents \/ f \in stale'
                \/ Saving(job', f)
             /\ f \in stale => f \in stale'
  <2>1. ASSUME NEW p \in Paths, NEW c, disk' = Written(p, c)
        PROVE  f = p \/ disk'[f] = disk[f] \/ disk'[f] \notin Contents
    BY <2>1, Distinct DEF Written
  <2>2. ASSUME NEW p \in Paths, NEW c \in Contents, Upload(u, p, c) \/ UpdateFileContent(u, p, c)
        PROVE  <1>4!2
    <3>1. disk' = Written(p, c) /\ UNCHANGED stale /\ job' = [job EXCEPT ![u].at = "sync", ![u].file = p]
      BY <2>2 DEF Upload, UpdateFileContent, Save
    <3>2. job'[u].at = "sync" /\ job'[u].file = p
      BY <1>3, <3>1 DEF JobRecords
    <3>3. Saving(job', p)
      BY <3>2 DEF Saving
    <3> QED
      BY <2>1, <3>1, <3>3
  <2>3. ASSUME NEW p \in Paths, NEW c, ImportEntry(u, p, c) PROVE <1>4!2
    BY <2>1, <2>3 DEF ImportEntry
  <2>4. ASSUME NEW p \in Paths, CreateFolder(u, p) PROVE <1>4!2
    <3>1. disk' = Written(p, Dir) /\ UNCHANGED stale
      BY <2>4 DEF CreateFolder
    <3>2. disk'[p] \notin Contents
      BY <3>1, Distinct DEF Written
    <3> QED
      BY <2>1, <3>1, <3>2
  <2>5. ASSUME NEW p \in Paths, DeleteFile(u, p) PROVE <1>4!2
    BY <2>5, Distinct DEF DeleteFile, Removed
  <2>6. ASSUME NEW p \in Paths, NEW q \in Paths, Rename(u, p, q) PROVE <1>4!2
    <3>1. /\ disk' = [r \in Paths |->
               IF \E s \in All(p) : Moved(p, q, s) = r
                 THEN disk[CHOOSE s \in All(p) : Moved(p, q, s) = r]
               ELSE IF r \in All(p) THEN None
               ELSE IF r \in Parents(q) THEN Dir ELSE disk[r]]
          /\ stale' = stale \cup {Moved(p, q, r) : r \in All(p)}
      BY <2>6 DEF Rename, All
    <3>2. CASE \E s \in All(p) : Moved(p, q, s) = f
      BY <3>1, <3>2
    <3>3. CASE ~ \E s \in All(p) : Moved(p, q, s) = f
      <4>1. disk'[f] \in {None, Dir, disk[f]}
        BY <3>1, <3>3
      <4> QED
        BY <3>1, <4>1, Distinct
    <3> QED
      BY <3>2, <3>3
  <2>7. ASSUME NEW p \in Paths, NEW flag, UpdateFileMeta(u, p, flag) PROVE <1>4!2
    BY <2>7 DEF UpdateFileMeta
  <2>8. ASSUME DeleteAllNamespaceFiles(u) PROVE <1>4!2
    BY <2>8, Distinct DEF DeleteAllNamespaceFiles
  <2> QED
    BY <2>2, <2>3, <2>4, <2>5, <2>6, <2>7, <2>8 DEF FileRequest
<1> QED
  BY <1>1, <1>2, <1>4, CurrentFrame

\* Writing the resource of a file ends what could be said against it, when
\* the other kind is out of the way.
LEMMA PutCurrent ==
  ASSUME Parameters, Typed, ResourcesCurrent, NEW w, NEW i \in Kinds,
         job[w].file \in Paths, job[w].data \in Contents, Put(w, i),
         \/ res[Other(i)][Sanitized[job[w].file]] = None
         \/ Sanitized[job[w].file] \in refused,
         UNCHANGED <<disk, refused>>,
         \A f \in Paths \ {job[w].file} : Saving(job, f) => Saving(job', f)
  PROVE  ResourcesCurrent'
<1> DEFINE g == job[w].file
           m == Sanitized[g]
<1>1. ResTyped
  BY SMTT(30) DEF Typed, StoreTyped, ResTyped
<1>2. /\ m \in Names /\ res'[i][m].file = g /\ res'[i][m].data = job[w].data
      /\ \A k \in Kinds, n \in Names : k # i \/ n # m => res'[k][n] = res[k][n]
  BY <1>1, PutFacts
<1>3. /\ stale' \subseteq stale \cup {g} /\ stale \subseteq stale' \cup {g}
      /\ job[w].data = disk[g] \/ g \in stale'
  BY DEF Put
<1> SUFFICES ASSUME NEW k \in Kinds, NEW n \in Names, res'[k][n] # None PROVE Excused(k, n)'
  BY SMTT(30) DEF ResourcesCurrent
<1>4. CASE k = i /\ n = m
  BY <1>2, <1>3, <1>4 DEF Excused
<1>5. CASE k # i /\ n = m
  <2>1. k = Other(i) /\ res'[k][n] = res[k][n]
    BY <1>2, <1>5, KindFacts
  <2>2. n \in refused'
    BY <1>5, <2>1
  <2> QED
    BY <2>2 DEF Excused
<1>6. CASE n # m
  <2>1. res'[k][n] = res[k][n] /\ res[k][n] # None /\ res[k][n] \in Resource
    BY <1>1, <1>2, <1>6 DEF ResTyped
  <2>2. res[k][n].file # g /\ res[k][n].file \in Paths /\ Excused(k, n)
    BY <1>1, <1>6, <2>1 DEF ResTyped, Resource, ResourcesCurrent
  <2> QED
    BY <1>3, <2>1, <2>2, ExcuseKept
<1> QED
  BY <1>4, <1>5, <1>6

\* Every step keeps the resources current.
LEMMA CurrentKept ==
  ASSUME Parameters, Typed, KindsApart, ResourcesCurrent, Next
  PROVE  ResourcesCurrent'
<1>1. /\ ResTyped /\ job \in [Workers -> JobRecords] /\ Topo \in Workers
      /\ job[Topo] \in JobRecords /\ Kind \in Kinds
      /\ \A u \in Users : u \in Workers /\ u # Topo
  BY FilesAssumption DEF Typed, StoreTyped, ResTyped, JobsTyped, Workers, JobRecords, Kind
<1>2. ASSUME NEW u \in Users, SyncRead(u) PROVE ResourcesCurrent'
  <2>1. /\ UNCHANGED <<disk, res, refused>> /\ stale \subseteq stale'
        /\ \A v \in Users \ {u} : job'[v] = job[v]
    BY <1>1, <1>2, TopoApart DEF SyncRead, FileStep
  <2>2. \/ job'[u].at = "put" /\ job'[u].file = job[u].file
        \/ job[u].file \in stale'
    BY <1>1, <1>2 DEF SyncRead, JobRecords
  <2>3. \A f : Saving(job, f) => Saving(job', f) \/ f \in stale'
    BY <2>1, <2>2 DEF Saving
  <2> QED
    BY <2>1, <2>3, CurrentFrame
<1>3. ASSUME NEW u \in Users, DeleteMeta(u) \/ RenameFileMeta(u) PROVE ResourcesCurrent'
  <2>1. /\ UNCHANGED <<disk, res, stale, refused>> /\ job[u].at \notin {"sync", "put"}
        /\ \A v \in Users \ {u} : job'[v] = job[v]
    BY <1>3, TopoApart DEF FileStep, DeleteMeta, RenameFileMeta, At
  <2>2. \A f : Saving(job, f) => Saving(job', f)
    BY <2>1, SavingKept
  <2> QED
    BY <2>1, <2>2, CurrentFrame
<1>4. ASSUME NEW u \in Users, SyncPut(u) PROVE ResourcesCurrent'
  <2> DEFINE g == job[u].file
  <2>1. /\ g \in Paths /\ job[u].data \in Contents /\ SyncKind(g) \in Kinds /\ Sanitized[g] \in Names
        /\ UNCHANGED <<disk, refused>> /\ \A v \in Users \ {u} : job'[v] = job[v]
    BY <1>4, TopoApart
       DEF FileStep, SyncPut, At, Typed, JobsTyped, UserJob, SyncKind, Kinds, Names
  <2>2. \A f \in Paths \ {g} : Saving(job, f) => Saving(job', f)
    BY <2>1 DEF Saving
  <2>3. CASE SyncKind(g) \in Backing(g) /\ Put(u, SyncKind(g))
    <3>1. res[SyncKind(g)][Sanitized[g]] # None
      BY <2>3 DEF Backing
    <3>2. \/ res[Other(SyncKind(g))][Sanitized[g]] = None
          \/ Sanitized[g] \in refused
      BY <2>1, <3>1, OneKindIs DEF KindsApart
    <3> QED
      BY <2>1, <2>2, <2>3, <3>2, PutCurrent
  <2>4. CASE Backing(g) = {} /\ UNCHANGED <<res, stale>>
    <3> SUFFICES ASSUME NEW k \in Kinds, NEW n \in Names, res'[k][n] # None PROVE Excused(k, n)'
      BY DEF ResourcesCurrent
    <3>1. res'[k][n] = res[k][n] /\ res[k][n] # None /\ res[k][n] \in Resource /\ Excused(k, n)
      BY <1>1, <2>4 DEF ResTyped, ResourcesCurrent
    <3>2. n = Sanitized[res[k][n].file] /\ res[k][n].file \in Paths
      BY <1>1, <3>1 DEF ResTyped, Resource
    <3>3. res[k][n].file # g
      BY <2>4, <3>1, <3>2 DEF Backing
    <3> QED
      BY <2>1, <2>2, <2>4, <3>1, <3>2, <3>3, ExcuseKept
  <2>5. CASE stale' = stale \cup {g} /\ UNCHANGED res
    BY <2>1, <2>2, <2>5, CurrentFrame
  <2> QED
    BY <1>4, <2>3, <2>4, <2>5 DEF SyncPut
<1>5. ASSUME TopologyRequest \/ TopologyStep PROVE \A f : Saving(job, f) <=> Saving(job', f)
  <2>1. \A v \in Users : job'[v] = job[v]
    <3>1. CASE TopologyRequest
      BY <1>1, <3>1 DEF TopologyRequest, BeginMount, DeleteNode, ClearTopology
    <3>2. CASE TopologyStep
      BY <1>1, <3>2 DEF TopologyStep, ReadMount, DropOther, PutMount, CreateSet, Go, Done
    <3> QED
      BY <1>5, <3>1, <3>2
  <2> QED
    BY <2>1 DEF Saving
<1>6. ASSUME TopologyRequest PROVE ResourcesCurrent'
  <2>1. /\ UNCHANGED <<stale, refused>>
        /\ UNCHANGED disk \/ disk' = [p \in Paths |-> None]
        /\ UNCHANGED res \/ \E S : res' = Without(S)
    BY <1>6 DEF TopologyRequest, BeginMount, DeleteNode, ClearTopology
  <2>2. \A k \in Kinds, n \in Names : res'[k][n] # None => res'[k][n] = res[k][n]
    BY <1>1, <2>1, WithoutFacts
  <2>3. \A f \in Paths : disk'[f] = disk[f] \/ disk'[f] \notin Contents
    BY <2>1, Distinct
  <2> QED
    BY <1>5, <1>6, <2>1, <2>2, <2>3, CurrentFrame
<1>7. ASSUME ReadMount \/ CreateSet PROVE ResourcesCurrent'
  <2>1. UNCHANGED <<disk, res, stale, refused>>
    BY <1>7 DEF ReadMount, CreateSet
  <2> QED
    BY <1>5, <1>7, <2>1, CurrentFrame DEF TopologyStep
<1>8. ASSUME DropOther PROVE ResourcesCurrent'
  <2>1. /\ At(Topo, "drop") /\ Name \in Names /\ Other(Kind) \in Kinds
        /\ UNCHANGED <<disk, stale>> /\ res[Kind][Name] = None
    BY <1>1, <1>8, KindFacts
       DEF DropOther, At, Typed, JobsTyped, TopoJob, Names, Name, KindsApart
  <2>2. CASE UNCHANGED res /\ refused' = refused \cup {Name}
    BY <1>5, <1>8, <2>1, <2>2, CurrentFrame DEF TopologyStep
  <2>3. CASE res' = [res EXCEPT ![Other(Kind)][Name] = None] /\ refused' = refused \ {Name}
    <3>1. /\ res'[Other(Kind)][Name] = None
          /\ \A k \in Kinds, n \in Names : k # Other(Kind) \/ n # Name => res'[k][n] = res[k][n]
      BY <1>1, <2>1, <2>3, DropFacts
    <3> SUFFICES ASSUME NEW k \in Kinds, NEW n \in Names, res'[k][n] # None PROVE Excused(k, n)'
      BY DEF ResourcesCurrent
    <3>2. n # Name
      <4>1. k = Kind \/ k = Other(Kind)
        BY <1>1, KindFacts
      <4>2. Kind # Other(Kind)
        BY <1>1, KindFacts
      <4> QED
        BY <1>1, <2>1, <3>1, <4>1, <4>2
    <3>3. res'[k][n] = res[k][n] /\ Excused(k, n)
      BY <3>1, <3>2 DEF ResourcesCurrent
    <3> QED
      BY <1>5, <1>8, <2>1, <2>3, <3>2, <3>3, ExcuseKept DEF TopologyStep
  <2> QED
    BY <1>8, <2>2, <2>3 DEF DropOther, Name, Kind
<1>9. ASSUME PutMount PROVE ResourcesCurrent'
  <2>1. CASE UNCHANGED <<res, stale>>
    BY <1>5, <1>9, <2>1, CurrentFrame DEF PutMount, TopologyStep
  <2>2. CASE Put(Topo, Kind)
    <3>1. /\ job[Topo].file \in Paths /\ job[Topo].data \in Contents
          /\ UNCHANGED <<disk, refused>>
          /\ res[Other(Kind)][Name] = None \/ Name \in refused
      BY <1>9 DEF PutMount, At, Typed, JobsTyped, TopoJob, KindsApart
    <3> QED
      BY <1>1, <1>5, <1>9, <2>2, <3>1, PutCurrent DEF Name, TopologyStep
  <2> QED
    BY <1>9, <2>1, <2>2 DEF PutMount, Kind
<1> QED
  BY <1>2, <1>3, <1>4, <1>6, <1>7, <1>8, <1>9, RequestsCurrent
     DEF Next, FileStep, TopologyStep

----------------------------------------------------------------------------
(* The theorems.                                                            *)

\* Nothing is mounted and no resource exists at the start.
LEMMA RestInit == Init => KindsApart /\ MountsResolve /\ ResourcesCurrent
<1> SUFFICES ASSUME Init PROVE KindsApart /\ MountsResolve /\ ResourcesCurrent
  OBVIOUS
<1>1. job[Topo].at = "idle" /\ \A k \in Kinds, n \in Names : res[k][n] = None
  BY IdleJob DEF Init, Workers
<1>2. KindsApart
  BY <1>1 DEF KindsApart, OneKind, At, Kinds
<1>3. MountsResolve
  BY <1>1 DEF Init, MountsResolve, VolumesOK, MountOK, At
<1>4. ResourcesCurrent
  BY <1>1 DEF ResourcesCurrent
<1> QED
  BY <1>2, <1>3, <1>4

\* Types, the kinds of resource and what they hold, whatever names users give
\* their files.
LEMMA FilesInvariant ==
  ASSUME Parameters
  PROVE  Spec => [](Typed /\ KindsApart /\ ResourcesCurrent)
<1>1. Init => Typed /\ KindsApart /\ ResourcesCurrent
  BY TypedInit, RestInit
<1>2. Typed /\ KindsApart /\ ResourcesCurrent /\ [Next]_vars
        => (Typed /\ KindsApart /\ ResourcesCurrent)'
  <2> SUFFICES ASSUME Typed, KindsApart, ResourcesCurrent, [Next]_vars
               PROVE  Typed' /\ KindsApart' /\ ResourcesCurrent'
    OBVIOUS
  <2>1. Typed'
    BY TypedNext
  <2>2. CASE Next
    BY <2>1, <2>2, KindsKept, CurrentKept
  <2>3. CASE UNCHANGED vars
    BY <2>1, <2>3
       DEF vars, KindsApart, OneKind, At, Kind, Name, ResourcesCurrent, Excused, Saving
  <2> QED
    BY <2>2, <2>3
<1> QED
  BY <1>1, <1>2, PTL DEF Spec

\* A file is never behind a ConfigMap and a Secret at once, unless the API
\* refused to drop the one that was there: CreateMountResourceForFile drops
\* the other kind before it creates one, and a sync creates none.
THEOREM OneKindBehindAFile ==
  ASSUME Parameters
  PROVE  Spec => []OneKind
<1>1. Typed /\ KindsApart /\ ResourcesCurrent => OneKind
  BY DEF KindsApart
<1> QED
  BY <1>1, FilesInvariant, PTL

\* Once the saves of a file are over, the resource behind it holds what the
\* last of them put on disk, whichever order saves and mounts ran in, with the
\* exceptions the code accepts.
THEOREM SyncedStaysCurrent ==
  ASSUME Parameters
  PROVE  Spec => []SyncedIsCurrent
<1>1. Typed /\ KindsApart /\ ResourcesCurrent => SyncedIsCurrent
  <2> SUFFICES ASSUME Typed, ResourcesCurrent,
                      NEW k \in Kinds, NEW n \in Names, res[k][n] # None
               PROVE  \/ disk[res[k][n].file] \notin Contents \/ res[k][n].file \in stale
                      \/ Busy(res[k][n].file) \/ n \in refused
                      \/ res[k][n].data = disk[res[k][n].file]
    BY DEF SyncedIsCurrent
  <2>1. Excused(k, n)
    BY DEF ResourcesCurrent
  <2> QED
    BY <2>1 DEF Excused, Saving, Busy, Workers
<1> QED
  BY <1>1, FilesInvariant, PTL

\* In every reachable state the disk is a tree, no resource carries content
\* that does not fit it, and every volume of a file that is not misled finds
\* the resource that carries this file: neither a node that shares it, nor a
\* mount or a clear that failed, nor a file request takes it away, whatever
\* names the sanitizer makes equal and however often the flag of another file
\* cannot be read.  Assumed: the list of StatefulSets a node's removal reads
\* answers.
THEOREM MountsStaySound ==
  ASSUME Parameters, "list" \notin Faults
  PROVE  Spec => []MountsSound
<1>1. Init => MountsResolve
  BY RestInit
<1>2. Typed /\ MountsResolve /\ [Next]_vars => MountsResolve'
  <2>1. ASSUME Typed, MountsResolve, Next PROVE MountsResolve'
    BY <2>1, MountsKept
  <2>2. ASSUME MountsResolve, UNCHANGED vars PROVE MountsResolve'
    BY <2>2
       DEF vars, MountsResolve, VolumesOK, MountOK, At, Kind, KindOf, Sensitive, Carries
  <2> QED
    BY <2>1, <2>2
<1>3. Typed => TypeOK
  <2> SUFFICES ASSUME Typed PROVE TypeOK
    OBVIOUS
  <2>1. \A w \in Workers : job[w] \in JobRecords
    BY DEF Typed, JobsTyped
  <2> QED
    BY <2>1 DEF Typed, DiskTyped, StoreTyped, TypeOK, JobRecords
<1>4. MountsResolve => VolumesResolve
  <2> SUFFICES ASSUME MountsResolve, NEW v \in Volumes, v.file # None, v.file \notin misled
               PROVE  /\ res[v.kind][Sanitized[v.file]] # None
                      /\ res[v.kind][Sanitized[v.file]].file = v.file
    BY DEF VolumesResolve
  <2>1. PICK n \in Nodes : v = set[n] /\ set[n] # None
    BY DEF Volumes, VolumesOf
  <2> QED
    BY <2>1 DEF MountsResolve, VolumesOK, Carries
<1>5. Typed /\ MountsResolve => MountsSound
  BY <1>3, <1>4 DEF MountsSound
<1> QED
  BY <1>1, <1>2, <1>5, FilesInvariant, PTL DEF Spec

=============================================================================
