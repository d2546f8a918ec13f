--------------------------- MODULE IdDelta_proofs ---------------------------
(***************************************************************************)
(* Proof that an id-keyed delta keeps the metadata cache one tree, reports *)
(* every path it changes and ends with the tree the provider has, over any *)
(* number of ids, any trees and any changes of other clients between any   *)
(* pages, as long as no several folders come to be each inside the next,   *)
(* some in the cache and some by now (Inverts), no two files are at one    *)
(* place and, for the reports, no file goes where the cache has another    *)
(* folder (TakesOver).  PlainTrees has what the last claim needs besides.  *)
(*                                                                         *)
(* CacheIsATree is not inductive.  A move could put a folder into its own  *)
(* subtree in the cache, and the rewriting of paths then loses it.  The    *)
(* invariant adds that there is no ring of folders: it is what every entry *)
(* leaves true, whatever the order, since it gives one folder the parent   *)
(* that it has by now.                                                     *)
(*                                                                         *)
(* Tells is EveryChangeReported in the middle of a delta, after any entry: *)
(* a path at which the cache differs from what the delta began with has    *)
(* been noted.                                                             *)
(*                                                                         *)
(* Settled is CacheMirrorsTree in the middle of a delta, for the ids that  *)
(* are not to come: each is cached right below the folder it is in by now, *)
(* by its name, or its folder has gone as well.  Paths are not compared    *)
(* before the end, since those of the folders above may still change.      *)
(*                                                                         *)
(* FoldLeft, PathsIn, ListedPath and Ancestors are recursive functions.    *)
(* Each is shown to exist row by row, with the least counterexample in the *)
(* place of an induction.                                                  *)
(***************************************************************************)
EXTENDS IdDelta, SequenceTheorems, FiniteSetTheorems, TLAPS

-----------------------------------------------------------------------------
(* Induction: of a set of finite sets, or of numbers, one is the smallest. *)

(* Of subsets of a finite set, one has no other of them inside it. *)
LEMMA SmallestSet ==
  ASSUME NEW T, IsFiniteSet(T), NEW Bad, Bad \subseteq SUBSET T, Bad # {}
  PROVE  \E S \in Bad : \A R \in Bad : R \subseteq S => R = S
<1>1. IsWellFoundedOn(StrictSubsetOrdering(T), SUBSET T)
  BY FS_StrictSubsetOrderingWellFounded, FS_FiniteSubsetsOfFinite
<1>2. PICK S \in Bad : \A R \in Bad : ~(<<R, S>> \in StrictSubsetOrdering(T))
  BY <1>1, WFMin
<1> QED
  BY <1>2 DEF StrictSubsetOrdering

(* Of some natural numbers, one is the least. *)
LEMMA Smallest ==
  ASSUME NEW Bad, Bad \subseteq Nat, Bad # {}
  PROVE  \E n \in Bad : \A m \in Bad : n <= m
<1>1. PICK b \in Bad : TRUE
  OBVIOUS
<1> DEFINE T == 0..b
           Up == {0..n : n \in {m \in Bad : m <= b}}
<1>2. IsFiniteSet(T)
  BY <1>1, FS_Interval
<1>3. Up \subseteq SUBSET T /\ Up # {}
  BY <1>1
<1>4. PICK S \in Up : \A R \in Up : R \subseteq S => R = S
  <2> HIDE DEF Up, T
  <2> QED BY <1>2, <1>3, SmallestSet
<1>5. PICK n \in Bad : n <= b /\ S = 0..n
  BY <1>4
<1>6. ASSUME NEW m \in Bad, m < n PROVE FALSE
  <2>1. 0..m \in Up /\ 0..m \subseteq S
    BY <1>1, <1>5, <1>6
  <2>2. n \in 0..n /\ n \notin 0..m
    BY <1>6
  <2> QED BY <1>4, <1>5, <2>1, <2>2
<1> QED BY <1>5, <1>6

-----------------------------------------------------------------------------
(* Paths: sequences of names. *)

(* A path's parent is the path without its last name. *)
LEMMA ParentPath ==
  ASSUME NEW N, NEW q \in Seq(N), q # <<>>
  PROVE  /\ Parent(q) \in Seq(N) /\ Len(Parent(q)) = Len(q) - 1
         /\ \A i \in 1..(Len(q) - 1) : Parent(q)[i] = q[i]
<1> DEFINE n == Len(q) - 1
<1>1. n \in Int /\ n >= 0
  BY EmptySeq
<1>2. \A i \in 1..n : q[i] \in N
  OBVIOUS
<1> HIDE DEF n
<1>3. SubSeq(q, 1, n) \in Seq(N)
  BY <1>1, <1>2, SubSeqProperties
<1>4. Len(SubSeq(q, 1, n)) = n
  <2>1. Len(SubSeq(q, 1, n)) = IF 1 <= n THEN n - 1 + 1 ELSE 0
    BY <1>1, <1>2, SubSeqProperties
  <2> QED BY <1>1, <2>1
<1>5. ASSUME NEW i \in 1..n PROVE SubSeq(q, 1, n)[i] = q[i]
  <2>1. i \in 1..(n - 1 + 1) /\ 1 + i - 1 = i
    BY <1>1
  <2>2. SubSeq(q, 1, n)[i] = q[1 + i - 1]
    BY <1>1, <1>2, <2>1, SubSeqProperties
  <2> QED BY <2>1, <2>2
<1> QED BY <1>3, <1>4, <1>5 DEF Parent, Front, n

(* Below, by length and names. *)
LEMMA BelowPath ==
  ASSUME NEW N, NEW p \in Seq(N), NEW q \in Seq(N)
  PROVE  Below(p, q) <=> Len(p) < Len(q) /\ \A i \in 1..Len(p) : p[i] = q[i]
<1>0. Len(p) \in Nat /\ Len(q) \in Nat
  OBVIOUS
<1>1. SubSeq(p, 1, Len(p)) = p
  BY SubSeqFull
<1>2. ASSUME Len(p) <= Len(q)
      PROVE  /\ SubSeq(q, 1, Len(p)) \in Seq(N) /\ Len(SubSeq(q, 1, Len(p))) = Len(p)
             /\ \A i \in 1..Len(p) : SubSeq(q, 1, Len(p))[i] = q[i]
  BY <1>0, <1>2, SubSeqProperties
<1>3. ASSUME Len(p) <= Len(q), \A i \in 1..Len(p) : p[i] = q[i]
      PROVE  SubSeq(q, 1, Len(p)) = p
  BY <1>2, <1>3, SeqEqual
<1>4. ASSUME Len(p) = Len(q), \A i \in 1..Len(p) : p[i] = q[i]
      PROVE  p = q
  BY <1>4, SeqEqual
<1> QED
  BY <1>0, <1>1, <1>2, <1>3, <1>4 DEF Below, IsStrictPrefix, IsPrefix

(* Below is a strict order, and linear above a path. *)
LEMMA BelowOrder ==
  ASSUME NEW N, NEW p \in Seq(N), NEW q \in Seq(N), NEW r \in Seq(N)
  PROVE  /\ Below(p, q) => Len(p) < Len(q) /\ p # q /\ ~Below(q, p)
         /\ Below(p, q) /\ Below(q, r) => Below(p, r)
         /\ Below(p, r) /\ Below(q, r) => p = q \/ Below(p, q) \/ Below(q, p)
<1>1. Below(p, q) => Len(p) < Len(q) /\ p # q /\ ~Below(q, p)
  BY BelowPath
<1>2. Below(p, q) /\ Below(q, r) => Below(p, r)
  BY BelowPath
<1>3. ASSUME Below(p, r), Below(q, r) PROVE p = q \/ Below(p, q) \/ Below(q, p)
  <2>1. \A i \in 1..Len(p) : i <= Len(q) => p[i] = q[i]
    BY <1>3, BelowPath
  <2>2. CASE Len(p) = Len(q)
    BY <2>1, <2>2, SeqEqual
  <2>3. CASE Len(p) < Len(q)
    BY <2>1, <2>3, BelowPath
  <2>4. CASE Len(p) > Len(q)
    BY <2>1, <2>4, BelowPath
  <2> QED BY <2>2, <2>3, <2>4
<1> QED BY <1>1, <1>2, <1>3

(* What is above a path is its parent, or above its parent. *)
LEMMA BelowParent ==
  ASSUME NEW N, NEW p \in Seq(N), NEW q \in Seq(N), q # <<>>
  PROVE  /\ Below(Parent(q), q)
         /\ Below(p, q) <=> p = Parent(q) \/ Below(p, Parent(q))
<1>1. /\ Parent(q) \in Seq(N) /\ Len(Parent(q)) = Len(q) - 1
      /\ \A i \in 1..(Len(q) - 1) : Parent(q)[i] = q[i]
  BY ParentPath
<1>2. Below(Parent(q), q)
  BY <1>1, BelowPath
<1>3. Below(p, Parent(q)) => Below(p, q)
  BY <1>1, <1>2, BelowOrder
<1>4. ASSUME Below(p, q) PROVE p = Parent(q) \/ Below(p, Parent(q))
  <2>1. Len(p) <= Len(Parent(q)) /\ \A i \in 1..Len(p) : p[i] = Parent(q)[i]
    BY <1>1, <1>4, BelowPath
  <2>2. CASE Len(p) = Len(Parent(q))
    BY <1>1, <2>1, <2>2, SeqEqual
  <2>3. CASE Len(p) < Len(Parent(q))
    BY <1>1, <2>1, <2>3, BelowPath
  <2> QED BY <1>1, <2>1, <2>2, <2>3
<1> QED BY <1>2, <1>3, <1>4

(* The path of what is below "old", put below "new". *)
Reroot(old, new, q) == new \o SubSeq(q, Len(old) + 1, Len(q))

(* What of a path is below another. *)
LEMMA Suffix ==
  ASSUME NEW N, NEW q \in Seq(N), NEW k \in Nat, k <= Len(q)
  PROVE  /\ SubSeq(q, k + 1, Len(q)) \in Seq(N)
         /\ Len(SubSeq(q, k + 1, Len(q))) = Len(q) - k
         /\ \A i \in 1..(Len(q) - k) : SubSeq(q, k + 1, Len(q))[i] = q[k + i]
<1> DEFINE m == k + 1
           n == Len(q)
<1>1. m \in Int /\ n \in Int /\ m - 1 <= n /\ m = k + 1 /\ m >= 1 /\ n = Len(q)
  OBVIOUS
<1>2. \A i \in m..n : q[i] \in N
  OBVIOUS
<1> HIDE DEF m, n
<1>3. SubSeq(q, m, n) \in Seq(N)
  BY <1>1, <1>2, SubSeqProperties
<1>4. Len(SubSeq(q, m, n)) = n - k
  <2>1. Len(SubSeq(q, m, n)) = IF m <= n THEN n - m + 1 ELSE 0
    BY <1>1, <1>2, SubSeqProperties
  <2> QED BY <1>1, <2>1
<1>5. ASSUME NEW i \in 1..(n - k) PROVE SubSeq(q, m, n)[i] = q[k + i]
  <2>1. i \in 1..(n - m + 1) /\ m + i - 1 = k + i
    BY <1>1
  <2>2. SubSeq(q, m, n)[i] = q[m + i - 1]
    BY <1>1, <1>2, <2>1, SubSeqProperties
  <2> QED BY <2>1, <2>2
<1> QED BY <1>3, <1>4, <1>5 DEF m, n

Rerooted(N, old, new, q, r) ==
  /\ r \in Seq(N) /\ Len(r) = Len(new) + Len(q) - Len(old)
  /\ \A i \in 1..Len(new) : r[i] = new[i]
  /\ \A i \in (Len(old) + 1)..Len(q) : r[Len(new) + i - Len(old)] = q[i]

(* A path taken along has the new place's names first, then its own. *)
LEMMA RerootPath ==
  ASSUME NEW N, NEW old \in Seq(N), NEW new \in Seq(N), NEW q \in Seq(N), Len(old) <= Len(q)
  PROVE  Rerooted(N, old, new, q, Reroot(old, new, q))
<1> DEFINE u == SubSeq(q, Len(old) + 1, Len(q))
<1>1. u \in Seq(N)
  BY Suffix
<1>2. Len(u) = Len(q) - Len(old)
  BY Suffix
<1>3. \A i \in 1..(Len(q) - Len(old)) : u[i] = q[Len(old) + i]
  BY Suffix
<1> HIDE DEF u
<1>4. new \o u \in Seq(N) /\ Len(new \o u) = Len(new) + Len(u)
  BY <1>1, ConcatProperties
<1>5. \A i \in 1..(Len(new) + Len(u)) :
        (new \o u)[i] = IF i <= Len(new) THEN new[i] ELSE u[i - Len(new)]
  BY <1>1, ConcatProperties
<1>6. \A i \in 1..Len(new) : (new \o u)[i] = new[i]
  BY <1>1, <1>5
<1>7. ASSUME NEW i \in (Len(old) + 1)..Len(q)
      PROVE  (new \o u)[Len(new) + i - Len(old)] = q[i]
  <2> DEFINE j == i - Len(old)
  <2>1. j \in 1..(Len(q) - Len(old)) /\ Len(old) + j = i
    OBVIOUS
  <2>2. u[j] = q[i]
    BY <1>3, <2>1
  <2>3. Len(new) + j \in 1..(Len(new) + Len(u)) /\ ~(Len(new) + j <= Len(new))
        /\ Len(new) + j - Len(new) = j /\ Len(new) + j = Len(new) + i - Len(old)
    BY <1>2, <2>1
  <2> DEFINE k == Len(new) + j
  <2>4. k \in 1..(Len(new) + Len(u)) /\ ~(k <= Len(new)) /\ k - Len(new) = j
    BY <2>3
  <2> HIDE DEF j, k
  <2>5. (new \o u)[k] = u[j]
    BY <1>5, <2>4
  <2> QED BY <2>2, <2>3, <2>5 DEF k
<1> QED BY <1>2, <1>4, <1>6, <1>7 DEF Reroot, Rerooted, u

(* What is taken along stays in its order, and can be taken back. *)
LEMMA RerootBelow ==
  ASSUME NEW N, NEW old \in Seq(N), NEW new \in Seq(N), NEW q \in Seq(N), Below(old, q)
  PROVE  /\ Reroot(old, new, q) \in Seq(N)
         /\ Below(new, Reroot(old, new, q))
         /\ Reroot(new, old, Reroot(old, new, q)) = q
<1> DEFINE r == Reroot(old, new, q)
           b == Reroot(new, old, r)
<1>0. Len(old) < Len(q) /\ \A i \in 1..Len(old) : old[i] = q[i]
  BY BelowPath
<1>1. /\ r \in Seq(N) /\ Len(r) = Len(new) + Len(q) - Len(old)
      /\ \A i \in 1..Len(new) : r[i] = new[i]
      /\ \A i \in (Len(old) + 1)..Len(q) : r[Len(new) + i - Len(old)] = q[i]
  <2>1. Len(old) <= Len(q)
    BY <1>0
  <2>2. Rerooted(N, old, new, q, Reroot(old, new, q))
    BY <2>1, RerootPath
  <2> QED BY <2>2 DEF Rerooted
<1> HIDE DEF r
<1>2. Len(new) < Len(r)
  BY <1>0, <1>1
<1>3. Below(new, r)
  BY <1>1, <1>2, BelowPath
<1>4. /\ b \in Seq(N) /\ Len(b) = Len(old) + Len(r) - Len(new)
      /\ \A i \in 1..Len(old) : b[i] = old[i]
      /\ \A i \in (Len(new) + 1)..Len(r) : b[Len(old) + i - Len(new)] = r[i]
  <2>1. Len(new) <= Len(r) /\ r \in Seq(N)
    BY <1>1, <1>2
  <2>2. Rerooted(N, new, old, r, Reroot(new, old, r))
    BY <2>1, RerootPath
  <2> QED BY <2>2 DEF Rerooted
<1> HIDE DEF b
<1>5. Len(b) = Len(q)
  BY <1>1, <1>4
<1>6. ASSUME NEW i \in 1..Len(b) PROVE b[i] = q[i]
  <2>1. CASE i <= Len(old)
    BY <1>0, <1>4, <2>1
  <2>2. CASE i > Len(old)
    <3> DEFINE k == Len(new) + i - Len(old)
    <3>1. i \in (Len(old) + 1)..Len(q) /\ k \in (Len(new) + 1)..Len(r)
          /\ Len(old) + k - Len(new) = i
      BY <1>0, <1>1, <1>5, <2>2
    <3>2. r[k] = q[i]
      BY <1>1, <3>1
    <3> HIDE DEF k
    <3>3. b[Len(old) + k - Len(new)] = r[k]
      BY <1>4, <3>1
    <3> QED BY <3>1, <3>2, <3>3
  <2> QED BY <2>1, <2>2
<1>7. b = q
  BY <1>4, <1>5, <1>6, SeqEqual
<1> QED BY <1>1, <1>3, <1>7 DEF r, b

(* The parent is taken along too, or is the new place itself. *)
LEMMA RerootParent ==
  ASSUME NEW N, NEW old \in Seq(N), NEW new \in Seq(N), NEW q \in Seq(N), Below(old, q)
  PROVE  /\ Parent(q) = old => Parent(Reroot(old, new, q)) = new
         /\ Below(old, Parent(q)) => Parent(Reroot(old, new, q)) = Reroot(old, new, Parent(q))
<1> DEFINE r == Reroot(old, new, q)
           p == Parent(q)
           s == Parent(r)
<1>0. Len(old) < Len(q) /\ \A i \in 1..Len(old) : old[i] = q[i]
  BY BelowPath
<1>1. /\ r \in Seq(N) /\ Len(r) = Len(new) + Len(q) - Len(old)
      /\ \A i \in 1..Len(new) : r[i] = new[i]
      /\ \A i \in (Len(old) + 1)..Len(q) : r[Len(new) + i - Len(old)] = q[i]
  <2>1. Len(old) <= Len(q)
    BY <1>0
  <2>2. Rerooted(N, old, new, q, Reroot(old, new, q))
    BY <2>1, RerootPath
  <2> QED BY <2>2 DEF Rerooted
<1>2. q # <<>> /\ Len(q) \in Nat /\ Len(old) \in Nat /\ Len(new) \in Nat
  BY <1>0, EmptySeq
<1>3. p \in Seq(N) /\ Len(p) = Len(q) - 1 /\ \A i \in 1..(Len(q) - 1) : p[i] = q[i]
  BY <1>2, ParentPath
<1> HIDE DEF r
<1>4. Len(r) >= 1
  BY <1>0, <1>1, <1>2
<1>5. r # <<>>
  BY <1>4, EmptySeq
<1>6. s \in Seq(N) /\ Len(s) = Len(r) - 1 /\ \A i \in 1..(Len(r) - 1) : s[i] = r[i]
  BY <1>1, <1>5, ParentPath
<1> HIDE DEF p, s
<1>7. ASSUME p = old PROVE s = new
  <2>1. Len(s) = Len(new)
    <3>1. Len(old) = Len(q) - 1 /\ Len(r) = Len(new) + Len(q) - Len(old) /\ Len(s) = Len(r) - 1
      BY <1>1, <1>3, <1>6, <1>7
    <3> QED BY <1>2, <3>1
  <2>2. \A i \in 1..Len(s) : s[i] = new[i]
    BY <1>1, <1>6, <2>1
  <2> QED BY <1>6, <2>1, <2>2, SeqEqual
<1>8. ASSUME Below(old, p) PROVE s = Reroot(old, new, p)
  <2> DEFINE t == Reroot(old, new, p)
  <2>1. Len(old) < Len(p)
    BY <1>3, <1>8, BelowPath
  <2>2. /\ t \in Seq(N) /\ Len(t) = Len(new) + Len(p) - Len(old)
        /\ \A i \in 1..Len(new) : t[i] = new[i]
        /\ \A i \in (Len(old) + 1)..Len(p) : t[Len(new) + i - Len(old)] = p[i]
    <3>1. Len(old) <= Len(p) /\ p \in Seq(N)
      BY <1>3, <2>1
    <3>2. Rerooted(N, old, new, p, Reroot(old, new, p))
      BY <3>1, RerootPath
    <3> QED BY <3>2 DEF Rerooted
  <2> HIDE DEF t
  <2>3. Len(s) = Len(t)
    BY <1>1, <1>2, <1>3, <1>6, <2>2
  <2>4. ASSUME NEW i \in 1..Len(s) PROVE s[i] = t[i]
    <3>1. s[i] = r[i]
      BY <1>6, <2>4
    <3>2. CASE i <= Len(new)
      BY <1>1, <2>2, <3>1, <3>2
    <3>3. CASE i > Len(new)
      <4> DEFINE k == i - Len(new) + Len(old)
      <4>1. k \in (Len(old) + 1)..Len(p) /\ k \in (Len(old) + 1)..Len(q)
            /\ Len(new) + k - Len(old) = i /\ k \in 1..(Len(q) - 1)
        BY <1>1, <1>2, <1>3, <1>6, <3>3
      <4> HIDE DEF k
      <4>2. r[Len(new) + k - Len(old)] = q[k] /\ t[Len(new) + k - Len(old)] = p[k] /\ p[k] = q[k]
        BY <1>1, <1>3, <2>2, <4>1
      <4> QED BY <3>1, <4>1, <4>2
    <3> QED BY <3>2, <3>3, <1>2, <1>6
  <2>5. s = t
    BY <1>6, <2>2, <2>3, <2>4, SeqEqual
  <2> QED BY <2>5 DEF t
<1> QED BY <1>7, <1>8 DEF r, s, p

(* And its last name stays. *)
LEMMA RerootLast ==
  ASSUME NEW N, NEW old \in Seq(N), NEW new \in Seq(N), NEW q \in Seq(N), Below(old, q)
  PROVE  Last(Reroot(old, new, q)) = Last(q)
<1> DEFINE r == Reroot(old, new, q)
<1>1. Len(old) < Len(q) /\ Len(old) \in Nat /\ Len(q) \in Nat /\ Len(new) \in Nat
  BY BelowPath
<1>2. Rerooted(N, old, new, q, r)
  BY <1>1, RerootPath
<1> HIDE DEF r
<1>3. Len(q) \in (Len(old) + 1)..Len(q) /\ Len(r) = Len(new) + Len(q) - Len(old)
  BY <1>1, <1>2 DEF Rerooted
<1>4. r[Len(new) + Len(q) - Len(old)] = q[Len(q)]
  BY <1>2, <1>3 DEF Rerooted
<1> QED BY <1>3, <1>4 DEF Last, r

(* A path is its parent and its last name. *)
LEMMA ParentAndLast ==
  ASSUME NEW N, NEW q \in Seq(N), q # <<>>
  PROVE  /\ Last(q) \in N
         /\ q = Append(Parent(q), Last(q))
         /\ Len(q) = 1 => q = <<Last(q)>>
<1>1. Len(q) \in Nat /\ Len(q) >= 1 /\ \A i \in 1..Len(q) : q[i] \in N
  BY EmptySeq
<1>2. Last(q) = q[Len(q)] /\ Last(q) \in N
  BY <1>1 DEF Last
<1>3. /\ Parent(q) \in Seq(N) /\ Len(Parent(q)) = Len(q) - 1
      /\ \A i \in 1..(Len(q) - 1) : Parent(q)[i] = q[i]
  BY ParentPath
<1> DEFINE a == Append(Parent(q), Last(q))
<1>4. /\ a \in Seq(N) /\ Len(a) = Len(q) /\ a[Len(q)] = Last(q)
      /\ \A i \in 1..(Len(q) - 1) : a[i] = Parent(q)[i]
  <2> DEFINE p == Parent(q)
             x == Last(q)
  <2>1. p \in Seq(N) /\ x \in N /\ Len(p) = Len(q) - 1
    BY <1>2, <1>3
  <2> HIDE DEF p, x
  <2>2. /\ Append(p, x) \in Seq(N) /\ Len(Append(p, x)) = Len(p) + 1
        /\ \A i \in 1..Len(p) : Append(p, x)[i] = p[i]
        /\ Append(p, x)[Len(p) + 1] = x
    BY <2>1, AppendProperties
  <2>3. Len(p) + 1 = Len(q)
    BY <1>1, <2>1
  <2> QED BY <2>1, <2>2, <2>3 DEF p, x
<1> HIDE DEF a
<1>5. \A i \in 1..Len(q) : a[i] = q[i]
  <2> TAKE i \in 1..Len(q)
  <2>1. CASE i = Len(q)
    BY <1>2, <1>4, <2>1
  <2>2. CASE i # Len(q)
    <3>1. i \in 1..(Len(q) - 1)
      BY <1>1, <2>2
    <3> QED BY <1>3, <1>4, <3>1
  <2> QED BY <2>1, <2>2
<1>6. a = q
  BY <1>4, <1>5, SeqEqual
<1>7. ASSUME Len(q) = 1 PROVE q = <<Last(q)>>
  BY <1>1, <1>2, <1>7, SeqEqual
<1> QED BY <1>2, <1>6, <1>7 DEF a

(* The first names of a path are the path or above it. *)
LEMMA Prefix ==
  ASSUME NEW N, NEW q \in Seq(N), NEW n \in Nat, 0 < n, n <= Len(q)
  PROVE  /\ SubSeq(q, 1, n) \in Seq(N) /\ SubSeq(q, 1, n) # <<>>
         /\ IF n = Len(q) THEN SubSeq(q, 1, n) = q
            ELSE Below(SubSeq(q, 1, n), q) /\ Len(SubSeq(q, 1, n)) = n
<1> DEFINE p == SubSeq(q, 1, n)
<1>1. \A i \in 1..n : q[i] \in N
  OBVIOUS
<1>2. p \in Seq(N)
  BY <1>1, SubSeqProperties
<1>3. Len(p) = n
  <2>1. Len(p) = IF 1 <= n THEN n - 1 + 1 ELSE 0
    BY <1>1, SubSeqProperties
  <2> QED BY <2>1
<1>4. ASSUME NEW i \in 1..n PROVE p[i] = q[i]
  <2>1. i \in 1..(n - 1 + 1) /\ 1 + i - 1 = i
    OBVIOUS
  <2>2. p[i] = q[1 + i - 1]
    BY <1>1, <2>1, SubSeqProperties
  <2> QED BY <2>1, <2>2
<1>5. n = Len(q) => p = q
  BY SubSeqFull
<1> HIDE DEF p
<1>6. p # <<>>
  BY <1>2, <1>3, EmptySeq
<1>7. ASSUME n # Len(q) PROVE Below(p, q)
  <2>1. Len(p) < Len(q) /\ \A i \in 1..Len(p) : p[i] = q[i]
    BY <1>3, <1>4, <1>7
  <2> QED BY <1>2, <2>1, BelowPath
<1> QED BY <1>2, <1>3, <1>5, <1>6, <1>7 DEF p

-----------------------------------------------------------------------------
(* The cache. *)

Path == Seq(AnyName) \ {<<>>}

(* IndexesAgree, with the types it needs. *)
Good(c) ==
  /\ DOMAIN c.file \subseteq Path
  /\ DOMAIN c.pathOf \subseteq Id
  /\ \A q \in DOMAIN c.file : c.file[q] \in DOMAIN c.pathOf /\ c.pathOf[c.file[q]] = q
  /\ \A id \in DOMAIN c.pathOf : c.pathOf[id] \in DOMAIN c.file /\ c.file[c.pathOf[id]] = id
  /\ c.indexed = DOMAIN c.file
  /\ c.folders = {q \in DOMAIN c.file : c.file[q] \in Folder}
  /\ \A q \in DOMAIN c.file : Len(q) = 1 \/ Parent(q) \in c.folders

(* A good cache describes one tree. *)
LEMMA GoodAgrees == ASSUME NEW c, Good(c) PROVE IndexesAgree(c)
<1>1. \A q \in DOMAIN c.file : PathById(c, c.file[q]) = q
  BY DEF Good, PathById
<1>2. \A id \in DOMAIN c.pathOf : IdAt(c, c.pathOf[id]) = {id}
  BY DEF Good, IdAt, HasFile
<1> QED BY <1>1, <1>2 DEF Good, IndexesAgree

(* A cached id has a path, and any other has none. *)
LEMMA CachedPaths ==
  ASSUME NEW c, Good(c)
  PROVE  /\ \A x \in DOMAIN c.pathOf : c.pathOf[x] \in Path /\ c.pathOf[x] # NoPath
         /\ \A x : PathById(c, x) = NoPath <=> x \notin DOMAIN c.pathOf
         /\ \A x \in DOMAIN c.pathOf : PathById(c, x) = c.pathOf[x]
<1>1. \A p \in Path : p # NoPath
  BY RemoteTreeAssumption DEF Path
<1>2. \A x \in DOMAIN c.pathOf : c.pathOf[x] \in Path
  BY DEF Good
<1> QED BY <1>1, <1>2 DEF PathById

(* Whatever is above a path of the cache is a folder of it. *)
LEMMA AboveIsCached ==
  ASSUME NEW c, Good(c), NEW q \in DOMAIN c.file, NEW p \in Path, Below(p, q)
  PROVE  p \in c.folders
<1> DEFINE Bad == {Len(r) : r \in {s \in DOMAIN c.file : Below(p, s)}}
<1>1. SUFFICES ASSUME p \notin c.folders PROVE FALSE
  OBVIOUS
<1>2. DOMAIN c.file \subseteq Path /\ p \in Seq(AnyName) /\ p # <<>>
  BY DEF Good, Path
<1>3. Bad \subseteq Nat
  BY <1>2 DEF Path
<1>4. Bad # {}
  OBVIOUS
<1>5. PICK n \in Bad : \A m \in Bad : n <= m
  <2> HIDE DEF Bad
  <2> QED BY <1>3, <1>4, Smallest
<1>6. PICK r \in DOMAIN c.file : Below(p, r) /\ n = Len(r)
  BY <1>5
<1>7. r \in Seq(AnyName) /\ r # <<>>
  BY <1>2 DEF Path
<1>8. p = Parent(r) \/ Below(p, Parent(r))
  BY <1>2, <1>6, <1>7, BelowParent
<1>9. Parent(r) \in Seq(AnyName) /\ Len(Parent(r)) = Len(r) - 1
  BY <1>7, ParentPath
<1>10. Len(p) >= 1 /\ Len(p) < Len(r)
  BY <1>2, <1>6, <1>7, EmptySeq, BelowPath
<1>11. Parent(r) \in c.folders /\ Parent(r) \in DOMAIN c.file
  <2>1. Len(r) # 1
    BY <1>2, <1>7, <1>10
  <2> QED BY <2>1 DEF Good
<1>12. Below(p, Parent(r))
  BY <1>1, <1>8, <1>11
<1>13. Len(Parent(r)) \in Bad
  BY <1>11, <1>12
<1> HIDE DEF Bad
<1> QED BY <1>5, <1>6, <1>7, <1>9, <1>13

(* So the walk through the index misses nothing of a subtree, even after   *)
(* its own folder was taken out of the index.                              *)
Inner(c, p) == {q \in DOMAIN c.file : Below(p, q)}

(* collectDescendants finds all that is cached below a path. *)
LEMMA DescendantsAre ==
  ASSUME NEW b, Good(b), NEW p \in Seq(AnyName), NEW c,
         c.indexed = b.indexed \/ c.indexed = b.indexed \ {p}
  PROVE  CollectDescendants(c, p) = Inner(b, p)
<1>1. DOMAIN b.file \subseteq Path /\ b.indexed = DOMAIN b.file /\ b.folders \subseteq DOMAIN b.file
  BY DEF Good
<1>2. ASSUME NEW q \in c.indexed, Below(p, q) PROVE q \in Inner(b, p)
  BY <1>1, <1>2 DEF Inner
<1>3. ASSUME NEW q \in Inner(b, p)
      PROVE  q \in c.indexed /\ \A n \in (Len(p) + 1)..Len(q) : SubSeq(q, 1, n) \in c.indexed
  <2>1. q \in DOMAIN b.file /\ Below(p, q) /\ q \in Seq(AnyName)
    BY <1>1, <1>3 DEF Inner, Path
  <2>2. p # q /\ Len(p) \in Nat /\ Len(q) \in Nat
    BY <2>1, BelowOrder
  <2>3. q \in c.indexed
    BY <1>1, <2>1, <2>2
  <2>4. ASSUME NEW n \in (Len(p) + 1)..Len(q) PROVE SubSeq(q, 1, n) \in c.indexed
    <3> DEFINE s == SubSeq(q, 1, n)
    <3>1. n \in Nat /\ 0 < n /\ n <= Len(q)
      BY <2>2, <2>4
    <3>2. /\ s \in Seq(AnyName) /\ s # <<>>
          /\ IF n = Len(q) THEN s = q ELSE Below(s, q) /\ Len(s) = n
      BY <2>1, <3>1, Prefix
    <3> HIDE DEF s
    <3>3. CASE n = Len(q)
      BY <2>3, <3>2, <3>3 DEF s
    <3>4. CASE n # Len(q)
      <4>1. s \in b.folders
        BY <2>1, <3>2, <3>4, AboveIsCached DEF Path
      <4>2. s # p
        BY <2>2, <2>4, <3>2, <3>4
      <4> QED BY <1>1, <4>1, <4>2 DEF s
    <3> QED BY <3>3, <3>4
  <2> QED BY <2>3, <2>4
<1> QED BY <1>2, <1>3 DEF CollectDescendants, Inner

(* Below a file there is nothing. *)
LEMMA NothingInAFile ==
  ASSUME NEW c, Good(c), NEW p \in Path
  PROVE  /\ p \notin c.folders => Inner(c, p) = {}
         /\ (IF p \in c.folders THEN CollectDescendants(c, p) ELSE {}) = Inner(c, p)
<1>1. p \notin c.folders => Inner(c, p) = {}
  BY AboveIsCached DEF Inner
<1>2. CollectDescendants(c, p) = Inner(c, p)
  BY DescendantsAre DEF Path
<1> QED BY <1>1, <1>2

-----------------------------------------------------------------------------
(* Removal of a subtree. *)

SubtreeAt(c, p) == {p} \cup Inner(c, p)

Removed(c, R, n) ==
  /\ DOMAIN n.file = DOMAIN c.file \ R
  /\ \A q \in DOMAIN n.file : n.file[q] = c.file[q]
  /\ DOMAIN n.pathOf = {id \in DOMAIN c.pathOf : c.pathOf[id] \notin R}
  /\ \A id \in DOMAIN n.pathOf : n.pathOf[id] = c.pathOf[id]
  /\ n.folders = c.folders \ R
  /\ n.indexed = DOMAIN c.file \ R

(* removeTree takes the path and all below it, and nothing else. *)
LEMMA RemoveTreeRemoves ==
  ASSUME NEW c, Good(c), NEW p \in Seq(AnyName)
  PROVE  Removed(c, SubtreeAt(c, p), RemoveTree(c, p))
<1> DEFINE R == {p} \cup CollectDescendants(c, p)
           rest == RemoveEntries(c, R)
           n == RemoveTree(c, p)
<1>1. CollectDescendants(c, p) = Inner(c, p)
  BY DescendantsAre
<1>2. R = SubtreeAt(c, p)
  BY <1>1 DEF SubtreeAt
<1>3. n = [rest EXCEPT !.indexed = @ \ Children(rest, p)]
  BY DEF RemoveTree
<1> HIDE DEF R, n
<1>4. /\ n.file = Without(c.file, R)
      /\ n.pathOf = Without(c.pathOf, {c.file[q] : q \in R \cap DOMAIN c.file})
      /\ n.folders = c.folders \ R
      /\ n.indexed = (c.indexed \ R) \ Children(rest, p)
  BY <1>3 DEF RemoveEntries
<1>5. Children(rest, p) \cap (c.indexed \ R) = {}
  <2> SUFFICES ASSUME NEW q \in Children(rest, p), q \in c.indexed, q \notin R PROVE FALSE
    OBVIOUS
  <2>1. q # <<>> /\ Parent(q) = p
    BY DEF Children
  <2>2. q \in DOMAIN c.file /\ q \in Seq(AnyName)
    BY DEF Good, Path
  <2>3. Below(p, q)
    BY <2>1, <2>2, BelowParent
  <2> QED BY <1>2, <2>2, <2>3 DEF SubtreeAt, Inner
<1>6. n.indexed = DOMAIN c.file \ R
  BY <1>4, <1>5 DEF Good
<1>7. \A id \in DOMAIN c.pathOf :
        id \in {c.file[q] : q \in R \cap DOMAIN c.file} <=> c.pathOf[id] \in R
  BY DEF Good
<1>8. DOMAIN n.pathOf = {id \in DOMAIN c.pathOf : c.pathOf[id] \notin R}
      /\ \A id \in DOMAIN n.pathOf : n.pathOf[id] = c.pathOf[id]
  BY <1>4, <1>7 DEF Without
<1>9. DOMAIN n.file = DOMAIN c.file \ R /\ \A q \in DOMAIN n.file : n.file[q] = c.file[q]
  BY <1>4 DEF Without
<1> QED BY <1>2, <1>4, <1>6, <1>8, <1>9 DEF Removed, n

(* The folder an id is cached in. *)
Up(c, id) == IdAt(c, Parent(c.pathOf[id]))

(* A cached path is at the root or in a cached folder. *)
LEMMA ParentOfCached ==
  ASSUME NEW c, Good(c), NEW q \in DOMAIN c.file
  PROVE  /\ q \in Seq(AnyName) /\ q # <<>>
         /\ Parent(q) \in Seq(AnyName) /\ Len(Parent(q)) = Len(q) - 1
         /\ Len(q) = 1 => Parent(q) = <<>> /\ Parent(q) \notin DOMAIN c.file
         /\ Len(q) # 1 => Parent(q) \in c.folders
<1>1. q \in Seq(AnyName) /\ q # <<>>
  BY DEF Good, Path
<1>2. Parent(q) \in Seq(AnyName) /\ Len(Parent(q)) = Len(q) - 1
  BY <1>1, ParentPath
<1>3. Len(q) = 1 => Parent(q) = <<>>
  BY <1>2, EmptySeq
<1>4. <<>> \notin DOMAIN c.file
  BY DEF Good, Path
<1> QED BY <1>1, <1>2, <1>3, <1>4 DEF Good

(* A good cache stays good without a subtree, and parents stay. *)
LEMMA RemovedGood ==
  ASSUME NEW c, Good(c), NEW p \in Seq(AnyName), NEW n, Removed(c, SubtreeAt(c, p), n)
  PROVE  /\ Good(n)
         /\ \A id \in DOMAIN n.pathOf : Up(n, id) = Up(c, id)
<1> DEFINE R == SubtreeAt(c, p)
<1>1. ASSUME NEW q \in DOMAIN c.file, q \notin R PROVE Parent(q) \notin R
  <2>1. q \in Seq(AnyName) /\ q # <<>> /\ Parent(q) \in Seq(AnyName)
    BY ParentOfCached
  <2>2. ~Below(p, q)
    BY <1>1 DEF SubtreeAt, Inner
  <2>3. p # Parent(q) /\ ~Below(p, Parent(q))
    BY <2>1, <2>2, BelowParent
  <2> QED BY <2>3 DEF SubtreeAt, Inner
<1> HIDE DEF R
<1>2. Removed(c, R, n)
  BY DEF R
<1>3. DOMAIN n.file \subseteq Path /\ DOMAIN n.pathOf \subseteq Id
  BY <1>2 DEF Removed, Good
<1>4. \A q \in DOMAIN n.file : n.file[q] \in DOMAIN n.pathOf /\ n.pathOf[n.file[q]] = q
  BY <1>2 DEF Removed, Good
<1>5. \A id \in DOMAIN n.pathOf : n.pathOf[id] \in DOMAIN n.file /\ n.file[n.pathOf[id]] = id
  BY <1>2 DEF Removed, Good
<1>6. n.indexed = DOMAIN n.file /\ n.folders = {q \in DOMAIN n.file : n.file[q] \in Folder}
  BY <1>2 DEF Removed, Good
<1>7. \A q \in DOMAIN n.file : Len(q) = 1 \/ Parent(q) \in n.folders
  BY <1>1, <1>2 DEF Removed, Good
<1>8. Good(n)
  BY <1>3, <1>4, <1>5, <1>6, <1>7 DEF Good
<1>9. ASSUME NEW id \in DOMAIN n.pathOf PROVE Up(n, id) = Up(c, id)
  <2>1. n.pathOf[id] = c.pathOf[id] /\ c.pathOf[id] \in DOMAIN c.file /\ c.pathOf[id] \notin R
    BY <1>2 DEF Removed, Good
  <2>2. Parent(c.pathOf[id]) \notin R
    BY <1>1, <2>1
  <2>3. IdAt(n, Parent(c.pathOf[id])) = IdAt(c, Parent(c.pathOf[id]))
    BY <1>2, <2>2 DEF Removed, IdAt, HasFile
  <2> QED BY <2>1, <2>3 DEF Up
<1> QED BY <1>8, <1>9

-----------------------------------------------------------------------------
(* An entry leaves its old path, what is below it with it. *)

Arrived(f, old, path) == {Reroot(old, path, q) : q \in Inner(f, old)}
Stays(f, old) == DOMAIN f.file \ ({old} \cup Inner(f, old))

Left(f, id, old, path, l) ==
  /\ DOMAIN l.file = Stays(f, old) \cup Arrived(f, old, path)
  /\ \A q \in Inner(f, old) : l.file[Reroot(old, path, q)] = f.file[q]
  /\ \A q \in Stays(f, old) : l.file[q] = f.file[q]
  /\ DOMAIN l.pathOf = DOMAIN f.pathOf \ {id}
  /\ \A x \in DOMAIN l.pathOf :
       l.pathOf[x] = IF f.pathOf[x] \in Inner(f, old) THEN Reroot(old, path, f.pathOf[x])
                                                      ELSE f.pathOf[x]
  /\ l.folders = (f.folders \cap Stays(f, old))
                   \cup {Reroot(old, path, q) : q \in Inner(f, old) \cap f.folders}
  /\ l.indexed = DOMAIN l.file

(* Where a subtree arrives nothing is left but what left with it. *)
LEMMA ArrivedIsNew ==
  ASSUME NEW f, Good(f), NEW old \in Seq(AnyName), NEW path \in Path, path \notin DOMAIN f.file
  PROVE  /\ Arrived(f, old, path) \cap DOMAIN f.file = {}
         /\ \A q \in Inner(f, old) :
              /\ q \in Seq(AnyName) /\ Reroot(old, path, q) \in Path
              /\ Below(path, Reroot(old, path, q))
              /\ Reroot(path, old, Reroot(old, path, q)) = q
<1>1. ASSUME NEW q \in Inner(f, old)
      PROVE  /\ q \in Seq(AnyName) /\ Reroot(old, path, q) \in Seq(AnyName)
             /\ Below(path, Reroot(old, path, q))
             /\ Reroot(path, old, Reroot(old, path, q)) = q
  <2>1. q \in Seq(AnyName) /\ Below(old, q)
    BY DEF Inner, Good, Path
  <2> QED BY <2>1, RerootBelow DEF Path
<1>2. ASSUME NEW q \in Inner(f, old) PROVE Reroot(old, path, q) # <<>>
  <2>1. Len(path) < Len(Reroot(old, path, q))
    BY <1>1, BelowOrder DEF Path
  <2>2. Len(path) >= 0
    BY DEF Path
  <2> QED BY <2>1, <2>2, EmptySeq
<1>3. ASSUME NEW q \in Inner(f, old), Reroot(old, path, q) \in DOMAIN f.file PROVE FALSE
  BY <1>1, <1>3, AboveIsCached DEF Good
<1> QED BY <1>1, <1>2, <1>3 DEF Arrived, Path

(* RewriteChildPaths, of the paths it collects. *)
PathOf(file, moved, x) == CHOOSE q \in moved : file[q] = x
Rewritten(c, moved, old, new) ==
  [file    |-> [q \in (DOMAIN c.file \ moved) \cup {Reroot(old, new, p) : p \in moved} |->
                  IF q \in {Reroot(old, new, p) : p \in moved}
                  THEN c.file[Reroot(new, old, q)] ELSE c.file[q]],
   pathOf  |-> [id \in DOMAIN c.pathOf \cup {c.file[q] : q \in moved} |->
                  IF id \in {c.file[q] : q \in moved}
                  THEN Reroot(old, new, PathOf(c.file, moved, id)) ELSE c.pathOf[id]],
   folders |-> (c.folders \ moved) \cup {Reroot(old, new, q) : q \in moved \cap c.folders},
   indexed |-> (c.indexed \ moved) \cup {Reroot(old, new, q) : q \in moved}]

(* rewriteChildPaths, with what moves and arrives named. *)
LEMMA RewriteIs ==
  ASSUME NEW c, NEW old, NEW new
  PROVE  RewriteChildPaths(c, old, new) = Rewritten(c, CollectDescendants(c, old), old, new)
BY DEF RewriteChildPaths, Rewritten, Reroot, PathOf

(* An entry that leaves its path takes exactly its descendants along. *)
LEMMA LeavesOldPath ==
  ASSUME NEW f, Good(f), NEW id \in DOMAIN f.pathOf, NEW path \in Path, path \notin DOMAIN f.file
  PROVE  Left(f, id, f.pathOf[id], path, LeaveOldPath(f, id, f.pathOf[id], path))
<1> DEFINE old == f.pathOf[id]
           M == Inner(f, old)
           left == [file    |-> Without(f.file, {old}),
                    pathOf  |-> Without(f.pathOf, {id}),
                    folders |-> f.folders \ {old},
                    indexed |-> f.indexed \ {old}]
           l == LeaveOldPath(f, id, old, path)
<1>1. old \in DOMAIN f.file /\ f.file[old] = id /\ old \in Seq(AnyName) /\ old # <<>>
  BY DEF Good, Path
<1>2. /\ Arrived(f, old, path) \cap DOMAIN f.file = {}
      /\ \A q \in M : Reroot(path, old, Reroot(old, path, q)) = q
  BY <1>1, ArrivedIsNew
<1>3. old \notin M /\ M \subseteq DOMAIN f.file
  <2>1. ~Below(old, old)
    BY <1>1, BelowOrder
  <2> QED BY <2>1 DEF Inner
<1>4. \A x \in DOMAIN f.pathOf : f.pathOf[x] = old <=> x = id
  BY <1>1 DEF Good
<1>5. CASE old \notin f.folders
  <2>1. M = {}
    BY <1>1, <1>5, AboveIsCached DEF Inner, Path
  <2>2. l = left
    BY <1>5 DEF LeaveOldPath
  <2>3. /\ DOMAIN left.file = Stays(f, old) /\ \A q \in Stays(f, old) : left.file[q] = f.file[q]
        /\ DOMAIN left.pathOf = DOMAIN f.pathOf \ {id}
        /\ \A x \in DOMAIN left.pathOf : left.pathOf[x] = f.pathOf[x]
        /\ left.folders = f.folders \cap Stays(f, old)
        /\ left.indexed = DOMAIN left.file
    BY <2>1 DEF Without, Stays, Good
  <2> HIDE DEF left, l
  <2> QED BY <2>1, <2>2, <2>3 DEF Left, Arrived, l
<1>6. CASE old \in f.folders
  <2>1. l = RewriteChildPaths(left, old, path)
    BY <1>6 DEF LeaveOldPath
  <2>2. CollectDescendants(left, old) = M
    BY <1>1, DescendantsAre
  <2> DEFINE arrived == {Reroot(old, path, q) : q \in M}
             ids     == {left.file[q] : q \in M}
  <2>3. arrived = Arrived(f, old, path)
    BY DEF Arrived
  <2>4. /\ l.file = [q \in (DOMAIN left.file \ M) \cup arrived |->
                       IF q \in arrived THEN left.file[Reroot(path, old, q)] ELSE left.file[q]]
        /\ l.pathOf = [x \in DOMAIN left.pathOf \cup ids |->
                         IF x \in ids THEN Reroot(old, path, PathOf(left.file, M, x))
                                      ELSE left.pathOf[x]]
        /\ l.folders = (left.folders \ M) \cup {Reroot(old, path, q) : q \in M \cap left.folders}
        /\ l.indexed = (left.indexed \ M) \cup arrived
    <3>1. l = Rewritten(left, M, old, path)
      BY <2>1, <2>2, RewriteIs
    <3> HIDE DEF l, left, M
    <3> QED BY <3>1 DEF Rewritten
  <2> HIDE DEF l
  <2>5. /\ DOMAIN left.file = DOMAIN f.file \ {old}
        /\ \A q \in DOMAIN left.file : left.file[q] = f.file[q]
        /\ DOMAIN left.pathOf = DOMAIN f.pathOf \ {id}
        /\ \A x \in DOMAIN left.pathOf : left.pathOf[x] = f.pathOf[x]
        /\ left.folders = f.folders \ {old} /\ left.indexed = DOMAIN f.file \ {old}
    BY DEF Without, Good
  <2> HIDE DEF left
  <2>6. DOMAIN left.file \ M = Stays(f, old)
    BY <1>3, <2>5 DEF Stays
  <2>7. \A q \in M : left.file[q] = f.file[q]
    BY <1>3, <2>5
  <2>8. /\ DOMAIN l.file = Stays(f, old) \cup Arrived(f, old, path)
        /\ \A q \in M : l.file[Reroot(old, path, q)] = f.file[q]
    BY <1>2, <2>3, <2>4, <2>6, <2>7
  <2>9. \A q \in Stays(f, old) : l.file[q] = f.file[q]
    BY <1>2, <2>3, <2>4, <2>5, <2>6 DEF Stays
  <2>10. \A x \in DOMAIN f.pathOf : x \in ids <=> f.pathOf[x] \in M
    BY <1>3, <2>7 DEF Good
  <2>11. ids \subseteq DOMAIN f.pathOf \ {id}
    BY <1>3, <1>4, <2>7 DEF Good
  <2>12. DOMAIN l.pathOf = DOMAIN f.pathOf \ {id}
    BY <2>4, <2>5, <2>11
  <2>13. ASSUME NEW x \in DOMAIN f.pathOf \ {id}
         PROVE  l.pathOf[x] = IF f.pathOf[x] \in M THEN Reroot(old, path, f.pathOf[x])
                                                   ELSE f.pathOf[x]
    <3>1. CASE f.pathOf[x] \notin M
      BY <2>4, <2>5, <2>10, <3>1
    <3>2. CASE f.pathOf[x] \in M
      <4>1. \A q \in M : left.file[q] = x <=> q = f.pathOf[x]
        BY <1>3, <2>7, <3>2 DEF Good
      <4>2. PathOf(left.file, M, x) = f.pathOf[x]
        BY <3>2, <4>1 DEF PathOf
      <4> QED BY <2>4, <2>5, <2>10, <3>2, <4>2
    <3> QED BY <3>1, <3>2
  <2>14. l.indexed = DOMAIN l.file
    BY <1>3, <2>3, <2>4, <2>5, <2>8 DEF Stays
  <2>15. l.folders = (f.folders \cap Stays(f, old))
                       \cup {Reroot(old, path, q) : q \in M \cap f.folders}
    <3>1. left.folders \ M = f.folders \cap Stays(f, old)
      BY <2>5 DEF Stays, Good
    <3>2. M \cap left.folders = M \cap f.folders
      BY <1>3, <2>5
    <3> QED BY <2>4, <3>1, <3>2
  <2> HIDE DEF arrived, ids
  <2>16. Left(f, id, old, path, l)
    <3> HIDE DEF old, M
    <3>1. M = Inner(f, old)
      BY DEF M
    <3> QED BY <2>8, <2>9, <2>12, <2>13, <2>14, <2>15, <3>1 DEF Left
  <2> QED BY <2>16 DEF l
<1> QED BY <1>5, <1>6

(* The entry is put at its new path. *)
Placed(l, id, path, n) ==
  /\ DOMAIN n.file = DOMAIN l.file \cup {path} /\ n.file[path] = id
  /\ \A q \in DOMAIN l.file \ {path} : n.file[q] = l.file[q]
  /\ DOMAIN n.pathOf = DOMAIN l.pathOf \cup {id} /\ n.pathOf[id] = path
  /\ \A x \in DOMAIN l.pathOf \ {id} : n.pathOf[x] = l.pathOf[x]
  /\ n.folders = IF id \in Folder THEN l.folders \cup {path} ELSE l.folders \ {path}
  /\ n.indexed = l.indexed \cup {path}

(* The entry is put at its path, and nothing else is touched. *)
LEMMA PlaceAtPlaces ==
  ASSUME NEW l, NEW id, NEW path
  PROVE  Placed(l, id, path, PlaceAt(l, id, path))
BY DEF PlaceAt, Placed, Put

(* The parent of what does not move does not move. *)
LEMMA ParentStays ==
  ASSUME NEW f, Good(f), NEW old \in Path, NEW q \in Stays(f, old), Len(q) # 1
  PROVE  Parent(q) \in Stays(f, old) \cap f.folders
<1>1. q \in DOMAIN f.file /\ q # old /\ ~Below(old, q)
  BY DEF Stays, Inner
<1>2. q \in Seq(AnyName) /\ q # <<>> /\ Parent(q) \in f.folders
  BY <1>1, ParentOfCached
<1>3. old # Parent(q) /\ ~Below(old, Parent(q))
  BY <1>1, <1>2, BelowParent DEF Path
<1> QED BY <1>2, <1>3 DEF Stays, Inner, Good

(* What is moved keeps the folder it is in. *)
MovesAlong(f, old, path, q) ==
  \/ Parent(q) = old /\ old \in f.folders /\ Parent(Reroot(old, path, q)) = path
  \/ /\ Parent(q) \in Inner(f, old) \cap f.folders
     /\ Parent(Reroot(old, path, q)) = Reroot(old, path, Parent(q))

(* What is taken along keeps its parent, by id. *)
LEMMA ParentMoves ==
  ASSUME NEW f, Good(f), NEW old \in Path, old \in DOMAIN f.file, NEW path \in Path,
         NEW q \in Inner(f, old)
  PROVE  MovesAlong(f, old, path, q)
<1>1. q \in DOMAIN f.file /\ Below(old, q)
  BY DEF Inner
<1>2. q \in Seq(AnyName) /\ q # <<>> /\ Parent(q) \in Seq(AnyName)
  BY <1>1, ParentOfCached
<1>3. old \in Seq(AnyName) /\ old # <<>> /\ path \in Seq(AnyName)
  BY DEF Path
<1>4. Len(q) # 1
  <2>1. Len(old) >= 1 /\ Len(old) < Len(q)
    BY <1>1, <1>2, <1>3, BelowOrder, EmptySeq
  <2> QED BY <1>2, <1>3, <2>1
<1>5. Parent(q) \in f.folders /\ Parent(q) \in DOMAIN f.file
  <2>1. Parent(q) \in f.folders
    BY <1>1, <1>4, ParentOfCached
  <2> QED BY <2>1 DEF Good
<1>6. Parent(q) = old \/ Below(old, Parent(q))
  BY <1>1, <1>2, <1>3, BelowParent
<1>7. CASE Parent(q) = old
  BY <1>1, <1>2, <1>3, <1>5, <1>7, RerootParent DEF MovesAlong
<1>8. CASE Below(old, Parent(q))
  <2>1. Parent(Reroot(old, path, q)) = Reroot(old, path, Parent(q))
    BY <1>1, <1>2, <1>3, <1>8, RerootParent
  <2> QED BY <1>5, <1>8, <2>1 DEF Inner, MovesAlong
<1> QED BY <1>6, <1>7, <1>8

(* Where something else is than before: at the new path, and where what is
   taken along was and is. *)
Moves(f, old, path, n) ==
  \A p : IdAt(n, p) # IdAt(f, p) =>
    \/ p = path
    \/ /\ old # NoPath
       /\ \/ p = old \/ p \in Inner(f, old)
          \/ Inner(f, old) # {} /\ p \in Inner(n, path)

(* A move to a free path, not into itself, keeps the cache good. *)
LEMMA MoveIsGood ==
  ASSUME NEW f, Good(f), NEW id \in DOMAIN f.pathOf, NEW old, old = f.pathOf[id],
         NEW path \in Path, path \notin DOMAIN f.file, ~Below(old, path),
         Len(path) = 1 \/ Parent(path) \in f.folders,
         NEW l, Left(f, id, old, path, l), NEW n, Placed(l, id, path, n)
  PROVE  /\ Good(n)
         /\ DOMAIN n.pathOf = DOMAIN f.pathOf /\ n.pathOf[id] = path
         /\ \A x \in DOMAIN f.pathOf \ {id} :
              Up(n, x) = Up(f, x) /\ Last(n.pathOf[x]) = Last(f.pathOf[x])
         /\ Up(n, id) = IdAt(f, Parent(path))
         /\ Moves(f, old, path, n)
<1> DEFINE M == Inner(f, old)
           T(q) == Reroot(old, path, q)
           S == Stays(f, old)
<1>1. /\ old \in DOMAIN f.file /\ f.file[old] = id /\ old \in Path /\ old \in Seq(AnyName)
      /\ path \in Seq(AnyName) /\ id \in Id
  BY DEF Good, Path
<1>2. /\ Arrived(f, old, path) \cap DOMAIN f.file = {}
      /\ \A q \in M : q \in Seq(AnyName) /\ T(q) \in Path /\ Below(path, T(q))
  BY <1>1, ArrivedIsNew
<1>3. Arrived(f, old, path) = {T(q) : q \in M}
  BY DEF Arrived
<1>4. path \notin S \cup Arrived(f, old, path)
  <2>1. \A q \in M : T(q) # path
    <3> SUFFICES ASSUME NEW q \in M PROVE T(q) # path
      OBVIOUS
    <3>1. T(q) \in Seq(AnyName) /\ Below(path, T(q))
      BY <1>2 DEF Path
    <3> QED BY <1>1, <3>1, BelowOrder
  <2> QED BY <1>3, <2>1 DEF Stays
<1>5. M \cap S = {} /\ M \subseteq DOMAIN f.file /\ S \subseteq DOMAIN f.file
      /\ DOMAIN f.file = M \cup S \cup {old} /\ old \notin M /\ old \notin S
  <2>1. ~Below(old, old)
    BY <1>1, BelowOrder
  <2> QED BY <1>1, <2>1 DEF Inner, Stays
<1> HIDE DEF M, T, S
<1>6. /\ DOMAIN n.file = S \cup {T(q) : q \in M} \cup {path} /\ n.file[path] = id
      /\ \A q \in M : n.file[T(q)] = f.file[q]
      /\ \A q \in S : n.file[q] = f.file[q]
  BY <1>3, <1>4 DEF Left, Placed, M, T, S
<1>7. /\ DOMAIN n.pathOf = DOMAIN f.pathOf /\ n.pathOf[id] = path
      /\ \A x \in DOMAIN f.pathOf \ {id} :
           n.pathOf[x] = IF f.pathOf[x] \in M THEN T(f.pathOf[x]) ELSE f.pathOf[x]
  BY DEF Left, Placed, M, T
<1>8. \A q \in M \cup S : f.file[q] \in DOMAIN f.pathOf \ {id} /\ f.pathOf[f.file[q]] = q
  BY <1>1, <1>5 DEF Good
<1>9. \A x \in DOMAIN f.pathOf \ {id} : f.pathOf[x] \in M \cup S /\ f.file[f.pathOf[x]] = x
  BY <1>1, <1>5 DEF Good
<1>10. \A q \in DOMAIN n.file : n.file[q] \in DOMAIN n.pathOf /\ n.pathOf[n.file[q]] = q
  <2> SUFFICES ASSUME NEW q \in DOMAIN n.file
               PROVE  n.file[q] \in DOMAIN n.pathOf /\ n.pathOf[n.file[q]] = q
    OBVIOUS
  <2>1. CASE q = path
    BY <1>6, <1>7, <2>1
  <2>2. CASE q \in S
    <3>1. f.file[q] \in DOMAIN f.pathOf \ {id} /\ f.pathOf[f.file[q]] = q /\ q \notin M
      BY <1>5, <1>8, <2>2
    <3> QED BY <1>6, <1>7, <2>2, <3>1
  <2>3. ASSUME NEW r \in M, q = T(r) PROVE n.file[q] \in DOMAIN n.pathOf /\ n.pathOf[n.file[q]] = q
    <3>1. f.file[r] \in DOMAIN f.pathOf \ {id} /\ f.pathOf[f.file[r]] = r
      BY <1>8
    <3> QED BY <1>6, <1>7, <2>3, <3>1
  <2> QED BY <1>6, <2>1, <2>2, <2>3
<1>11. \A x \in DOMAIN n.pathOf : n.pathOf[x] \in DOMAIN n.file /\ n.file[n.pathOf[x]] = x
  BY <1>6, <1>7, <1>9
<1>12. DOMAIN n.file \subseteq Path /\ DOMAIN n.pathOf \subseteq Id
  <2>1. S \subseteq Path /\ DOMAIN f.pathOf \subseteq Id
    BY <1>5 DEF Good
  <2>2. \A q \in M : T(q) \in Path
    BY <1>2 DEF M, T
  <2> QED BY <1>6, <1>7, <2>1, <2>2
<1>13. n.indexed = DOMAIN n.file
  BY <1>3 DEF Left, Placed, M, T, S
<1>14. n.folders = (f.folders \cap S) \cup {T(q) : q \in M \cap f.folders}
                     \cup (IF id \in Folder THEN {path} ELSE {})
  <2>1. n.folders = IF id \in Folder THEN l.folders \cup {path} ELSE l.folders \ {path}
    BY DEF Placed
  <2>2. l.folders = (f.folders \cap S) \cup {T(q) : q \in M \cap f.folders}
    BY DEF Left, M, T, S
  <2>3. path \notin l.folders
    BY <1>3, <1>4, <2>2 DEF M, T, S
  <2> QED BY <2>1, <2>2, <2>3
<1>15. \A q \in DOMAIN f.file : q \in f.folders <=> f.file[q] \in Folder
  BY DEF Good
<1>16. n.folders = {q \in DOMAIN n.file : n.file[q] \in Folder}
  <2>1. ASSUME NEW q \in n.folders PROVE q \in DOMAIN n.file /\ n.file[q] \in Folder
    <3>1. CASE q \in f.folders \cap S
      BY <1>5, <1>6, <1>15, <3>1
    <3>2. ASSUME NEW r \in M \cap f.folders, q = T(r) PROVE q \in DOMAIN n.file /\ n.file[q] \in Folder
      BY <1>5, <1>6, <1>15, <3>2
    <3>3. CASE id \in Folder /\ q = path
      BY <1>6, <3>3
    <3> QED BY <1>14, <3>1, <3>2, <3>3
  <2>2. ASSUME NEW q \in DOMAIN n.file, n.file[q] \in Folder PROVE q \in n.folders
    <3>1. CASE q \in S
      BY <1>5, <1>6, <1>14, <1>15, <2>2, <3>1
    <3>2. ASSUME NEW r \in M, q = T(r) PROVE q \in n.folders
      BY <1>5, <1>6, <1>14, <1>15, <2>2, <3>2
    <3>3. CASE q = path
      BY <1>6, <1>14, <2>2, <3>3
    <3> QED BY <1>6, <3>1, <3>2, <3>3
  <2> QED BY <2>1, <2>2
<1>17. \A q \in S : Len(q) # 1 => Parent(q) \in S \cap f.folders
  BY <1>1, ParentStays DEF S
<1>18. \A q \in M : \/ Parent(q) = old /\ old \in f.folders /\ Parent(T(q)) = path
                    \/ Parent(q) \in M \cap f.folders /\ Parent(T(q)) = T(Parent(q))
  <2> SUFFICES ASSUME NEW q \in M
               PROVE  \/ Parent(q) = old /\ old \in f.folders /\ Parent(T(q)) = path
                      \/ Parent(q) \in M \cap f.folders /\ Parent(T(q)) = T(Parent(q))
    OBVIOUS
  <2>1. q \in Inner(f, old)
    BY DEF M
  <2>2. MovesAlong(f, old, path, q)
    BY <1>1, <2>1, ParentMoves
  <2> QED BY <2>2 DEF MovesAlong, M, T
<1>19. Len(path) # 1 => Parent(path) \in S \cap f.folders
  <2> SUFFICES ASSUME Len(path) # 1 PROVE Parent(path) \in S \cap f.folders
    OBVIOUS
  <2>1. Parent(path) \in f.folders /\ Parent(path) \in DOMAIN f.file
    BY DEF Good
  <2>2. Parent(path) # old /\ ~Below(old, Parent(path))
    BY <1>1, BelowParent DEF Path
  <2> QED BY <2>1, <2>2 DEF S, Stays, Inner
<1>20. \A q \in DOMAIN n.file : Len(q) = 1 \/ Parent(q) \in n.folders
  <2> SUFFICES ASSUME NEW q \in DOMAIN n.file, Len(q) # 1 PROVE Parent(q) \in n.folders
    OBVIOUS
  <2>1. CASE q = path
    BY <1>14, <1>19, <2>1
  <2>2. CASE q \in S
    BY <1>14, <1>17, <2>2
  <2>3. ASSUME NEW r \in M, q = T(r) PROVE Parent(q) \in n.folders
    <3>1. old \in f.folders => id \in Folder
      BY <1>1, <1>15
    <3> QED BY <1>14, <1>18, <2>3, <3>1
  <2> QED BY <1>6, <2>1, <2>2, <2>3
<1>21. Good(n)
  BY <1>10, <1>11, <1>12, <1>13, <1>16, <1>20 DEF Good
<1>22. <<>> \notin DOMAIN n.file /\ <<>> \notin DOMAIN f.file
  BY <1>12 DEF Good, Path
<1>23. ASSUME NEW q \in Path, Len(q) = 1 PROVE IdAt(n, Parent(q)) = IdAt(f, Parent(q))
  <2>1. Parent(q) \in Seq(AnyName) /\ Len(Parent(q)) = 0
    BY <1>23, ParentPath DEF Path
  <2>2. Parent(q) = <<>>
    BY <2>1, EmptySeq
  <2> QED BY <1>22, <2>2 DEF IdAt, HasFile
<1>24. \A q \in S : IdAt(n, q) = IdAt(f, q)
  BY <1>5, <1>6 DEF IdAt, HasFile
<1>25. Up(n, id) = IdAt(f, Parent(path))
  <2>1. IdAt(n, Parent(path)) = IdAt(f, Parent(path))
    BY <1>19, <1>23, <1>24
  <2> QED BY <1>7, <2>1 DEF Up
<1>26. ASSUME NEW x \in DOMAIN f.pathOf \ {id} PROVE Up(n, x) = Up(f, x)
  <2> DEFINE q == f.pathOf[x]
  <2>1. q \in M \cup S /\ n.pathOf[x] = IF q \in M THEN T(q) ELSE q
    BY <1>7, <1>9
  <2> HIDE DEF q
  <2>2. CASE q \in S
    <3>1. q \notin M /\ q \in Path
      BY <1>5, <2>2 DEF Good
    <3>2. IdAt(n, Parent(q)) = IdAt(f, Parent(q))
      BY <1>17, <1>23, <1>24, <2>2, <3>1
    <3> QED BY <2>1, <3>1, <3>2 DEF Up, q
  <2>3. CASE q \in M
    <3>1. IdAt(n, Parent(T(q))) = IdAt(f, Parent(q))
      <4>1. CASE Parent(q) = old /\ old \in f.folders /\ Parent(T(q)) = path
        BY <1>1, <1>6, <4>1 DEF IdAt, HasFile
      <4>2. CASE Parent(q) \in M \cap f.folders /\ Parent(T(q)) = T(Parent(q))
        BY <1>5, <1>6, <4>2 DEF IdAt, HasFile
      <4> QED BY <1>18, <2>3, <4>1, <4>2
    <3> QED BY <2>1, <2>3, <3>1 DEF Up, q
  <2> QED BY <2>1, <2>2, <2>3
<1>27. ASSUME NEW x \in DOMAIN f.pathOf \ {id} PROVE Last(n.pathOf[x]) = Last(f.pathOf[x])
  <2>1. CASE f.pathOf[x] \in M
    <3>1. f.pathOf[x] \in Seq(AnyName) /\ Below(old, f.pathOf[x])
      BY <1>2, <2>1 DEF M, Inner
    <3>2. Last(T(f.pathOf[x])) = Last(f.pathOf[x])
      BY <1>1, <3>1, RerootLast DEF T
    <3> QED BY <1>7, <2>1, <3>2
  <2>2. CASE f.pathOf[x] \notin M
    BY <1>7, <2>2
  <2> QED BY <2>1, <2>2
<1>28. ASSUME NEW p, IdAt(n, p) # IdAt(f, p), p # path, p # old, p \notin M
       PROVE  M # {} /\ p \in Inner(n, path)
  <2>1. p \notin S
    BY <1>24, <1>28
  <2>2. p \notin DOMAIN f.file
    BY <1>5, <1>28, <2>1
  <2>3. p \in DOMAIN n.file
    BY <1>28, <2>2 DEF IdAt, HasFile
  <2>4. PICK q \in M : p = T(q)
    BY <1>6, <1>28, <2>1, <2>3
  <2>5. Below(path, p)
    BY <1>2, <2>4 DEF M, T
  <2> QED BY <2>3, <2>4, <2>5 DEF Inner
<1>29. old # NoPath
  BY CachedPaths
<1>30. Moves(f, old, path, n)
  <2> SUFFICES ASSUME NEW p, IdAt(n, p) # IdAt(f, p), p # path, p # old, p \notin M
               PROVE  M # {} /\ p \in Inner(n, path)
    BY <1>29 DEF Moves, M
  <2> QED BY <1>28
<1> QED BY <1>7, <1>21, <1>25, <1>26, <1>27, <1>30

(* The same for an entry that was nowhere, or is where it was. *)
Same(f, l) ==
  /\ DOMAIN l.file = DOMAIN f.file /\ \A q \in DOMAIN f.file : l.file[q] = f.file[q]
  /\ DOMAIN l.pathOf = DOMAIN f.pathOf /\ \A x \in DOMAIN f.pathOf : l.pathOf[x] = f.pathOf[x]
  /\ l.folders = f.folders /\ l.indexed = f.indexed

(* So does an entry that stays at its path. *)
LEMMA SameIsGood ==
  ASSUME NEW f, Good(f), NEW l, Same(f, l)
  PROVE  /\ Good(l)
         /\ \A p : IdAt(l, p) = IdAt(f, p)
         /\ \A x \in DOMAIN f.pathOf : Up(l, x) = Up(f, x)
<1>1. \A p : IdAt(l, p) = IdAt(f, p)
  BY DEF Same, IdAt, HasFile
<1>2. Good(l)
  BY DEF Same, Good
<1>3. \A x \in DOMAIN f.pathOf : Up(l, x) = Up(f, x)
  BY <1>1 DEF Same, Up
<1> QED BY <1>1, <1>2, <1>3

(* And a new entry at a free path. *)
LEMMA NewIsGood ==
  ASSUME NEW f, Good(f), NEW id \in Id, id \notin DOMAIN f.pathOf,
         NEW path \in Path, path \notin DOMAIN f.file,
         Len(path) = 1 \/ Parent(path) \in f.folders,
         NEW l, Same(f, l), NEW n, Placed(l, id, path, n)
  PROVE  /\ Good(n)
         /\ DOMAIN n.pathOf = DOMAIN f.pathOf \cup {id} /\ n.pathOf[id] = path
         /\ \A x \in DOMAIN f.pathOf : Up(n, x) = Up(f, x) /\ n.pathOf[x] = f.pathOf[x]
         /\ Up(n, id) = IdAt(f, Parent(path))
         /\ \A p : IdAt(n, p) # IdAt(f, p) => p = path
<1>1. /\ DOMAIN n.file = DOMAIN f.file \cup {path} /\ n.file[path] = id
      /\ \A q \in DOMAIN f.file : n.file[q] = f.file[q]
      /\ DOMAIN n.pathOf = DOMAIN f.pathOf \cup {id} /\ n.pathOf[id] = path
      /\ \A x \in DOMAIN f.pathOf : n.pathOf[x] = f.pathOf[x]
      /\ n.indexed = DOMAIN n.file
  BY DEF Same, Placed, Good
<1>2. \A q \in DOMAIN f.file : f.file[q] # id
  BY DEF Good
<1>3. n.folders = f.folders \cup (IF id \in Folder THEN {path} ELSE {})
  BY DEF Same, Placed, Good
<1>4. DOMAIN n.file \subseteq Path /\ DOMAIN n.pathOf \subseteq Id
  BY <1>1 DEF Good
<1>5. \A q \in DOMAIN n.file : n.file[q] \in DOMAIN n.pathOf /\ n.pathOf[n.file[q]] = q
  BY <1>1, <1>2 DEF Good
<1>6. \A x \in DOMAIN n.pathOf : n.pathOf[x] \in DOMAIN n.file /\ n.file[n.pathOf[x]] = x
  BY <1>1 DEF Good
<1>7. n.folders = {q \in DOMAIN n.file : n.file[q] \in Folder}
  <2>1. f.folders = {q \in DOMAIN f.file : f.file[q] \in Folder}
    BY DEF Good
  <2> QED BY <1>1, <1>3, <2>1
<1>8. \A q \in DOMAIN n.file : Len(q) = 1 \/ Parent(q) \in n.folders
  BY <1>1, <1>3 DEF Good
<1>9. Good(n)
  BY <1>1, <1>4, <1>5, <1>6, <1>7, <1>8 DEF Good
<1>10. ASSUME NEW q \in Path, Len(q) = 1 \/ Parent(q) \in f.folders
       PROVE  IdAt(n, Parent(q)) = IdAt(f, Parent(q))
  <2>1. CASE Len(q) = 1
    <3>1. Parent(q) \in Seq(AnyName) /\ Len(Parent(q)) = 0
      BY <2>1, ParentPath DEF Path
    <3>2. Parent(q) = <<>>
      BY <3>1, EmptySeq
    <3> QED BY <1>4, <3>2 DEF IdAt, HasFile, Good, Path
  <2>2. CASE Parent(q) \in f.folders
    <3>1. Parent(q) \in DOMAIN f.file
      BY <2>2 DEF Good
    <3> QED BY <1>1, <3>1 DEF IdAt, HasFile
  <2> QED BY <1>10, <2>1, <2>2
<1>11. ASSUME NEW x \in DOMAIN f.pathOf PROVE Up(n, x) = Up(f, x)
  <2> DEFINE q == f.pathOf[x]
  <2>1. q \in Path /\ (Len(q) = 1 \/ Parent(q) \in f.folders) /\ n.pathOf[x] = q
    BY <1>1 DEF Good
  <2> HIDE DEF q
  <2>2. IdAt(n, Parent(q)) = IdAt(f, Parent(q))
    BY <1>10, <2>1
  <2> QED BY <2>1, <2>2 DEF Up, q
<1>12. Up(n, id) = IdAt(f, Parent(path))
  BY <1>1, <1>10 DEF Up
<1>13. \A p : IdAt(n, p) # IdAt(f, p) => p = path
  BY <1>1 DEF IdAt, HasFile
<1> QED BY <1>1, <1>9, <1>11, <1>12, <1>13

(* An entry at the path it had changes nobody's parent. *)
LEMMA SamePlace ==
  ASSUME NEW f, Good(f), NEW path \in DOMAIN f.file, NEW id, id = f.file[path],
         NEW n, Placed(f, id, path, n)
  PROVE  Same(f, n)
<1>1. DOMAIN n.file = DOMAIN f.file /\ \A q \in DOMAIN f.file : n.file[q] = f.file[q]
  BY DEF Placed
<1>2. DOMAIN n.pathOf = DOMAIN f.pathOf /\ \A x \in DOMAIN f.pathOf : n.pathOf[x] = f.pathOf[x]
  BY DEF Placed, Good
<1>3. n.indexed = f.indexed
  BY DEF Placed, Good
<1>4. n.folders = f.folders
  BY DEF Placed, Good
<1> QED BY <1>1, <1>2, <1>3, <1>4 DEF Same

-----------------------------------------------------------------------------
(* An entry is applied.                                                    *)

IsPlace(e) == e.parent \in Folder \cup {Root, Outside} /\ e.name \in AnyName
IsEntry(e) == e.id \in Id /\ IsPlace(e)

(* The folder an entry says it is in. *)
Above(e) == IF e.parent = Root THEN {} ELSE {e.parent}

(* It goes into itself, as far as the cache can tell. *)
GoesIntoItself(c, e) ==
  /\ {e.id, e.parent} \subseteq DOMAIN c.pathOf
  /\ c.pathOf[e.parent] = c.pathOf[e.id] \/ Below(c.pathOf[e.id], c.pathOf[e.parent])

(* A name at the root, or below a path, makes a path. *)
LEMMA PathsOfNames ==
  ASSUME NEW e \in AnyName
  PROVE  /\ <<e>> \in Path /\ Len(<<e>>) = 1 /\ Parent(<<e>>) = <<>> /\ Last(<<e>>) = e
         /\ \A p \in Path : /\ Append(p, e) \in Path /\ Parent(Append(p, e)) = p
                            /\ Last(Append(p, e)) = e
<1>1. <<e>> \in Seq(AnyName) /\ Len(<<e>>) = 1 /\ <<e>> # <<>>
  OBVIOUS
<1>2. Parent(<<e>>) = <<>>
  <2> DEFINE s == <<e>>
  <2>1. s \in Seq(AnyName) /\ Len(s) = 1 /\ s # <<>>
    BY <1>1
  <2> HIDE DEF s
  <2>2. Parent(s) \in Seq(AnyName) /\ Len(Parent(s)) = 0
    BY <2>1, ParentPath
  <2> QED BY <2>2, EmptySeq DEF s
<1>3. ASSUME NEW p \in Path
      PROVE  Append(p, e) \in Path /\ Parent(Append(p, e)) = p /\ Last(Append(p, e)) = e
  <2> DEFINE a == Append(p, e)
  <2>1. /\ p \in Seq(AnyName) /\ a \in Seq(AnyName) /\ a # <<>> /\ Len(a) = Len(p) + 1
        /\ \A i \in 1..Len(p) : a[i] = p[i]
        /\ a[Len(a)] = e
    BY AppendProperties DEF Path
  <2> HIDE DEF a
  <2>2. /\ Parent(a) \in Seq(AnyName) /\ Len(Parent(a)) = Len(a) - 1
        /\ \A i \in 1..(Len(a) - 1) : Parent(a)[i] = a[i]
    BY <2>1, ParentPath
  <2>3. Len(Parent(a)) = Len(p) /\ \A i \in 1..Len(Parent(a)) : Parent(a)[i] = p[i]
    BY <2>1, <2>2
  <2>4. Parent(a) = p
    BY <2>1, <2>2, <2>3, SeqEqual
  <2> QED BY <2>1, <2>4 DEF a, Path, Last
<1>4. Last(<<e>>) = e
  BY DEF Last
<1> QED BY <1>1, <1>2, <1>3, <1>4 DEF Path

(* The path a place resolves to has its parent cached, or is at the root. *)
LEMMA ResolvesPlace ==
  ASSUME NEW c, Good(c), NEW e, IsPlace(e), NEW path, path = ResolvePathFromCache(c, e),
         path # NoPath
  PROVE  /\ path \in Path /\ Last(path) = e.name
         /\ \/ e.parent = Root /\ Len(path) = 1 /\ Parent(path) = <<>>
            \/ /\ e.parent # Root /\ e.parent \in DOMAIN c.pathOf
               /\ Parent(path) = c.pathOf[e.parent] /\ Parent(path) \in c.folders
         /\ IdAt(c, Parent(path)) = Above(e)
<1>0. \A x \in DOMAIN c.pathOf : c.pathOf[x] \in Path
  BY CachedPaths
<1>1. CASE e.parent = Root
  <2>1. path = <<e.name>>
    BY <1>1 DEF ResolvePathFromCache
  <2>2. path \in Path /\ Len(path) = 1 /\ Parent(path) = <<>> /\ Last(path) = e.name
    BY <2>1, PathsOfNames DEF IsPlace
  <2>3. IdAt(c, Parent(path)) = {}
    BY <2>2 DEF IdAt, HasFile, Good, Path
  <2> QED BY <1>1, <2>2, <2>3 DEF Above
<1>2. CASE e.parent # Root
  <2>1. e.parent \in DOMAIN c.pathOf /\ path = Append(c.pathOf[e.parent], e.name)
    BY <1>2 DEF ResolvePathFromCache
  <2>2. e.parent \in Folder
    BY <2>1, RemoteTreeAssumption, CacheAssumption DEF IsPlace, Good
  <2>3. path \in Path /\ Parent(path) = c.pathOf[e.parent] /\ Last(path) = e.name
    <3>1. c.pathOf[e.parent] \in Path /\ e.name \in AnyName
      BY <1>0, <2>1 DEF IsPlace
    <3> QED BY <2>1, <3>1, PathsOfNames
  <2>4. Parent(path) \in c.folders /\ IdAt(c, Parent(path)) = {e.parent}
    BY <2>1, <2>2, <2>3 DEF Good, IdAt, HasFile
  <2> QED BY <1>2, <2>1, <2>3, <2>4 DEF Above
<1> QED BY <1>1, <1>2

(* Nor is it below the path of the entry, if that does not go into itself. *)
LEMMA Resolves ==
  ASSUME NEW c, Good(c), NEW e, IsEntry(e), NEW path, path = ResolvePathFromCache(c, e),
         path # NoPath
  PROVE  /\ path \in Path /\ Last(path) = e.name
         /\ Len(path) = 1 \/ Parent(path) \in c.folders
         /\ IdAt(c, Parent(path)) = Above(e)
         /\ e.id \in DOMAIN c.pathOf /\ ~GoesIntoItself(c, e) => ~Below(c.pathOf[e.id], path)
<1>1. /\ path \in Path /\ Last(path) = e.name
      /\ \/ e.parent = Root /\ Len(path) = 1 /\ Parent(path) = <<>>
         \/ /\ e.parent # Root /\ e.parent \in DOMAIN c.pathOf
            /\ Parent(path) = c.pathOf[e.parent] /\ Parent(path) \in c.folders
      /\ IdAt(c, Parent(path)) = Above(e)
  BY ResolvesPlace DEF IsEntry
<1>2. ASSUME e.id \in DOMAIN c.pathOf, Below(c.pathOf[e.id], path) PROVE GoesIntoItself(c, e)
  <2>1. c.pathOf[e.id] \in Seq(AnyName) /\ c.pathOf[e.id] # <<>> /\ path \in Seq(AnyName)
        /\ path # <<>>
    BY <1>1, <1>2, CachedPaths DEF Path
  <2>2. c.pathOf[e.id] = Parent(path) \/ Below(c.pathOf[e.id], Parent(path))
    BY <1>2, <2>1, BelowParent
  <2>3. Len(path) # 1
    <3>1. Len(c.pathOf[e.id]) >= 1 /\ Len(c.pathOf[e.id]) < Len(path)
      BY <1>2, <2>1, EmptySeq, BelowOrder
    <3> QED BY <2>1, <3>1
  <2> QED BY <1>1, <1>2, <2>2, <2>3 DEF GoesIntoItself
<1> QED BY <1>1, <1>2

(* An id is cached at the place an entry says if it is in that folder and
   has that name. *)
LEMMA AtPlace ==
  ASSUME NEW c, Good(c), NEW x \in DOMAIN c.pathOf, NEW e, IsPlace(e)
  PROVE  c.pathOf[x] = ResolvePathFromCache(c, e)
           <=> Up(c, x) = Above(e) /\ Last(c.pathOf[x]) = e.name
<1> DEFINE p == c.pathOf[x]
<1>1. p \in DOMAIN c.file /\ p \in Path /\ p # NoPath
  BY CachedPaths DEF Good
<1>2. p = ResolvePathFromCache(c, e) => Up(c, x) = Above(e) /\ Last(p) = e.name
  BY <1>1, ResolvesPlace DEF Up
<1>3. ASSUME Up(c, x) = Above(e), Last(p) = e.name PROVE p = ResolvePathFromCache(c, e)
  <2>1. /\ p \in Seq(AnyName) /\ p # <<>>
        /\ Len(p) # 1 => Parent(p) \in c.folders
        /\ Len(p) = 1 => Parent(p) \notin DOMAIN c.file
    BY <1>1, ParentOfCached
  <2>2. p = Append(Parent(p), Last(p)) /\ (Len(p) = 1 => p = <<Last(p)>>)
    BY <2>1, ParentAndLast
  <2>3. IdAt(c, Parent(p)) = Above(e)
    BY <1>3 DEF Up
  <2>4. CASE Len(p) = 1
    <3>1. e.parent = Root
      BY <2>1, <2>3, <2>4 DEF IdAt, HasFile, Above
    <3> QED BY <1>3, <2>2, <2>4, <3>1 DEF ResolvePathFromCache
  <2>5. CASE Len(p) # 1
    <3>1. Parent(p) \in DOMAIN c.file
      BY <2>1, <2>5 DEF Good
    <3>2. e.parent # Root /\ c.file[Parent(p)] = e.parent
      BY <2>3, <3>1 DEF IdAt, HasFile, Above
    <3>3. e.parent \in DOMAIN c.pathOf /\ c.pathOf[e.parent] = Parent(p)
      BY <3>1, <3>2 DEF Good
    <3> QED BY <1>3, <2>2, <3>2, <3>3 DEF ResolvePathFromCache
  <2> QED BY <2>4, <2>5
<1> QED BY <1>2, <1>3

(* The path is free, or freed with all below it. *)
Prepared(c, path, f) ==
  /\ Good(f) /\ path \notin DOMAIN f.file
  /\ \A q \in DOMAIN f.file : q \in DOMAIN c.file /\ f.file[q] = c.file[q]
  /\ \A x \in DOMAIN f.pathOf :
       x \in DOMAIN c.pathOf /\ f.pathOf[x] = c.pathOf[x] /\ Up(f, x) = Up(c, x)
  /\ Len(path) = 1 \/ Parent(path) \in f.folders
  /\ IdAt(f, Parent(path)) = IdAt(c, Parent(path))

(* Whoever is cached at the path is evicted with all below it, and the
   entry and its parent are still as they were. *)
LEMMA Prepares ==
  ASSUME NEW c, Good(c), NEW path \in Path, Len(path) = 1 \/ Parent(path) \in c.folders,
         NEW f, IF HasFile(c, path) THEN f = RemoveTree(c, path) ELSE f = c
  PROVE  Prepared(c, path, f)
<1>1. CASE ~HasFile(c, path)
  BY <1>1 DEF HasFile, Prepared, Good
<1>2. CASE HasFile(c, path)
  <2> DEFINE R == SubtreeAt(c, path)
  <2>1. path \in Seq(AnyName) /\ path # <<>> /\ Removed(c, R, f)
    BY <1>2, RemoveTreeRemoves DEF Path
  <2>2. Good(f) /\ \A x \in DOMAIN f.pathOf : Up(f, x) = Up(c, x)
    BY <2>1, RemovedGood
  <2>3. path \in R
    BY DEF SubtreeAt
  <2>4. Parent(path) \notin R
    <3>1. Parent(path) \in Seq(AnyName) /\ Below(Parent(path), path)
      BY <2>1, ParentPath, BelowParent
    <3>2. Parent(path) # path /\ ~Below(path, Parent(path))
      BY <2>1, <3>1, BelowOrder
    <3> QED BY <3>2 DEF SubtreeAt, Inner
  <2> HIDE DEF R
  <2>5. \A q \in DOMAIN f.file : q \in DOMAIN c.file /\ f.file[q] = c.file[q]
    BY <2>1 DEF Removed
  <2>6. \A x \in DOMAIN f.pathOf : x \in DOMAIN c.pathOf /\ f.pathOf[x] = c.pathOf[x]
    BY <2>1 DEF Removed
  <2>7. Len(path) = 1 \/ Parent(path) \in f.folders
    BY <2>1, <2>4 DEF Removed
  <2>8. IdAt(f, Parent(path)) = IdAt(c, Parent(path))
    BY <2>1, <2>4 DEF Removed, IdAt, HasFile
  <2>9. path \notin DOMAIN f.file
    BY <2>1, <2>3 DEF Removed
  <2> QED BY <2>2, <2>5, <2>6, <2>7, <2>8, <2>9 DEF Prepared
<1> QED BY <1>1, <1>2

(* Applied, the cache is good, what is in it is in the folder it was in    *)
(* and has its name, and what the entry is about is where the entry says.  *)
Applied(c, e, n) ==
  /\ Good(n)
  /\ \A x \in DOMAIN n.pathOf :
       IF x = e.id THEN Up(n, x) = Above(e) /\ Last(n.pathOf[x]) = e.name
       ELSE /\ x \in DOMAIN c.pathOf
            /\ Up(n, x) = Up(c, x) /\ Last(n.pathOf[x]) = Last(c.pathOf[x])

(* Then the entry is placed, with its descendants, and the cache is good. *)
LEMMA PlacedApplies ==
  ASSUME NEW c, Good(c), NEW e, IsEntry(e), NEW path \in Path, NEW f, Prepared(c, path, f),
         IdAt(c, Parent(path)) = Above(e), Last(path) = e.name,
         e.id \in DOMAIN c.pathOf => ~Below(c.pathOf[e.id], path)
  PROVE  LET old == PathById(c, e.id)
             n   == PlaceAt(IF old = NoPath THEN f ELSE LeaveOldPath(f, e.id, old, path),
                            e.id, path)
         IN  Applied(c, e, n) /\ PathById(n, e.id) = path /\ Moves(f, old, path, n)
<1> DEFINE old == PathById(c, e.id)
           l == IF old = NoPath THEN f ELSE LeaveOldPath(f, e.id, old, path)
           n == PlaceAt(l, e.id, path)
<1>1. /\ Good(f) /\ path \notin DOMAIN f.file
      /\ \A x \in DOMAIN f.pathOf :
           x \in DOMAIN c.pathOf /\ f.pathOf[x] = c.pathOf[x] /\ Up(f, x) = Up(c, x)
      /\ Len(path) = 1 \/ Parent(path) \in f.folders
      /\ IdAt(f, Parent(path)) = Above(e)
  BY DEF Prepared
<1>2. e.id \in Id
  BY DEF IsEntry
<1>3. Placed(l, e.id, path, n)
  BY PlaceAtPlaces
<1>6. PathById(n, e.id) = path
  BY <1>3 DEF Placed, PathById
<1>7. n.pathOf[e.id] = path
  BY <1>3 DEF Placed
<1>4. CASE e.id \in DOMAIN f.pathOf
  <2>1. old = f.pathOf[e.id] /\ old # NoPath /\ ~Below(old, path)
    BY <1>1, <1>4, CachedPaths
  <2>2. Left(f, e.id, old, path, l)
    BY <1>1, <1>4, <2>1, LeavesOldPath
  <2> HIDE DEF l, n, old
  <2>3. /\ Good(n)
        /\ DOMAIN n.pathOf = DOMAIN f.pathOf
        /\ \A x \in DOMAIN f.pathOf \ {e.id} :
             Up(n, x) = Up(f, x) /\ Last(n.pathOf[x]) = Last(f.pathOf[x])
        /\ Up(n, e.id) = IdAt(f, Parent(path))
        /\ Moves(f, old, path, n)
    BY <1>1, <1>3, <1>4, <2>1, <2>2, MoveIsGood
  <2>4. Applied(c, e, n)
    BY <1>1, <1>7, <2>3 DEF Applied
  <2> QED BY <1>6, <2>3, <2>4 DEF n, l, old
<1>5. CASE e.id \notin DOMAIN f.pathOf
  <2>1. Same(f, l)
    <3>1. CASE old = NoPath
      BY <3>1 DEF Same
    <3>2. CASE old # NoPath
      <4>1. e.id \in DOMAIN c.pathOf /\ old = c.pathOf[e.id] /\ c.file[old] = e.id
        BY <3>2, CachedPaths DEF Good
      <4>2. old \notin DOMAIN f.file
        BY <1>1, <1>5, <4>1 DEF Prepared, Good
      <4>3. old \notin f.folders
        BY <1>1, <4>2 DEF Good
      <4>4. l = [file    |-> Without(f.file, {old}),
                 pathOf  |-> Without(f.pathOf, {e.id}),
                 folders |-> f.folders \ {old},
                 indexed |-> f.indexed \ {old}]
        BY <3>2, <4>3 DEF LeaveOldPath
      <4> HIDE DEF l
      <4> QED BY <1>1, <1>5, <4>2, <4>3, <4>4 DEF Same, Without, Good
    <3> QED BY <3>1, <3>2
  <2> HIDE DEF l, n, old
  <2>2. /\ Good(n)
        /\ DOMAIN n.pathOf = DOMAIN f.pathOf \cup {e.id}
        /\ \A x \in DOMAIN f.pathOf : Up(n, x) = Up(f, x) /\ n.pathOf[x] = f.pathOf[x]
        /\ Up(n, e.id) = IdAt(f, Parent(path))
        /\ \A p : IdAt(n, p) # IdAt(f, p) => p = path
    BY <1>1, <1>2, <1>3, <1>5, <2>1, NewIsGood
  <2>3. Applied(c, e, n)
    BY <1>1, <1>5, <1>7, <2>2 DEF Applied
  <2>4. Moves(f, old, path, n)
    BY <2>2 DEF Moves
  <2> QED BY <1>6, <2>3, <2>4 DEF n, l, old
<1> QED BY <1>4, <1>5

(* The paths an entry is reported to have changed, and whether they are all. *)
Noted(c, id, n) ==
  LET old == PathById(c, id)
      new == PathById(n, id)
  IN  IF new = NoPath THEN IF old = NoPath THEN {} ELSE SubtreeAt(c, old)
      ELSE IF old \in {NoPath, new} THEN {new}
      ELSE {new} \cup SubtreeAt(c, old) \cup (IF Inner(c, old) = {} THEN {} ELSE Inner(n, new))
Tells(c, n, paths) == \A p : IdAt(n, p) # IdAt(c, p) => p \in paths

(* No other folder is cached where the entry goes. *)
EvictsNoFolder(c, e) ==
  \A other \in Folder \cap DOMAIN c.pathOf :
    other # e.id => c.pathOf[other] # ResolvePathFromCache(c, e)

(* What was freed held one file. *)
LEMMA FreedTells ==
  ASSUME NEW c, Good(c), NEW e, NEW path \in Path, path = ResolvePathFromCache(c, e),
         EvictsNoFolder(c, e),
         HasFile(c, path) => c.file[path] # e.id,
         NEW f, IF HasFile(c, path) THEN f = RemoveTree(c, path) ELSE f = c
  PROVE  Tells(c, f, {path})
<1>1. CASE ~HasFile(c, path)
  BY <1>1 DEF Tells
<1>2. CASE HasFile(c, path)
  <2>1. c.file[path] \in DOMAIN c.pathOf /\ c.pathOf[c.file[path]] = path
    BY <1>2 DEF Good, HasFile
  <2>2. path \notin c.folders
    BY <1>2, <2>1 DEF EvictsNoFolder, Good
  <2>3. SubtreeAt(c, path) = {path}
    BY <2>2, NothingInAFile DEF SubtreeAt
  <2>4. Removed(c, {path}, f)
    BY <1>2, <2>3, RemoveTreeRemoves DEF Path
  <2> QED BY <2>4 DEF Tells, Removed, IdAt, HasFile
<1> QED BY <1>1, <1>2

(* applyFileChange keeps a good cache good, unless a folder goes into
   itself.  Only the entry's own parent changes, and all that changes is
   noted, unless another folder is evicted. *)
LEMMA ApplyFileChangeApplies ==
  ASSUME NEW c, Good(c), NEW e, IsEntry(e), ~GoesIntoItself(c, e)
  PROVE  /\ Applied(c, e, ApplyFileChange(c, e))
         /\ EvictsNoFolder(c, e) =>
              Tells(c, ApplyFileChange(c, e), Noted(c, e.id, ApplyFileChange(c, e)))
<1> DEFINE path == ResolvePathFromCache(c, e)
           old == PathById(c, e.id)
           n == ApplyFileChange(c, e)
<1>1. CASE path \in {NoPath, Reserved}
  <2>1. CASE old = NoPath
    <3>1. n = c
      BY <1>1, <2>1 DEF ApplyFileChange
    <3>2. e.id \notin DOMAIN c.pathOf
      BY <2>1, CachedPaths
    <3> QED BY <3>1, <3>2 DEF Applied, Tells
  <2>2. CASE old # NoPath
    <3>1. n = RemoveTree(c, old)
      BY <1>1, <2>2 DEF ApplyFileChange
    <3>2. e.id \in DOMAIN c.pathOf /\ old = c.pathOf[e.id] /\ old \in Seq(AnyName)
      BY <2>2, CachedPaths DEF Path
    <3> HIDE DEF n, old
    <3>3. Removed(c, SubtreeAt(c, old), n)
      BY <3>1, <3>2, RemoveTreeRemoves
    <3>4. Good(n) /\ \A x \in DOMAIN n.pathOf : Up(n, x) = Up(c, x)
      BY <3>2, <3>3, RemovedGood
    <3>5. \A x \in DOMAIN n.pathOf : x \in DOMAIN c.pathOf /\ x # e.id /\ n.pathOf[x] = c.pathOf[x]
      BY <3>2, <3>3 DEF Removed, SubtreeAt
    <3>6. Applied(c, e, n)
      BY <3>4, <3>5 DEF Applied
    <3>7. PathById(n, e.id) = NoPath
      BY <3>5 DEF PathById
    <3>8. Noted(c, e.id, n) = SubtreeAt(c, old)
      BY <2>2, <3>7 DEF Noted, old
    <3>9. Tells(c, n, SubtreeAt(c, old))
      BY <3>3 DEF Tells, Removed, IdAt, HasFile
    <3> QED BY <3>6, <3>8, <3>9 DEF n
  <2> QED BY <2>1, <2>2
<1>2. CASE path \notin {NoPath, Reserved}
  <2>1. /\ path \in Path
        /\ Len(path) = 1 \/ Parent(path) \in c.folders
        /\ IdAt(c, Parent(path)) = Above(e) /\ Last(path) = e.name
        /\ e.id \in DOMAIN c.pathOf => ~Below(c.pathOf[e.id], path)
    BY <1>2, Resolves
  <2> DEFINE f == IF HasFile(c, path) /\ c.file[path] # e.id THEN RemoveTree(c, path) ELSE c
  <2>2. n = PlaceAt(IF old \in {NoPath, path} THEN f ELSE LeaveOldPath(f, e.id, old, path),
                    e.id, path)
    BY <1>2 DEF ApplyFileChange
  <2>3. CASE HasFile(c, path) /\ c.file[path] = e.id
    <3>1. e.id \in DOMAIN c.pathOf /\ c.pathOf[e.id] = path /\ path \in DOMAIN c.file
      BY <2>3 DEF Good, HasFile
    <3>2. old = path /\ f = c
      BY <2>3, <3>1, CachedPaths
    <3>3. Placed(c, e.id, path, n)
      BY <2>2, <3>2, PlaceAtPlaces
    <3> HIDE DEF n, path, f, old
    <3>4. Same(c, n)
      BY <2>3, <3>1, <3>3, SamePlace
    <3>5. Good(n) /\ (\A x \in DOMAIN c.pathOf : Up(n, x) = Up(c, x)) /\ \A p : IdAt(n, p) = IdAt(c, p)
      BY <3>4, SameIsGood
    <3>6. Up(c, e.id) = Above(e) /\ Last(c.pathOf[e.id]) = e.name
      BY <2>1, <3>1 DEF Up
    <3>7. DOMAIN n.pathOf = DOMAIN c.pathOf /\ \A x \in DOMAIN c.pathOf : n.pathOf[x] = c.pathOf[x]
      BY <3>4 DEF Same
    <3>8. Applied(c, e, n)
      BY <3>5, <3>6, <3>7 DEF Applied
    <3> QED BY <3>5, <3>8 DEF n, Tells
  <2>4. CASE ~(HasFile(c, path) /\ c.file[path] = e.id)
    <3>1. IF HasFile(c, path) THEN f = RemoveTree(c, path) ELSE f = c
      BY <2>4
    <3>2. old # path
      <4>1. ASSUME e.id \in DOMAIN c.pathOf, c.pathOf[e.id] = path PROVE FALSE
        BY <2>4, <4>1 DEF Good, HasFile
      <4> QED BY <1>2, <4>1, CachedPaths
    <3>3. n = PlaceAt(IF old = NoPath THEN f ELSE LeaveOldPath(f, e.id, old, path), e.id, path)
      BY <2>2, <3>2
    <3>4. EvictsNoFolder(c, e) => Tells(c, f, {path})
      <4>1. HasFile(c, path) => c.file[path] # e.id
        BY <2>4
      <4> HIDE DEF f
      <4> QED BY <2>1, <3>1, <4>1, FreedTells
    <3> HIDE DEF f, n, path, old
    <3>5. Prepared(c, path, f)
      BY <2>1, <3>1, Prepares
    <3>6. Applied(c, e, n) /\ PathById(n, e.id) = path /\ Moves(f, old, path, n)
      BY <2>1, <3>3, <3>5, PlacedApplies DEF old
    <3>7. ASSUME EvictsNoFolder(c, e) PROVE Tells(c, n, Noted(c, e.id, n))
      <4>1. Inner(f, old) \subseteq Inner(c, old)
        BY <3>5 DEF Prepared, Inner
      <4>2. path # NoPath
        BY <1>2
      <4>3. path \in Noted(c, e.id, n)
        BY <3>6, <4>2 DEF Noted
      <4>4. old # NoPath =>
              Noted(c, e.id, n) = {path} \cup SubtreeAt(c, old)
                                    \cup (IF Inner(c, old) = {} THEN {} ELSE Inner(n, path))
        BY <3>2, <3>6, <4>2 DEF Noted, old
      <4>5. \A p : IdAt(n, p) # IdAt(f, p) => p \in Noted(c, e.id, n)
        BY <3>6, <4>1, <4>3, <4>4 DEF Moves, SubtreeAt
      <4>6. \A p : IdAt(f, p) # IdAt(c, p) => p = path
        BY <3>4, <3>7 DEF Tells
      <4> QED BY <4>3, <4>5, <4>6 DEF Tells
    <3> QED BY <3>6, <3>7 DEF n
  <2> QED BY <2>3, <2>4
<1> QED BY <1>1, <1>2

-----------------------------------------------------------------------------
(* Nothing goes into itself while there is no ring of folders each inside  *)
(* the next, some in the cache and some by now.                            *)

(* No entry puts a folder into itself while there is no ring. *)
LEMMA NothingGoesIntoItself ==
  ASSUME NEW c, Good(c), NEW t, ~Inverts(c, t), NEW e, IsEntry(e),
         t[e.id] # Gone, e.parent = t[e.id].parent
  PROVE  ~GoesIntoItself(c, e)
<1> SUFFICES ASSUME GoesIntoItself(c, e) PROVE FALSE
  OBVIOUS
<1> DEFINE old == c.pathOf[e.id]
           top == c.pathOf[e.parent]
           Between(m) == /\ m = e.id \/ Below(old, c.pathOf[m])
                         /\ c.pathOf[m] = top \/ Below(c.pathOf[m], top)
           ids == {m \in Folder \cap DOMAIN c.pathOf : Between(m)}
<1>1. {e.id, e.parent} \subseteq DOMAIN c.pathOf /\ (top = old \/ Below(old, top))
  BY DEF GoesIntoItself
<1>2. /\ old \in DOMAIN c.file /\ c.file[old] = e.id /\ old \in Path /\ old \in Seq(AnyName)
      /\ top \in DOMAIN c.file /\ c.file[top] = e.parent /\ top \in Path /\ top \in Seq(AnyName)
  BY <1>1 DEF Good, Path
<1>3. e.parent \in Folder
  BY <1>1, RemoteTreeAssumption, CacheAssumption DEF IsEntry, IsPlace, Good
<1>4. top \in c.folders
  BY <1>2, <1>3 DEF Good
<1>5. old \in c.folders
  BY <1>1, <1>2, <1>4, AboveIsCached
<1>6. e.id \in Folder
  BY <1>2, <1>5 DEF Good
<1>7. e.parent \in ids
  <2>1. e.parent = e.id \/ Below(old, top)
    BY <1>1, <1>2
  <2> QED BY <1>1, <1>3, <2>1
<1>8. ASSUME NEW m \in ids PROVE CachedIn(c, m, ids) \/ IsIn(t, m, ids)
  <2>1. CASE m = e.id
    BY <1>7, <2>1 DEF IsIn
  <2>2. CASE m # e.id
    <3> DEFINE q == c.pathOf[m]
    <3>1. /\ m \in Folder /\ m \in DOMAIN c.pathOf
          /\ Below(old, q) /\ (q = top \/ Below(q, top))
      BY <1>8, <2>2
    <3>2. q \in DOMAIN c.file /\ q \in Seq(AnyName) /\ q # <<>>
      BY <3>1 DEF Good, Path
    <3> HIDE DEF q, ids, Between, old, top
    <3>3. Parent(q) = old \/ Below(old, Parent(q))
      BY <1>2, <3>1, <3>2, BelowParent
    <3>4. Parent(q) \in Path /\ Below(Parent(q), q)
      <4>1. Parent(q) \in Seq(AnyName) /\ Below(Parent(q), q)
        BY <3>2, ParentPath, BelowParent
      <4>2. Parent(q) # <<>>
        <5>1. Len(Parent(q)) >= Len(old) /\ Parent(q) \in Seq(AnyName)
          BY <1>2, <3>2, <3>3, ParentPath, BelowOrder
        <5>2. Len(old) >= 1
          BY <1>2, EmptySeq DEF Path
        <5>3. Len(Parent(q)) >= 1
          BY <1>2, <5>1, <5>2
        <5> QED BY <5>3, EmptySeq
      <4> QED BY <4>1, <4>2 DEF Path
    <3>5. Parent(q) \in c.folders /\ Parent(q) \in DOMAIN c.file
      <4>1. Parent(q) \in c.folders
        BY <3>2, <3>4, AboveIsCached
      <4> QED BY <4>1 DEF Good
    <3> DEFINE u == c.file[Parent(q)]
    <3>6. u \in Folder /\ u \in DOMAIN c.pathOf /\ c.pathOf[u] = Parent(q)
      BY <3>5 DEF Good
    <3>7. Below(Parent(q), top)
      BY <1>2, <3>1, <3>2, <3>4, BelowOrder DEF Path
    <3>8. u = e.id \/ Below(old, Parent(q))
      BY <1>2, <3>3
    <3>9. u \in ids
      BY <3>6, <3>7, <3>8 DEF ids, Between
    <3>10. IdAt(c, Parent(q)) = {u}
      BY <3>5 DEF IdAt, HasFile
    <3> QED BY <3>1, <3>9, <3>10 DEF CachedIn, q
  <2> QED BY <2>1, <2>2
<1>9. ids \in (SUBSET Folder) \ {{}}
  BY <1>7
<1> QED BY <1>8, <1>9 DEF Inverts

(* Applying an entry with the parent it has by now makes no ring. *)
LEMMA AppliedInvertsNothing ==
  ASSUME NEW c, NEW e, NEW n, Applied(c, e, n), NEW t, ~Inverts(c, t),
         t[e.id] # Gone, e.parent = t[e.id].parent
  PROVE  ~Inverts(n, t)
<1> SUFFICES ASSUME NEW ids \in (SUBSET Folder) \ {{}},
                    \A id \in ids : CachedIn(n, id, ids) \/ IsIn(t, id, ids)
             PROVE  \A id \in ids : CachedIn(c, id, ids) \/ IsIn(t, id, ids)
  BY DEF Inverts
<1> TAKE id \in ids
<1>1. CASE id = e.id
  BY <1>1 DEF Applied, Above, CachedIn, IsIn, Up
<1>2. CASE id # e.id
  BY <1>2 DEF Applied, CachedIn, IsIn, Up
<1> QED BY <1>1, <1>2

(* Neither does a removal. *)
LEMMA RemovedInvertsNothing ==
  ASSUME NEW c, Good(c), NEW p \in Seq(AnyName), NEW t, ~Inverts(c, t)
  PROVE  Good(RemoveTree(c, p)) /\ ~Inverts(RemoveTree(c, p), t)
<1> DEFINE n == RemoveTree(c, p)
<1>1. Removed(c, SubtreeAt(c, p), n)
  BY RemoveTreeRemoves
<1> HIDE DEF n
<1>2. Good(n) /\ \A x \in DOMAIN n.pathOf : x \in DOMAIN c.pathOf /\ Up(n, x) = Up(c, x)
  BY <1>1, RemovedGood DEF Removed
<1>3. ASSUME NEW ids \in (SUBSET Folder) \ {{}},
             \A id \in ids : CachedIn(n, id, ids) \/ IsIn(t, id, ids)
      PROVE  \A id \in ids : CachedIn(c, id, ids) \/ IsIn(t, id, ids)
  BY <1>2, <1>3 DEF CachedIn, Up
<1> QED BY <1>2, <1>3 DEF Inverts, n

-----------------------------------------------------------------------------
(* Nothing comes to where another folder is cached.                        *)

(* A file that exists has a parent and a name. *)
LEMMA Places ==
  ASSUME NEW t \in [Id -> Place \cup {Gone}], NEW id \in Id, t[id] # Gone
  PROVE  /\ t[id] = [parent |-> t[id].parent, name |-> t[id].name]
         /\ t[id].parent \in Folder \cup {Root, Outside} /\ t[id].name \in AnyName
         /\ Root \notin Folder /\ Outside \notin Folder \cup {Root} /\ Folder \subseteq Id
<1>1. t[id] \in Place
  OBVIOUS
<1> QED BY <1>1, RemoteTreeAssumption, CacheAssumption DEF Place, AnyName

(* Applying an entry where it is by now puts no folder where another file goes. *)
LEMMA AppliedTakesNothing ==
  ASSUME NEW c, Good(c), NEW e, NEW n, Applied(c, e, n), NEW t \in [Id -> Place \cup {Gone}],
         \A a, b \in Id : t[a] = t[b] /\ t[a] # Gone => a = b, ~TakesOver(c, t),
         e.id \in Id, t[e.id] # Gone, e.parent = t[e.id].parent, e.name = t[e.id].name
  PROVE  ~TakesOver(n, t)
<1> SUFFICES ASSUME NEW other \in Folder \cap DOMAIN n.pathOf, NEW id \in Id \ {other}, t[id] # Gone,
                    n.pathOf[other] = ResolvePathFromCache(n, t[id])
             PROVE  FALSE
  BY DEF TakesOver
<1>1. Good(n) /\ IsPlace(t[id])
  BY Places DEF Applied, IsPlace
<1>2. Up(n, other) = Above(t[id]) /\ Last(n.pathOf[other]) = t[id].name
  BY <1>1, AtPlace
<1>3. CASE other = e.id
  <2>1. Above(e) = Above(t[id]) /\ e.name = t[id].name
    BY <1>2, <1>3 DEF Applied
  <2>2. e.parent = t[id].parent
    BY <2>1 DEF Above
  <2>3. /\ t[id] = [parent |-> t[id].parent, name |-> t[id].name]
        /\ t[e.id] = [parent |-> t[e.id].parent, name |-> t[e.id].name]
    BY Places
  <2> QED BY <1>3, <2>1, <2>2, <2>3
<1>4. CASE other # e.id
  <2>1. /\ other \in DOMAIN c.pathOf
        /\ Up(c, other) = Above(t[id]) /\ Last(c.pathOf[other]) = t[id].name
    BY <1>2, <1>4 DEF Applied
  <2>2. c.pathOf[other] = ResolvePathFromCache(c, t[id])
    BY <1>1, <2>1, AtPlace
  <2> QED BY <2>1, <2>2 DEF TakesOver
<1> QED BY <1>3, <1>4

(* Neither does a removal. *)
LEMMA RemovedTakesNothing ==
  ASSUME NEW c, Good(c), NEW p \in Seq(AnyName), NEW t \in [Id -> Place \cup {Gone}],
         ~TakesOver(c, t)
  PROVE  ~TakesOver(RemoveTree(c, p), t)
<1> DEFINE n == RemoveTree(c, p)
<1>1. Removed(c, SubtreeAt(c, p), n)
  BY RemoveTreeRemoves
<1> HIDE DEF n
<1>2. /\ Good(n)
      /\ \A x \in DOMAIN n.pathOf : /\ x \in DOMAIN c.pathOf /\ n.pathOf[x] = c.pathOf[x]
                                   /\ Up(n, x) = Up(c, x)
  BY <1>1, RemovedGood DEF Removed
<1>3. ASSUME NEW other \in Folder \cap DOMAIN n.pathOf, NEW id \in Id \ {other}, t[id] # Gone,
             n.pathOf[other] = ResolvePathFromCache(n, t[id])
      PROVE  FALSE
  <2>1. IsPlace(t[id])
    BY <1>3, Places DEF IsPlace
  <2>2. Up(n, other) = Above(t[id]) /\ Last(n.pathOf[other]) = t[id].name
    BY <1>2, <1>3, <2>1, AtPlace
  <2>3. other \in DOMAIN c.pathOf /\ c.pathOf[other] = ResolvePathFromCache(c, t[id])
    BY <1>2, <2>1, <2>2, AtPlace
  <2> QED BY <1>3, <2>3 DEF TakesOver
<1> QED BY <1>3 DEF TakesOver, n

-----------------------------------------------------------------------------
(* One entry of a page.  "from" is the cache the delta began with.         *)

Sound(from, acc) ==
  /\ acc = [cache |-> acc.cache, changed |-> acc.changed, renamed |-> acc.renamed]
  /\ Good(acc.cache) /\ ~Inverts(acc.cache, tree)
  /\ "takesOver" \notin TreeEvents =>
       ~TakesOver(acc.cache, tree) /\ Tells(from, acc.cache, acc.changed)

(* What one entry changed is added to what those before it did. *)
LEMMA TellsOn ==
  ASSUME NEW a, NEW b, NEW c, NEW P, NEW Q, Tells(a, b, P), Tells(b, c, Q)
  PROVE  Tells(a, c, P \cup Q)
BY DEF Tells

(* What applyEntry adds to the paths is what it changed. *)
LEMMA EntryNotes ==
  ASSUME NEW acc, acc = [cache |-> acc.cache, changed |-> acc.changed, renamed |-> acc.renamed],
         Good(acc.cache), NEW e, e.live, Good(ApplyFileChange(acc.cache, e))
  PROVE  LET next == ApplyFileChange(acc.cache, e)
             r    == ApplyEntry(acc, e)
         IN  r = [cache   |-> next,
                  changed |-> acc.changed \cup Noted(acc.cache, e.id, next),
                  renamed |-> r.renamed]
<1> DEFINE c == acc.cache
           old == PathById(c, e.id)
           descendants == IF old \in c.folders THEN CollectDescendants(c, old) ELSE {}
           next == ApplyFileChange(c, e)
           new == PathById(next, e.id)
           r == ApplyEntry(acc, e)
<1>1. old # NoPath => old \in Path /\ descendants = Inner(c, old)
  BY CachedPaths, NothingInAFile
<1>2. new # NoPath => CollectDescendants(next, new) = Inner(next, new)
  <2>1. Good(next)
    OBVIOUS
  <2> HIDE DEF next
  <2>2. new # NoPath => new \in Seq(AnyName)
    BY <2>1, CachedPaths DEF Path
  <2> QED BY <2>1, <2>2, DescendantsAre
<1>3. r = IF new = NoPath
          THEN [acc EXCEPT !.cache = next,
                           !.changed = @ \cup (IF old = NoPath THEN {} ELSE {old} \cup descendants)]
          ELSE IF old \in {NoPath, new} THEN Touched([acc EXCEPT !.cache = next], {new})
          ELSE Renamed(Touched(Touched([acc EXCEPT !.cache = next], {new}),
                               {old} \cup descendants \cup
                                 (IF descendants = {} THEN {} ELSE CollectDescendants(next, new))),
                       old, new)
  BY DEF ApplyEntry
<1> HIDE DEF old, descendants, next, new, r
<1>4. r = [cache |-> next, changed |-> r.changed, renamed |-> r.renamed]
  BY <1>3 DEF Renamed, Touched
<1>5. r.changed = acc.changed \cup Noted(c, e.id, next)
  <2>1. CASE new = NoPath
    BY <1>1, <1>3, <2>1 DEF Noted, SubtreeAt, old, new
  <2>2. CASE new # NoPath /\ old \in {NoPath, new}
    BY <1>3, <2>2 DEF Touched, Noted, old, new
  <2>3. CASE new # NoPath /\ old \notin {NoPath, new}
    <3>1. r.changed = acc.changed \cup {new} \cup ({old} \cup descendants \cup
                        (IF descendants = {} THEN {} ELSE CollectDescendants(next, new)))
      BY <1>3, <2>3 DEF Renamed, Touched
    <3>2. Noted(c, e.id, next) = {new} \cup SubtreeAt(c, old)
                                   \cup (IF Inner(c, old) = {} THEN {} ELSE Inner(next, new))
      BY <2>3 DEF Noted, old, new
    <3> QED BY <1>1, <1>2, <2>3, <3>1, <3>2 DEF SubtreeAt
  <2> QED BY <2>1, <2>2, <2>3
<1> QED BY <1>4, <1>5 DEF r, next

(* An entry of an id-keyed page keeps the cache good and without a ring. *)
LEMMA EntryIsSound ==
  ASSUME tree \in [Id -> Place \cup {Gone}],
         \A a, b \in Id : tree[a] = tree[b] /\ tree[a] # Gone => a = b,
         NEW from, NEW acc, Sound(from, acc), NEW id \in Id
  PROVE  Sound(from, ApplyEntry(acc, EntryOf(id)))
<1> DEFINE e == EntryOf(id)
           c == acc.cache
           old == PathById(c, id)
           next == ApplyFileChange(c, e)
           r == ApplyEntry(acc, e)
<1>1. /\ acc = [cache |-> c, changed |-> acc.changed, renamed |-> acc.renamed]
      /\ Good(c) /\ ~Inverts(c, tree)
      /\ "takesOver" \notin TreeEvents => ~TakesOver(c, tree) /\ Tells(from, c, acc.changed)
  BY DEF Sound
<1>2. e.id = id
  BY DEF EntryOf
<1>3. CASE tree[id] = Gone
  <2>1. ~e.live
    BY <1>3 DEF EntryOf
  <2>2. CASE old = NoPath
    <3>1. r = acc
      BY <1>2, <2>1, <2>2 DEF ApplyEntry
    <3> QED BY <3>1
  <2>3. CASE old # NoPath
    <3>1. r = RemoveReported(acc, old)
      BY <1>2, <2>1, <2>3 DEF ApplyEntry
    <3>2. old \in Seq(AnyName)
      BY <1>1, <2>3, CachedPaths DEF Path
    <3> DEFINE n == RemoveTree(c, old)
    <3>3. Good(n) /\ ~Inverts(n, tree)
      BY <1>1, <3>2, RemovedInvertsNothing
    <3>4. ~TakesOver(c, tree) => ~TakesOver(n, tree)
      BY <1>1, <3>2, RemovedTakesNothing
    <3>5. CollectDescendants(c, old) = Inner(c, old)
      BY <1>1, <3>2, DescendantsAre
    <3>6. Removed(c, SubtreeAt(c, old), n)
      BY <1>1, <3>2, RemoveTreeRemoves
    <3> HIDE DEF r, old
    <3>7. r = [cache |-> n, changed |-> acc.changed \cup SubtreeAt(c, old), renamed |-> r.renamed]
      BY <1>1, <3>1, <3>5 DEF RemoveReported, Touched, SubtreeAt
    <3> HIDE DEF n
    <3>8. Tells(c, n, SubtreeAt(c, old))
      BY <3>6 DEF Tells, Removed, IdAt, HasFile
    <3>9. Tells(from, c, acc.changed) => Tells(from, n, acc.changed \cup SubtreeAt(c, old))
      BY <3>8, TellsOn
    <3>10. r.cache = n /\ r.changed = acc.changed \cup SubtreeAt(c, old)
      BY <3>7
    <3>11. Sound(from, r)
      BY <1>1, <3>3, <3>4, <3>7, <3>9, <3>10 DEF Sound
    <3> QED BY <3>11 DEF r
  <2> QED BY <2>2, <2>3
<1>4. CASE tree[id] # Gone
  <2>1. e = [id |-> id, live |-> TRUE, parent |-> tree[id].parent, name |-> tree[id].name]
    BY <1>4 DEF EntryOf
  <2>2. IsEntry(e) /\ e.live /\ e.parent = tree[id].parent /\ e.name = tree[id].name
    <3>1. tree[id].parent \in Folder \cup {Root, Outside} /\ tree[id].name \in AnyName
      BY <1>4, Places
    <3> QED BY <2>1, <3>1 DEF IsEntry, IsPlace
  <2>3. ~TakesOver(c, tree) => EvictsNoFolder(c, e)
    BY <1>2, <1>4, <2>2 DEF TakesOver, EvictsNoFolder, ResolvePathFromCache
  <2> HIDE DEF e
  <2>4. ~GoesIntoItself(c, e)
    BY <1>1, <1>2, <1>4, <2>2, NothingGoesIntoItself
  <2>5. /\ Applied(c, e, next)
        /\ EvictsNoFolder(c, e) => Tells(c, next, Noted(c, id, next))
    BY <1>1, <1>2, <2>2, <2>4, ApplyFileChangeApplies
  <2>6. Good(next)
    BY <2>5 DEF Applied
  <2>7. r = [cache |-> next, changed |-> acc.changed \cup Noted(c, id, next), renamed |-> r.renamed]
    BY <1>1, <1>2, <2>2, <2>6, EntryNotes
  <2> HIDE DEF next
  <2>8. ~Inverts(next, tree)
    BY <1>1, <1>2, <1>4, <2>2, <2>5, AppliedInvertsNothing
  <2>9. ~TakesOver(c, tree) => ~TakesOver(next, tree)
    BY <1>1, <1>2, <1>4, <2>2, <2>5, AppliedTakesNothing
  <2> HIDE DEF r
  <2>10. "takesOver" \notin TreeEvents =>
           Tells(from, next, acc.changed \cup Noted(c, id, next))
    BY <1>1, <2>3, <2>5, TellsOn
  <2>11. r.cache = next /\ r.changed = acc.changed \cup Noted(c, id, next)
    BY <2>7
  <2>12. Sound(from, r)
    BY <1>1, <2>6, <2>7, <2>8, <2>9, <2>10, <2>11 DEF Sound
  <2> QED BY <2>12 DEF r, e
<1> QED BY <1>3, <1>4

-----------------------------------------------------------------------------
(* A page: FoldLeft is a table over the sets of its positions, each made   *)
(* from the one without its last.                                          *)

LastOf(S) == Max(S)
Folded(g, start, s, D) ==
  g = [S \in SUBSET D |-> IF S = {} THEN start
                          ELSE ApplyEntry(g[S \ {LastOf(S)}], s[LastOf(S)])]

(* A set of positions has a last. *)
LEMMA LastIsOne ==
  ASSUME NEW n \in Nat, NEW S \in SUBSET (1..n), S # {}
  PROVE  LastOf(S) \in S
<1> DEFINE Bad == {n - i : i \in S}
<1>1. Bad \subseteq Nat /\ Bad # {}
  <2>1. \A i \in S : i \in Int /\ i <= n
    OBVIOUS
  <2>2. \A i \in S : n - i \in Nat
    BY <2>1
  <2> QED BY <2>2
<1>2. PICK m \in Bad : \A k \in Bad : m <= k
  <2> HIDE DEF Bad
  <2> QED BY <1>1, Smallest
<1>3. PICK i \in S : m = n - i
  BY <1>2
<1>4. \A j \in S : i >= j
  <2> SUFFICES ASSUME NEW j \in S PROVE i >= j
    OBVIOUS
  <2>1. n - i <= n - j /\ i \in Int /\ j \in Int
    BY <1>2, <1>3
  <2> QED BY <2>1
<1> QED BY <1>3, <1>4 DEF LastOf, Max

HasLasts(T) == IsFiniteSet(T) /\ \A S \in SUBSET T : S # {} => LastOf(S) \in S

(* A row of the table, by the row before. *)
LEMMA FoldStep ==
  ASSUME NEW D, NEW start, NEW s, NEW g, Folded(g, start, s, D)
  PROVE  /\ g[{}] = start
         /\ \A S \in SUBSET D : S # {} => g[S] = ApplyEntry(g[S \ {LastOf(S)}], s[LastOf(S)])
<1>1. \A S \in SUBSET D : g[S] = IF S = {} THEN start
                                 ELSE ApplyEntry(g[S \ {LastOf(S)}], s[LastOf(S)])
  BY DEF Folded
<1> QED BY <1>1

(* Two tables agree where both are defined. *)
LEMMA FoldsAgree ==
  ASSUME NEW T, HasLasts(T), NEW D \in SUBSET T, NEW E \in SUBSET T, NEW start, NEW s,
         NEW g, NEW h, Folded(g, start, s, D), Folded(h, start, s, E),
         NEW S \in SUBSET (D \cap E)
  PROVE  g[S] = h[S]
<1> DEFINE Bad == {R \in SUBSET (D \cap E) : g[R] # h[R]}
<1>1. SUFFICES ASSUME Bad # {} PROVE FALSE
  OBVIOUS
<1>2. Bad \subseteq SUBSET T /\ IsFiniteSet(T)
  BY DEF HasLasts
<1>3. PICK R \in Bad : \A Q \in Bad : Q \subseteq R => Q = R
  <2> HIDE DEF Bad
  <2> QED BY <1>1, <1>2, SmallestSet
<1> DEFINE rest == R \ {LastOf(R)}
<1>4. R \in SUBSET D /\ R \in SUBSET E /\ g[R] # h[R] /\ R \in SUBSET T
  BY <1>3
<1>5. R # {}
  <2>1. g[{}] = start
    BY FoldStep
  <2>2. h[{}] = start
    BY FoldStep
  <2> QED BY <1>4, <2>1, <2>2
<1>6. LastOf(R) \in R
  BY <1>4, <1>5 DEF HasLasts
<1>7. g[rest] = h[rest]
  BY <1>3, <1>4, <1>6
<1> HIDE DEF Bad, rest
<1>8. g[R] = ApplyEntry(g[rest], s[LastOf(R)])
  BY <1>4, <1>5, FoldStep DEF rest
<1>9. h[R] = ApplyEntry(h[rest], s[LastOf(R)])
  BY <1>4, <1>5, FoldStep DEF rest
<1> QED BY <1>4, <1>7, <1>8, <1>9

(* There is such a table. *)
LEMMA FoldExists ==
  ASSUME NEW T, HasLasts(T), NEW start, NEW s, NEW D \in SUBSET T
  PROVE  \E g : Folded(g, start, s, D)
<1> DEFINE Bad == {R \in SUBSET T : ~\E g : Folded(g, start, s, R)}
<1>1. SUFFICES ASSUME Bad # {} PROVE FALSE
  OBVIOUS
<1>2. Bad \subseteq SUBSET T /\ IsFiniteSet(T)
  BY DEF HasLasts
<1>3. PICK R \in Bad : \A Q \in Bad : Q \subseteq R => Q = R
  <2> HIDE DEF Bad
  <2> QED BY <1>1, <1>2, SmallestSet
<1>4. R \in SUBSET T
  BY <1>3
<1> DEFINE g(Q) == CHOOSE h : Folded(h, start, s, Q)
           rest(Q) == Q \ {LastOf(Q)}
           f == [Q \in SUBSET R |-> IF Q = {} THEN start
                                    ELSE ApplyEntry(g(rest(Q))[rest(Q)], s[LastOf(Q)])]
<1>5. \A Q \in SUBSET R : Q # R => Folded(g(Q), start, s, Q)
  BY <1>3
<1> HIDE DEF Bad, g
<1>6. \A Q \in SUBSET R : Q # {} => LastOf(Q) \in Q /\ rest(Q) \in SUBSET R /\ rest(Q) # R
  BY <1>4 DEF HasLasts
<1>7. ASSUME NEW Q \in SUBSET R, Q # R PROVE f[Q] = g(Q)[Q]
  <2>1. Folded(g(Q), start, s, Q) /\ Q \in SUBSET T
    BY <1>4, <1>5, <1>7
  <2>2. CASE Q = {}
    BY <2>1, <2>2, FoldStep
  <2>3. CASE Q # {}
    <3>1. g(Q)[Q] = ApplyEntry(g(Q)[rest(Q)], s[LastOf(Q)])
      BY <2>1, <2>3, FoldStep
    <3>2. rest(Q) \in SUBSET R /\ rest(Q) # R /\ rest(Q) \in SUBSET (Q \cap rest(Q))
          /\ rest(Q) \in SUBSET T
      BY <1>4, <1>6, <2>3
    <3>3. Folded(g(rest(Q)), start, s, rest(Q))
      BY <1>5, <3>2
    <3>4. g(rest(Q))[rest(Q)] = g(Q)[rest(Q)]
      BY <2>1, <3>2, <3>3, FoldsAgree
    <3> QED BY <2>3, <3>1, <3>4
  <2> QED BY <2>2, <2>3
<1>8. f = [Q \in SUBSET R |-> IF Q = {} THEN start
                              ELSE ApplyEntry(f[Q \ {LastOf(Q)}], s[LastOf(Q)])]
  BY <1>6, <1>7
<1>9. Folded(f, start, s, R)
  <2> HIDE DEF f
  <2> QED BY <1>8 DEF Folded
<1> QED BY <1>3, <1>9 DEF Bad

(* The entries of a page, one after another, keep the cache sound. *)
LEMMA FoldIsSound ==
  ASSUME IsTree(tree), NEW from, NEW T, HasLasts(T), NEW start, Sound(from, start),
         NEW s, \A i \in T : \E id \in Id : s[i] = EntryOf(id),
         NEW g, Folded(g, start, s, T)
  PROVE  Sound(from, g[T])
<1> DEFINE Bad == {S \in SUBSET T : ~Sound(from, g[S])}
<1>1. SUFFICES ASSUME Bad # {} PROVE FALSE
  OBVIOUS
<1>2. Bad \subseteq SUBSET T /\ IsFiniteSet(T)
  BY DEF HasLasts
<1>3. PICK S \in Bad : \A R \in Bad : R \subseteq S => R = S
  <2> HIDE DEF Bad
  <2> QED BY <1>1, <1>2, SmallestSet
<1>4. S \in SUBSET T /\ ~Sound(from, g[S])
  BY <1>3
<1>5. S # {}
  <2>1. g[{}] = start
    BY FoldStep
  <2> QED BY <1>4, <2>1
<1>6. LastOf(S) \in S
  BY <1>4, <1>5 DEF HasLasts
<1> DEFINE rest == S \ {LastOf(S)}
<1>7. Sound(from, g[rest])
  BY <1>3, <1>4, <1>6
<1> HIDE DEF Bad
<1>8. g[S] = ApplyEntry(g[rest], s[LastOf(S)])
  BY <1>4, <1>5, FoldStep
<1>9. PICK id \in Id : s[LastOf(S)] = EntryOf(id)
  BY <1>4, <1>6
<1> HIDE DEF rest
<1> QED BY <1>4, <1>7, <1>8, <1>9, EntryIsSound DEF IsTree

(* The positions of a page, and any of them, have a last. *)
LEMMA PositionsHaveLasts ==
  ASSUME NEW n \in Nat
  PROVE  HasLasts(1..n)
<1>1. IsFiniteSet(1..n)
  BY FS_Interval
<1>2. \A S \in SUBSET (1..n) : S # {} => LastOf(S) \in S
  BY LastIsOne
<1> QED BY <1>1, <1>2 DEF HasLasts

(* FoldLeft is the last row of such a table. *)
LEMMA FoldLeftIs ==
  ASSUME NEW start, NEW n \in Nat, NEW s, DOMAIN s = 1..n
  PROVE  \E g : Folded(g, start, s, 1..n) /\ FoldLeft(ApplyEntry, start, s) = g[1..n]
<1> DEFINE T == 1..n
           g == CHOOSE h : Folded(h, start, s, T)
<1>1. HasLasts(T)
  BY PositionsHaveLasts
<1>2. Folded(g, start, s, T)
  <2> HIDE DEF T
  <2> QED BY <1>1, FoldExists
<1>3. FoldLeft(ApplyEntry, start, s) = g[T]
  BY DEF FoldLeft, MapThenFoldSet, Folded, LastOf
<1> HIDE DEF g
<1> QED BY <1>2, <1>3

(* applyIdDeltaPage keeps the cache sound, in whatever order the entries come. *)
LEMMA PageIsSound ==
  ASSUME IsTree(tree), NEW from, NEW start, Sound(from, start),
         NEW n \in Nat, NEW s, DOMAIN s = 1..n,
         \A i \in 1..n : \E id \in Id : s[i] = EntryOf(id)
  PROVE  Sound(from, FoldLeft(ApplyEntry, start, s))
<1>1. PICK g : Folded(g, start, s, 1..n) /\ FoldLeft(ApplyEntry, start, s) = g[1..n]
  BY FoldLeftIs
<1>2. HasLasts(1..n)
  BY PositionsHaveLasts
<1> QED BY <1>1, <1>2, FoldIsSound

-----------------------------------------------------------------------------
(* The order of a page: each of its ids is at one place in it. *)

RankBy(T, R, x) == Cardinality({y \in T : <<y, x>> \in R})

(* In a strict total order of a finite set some element has each rank. *)
LEMMA EveryRankIsTaken ==
  ASSUME NEW T, IsFiniteSet(T), NEW R,
         \A x, y \in T : x # y => <<x, y>> \in R \/ <<y, x>> \in R,
         \A x \in T : <<x, x>> \notin R,
         \A x, y, z \in T : <<x, y>> \in R /\ <<y, z>> \in R => <<x, z>> \in R,
         NEW k \in Nat, k < Cardinality(T)
  PROVE  \E x \in T : RankBy(T, R, x) = k
<1> DEFINE Before(x) == {y \in T : <<y, x>> \in R}
           L == Cardinality(T)
           f == [x \in T |-> Cardinality(Before(x))]
<1>1. L \in Nat
  BY FS_CardinalityType
<1>2. ASSUME NEW x \in T
      PROVE  IsFiniteSet(Before(x)) /\ Cardinality(Before(x)) \in 0..(L - 1)
  <2>1. Before(x) \in SUBSET T /\ Before(x) # T
    OBVIOUS
  <2>2. IsFiniteSet(Before(x)) /\ Cardinality(Before(x)) <= L /\ L # Cardinality(Before(x))
    <3> HIDE DEF Before
    <3> QED BY <2>1, FS_Subset
  <2>3. Cardinality(Before(x)) \in Nat
    BY <2>2, FS_CardinalityType
  <2> HIDE DEF Before, L
  <2> QED BY <1>1, <2>2, <2>3
<1>3. ASSUME NEW x \in T, NEW y \in T, <<x, y>> \in R
      PROVE  Cardinality(Before(x)) # Cardinality(Before(y))
  <2>1. Before(x) \in SUBSET Before(y) /\ x \in Before(y) /\ x \notin Before(x)
    BY <1>3
  <2>2. IsFiniteSet(Before(y))
    BY <1>2
  <2> HIDE DEF Before
  <2>3. Cardinality(Before(y)) = Cardinality(Before(x)) => Before(y) = Before(x)
    BY <2>1, <2>2, FS_Subset
  <2> QED BY <2>1, <2>3
<1>4. f \in Injection(T, 0..(L - 1))
  <2>1. f \in [T -> 0..(L - 1)]
    BY <1>2
  <2>2. ASSUME NEW x \in T, NEW y \in T, x # y PROVE f[x] # f[y]
    BY <1>3, <2>2
  <2> HIDE DEF f
  <2> QED BY <2>1, <2>2 DEF Injection, IsInjective
<1>5. IsFiniteSet(0..(L - 1)) /\ Cardinality(0..(L - 1)) = L
  <2> HIDE DEF L
  <2>1. L - 1 \in Int /\ 0 \in Int
    BY <1>1
  <2>2. IsFiniteSet(0..(L - 1)) /\ Cardinality(0..(L - 1)) = IF 0 > L - 1 THEN 0 ELSE L - 1 - 0 + 1
    BY <2>1, FS_Interval
  <2> QED BY <1>1, <2>2
<1>6. f \in Surjection(T, 0..(L - 1))
  <2> HIDE DEF f
  <2> QED BY <1>4, <1>5, FS_Injection
<1>7. k \in 0..(L - 1)
  BY <1>1
<1>8. PICK x \in T : f[x] = k
  <2> HIDE DEF f, L
  <2> QED BY <1>6, <1>7 DEF Surjection
<1> QED BY <1>8 DEF RankBy

(* What is sorted has each element of what was given, in the order of the
   ranks, and of the places of those of one rank. *)
LEMMA SortedOrder ==
  ASSUME NEW S, NEW s \in Seq(S), NEW rank, \A i \in DOMAIN s : rank[s[i]] \in Nat
  PROVE  \E at \in [DOMAIN s -> DOMAIN s] :
           /\ \A k \in DOMAIN s : StableSort(s, rank)[k] = s[at[k]]
           /\ \A n \in DOMAIN s : \E k \in DOMAIN s : at[k] = n
           /\ \A i, j \in DOMAIN s : i < j => Precedes(s, rank, at[i], at[j])
<1> DEFINE T == DOMAIN s
           R == {mn \in T \X T : Precedes(s, rank, mn[1], mn[2])}
           Before(n) == {m \in T : Precedes(s, rank, m, n)}
           at == [k \in T |-> CHOOSE n \in T : Cardinality(Before(n)) = k - 1]
<1>1. T = 1..Len(s) /\ Len(s) \in Nat
  OBVIOUS
<1>2. IsFiniteSet(T) /\ Cardinality(T) = Len(s)
  <2>1. IsFiniteSet(1..Len(s)) /\ Cardinality(1..Len(s)) = IF 1 > Len(s) THEN 0 ELSE Len(s) - 1 + 1
    BY <1>1, FS_Interval
  <2> QED BY <1>1, <2>1
<1>3. \A x, y \in T : <<x, y>> \in R <=> Precedes(s, rank, x, y)
  OBVIOUS
<1>4. \A x \in T : x \in Int /\ rank[s[x]] \in Nat
  BY <1>1
<1>5. /\ \A x, y \in T : x # y => Precedes(s, rank, x, y) \/ Precedes(s, rank, y, x)
      /\ \A x \in T : ~Precedes(s, rank, x, x)
      /\ \A x, y, z \in T : Precedes(s, rank, x, y) /\ Precedes(s, rank, y, z) => Precedes(s, rank, x, z)
  <2> HIDE DEF R, T
  <2>1. ASSUME NEW x \in T, NEW y \in T, x # y
        PROVE  Precedes(s, rank, x, y) \/ Precedes(s, rank, y, x)
    <3>1. rank[s[x]] \in Nat /\ rank[s[y]] \in Nat /\ x \in Int /\ y \in Int
      BY <1>4
    <3> QED BY <2>1, <3>1 DEF Precedes
  <2>2. ASSUME NEW x \in T PROVE ~Precedes(s, rank, x, x)
    <3>1. rank[s[x]] \in Nat /\ x \in Int
      BY <1>4
    <3> QED BY <3>1 DEF Precedes
  <2>3. ASSUME NEW x \in T, NEW y \in T, NEW z \in T,
               Precedes(s, rank, x, y), Precedes(s, rank, y, z)
        PROVE  Precedes(s, rank, x, z)
    <3>1. /\ rank[s[x]] \in Nat /\ rank[s[y]] \in Nat /\ rank[s[z]] \in Nat
          /\ x \in Int /\ y \in Int /\ z \in Int
      BY <1>4
    <3> QED BY <2>3, <3>1 DEF Precedes
  <2> QED BY <2>1, <2>2, <2>3
<1>6. /\ \A x, y \in T : x # y => <<x, y>> \in R \/ <<y, x>> \in R
      /\ \A x \in T : <<x, x>> \notin R
      /\ \A x, y, z \in T : <<x, y>> \in R /\ <<y, z>> \in R => <<x, z>> \in R
  <2> HIDE DEF R, T
  <2> QED BY <1>3, <1>5
<1>7. ASSUME NEW k \in T PROVE \E n \in T : Cardinality(Before(n)) = k - 1
  <2>1. k - 1 \in Nat /\ k - 1 < Cardinality(T)
    BY <1>1, <1>2
  <2> HIDE DEF T, R
  <2>2. PICK n \in T : RankBy(T, R, n) = k - 1
    BY <1>2, <1>6, <2>1, EveryRankIsTaken
  <2>3. {m \in T : <<m, n>> \in R} = Before(n)
    BY <1>3
  <2> QED BY <2>2, <2>3 DEF RankBy
<1>8. \A k \in T : at[k] \in T /\ Cardinality(Before(at[k])) = k - 1
  <2> HIDE DEF T, Before
  <2> QED BY <1>7
<1>9. ASSUME NEW n \in T
      PROVE  IsFiniteSet(Before(n)) /\ Cardinality(Before(n)) \in Nat /\ Cardinality(Before(n)) < Len(s)
  <2>1. Before(n) \in SUBSET T /\ Before(n) # T
    <3> HIDE DEF T
    <3> QED BY <1>5
  <2> HIDE DEF Before, T
  <2>2. IsFiniteSet(Before(n)) /\ Cardinality(Before(n)) <= Cardinality(T)
        /\ Cardinality(T) # Cardinality(Before(n))
    BY <1>2, <2>1, FS_Subset
  <2>3. Cardinality(Before(n)) \in Nat
    BY <2>2, FS_CardinalityType
  <2> QED BY <1>1, <1>2, <2>2, <2>3
<1>10. ASSUME NEW x \in T, NEW y \in T, Precedes(s, rank, x, y)
       PROVE  Cardinality(Before(x)) < Cardinality(Before(y))
  <2>1. Before(x) \in SUBSET Before(y) /\ x \in Before(y) /\ x \notin Before(x)
    <3> HIDE DEF T
    <3> QED BY <1>5, <1>10
  <2>2. /\ IsFiniteSet(Before(y)) /\ Cardinality(Before(x)) \in Nat /\ Cardinality(Before(y)) \in Nat
    BY <1>9
  <2> HIDE DEF Before
  <2>3. /\ Cardinality(Before(x)) <= Cardinality(Before(y))
        /\ Cardinality(Before(y)) = Cardinality(Before(x)) => Before(y) = Before(x)
    BY <2>1, <2>2, FS_Subset
  <2> QED BY <2>1, <2>2, <2>3
<1>11. at \in [T -> T] /\ \A k \in T : StableSort(s, rank)[k] = s[at[k]]
  <2>1. at \in [T -> T]
    <3>1. \A k \in T : (CHOOSE n \in T : Cardinality(Before(n)) = k - 1) \in T
      BY <1>8
    <3> HIDE DEF T, Before
    <3> QED BY <3>1
  <2>2. StableSort(s, rank) = [k \in T |-> s[CHOOSE n \in T : Cardinality(Before(n)) = k - 1]]
    BY DEF StableSort
  <2>3. \A k \in T : at[k] = CHOOSE n \in T : Cardinality(Before(n)) = k - 1
    <3> HIDE DEF T, Before
    <3> QED OBVIOUS
  <2> HIDE DEF at, T, Before
  <2> QED BY <2>1, <2>2, <2>3
<1> HIDE DEF at, Before, R
<1>12. ASSUME NEW n \in T PROVE \E k \in T : at[k] = n
  <2> DEFINE k == Cardinality(Before(n)) + 1
  <2>1. k \in T /\ k - 1 = Cardinality(Before(n))
    BY <1>1, <1>9
  <2>2. at[k] \in T /\ Cardinality(Before(at[k])) = Cardinality(Before(n))
    BY <1>8, <2>1
  <2>3. Cardinality(Before(n)) \in Nat
    BY <1>9
  <2> HIDE DEF k, T
  <2>4. at[k] = n
    <3> SUFFICES ASSUME at[k] # n PROVE FALSE
      OBVIOUS
    <3>1. \/ Cardinality(Before(at[k])) < Cardinality(Before(n))
          \/ Cardinality(Before(n)) < Cardinality(Before(at[k]))
      BY <1>5, <1>10, <2>2
    <3> QED BY <2>2, <2>3, <3>1
  <2> QED BY <2>1, <2>4
<1>13. ASSUME NEW i \in T, NEW j \in T, i < j PROVE Precedes(s, rank, at[i], at[j])
  <2>1. /\ at[i] \in T /\ at[j] \in T
        /\ Cardinality(Before(at[i])) = i - 1 /\ Cardinality(Before(at[j])) = j - 1
    BY <1>8
  <2>2. i \in Int /\ j \in Int /\ i - 1 < j - 1 /\ i - 1 # j - 1 /\ ~(j - 1 < i - 1)
    BY <1>1, <1>13
  <2> HIDE DEF T
  <2>3. at[i] # at[j] /\ ~(Cardinality(Before(at[j])) < Cardinality(Before(at[i])))
    BY <2>1, <2>2
  <2> QED BY <1>5, <1>10, <2>1, <2>3
<1> QED BY <1>11, <1>12, <1>13

(* A page has an entry for each of its ids, whatever the order. *)
LEMMA PageEntries ==
  ASSUME NEW c, Good(c), NEW ids \in Seq(Id)
  PROVE  /\ DOMAIN PageOrder(c, ids) = 1..Len(ids)
         /\ \A k \in 1..Len(ids) : \E id \in Id : PageOrder(c, ids)[k] = EntryOf(id)
<1> DEFINE rank == [id \in ToSet(ids) |-> Rank(c, id)]
           sorted == StableSort(ids, rank)
<1>1. \A k \in DOMAIN ids : ids[k] \in Id /\ ids[k] \in ToSet(ids)
  BY DEF ToSet
<1>2. \A id \in Id : Rank(c, id) \in Nat
  <2> TAKE id \in Id
  <2>1. PathById(c, id) = NoPath \/ PathById(c, id) \in Seq(AnyName)
    BY CachedPaths DEF Path
  <2>2. PathById(c, id) \in Seq(AnyName) => Len(PathById(c, id)) \in Nat
    BY LenProperties
  <2> QED BY <2>1, <2>2 DEF Rank
<1>3. \A k \in DOMAIN ids : rank[ids[k]] \in Nat
  BY <1>1, <1>2
<1> HIDE DEF rank
<1>4. \A k \in DOMAIN ids : sorted[k] \in Id
  <2>1. PICK at \in [DOMAIN ids -> DOMAIN ids] :
          /\ \A k \in DOMAIN ids : sorted[k] = ids[at[k]]
          /\ \A n \in DOMAIN ids : \E k \in DOMAIN ids : at[k] = n
          /\ \A k, n \in DOMAIN ids : k < n => Precedes(ids, rank, at[k], at[n])
    BY <1>3, SortedOrder
  <2> HIDE DEF sorted
  <2> QED BY <1>1, <2>1
<1>5. PageOrder(c, ids) = [n \in DOMAIN ids |-> EntryOf(sorted[n])]
  BY DEF PageOrder, rank
<1> HIDE DEF sorted
<1>6. DOMAIN ids = 1..Len(ids)
  OBVIOUS
<1> QED BY <1>4, <1>5, <1>6

(* A feed mentions ids. *)
LEMMA MentionIsAFeed ==
  ASSUME NEW f \in Seq(Id), NEW id \in Id
  PROVE  Mention(f, id) \in Seq(Id)
<1>1. RemoveFirst(f, id) \in Seq(Id)
  <2>1. CASE \E i \in 1..Len(f) : f[i] = id
    <3> DEFINE I == {i \in 1..Len(f) : f[i] = id}
               n == Min(I)
    <3>1. PICK m \in I : \A i \in I : m <= i
      <4>1. I \subseteq Nat /\ I # {}
        BY <2>1
      <4> HIDE DEF I
      <4> QED BY <4>1, Smallest
    <3>2. n \in I
      <4> HIDE DEF I
      <4> QED BY <3>1 DEF Min
    <3>3. RemoveFirst(f, id) = RemoveAt(f, n)
      BY <2>1 DEF RemoveFirst, SelectInSeq
    <3> HIDE DEF n
    <3>4. n \in 1..Len(f) /\ Len(f) \in Nat
      BY <3>2
    <3>5. SubSeq(f, 1, n - 1) \in Seq(Id)
      <4>1. \A i \in 1..(n - 1) : f[i] \in Id
        BY <3>4
      <4>2. 1 \in Int /\ n - 1 \in Int
        BY <3>4
      <4> QED BY <4>1, <4>2, SubSeqProperties
    <3>6. SubSeq(f, n + 1, Len(f)) \in Seq(Id)
      <4>1. \A i \in (n + 1)..Len(f) : f[i] \in Id
        BY <3>4
      <4>2. n + 1 \in Int /\ Len(f) \in Int
        BY <3>4
      <4> QED BY <4>1, <4>2, SubSeqProperties
    <3> QED BY <3>3, <3>5, <3>6, ConcatProperties DEF RemoveAt
  <2>2. CASE ~\E i \in 1..Len(f) : f[i] = id
    BY <2>2 DEF RemoveFirst
  <2> QED BY <2>1, <2>2
<1> QED BY <1>1 DEF Mention

-----------------------------------------------------------------------------
(* Tables made row by row. *)

IsTable(X, step, first, L, g) ==
  g \in [0..L -> X] /\ g[0] = first /\ \A n \in 1..L : g[n] = step[g[n - 1]]

(* A table with a first row and a step to the next row exists. *)
LEMMA TableExists ==
  ASSUME NEW X, NEW step \in [X -> X], NEW first \in X, NEW L \in Nat
  PROVE  \E g : IsTable(X, step, first, L, g)
<1> DEFINE Made(l) == \E g \in [0..l -> X] : g[0] = first /\ \A n \in 1..l : g[n] = step[g[n - 1]]
           Bad == {l \in Nat : ~Made(l)}
<1>1. SUFFICES ASSUME Bad # {} PROVE FALSE
  BY DEF IsTable
<1>2. PICK l \in Bad : \A m \in Bad : l <= m
  <2> HIDE DEF Bad
  <2>1. Bad \subseteq Nat
    BY DEF Bad
  <2> QED BY <1>1, <2>1, Smallest
<1>3. l \in Nat /\ ~Made(l)
  BY <1>2
<1>4. CASE l = 0
  <2> DEFINE h == [n \in 0..0 |-> first]
  <2>1. h \in [0..0 -> X] /\ h[0] = first /\ \A n \in 1..0 : h[n] = step[h[n - 1]]
    OBVIOUS
  <2> QED BY <1>3, <1>4, <2>1
<1>5. CASE l # 0
  <2>1. l - 1 \in Nat /\ l - 1 < l
    BY <1>3, <1>5
  <2>2. Made(l - 1)
    <3>1. ~(l <= l - 1)
      BY <1>3
    <3> HIDE DEF Made
    <3> QED BY <1>2, <2>1, <3>1
  <2>3. PICK g \in [0..(l - 1) -> X] :
               g[0] = first /\ \A n \in 1..(l - 1) : g[n] = step[g[n - 1]]
    BY <2>2
  <2> DEFINE h == [n \in 0..l |-> IF n = l THEN step[g[l - 1]] ELSE g[n]]
  <2>4. h \in [0..l -> X]
    <3>1. g[l - 1] \in X
      BY <2>1, <2>3
    <3>2. ASSUME NEW n \in 0..l, n # l PROVE g[n] \in X
      BY <1>3, <2>3, <3>2
    <3> QED BY <3>1, <3>2
  <2>5. h[0] = first
    BY <1>3, <1>5, <2>3
  <2>6. ASSUME NEW n \in 1..l PROVE h[n] = step[h[n - 1]]
    <3>1. n \in 0..l /\ n - 1 \in 0..l /\ n - 1 # l
      BY <1>3
    <3>2. h[n - 1] = g[n - 1]
      BY <3>1
    <3>3. CASE n = l
      BY <3>1, <3>2, <3>3
    <3>4. CASE n # l
      <4>1. n \in 1..(l - 1)
        BY <1>3, <3>4
      <4> QED BY <2>3, <3>1, <3>2, <3>4, <4>1
    <3> QED BY <3>3, <3>4
  <2> HIDE DEF h
  <2> QED BY <1>3, <2>4, <2>5, <2>6
<1> QED BY <1>4, <1>5

-----------------------------------------------------------------------------
(* The paths of a tree. *)

Depth == Cardinality(Id)

(* The entry of an id, given the paths of the row before. *)
PathFrom(t, row, id) ==
  IF t[id] = Gone \/ t[id].parent = Outside THEN NoPath
  ELSE IF t[id].parent = Root THEN <<t[id].name>>
  ELSE IF row[t[id].parent] = NoPath THEN NoPath ELSE Append(row[t[id].parent], t[id].name)

PathTable(t, up) ==
  /\ up \in [0..Depth -> [Id -> Path \cup {NoPath}]]
  /\ \A id \in Id : up[0][id] = NoPath
  /\ \A n \in 1..Depth : \A id \in Id : up[n][id] = PathFrom(t, up[n - 1], id)

(* There are finitely many ids. *)
LEMMA DepthIsNat == Depth \in Nat
BY RemoteTreeAssumption, FS_CardinalityType DEF Depth

(* A path comes of paths. *)
LEMMA PathFromTyped ==
  ASSUME NEW t \in [Id -> Place \cup {Gone}], NEW row \in [Id -> Path \cup {NoPath}], NEW id \in Id
  PROVE  PathFrom(t, row, id) \in Path \cup {NoPath}
<1>1. CASE t[id] = Gone \/ t[id].parent = Outside
  BY <1>1 DEF PathFrom
<1>2. CASE t[id] # Gone /\ t[id].parent # Outside
  <2>1. /\ t[id].parent \in Folder \cup {Root} /\ t[id].name \in AnyName
        /\ Folder \subseteq Id
    BY <1>2, Places
  <2>2. /\ <<t[id].name>> \in Path
        /\ \A p \in Path : Append(p, t[id].name) \in Path
    BY <2>1, PathsOfNames
  <2>3. t[id].parent # Root => row[t[id].parent] \in Path \cup {NoPath}
    BY <2>1
  <2> QED BY <1>2, <2>2, <2>3 DEF PathFrom
<1> QED BY <1>1, <1>2

(* The paths of a tree are the last row of a table that is made by depth. *)
LEMMA PathTableExists ==
  ASSUME NEW t \in [Id -> Place \cup {Gone}]
  PROVE  \E up : PathTable(t, up) /\ PathsIn(t) = up[Depth]
<1> DEFINE X == [Id -> Path \cup {NoPath}]
           first == [id \in Id |-> NoPath]
           step == [row \in X |-> [id \in Id |-> PathFrom(t, row, id)]]
           Row(up, n) ==
             [id \in Id |->
               IF t[id] = Gone \/ t[id].parent = Outside \/ n = 0 THEN NoPath
               ELSE IF t[id].parent = Root THEN <<t[id].name>>
               ELSE LET above == up[n - 1][t[id].parent]
                    IN  IF above = NoPath THEN NoPath ELSE Append(above, t[id].name)]
           Good0(up) == up = [n \in 0..Depth |-> Row(up, n)]
           up0 == CHOOSE up : Good0(up)
<1>1. first \in X /\ step \in [X -> X]
  BY PathFromTyped
<1>2. PICK g \in [0..Depth -> X] : g[0] = first /\ \A n \in 1..Depth : g[n] = step[g[n - 1]]
  <2> HIDE DEF X, first, step, Row, Good0, up0
  <2>1. PICK g : IsTable(X, step, first, Depth, g)
    BY <1>1, DepthIsNat, TableExists
  <2> QED BY <2>1 DEF IsTable
<1>3. ASSUME NEW n \in 0..Depth PROVE g[n] = Row(g, n)
  <2>1. CASE n = 0
    BY <1>2, <2>1
  <2>2. CASE n # 0
    <3>1. n \in 1..Depth /\ g[n - 1] \in X
      BY <1>2, <2>2, DepthIsNat
    <3>2. g[n] = [id \in Id |-> PathFrom(t, g[n - 1], id)]
      BY <1>2, <3>1
    <3> QED BY <2>2, <3>2 DEF PathFrom
  <2> QED BY <2>1, <2>2
<1>4. Good0(g)
  <2> HIDE DEF Row
  <2> QED BY <1>3
<1>5. Good0(up0)
  <2> HIDE DEF Good0
  <2> QED BY <1>4
<1>6. PathsIn(t) = up0[Depth]
  BY DEF PathsIn, Depth
<1> HIDE DEF up0
<1>7. DOMAIN up0 = 0..Depth /\ \A n \in 0..Depth : up0[n] = Row(up0, n)
  <2> HIDE DEF Row
  <2> QED BY <1>5
<1>8. 0 \in 0..Depth
  BY DepthIsNat
<1>9. ASSUME NEW id \in Id PROVE up0[0][id] = NoPath
  BY <1>7, <1>8
<1>10. ASSUME NEW n \in 1..Depth, NEW id \in Id PROVE up0[n][id] = PathFrom(t, up0[n - 1], id)
  <2>1. n \in 0..Depth /\ n # 0
    OBVIOUS
  <2>2. up0[n] = Row(up0, n)
    BY <1>7, <2>1
  <2> QED BY <2>1, <2>2 DEF PathFrom
<1>11. up0 \in [0..Depth -> X]
  <2> DEFINE Bad == {n \in 0..Depth : up0[n] \notin X}
  <2>1. SUFFICES ASSUME Bad # {} PROVE FALSE
    BY <1>5
  <2>2. PICK n \in Bad : \A m \in Bad : n <= m
    <3>1. Bad \subseteq Nat
      OBVIOUS
    <3> HIDE DEF Bad
    <3> QED BY <2>1, <3>1, Smallest
  <2>3. n # 0
    <3>1. up0[0] = [id \in Id |-> NoPath]
      BY <1>7, <1>8
    <3> QED BY <2>2, <3>1
  <2>4. n \in 1..Depth /\ n - 1 \in 0..Depth /\ ~(n <= n - 1)
    BY <2>2, <2>3, DepthIsNat
  <2>5. up0[n - 1] \in X
    BY <2>2, <2>4
  <2>6. \A id \in Id : up0[n][id] \in Path \cup {NoPath}
    BY <1>10, <2>4, <2>5, PathFromTyped
  <2>7. up0[n] = [id \in Id |-> up0[n][id]]
    <3>1. up0[n] = Row(up0, n)
      BY <1>7, <2>2
    <3> QED BY <3>1
  <2> QED BY <2>2, <2>6, <2>7
<1> HIDE DEF X, Row
<1>12. PathTable(t, up0)
  BY <1>9, <1>10, <1>11 DEF PathTable, X
<1> QED BY <1>6, <1>12

(* A path is a name at the root, or a name below the path of a folder. *)
LEMMA PathFromCases ==
  ASSUME NEW t \in [Id -> Place \cup {Gone}], NEW row \in [Id -> Path \cup {NoPath}], NEW id \in Id,
         PathFrom(t, row, id) # NoPath
  PROVE  /\ t[id] # Gone /\ t[id].name \in AnyName
         /\ \/ /\ t[id].parent = Root /\ t[id].parent \notin Folder
               /\ PathFrom(t, row, id) = <<t[id].name>>
            \/ /\ t[id].parent \in Folder /\ t[id].parent \in Id /\ t[id].parent # Root
               /\ row[t[id].parent] # NoPath
               /\ PathFrom(t, row, id) = Append(row[t[id].parent], t[id].name)
<1>1. t[id] # Gone /\ t[id].parent # Outside
  BY DEF PathFrom
<1>2. /\ t[id].parent \in Folder \cup {Root} /\ t[id].name \in AnyName
      /\ Root \notin Folder /\ Folder \subseteq Id
  BY <1>1, Places
<1>3. CASE t[id].parent = Root
  BY <1>1, <1>2, <1>3 DEF PathFrom
<1>4. CASE t[id].parent # Root
  BY <1>1, <1>2, <1>4 DEF PathFrom
<1> QED BY <1>3, <1>4

(* A path once found is the same in every later row. *)
LEMMA LaterRows ==
  ASSUME NEW t \in [Id -> Place \cup {Gone}], NEW up, PathTable(t, up),
         NEW n \in 0..Depth, NEW m \in 0..Depth, n <= m, NEW id \in Id, up[n][id] # NoPath
  PROVE  up[m][id] = up[n][id]
<1> DEFINE Wrong(k, l, x) == /\ l \in 0..Depth /\ k <= l /\ x \in Id
                             /\ up[k][x] # NoPath /\ up[l][x] # up[k][x]
           Bad == {k \in 0..Depth : \E l, x : Wrong(k, l, x)}
<1>1. SUFFICES ASSUME Bad # {} PROVE FALSE
  OBVIOUS
<1>2. PICK k \in Bad : \A j \in Bad : k <= j
  <2>1. Bad \subseteq Nat
    OBVIOUS
  <2> HIDE DEF Bad
  <2> QED BY <1>1, <2>1, Smallest
<1>3. PICK l, x : Wrong(k, l, x)
  BY <1>2
<1>4. /\ k \in 0..Depth /\ l \in 0..Depth /\ k <= l /\ x \in Id
      /\ up[k][x] # NoPath /\ up[l][x] # up[k][x] /\ Depth \in Nat
  BY <1>2, <1>3, DepthIsNat
<1>5. k # 0
  BY <1>4 DEF PathTable
<1>6. /\ k \in 1..Depth /\ l \in 1..Depth /\ k - 1 \in 0..Depth /\ l - 1 \in 0..Depth
      /\ k - 1 <= l - 1 /\ ~(k <= k - 1)
  BY <1>4, <1>5
<1>7. /\ up[k][x] = PathFrom(t, up[k - 1], x) /\ up[l][x] = PathFrom(t, up[l - 1], x)
      /\ up[k - 1] \in [Id -> Path \cup {NoPath}]
  BY <1>4, <1>6 DEF PathTable
<1> DEFINE p == t[x].parent
<1>8. \A y \in Id : up[k - 1][y] # NoPath => up[l - 1][y] = up[k - 1][y]
  <2> SUFFICES ASSUME NEW y \in Id, up[k - 1][y] # NoPath, up[l - 1][y] # up[k - 1][y]
               PROVE  FALSE
    OBVIOUS
  <2>1. Wrong(k - 1, l - 1, y)
    BY <1>6
  <2>2. k - 1 \in Bad
    <3> HIDE DEF Wrong
    <3> QED BY <1>6, <2>1
  <2> HIDE DEF Bad
  <2> QED BY <1>2, <1>6, <2>2
<1> HIDE DEF Bad
<1>9. /\ t[x] # Gone
      /\ \/ p = Root /\ up[k][x] = <<t[x].name>>
         \/ /\ p \in Id /\ p # Root /\ up[k - 1][p] # NoPath
            /\ up[k][x] = Append(up[k - 1][p], t[x].name)
  BY <1>4, <1>7, PathFromCases
<1>10. p # Outside
  BY <1>4, <1>7, <1>9 DEF PathFrom
<1>11. CASE p = Root
  BY <1>4, <1>7, <1>9, <1>10, <1>11 DEF PathFrom
<1>12. CASE p # Root
  BY <1>4, <1>7, <1>8, <1>9, <1>10, <1>12 DEF PathFrom
<1> QED BY <1>11, <1>12

(* Each id has a path or none. *)
LEMMA PathsTyped ==
  ASSUME NEW t \in [Id -> Place \cup {Gone}]
  PROVE  PathsIn(t) \in [Id -> Path \cup {NoPath}]
<1>1. PICK up : PathTable(t, up) /\ PathsIn(t) = up[Depth]
  BY PathTableExists
<1>2. Depth \in 0..Depth
  BY DepthIsNat
<1> QED BY <1>1, <1>2 DEF PathTable

(* The path of a file is that of its folder and its name. *)
LEMMA PathsAreNested ==
  ASSUME NEW t \in [Id -> Place \cup {Gone}], NEW id \in Id, PathsIn(t)[id] # NoPath
  PROVE  /\ t[id] # Gone /\ t[id].name \in AnyName
         /\ \/ /\ t[id].parent = Root /\ t[id].parent \notin Folder
               /\ PathsIn(t)[id] = <<t[id].name>>
            \/ /\ t[id].parent \in Folder /\ t[id].parent \in Id /\ t[id].parent # Root
               /\ PathsIn(t)[t[id].parent] # NoPath
               /\ PathsIn(t)[id] = Append(PathsIn(t)[t[id].parent], t[id].name)
<1>1. PICK up : PathTable(t, up) /\ PathsIn(t) = up[Depth]
  BY PathTableExists
<1>2. Depth \in Nat
  BY DepthIsNat
<1>3. Depth # 0
  BY <1>1 DEF PathTable
<1>4. Depth \in 1..Depth /\ Depth \in 0..Depth /\ Depth - 1 \in 0..Depth /\ Depth - 1 <= Depth
  BY <1>2, <1>3
<1>5. up[Depth][id] = PathFrom(t, up[Depth - 1], id) /\ up[Depth - 1] \in [Id -> Path \cup {NoPath}]
  BY <1>1, <1>4 DEF PathTable
<1>6. \A p \in Id : up[Depth - 1][p] # NoPath => up[Depth][p] = up[Depth - 1][p]
  BY <1>1, <1>4, LaterRows
<1> QED BY <1>1, <1>5, <1>6, PathFromCases

(* In a tree no two ids are at one path. *)
LEMMA OneAtAPath ==
  ASSUME NEW t, IsTree(t), NEW a \in Id, NEW b \in Id,
         PathsIn(t)[a] # NoPath, PathsIn(t)[a] = PathsIn(t)[b]
  PROVE  a = b
<1> DEFINE P == PathsIn(t)
           Wrong(x, y) == /\ x \in Id /\ y \in Id /\ x # y
                          /\ P[x] # NoPath /\ P[x] = P[y]
           Bad == {n \in Nat : \E x, y : Wrong(x, y) /\ Len(P[x]) = n}
<1>0. t \in [Id -> Place \cup {Gone}] /\ P \in [Id -> Path \cup {NoPath}]
  BY PathsTyped DEF IsTree
<1> HIDE DEF P
<1>1. SUFFICES ASSUME a # b PROVE FALSE
  OBVIOUS
<1>2. ASSUME NEW x \in Id, P[x] # NoPath PROVE P[x] \in Path /\ Len(P[x]) \in Nat
  BY <1>0, <1>2, LenProperties DEF Path
<1>3. Bad # {}
  <2>1. Wrong(a, b) /\ Len(P[a]) \in Nat
    BY <1>1, <1>2 DEF P
  <2> QED BY <2>1
<1>4. PICK n \in Bad : \A m \in Bad : n <= m
  <2>1. Bad \subseteq Nat
    OBVIOUS
  <2> HIDE DEF Bad
  <2> QED BY <1>3, <2>1, Smallest
<1>5. PICK x, y : Wrong(x, y) /\ Len(P[x]) = n
  BY <1>4
<1>6. x \in Id /\ y \in Id /\ x # y /\ P[x] # NoPath /\ P[x] = P[y] /\ P[x] \in Path
  BY <1>2, <1>5
<1> DEFINE p == t[x].parent
           q == t[y].parent
<1>7. /\ t[x] # Gone /\ t[x].name \in AnyName
      /\ \/ p = Root /\ P[x] = <<t[x].name>>
         \/ p \in Id /\ P[p] # NoPath /\ P[x] = Append(P[p], t[x].name)
  BY <1>0, <1>6, PathsAreNested DEF P
<1>8. /\ t[y] # Gone /\ t[y].name \in AnyName
      /\ \/ q = Root /\ P[y] = <<t[y].name>>
         \/ q \in Id /\ P[q] # NoPath /\ P[y] = Append(P[q], t[y].name)
  BY <1>0, <1>6, PathsAreNested DEF P
<1>9. /\ t[x] = [parent |-> p, name |-> t[x].name]
      /\ t[y] = [parent |-> q, name |-> t[y].name]
  BY <1>0, <1>6, <1>7, <1>8, Places
<1>10. p = q /\ t[x].name = t[y].name
  <2>1. ASSUME NEW u \in Path, NEW e \in AnyName, NEW f \in AnyName
        PROVE  <<e>> # Append(u, f)
    <3>1. Len(<<e>>) = 1
      OBVIOUS
    <3>2. Len(Append(u, f)) = Len(u) + 1 /\ Len(u) >= 1
      BY EmptySeq DEF Path
    <3> QED BY <3>1, <3>2
  <2>2. ASSUME NEW u \in Path, NEW v \in Path, NEW e \in AnyName, NEW f \in AnyName,
               Append(u, e) = Append(v, f)
        PROVE  u = v /\ e = f
    <3>1. u \in Seq(AnyName) /\ v \in Seq(AnyName)
      BY DEF Path
    <3>2. u = v
      BY <2>2, PathsOfNames
    <3>3. Append(u, e)[Len(u) + 1] = e /\ Append(u, f)[Len(u) + 1] = f
      BY <3>1
    <3> QED BY <2>2, <3>2, <3>3
  <2>3. CASE p = Root /\ P[x] = <<t[x].name>>
    <3>1. q = Root /\ P[y] = <<t[y].name>>
      BY <1>2, <1>6, <1>7, <1>8, <2>1, <2>3
    <3>2. <<t[x].name>> = <<t[y].name>>
      BY <1>6, <2>3, <3>1
    <3>3. t[x].name = t[y].name
      BY <3>2
    <3> QED BY <2>3, <3>1, <3>3
  <2>4. CASE p \in Id /\ P[p] # NoPath /\ P[x] = Append(P[p], t[x].name)
    <3>1. q \in Id /\ P[q] # NoPath /\ P[y] = Append(P[q], t[y].name)
      BY <1>2, <1>6, <1>7, <1>8, <2>1, <2>4
    <3>2. P[p] \in Path /\ P[q] \in Path /\ Len(P[p]) \in Nat
      BY <1>2, <2>4, <3>1
    <3>3. P[p] = P[q] /\ t[x].name = t[y].name
      <4>1. Append(P[p], t[x].name) = Append(P[q], t[y].name)
        BY <1>6, <2>4, <3>1
      <4>2. t[x].name \in AnyName /\ t[y].name \in AnyName
        BY <1>7, <1>8
      <4> HIDE DEF p, q
      <4> QED BY <2>2, <3>2, <4>1, <4>2
    <3>4. Len(P[p]) < n
      <4>1. Len(Append(P[p], t[x].name)) = Len(P[p]) + 1
        BY <3>2, <1>7 DEF Path
      <4> QED BY <1>5, <2>4, <3>2, <4>1
    <3>5. p = q
      <4> SUFFICES ASSUME p # q PROVE FALSE
        OBVIOUS
      <4>1. Wrong(p, q)
        BY <2>4, <3>1, <3>3
      <4>2. Len(P[p]) \in Bad
        <5> HIDE DEF Wrong
        <5> QED BY <3>2, <4>1
      <4>3. n \in Nat
        BY <1>4
      <4> HIDE DEF Bad
      <4> QED BY <1>4, <3>2, <3>4, <4>2, <4>3
    <3> QED BY <3>3, <3>5
  <2> QED BY <1>7, <2>3, <2>4
<1>11. t[x] = t[y]
  BY <1>9, <1>10
<1> QED BY <1>6, <1>7, <1>11 DEF IsTree

-----------------------------------------------------------------------------
(* What is listed, and the cache that is built of it. *)

(* A file that is tracked is at the root or in a tracked folder. *)
LEMMA TrackedPlaces ==
  ASSUME NEW t, IsTree(t), NEW id \in Tracked(t)
  PROVE  /\ id \in Id /\ PathsIn(t)[id] \in Path /\ PathsIn(t)[id] \notin {NoPath, Reserved}
         /\ t[id] # Gone /\ t[id].name \in AnyName
         /\ \/ t[id].parent = Root /\ PathsIn(t)[id] = <<t[id].name>>
            \/ /\ t[id].parent \in Tracked(t) /\ t[id].parent \in Folder /\ t[id].parent # Root
               /\ PathsIn(t)[id] = Append(PathsIn(t)[t[id].parent], t[id].name)
<1>1. id \in Id /\ PathsIn(t)[id] \notin {NoPath, Reserved} /\ t \in [Id -> Place \cup {Gone}]
  BY DEF Tracked, IsTree
<1>2. PathsIn(t)[id] \in Path
  BY <1>1, PathsTyped
<1>3. \A d \in Folder : PathsIn(t)[d] # Reserved
  BY DEF IsTree, MetadataIsAFile
<1> QED BY <1>1, <1>2, <1>3, PathsAreNested DEF Tracked

(* The row of an id that is listed, given the row before. *)
ListedFrom(t, row, n, id) ==
  IF t[id].parent = Root \/ t[id].parent \notin Tracked(t) \/ n = 0 THEN <<t[id].name>>
  ELSE Append(row[t[id].parent], t[id].name)

(* The paths of a listing are the last row of a table too. *)
LEMMA ListedTable ==
  ASSUME NEW t, IsTree(t)
  PROVE  \E up : /\ ListedPath(Listing(t)) = up[Depth]
                 /\ \A n \in 0..Depth :
                      up[n] = [id \in Tracked(t) |-> ListedFrom(t, up[n - 1], n, id)]
<1> DEFINE X == [Tracked(t) -> Path]
           first == [id \in Tracked(t) |-> <<t[id].name>>]
           step == [row \in X |-> [id \in Tracked(t) |-> ListedFrom(t, row, 1, id)]]
           L == Listing(t)
           Row(up, n) ==
             [id \in DOMAIN L |->
               LET e == L[id]
               IN  IF e.parent = Root \/ e.parent \notin DOMAIN L \/ n = 0
                   THEN <<e.name>>
                   ELSE Append(up[n - 1][e.parent], e.name)]
           Made(up) == up = [n \in 0..Depth |-> Row(up, n)]
           up0 == CHOOSE up : Made(up)
<1>1. ASSUME NEW id \in Tracked(t)
      PROVE  /\ <<t[id].name>> \in Path
             /\ \A p \in Path : Append(p, t[id].name) \in Path
  BY TrackedPlaces, PathsOfNames
<1>2. first \in X
  BY <1>1
<1>3. step \in [X -> X]
  <2> SUFFICES ASSUME NEW row \in X, NEW id \in Tracked(t) PROVE ListedFrom(t, row, 1, id) \in Path
    OBVIOUS
  <2> QED BY <1>1 DEF ListedFrom
<1>4. PICK g \in [0..Depth -> X] : g[0] = first /\ \A n \in 1..Depth : g[n] = step[g[n - 1]]
  <2> HIDE DEF X, first, step, L, Row, Made, up0
  <2>1. PICK g : IsTable(X, step, first, Depth, g)
    BY <1>2, <1>3, DepthIsNat, TableExists
  <2> QED BY <2>1 DEF IsTable
<1>5. /\ DOMAIN L = Tracked(t)
      /\ \A id \in Tracked(t) : L[id].parent = t[id].parent /\ L[id].name = t[id].name
  BY DEF Listing
<1> HIDE DEF L
<1>6. ASSUME NEW up, NEW n PROVE Row(up, n) = [id \in Tracked(t) |-> ListedFrom(t, up[n - 1], n, id)]
  BY <1>5 DEF ListedFrom
<1> HIDE DEF Row
<1>7. ASSUME NEW n \in 0..Depth PROVE g[n] = Row(g, n)
  <2>1. CASE n = 0
    BY <1>4, <1>6, <2>1 DEF ListedFrom
  <2>2. CASE n # 0
    <3>1. n \in 1..Depth /\ g[n - 1] \in X
      BY <1>4, <2>2, DepthIsNat
    <3>2. g[n] = [id \in Tracked(t) |-> ListedFrom(t, g[n - 1], 1, id)]
      BY <1>4, <3>1
    <3>3. \A id \in Tracked(t) : ListedFrom(t, g[n - 1], 1, id) = ListedFrom(t, g[n - 1], n, id)
      BY <2>2 DEF ListedFrom
    <3> QED BY <1>6, <3>2, <3>3
  <2> QED BY <2>1, <2>2
<1>8. Made(g)
  BY <1>4, <1>7
<1>9. Made(up0)
  <2> HIDE DEF Made
  <2> QED BY <1>8
<1>10. ListedPath(L) = up0[Depth]
  BY DEF ListedPath, Depth, Row
<1> HIDE DEF up0
<1>11. \A n \in 0..Depth : up0[n] = [id \in Tracked(t) |-> ListedFrom(t, up0[n - 1], n, id)]
  BY <1>6, <1>9
<1> QED BY <1>10, <1>11 DEF L

(* A full listing resolves each file to the path the provider has it at. *)
LEMMA ListedAsTheyAre ==
  ASSUME NEW t, IsTree(t)
  PROVE  ListedPath(Listing(t)) = [id \in Tracked(t) |-> PathsIn(t)[id]]
<1>1. t \in [Id -> Place \cup {Gone}]
  BY DEF IsTree
<1>2. PICK up : PathTable(t, up) /\ PathsIn(t) = up[Depth]
  BY <1>1, PathTableExists
<1>3. PICK listed : /\ ListedPath(Listing(t)) = listed[Depth]
                    /\ \A n \in 0..Depth :
                         listed[n] = [id \in Tracked(t) |-> ListedFrom(t, listed[n - 1], n, id)]
  BY ListedTable
<1> DEFINE Wrong(n, id) == id \in Tracked(t) /\ up[n][id] # NoPath /\ listed[n][id] # up[n][id]
           Bad == {n \in 0..Depth : \E id : Wrong(n, id)}
<1>4. Depth \in Nat /\ Depth \in 0..Depth
  BY DepthIsNat
<1>5. Bad = {}
  <2> SUFFICES ASSUME Bad # {} PROVE FALSE
    OBVIOUS
  <2>1. PICK n \in Bad : \A m \in Bad : n <= m
    <3>1. Bad \subseteq Nat
      OBVIOUS
    <3> HIDE DEF Bad
    <3> QED BY <3>1, Smallest
  <2>2. PICK id : Wrong(n, id)
    BY <2>1
  <2>3. n \in 0..Depth /\ id \in Tracked(t) /\ up[n][id] # NoPath /\ listed[n][id] # up[n][id]
    BY <2>1, <2>2
  <2>4. id \in Id
    BY <2>3 DEF Tracked
  <2>5. n # 0
    BY <1>2, <2>3, <2>4 DEF PathTable
  <2>6. n \in 1..Depth /\ n - 1 \in 0..Depth /\ ~(n <= n - 1) /\ n - 1 <= Depth
    BY <1>4, <2>3, <2>5
  <2>7. up[n][id] = PathFrom(t, up[n - 1], id) /\ up[n - 1] \in [Id -> Path \cup {NoPath}]
    BY <1>2, <2>4, <2>6 DEF PathTable
  <2>8. listed[n][id] = ListedFrom(t, listed[n - 1], n, id)
    BY <1>3, <2>3
  <2> DEFINE p == t[id].parent
  <2>9. \/ p = Root /\ up[n][id] = <<t[id].name>>
        \/ /\ p \in Folder /\ p \in Id /\ p # Root /\ up[n - 1][p] # NoPath
           /\ up[n][id] = Append(up[n - 1][p], t[id].name)
    BY <1>1, <2>3, <2>4, <2>7, PathFromCases
  <2>10. CASE p = Root
    <3>1. listed[n][id] = <<t[id].name>>
      BY <2>8, <2>10 DEF ListedFrom
    <3>2. up[n][id] = <<t[id].name>>
      BY <2>9, <2>10
    <3> QED BY <2>3, <3>1, <3>2
  <2>11. CASE p # Root
    <3>1. p \in Folder /\ p \in Id /\ up[n - 1][p] # NoPath
          /\ up[n][id] = Append(up[n - 1][p], t[id].name)
      BY <2>9, <2>11
    <3>2. p \in Tracked(t)
      <4>1. up[Depth][p] = up[n - 1][p]
        BY <1>1, <1>2, <1>4, <2>6, <3>1, LaterRows
      <4>2. PathsIn(t)[p] # NoPath /\ PathsIn(t)[p] # Reserved
        BY <1>2, <3>1, <4>1 DEF IsTree, MetadataIsAFile
      <4> QED BY <3>1, <4>2 DEF Tracked
    <3>3. listed[n][id] = Append(listed[n - 1][p], t[id].name)
      BY <2>5, <2>8, <2>11, <3>2 DEF ListedFrom
    <3>4. listed[n - 1][p] = up[n - 1][p]
      <4> SUFFICES ASSUME listed[n - 1][p] # up[n - 1][p] PROVE FALSE
        OBVIOUS
      <4>1. Wrong(n - 1, p)
        BY <3>1, <3>2
      <4>2. n - 1 \in Bad
        <5> HIDE DEF Wrong
        <5> QED BY <2>6, <4>1
      <4> HIDE DEF Bad
      <4> QED BY <2>1, <2>6, <4>2
    <3> QED BY <2>3, <3>1, <3>3, <3>4
  <2> QED BY <2>10, <2>11
<1>6. ASSUME NEW id \in Tracked(t) PROVE listed[Depth][id] = PathsIn(t)[id]
  <2>1. up[Depth][id] # NoPath
    BY <1>2 DEF Tracked
  <2>2. ~Wrong(Depth, id)
    <3> HIDE DEF Wrong
    <3> QED BY <1>4, <1>5
  <2> QED BY <1>2, <2>1, <2>2
<1>7. listed[Depth] = [id \in Tracked(t) |-> ListedFrom(t, listed[Depth - 1], Depth, id)]
  BY <1>3, <1>4
<1>8. \A id \in Tracked(t) : ListedFrom(t, listed[Depth - 1], Depth, id) = PathsIn(t)[id]
  BY <1>6, <1>7
<1> QED BY <1>3, <1>7, <1>8

(* The cache a full scan builds is good, has no ring with what it lists, and
   has each folder where the provider has it. *)
LEMMA BuiltIsGood ==
  ASSUME NEW t, IsTree(t)
  PROVE  LET c == BuildFromFiles(Listing(t))
         IN  Good(c) /\ ~Inverts(c, t) /\ ~TakesOver(c, t)
<1> DEFINE P == PathsIn(t)
           K == Tracked(t)
           pathOf == [id \in K |-> P[id]]
           paths == {P[id] : id \in K}
           c == BuildFromFiles(Listing(t))
           At(q) == CHOOSE id \in K : P[id] = q
<1>1. \A id \in K : /\ id \in Id /\ P[id] \in Path /\ P[id] \notin {NoPath, Reserved}
                    /\ t[id] # Gone /\ t[id].name \in AnyName
                    /\ \/ t[id].parent = Root /\ P[id] = <<t[id].name>>
                       \/ /\ t[id].parent \in K /\ t[id].parent \in Folder /\ t[id].parent # Root
                          /\ P[id] = Append(P[t[id].parent], t[id].name)
  BY TrackedPlaces
<1>2. \A a, b \in K : P[a] = P[b] => a = b
  BY <1>1, OneAtAPath
<1>3. c = BulkLoad(pathOf)
  BY ListedAsTheyAre DEF BuildFromFiles
<1> HIDE DEF P, K
<1>4. {id \in DOMAIN pathOf : pathOf[id] # Reserved} = K
  BY <1>1
<1>5. /\ DOMAIN c.file = paths /\ \A q \in paths : c.file[q] = At(q)
      /\ DOMAIN c.pathOf = K /\ \A id \in K : c.pathOf[id] = P[id]
      /\ c.folders = {P[id] : id \in K \cap Folder}
      /\ c.indexed = paths
  <2> DEFINE kept == {id \in DOMAIN pathOf : pathOf[id] # Reserved}
  <2>1. c = [file    |-> [q \in {pathOf[id] : id \in kept} |-> CHOOSE id \in kept : pathOf[id] = q],
             pathOf  |-> [id \in kept |-> pathOf[id]],
             folders |-> {pathOf[id] : id \in kept \cap Folder},
             indexed |-> {pathOf[id] : id \in kept}]
    BY <1>3 DEF BulkLoad
  <2>2. kept = K /\ \A id \in K : pathOf[id] = P[id]
    BY <1>4
  <2> HIDE DEF kept, c, pathOf
  <2>3. {pathOf[id] : id \in K} = paths /\ {pathOf[id] : id \in K \cap Folder} = {P[id] : id \in K \cap Folder}
    BY <2>2
  <2>4. \A q : (CHOOSE id \in K : pathOf[id] = q) = At(q)
    BY <2>2
  <2> QED BY <2>1, <2>2, <2>3, <2>4
<1>6. ASSUME NEW id \in K PROVE P[id] \in paths /\ c.file[P[id]] = id
  <2>1. At(P[id]) \in K /\ P[At(P[id])] = P[id]
    OBVIOUS
  <2>2. At(P[id]) = id
    BY <1>2, <2>1
  <2> QED BY <1>5, <2>2
<1> HIDE DEF c, At
<1>7. c.folders = {q \in DOMAIN c.file : c.file[q] \in Folder}
  BY <1>5, <1>6
<1>8. ASSUME NEW id \in K
      PROVE  \/ t[id].parent = Root /\ Len(P[id]) = 1 /\ Parent(P[id]) = <<>>
             \/ /\ t[id].parent \in K /\ t[id].parent \in Folder
                /\ Parent(P[id]) = P[t[id].parent]
  <2>1. CASE t[id].parent = Root /\ P[id] = <<t[id].name>>
    <3>1. Len(<<t[id].name>>) = 1 /\ Parent(<<t[id].name>>) = <<>>
      BY <1>1, PathsOfNames
    <3> QED BY <2>1, <3>1
  <2>2. CASE /\ t[id].parent \in K /\ t[id].parent \in Folder
             /\ P[id] = Append(P[t[id].parent], t[id].name)
    <3>1. P[t[id].parent] \in Path /\ t[id].name \in AnyName
      BY <1>1, <2>2
    <3>2. Parent(Append(P[t[id].parent], t[id].name)) = P[t[id].parent]
      BY <3>1, PathsOfNames
    <3> QED BY <2>2, <3>2
  <2> QED BY <1>1, <2>1, <2>2
<1>9. Good(c)
  <2>1. paths \subseteq Path /\ K \subseteq Id
    BY <1>1
  <2>2. ASSUME NEW q \in DOMAIN c.file PROVE c.file[q] \in DOMAIN c.pathOf /\ c.pathOf[c.file[q]] = q
    BY <1>5, <1>6
  <2>3. ASSUME NEW id \in DOMAIN c.pathOf
        PROVE  c.pathOf[id] \in DOMAIN c.file /\ c.file[c.pathOf[id]] = id
    BY <1>5, <1>6
  <2>4. ASSUME NEW q \in DOMAIN c.file PROVE Len(q) = 1 \/ Parent(q) \in c.folders
    <3>1. PICK id \in K : q = P[id]
      BY <1>5
    <3>2. t[id].parent \in K /\ t[id].parent \in Folder => P[t[id].parent] \in c.folders
      BY <1>5
    <3> QED BY <1>8, <3>1, <3>2
  <2> QED BY <1>5, <1>7, <2>1, <2>2, <2>3, <2>4 DEF Good
<1>10. ASSUME NEW ids \in (SUBSET Folder) \ {{}},
              \A id \in ids : CachedIn(c, id, ids) \/ IsIn(t, id, ids)
       PROVE  FALSE
  <2>1. ASSUME NEW id \in ids, CachedIn(c, id, ids) PROVE IsIn(t, id, ids)
    <3>1. id \in K /\ c.pathOf[id] = P[id] /\ t[id] # Gone
      BY <1>1, <1>5, <2>1 DEF CachedIn
    <3>2. IdAt(c, Parent(P[id])) \cap ids # {}
      BY <2>1, <3>1 DEF CachedIn
    <3>3. <<>> \notin DOMAIN c.file
      BY <1>9 DEF Good, Path
    <3>4. Parent(P[id]) # <<>>
      BY <3>2, <3>3 DEF IdAt, HasFile
    <3>5. t[id].parent \in K /\ Parent(P[id]) = P[t[id].parent]
      BY <1>8, <3>1, <3>4
    <3>6. IdAt(c, Parent(P[id])) = {t[id].parent}
      BY <1>5, <1>6, <3>5 DEF IdAt, HasFile
    <3> QED BY <3>1, <3>2, <3>6 DEF IsIn
  <2>2. \A id \in ids : IsIn(t, id, ids)
    BY <1>10, <2>1
  <2> QED BY <2>2 DEF IsTree
<1>11. ASSUME NEW other \in Folder \cap DOMAIN c.pathOf, NEW id \in Id \ {other}, t[id] # Gone,
              c.pathOf[other] = ResolvePathFromCache(c, t[id])
       PROVE  FALSE
  <2>1. other \in K /\ c.pathOf[other] = P[other]
    BY <1>5
  <2>2. other \in Id /\ t[other] # Gone /\ t \in [Id -> Place \cup {Gone}]
    BY <1>1, <2>1 DEF IsTree
  <2>3. \A x \in {id, other} : /\ IsPlace(t[x])
                              /\ t[x] = [parent |-> t[x].parent, name |-> t[x].name]
    BY <1>11, <2>2, Places DEF IsPlace
  <2>4. P[other] = ResolvePathFromCache(c, t[other])
    <3>1. t[other].parent # Root => /\ t[other].parent \in DOMAIN c.pathOf
                                    /\ c.pathOf[t[other].parent] = P[t[other].parent]
      BY <1>1, <1>5, <2>1
    <3> QED BY <1>1, <2>1, <3>1 DEF ResolvePathFromCache
  <2>5. /\ Above(t[other]) = Up(c, other) /\ t[other].name = Last(P[other])
        /\ Above(t[id]) = Up(c, other) /\ t[id].name = Last(P[other])
    <3> DEFINE e == t[other]
               d == t[id]
    <3>1. other \in DOMAIN c.pathOf /\ c.pathOf[other] = P[other] /\ IsPlace(e) /\ IsPlace(d)
      BY <1>11, <2>1, <2>3
    <3>2. /\ c.pathOf[other] = ResolvePathFromCache(c, e)
          /\ c.pathOf[other] = ResolvePathFromCache(c, d)
      BY <1>11, <2>4, <3>1
    <3> HIDE DEF c, e, d
    <3>3. Above(e) = Up(c, other) /\ e.name = Last(c.pathOf[other])
      BY <1>9, <3>1, <3>2, AtPlace
    <3>4. Above(d) = Up(c, other) /\ d.name = Last(c.pathOf[other])
      BY <1>9, <3>1, <3>2, AtPlace
    <3> QED BY <3>1, <3>3, <3>4 DEF e, d
  <2>6. t[other].parent = t[id].parent
    BY <2>5 DEF Above
  <2>7. t[other] = t[id]
    BY <2>3, <2>5, <2>6
  <2> QED BY <1>11, <2>2, <2>7 DEF IsTree
<1> QED BY <1>9, <1>10, <1>11 DEF Inverts, TakesOver, c

-----------------------------------------------------------------------------
(* The invariant, for feeds keyed by ids, where no two files come to be at *)
(* one place and no folders come to be in a ring.                          *)

IdTrees == /\ Backends = {"id"}
           /\ "inverts" \notin TreeEvents
           /\ "twins" \notin TreeEvents

CacheInv ==
  /\ backend = "id"
  /\ IsTree(tree)
  /\ feed \in Seq(Id)
  /\ Good(cache)
  /\ ~Inverts(cache, tree)
  /\ "takesOver" \notin TreeEvents =>
       ~TakesOver(cache, tree) /\ Tells(base, cache, changedPaths)

(* The first full scan. *)
LEMMA InitCacheInv ==
  ASSUME IdTrees, Init
  PROVE  CacheInv
<1>1. backend = "id" /\ IsTree(tree) /\ feed \in Seq(Id)
  BY DeltaAssumption, EmptySeq DEF IdTrees, Init
<1>2. Good(cache) /\ ~Inverts(cache, tree) /\ ~TakesOver(cache, tree)
  BY <1>1, BuiltIsGood DEF Init
<1>3. Tells(base, cache, changedPaths)
  BY DEF Init, Tells
<1> QED BY <1>1, <1>2, <1>3 DEF CacheInv

(* Another client's change leaves a tree that has no ring with the cache. *)
LEMMA ChangeKeepsCacheInv ==
  ASSUME CacheInv, NEW id \in Id, NEW u, u \in [Id -> Place \cup {Gone}],
         \A a, b \in Id : u[a] = u[b] /\ u[a] # Gone => a = b,
         ~Inverts(cache, u), "takesOver" \notin TreeEvents => ~TakesOver(cache, u),
         Change(id, u), cache' = cache, base' = base, changedPaths' = changedPaths
  PROVE  CacheInv'
<1>1. backend' = "id" /\ tree' = u /\ feed' = Mention(feed, id) /\ MetadataIsAFile(u)
  BY DEF CacheInv, Change, Report
<1>2. IsTree(u)
  <2>1. \A ids \in (SUBSET Folder) \ {{}} : \E m \in ids : ~IsIn(u, m, ids)
    BY DEF Inverts
  <2> QED BY <1>1, <2>1 DEF IsTree
<1>3. feed' \in Seq(Id)
  BY <1>1, MentionIsAFeed DEF CacheInv
<1>4. "takesOver" \notin TreeEvents =>
        ~TakesOver(cache', tree') /\ Tells(base', cache', changedPaths')
  BY <1>1 DEF CacheInv
<1> QED BY <1>1, <1>2, <1>3, <1>4 DEF CacheInv

(* Any change of another client keeps the invariant. *)
LEMMA OthersKeepCacheInv ==
  ASSUME IdTrees, CacheInv, ProviderChanges
  PROVE  CacheInv'
<1>1. PICK id \in Id : \/ \E place \in Place : Create(cache, id, place) \/ Move(cache, id, place)
                       \/ Touch(cache, id)
                       \/ Delete(cache, id)
  BY DEF ProviderChanges, OthersChange
<1>2. cache' = cache /\ base' = base /\ changedPaths' = changedPaths
  BY DEF ProviderChanges, deltaVars
<1>3. /\ tree \in [Id -> Place \cup {Gone}]
      /\ \A a, b \in Id : tree[a] = tree[b] /\ tree[a] # Gone => a = b
  BY DEF CacheInv, IsTree
<1>4. \A u : Survivable(cache, u, id) =>
               ~Inverts(cache, u) /\ ("takesOver" \notin TreeEvents => ~TakesOver(cache, u))
  BY DEF CacheInv, Survivable, IdTrees
<1>5. ASSUME NEW place \in Place, Create(cache, id, place) \/ Move(cache, id, place)
      PROVE  CacheInv'
  <2> DEFINE u == [tree EXCEPT ![id] = place]
  <2>1. Free(tree, id, place) /\ Survivable(cache, u, id) /\ Change(id, u)
    BY <1>5 DEF Create, Move
  <2>2. \A other \in Id \ {id} : tree[other] # place
    BY <2>1 DEF Free, IdTrees
  <2>3. u \in [Id -> Place \cup {Gone}]
    BY <1>3
  <2>4. \A a, b \in Id : u[a] = u[b] /\ u[a] # Gone => a = b
    BY <1>3, <2>2
  <2> HIDE DEF u
  <2> QED BY <1>2, <1>4, <2>1, <2>3, <2>4, ChangeKeepsCacheInv
<1>6. CASE Touch(cache, id)
  <2>1. Survivable(cache, tree, id) /\ Change(id, tree)
    BY <1>6 DEF Touch
  <2> QED BY <1>2, <1>3, <1>4, <2>1, ChangeKeepsCacheInv
<1>7. CASE Delete(cache, id)
  <2> DEFINE u == [m \in Id |-> IF m \in Subtree(tree, id) THEN Gone ELSE tree[m]]
  <2>1. Survivable(cache, u, id) /\ Change(id, u)
    BY <1>7 DEF Delete
  <2>2. u \in [Id -> Place \cup {Gone}]
    BY <1>3
  <2>3. \A a, b \in Id : u[a] = u[b] /\ u[a] # Gone => a = b
    BY <1>3
  <2> HIDE DEF u
  <2> QED BY <1>2, <1>4, <2>1, <2>2, <2>3, ChangeKeepsCacheInv
<1> QED BY <1>1, <1>5, <1>6, <1>7

(* So does a page. *)
LEMMA PageKeepsCacheInv ==
  ASSUME CacheInv, NEW n \in DOMAIN feed, ApplyIdPage(n)
  PROVE  CacheInv'
<1> DEFINE ids == SubSeq(feed, 1, n)
           s == PageOrder(cache, ids)
           acc == FoldLeft(ApplyEntry, SoFar, s)
<1>1. /\ feed \in Seq(Id) /\ n \in 1..Len(feed) /\ Len(feed) \in Nat
      /\ \A i \in 1..Len(feed) : feed[i] \in Id
  BY DEF CacheInv, ApplyIdPage
<1>2. ids \in Seq(Id)
  <2>1. \A i \in 1..n : feed[i] \in Id
    BY <1>1
  <2> QED BY <1>1, <2>1, SubSeqProperties
<1>3. feed' \in Seq(Id)
  <2>1. \A i \in (n + 1)..Len(feed) : feed[i] \in Id
    BY <1>1
  <2>2. n + 1 \in Int /\ Len(feed) \in Int
    BY <1>1
  <2>3. SubSeq(feed, n + 1, Len(feed)) \in Seq(Id)
    BY <2>1, <2>2, SubSeqProperties
  <2> QED BY <2>3 DEF ApplyIdPage
<1> HIDE DEF ids
<1>4. DOMAIN s = 1..Len(ids) /\ \A k \in 1..Len(ids) : \E id \in Id : s[k] = EntryOf(id)
  BY <1>2, PageEntries DEF CacheInv
<1> DEFINE from == IF reading THEN base ELSE cache
<1>5. Sound(from, SoFar)
  <2>1. /\ SoFar = [cache |-> cache, changed |-> SoFar.changed, renamed |-> SoFar.renamed]
        /\ SoFar.cache = cache /\ SoFar.changed = IF reading THEN changedPaths ELSE {}
    BY DEF SoFar
  <2>2. Tells(base, cache, changedPaths) => Tells(from, cache, SoFar.changed)
    BY <2>1 DEF Tells
  <2> QED BY <2>1, <2>2 DEF CacheInv, Sound
<1>6. Len(ids) \in Nat
  BY <1>2, LenProperties
<1>7. IsTree(tree)
  BY DEF CacheInv
<1> HIDE DEF s
<1> HIDE DEF from
<1>8. Sound(from, acc)
  BY <1>4, <1>5, <1>6, <1>7, PageIsSound
<1>9. /\ cache' = acc.cache /\ changedPaths' = acc.changed /\ base' = from
      /\ tree' = tree /\ backend' = backend
  BY DEF ApplyIdPage, Publish, ids, s, from
<1> HIDE DEF acc
<1> QED BY <1>3, <1>8, <1>9 DEF CacheInv, Sound

(* The difference of two listings by id has all paths that changed. *)
LEMMA DiffTells ==
  ASSUME NEW c, Good(c), NEW n, Good(n)
  PROVE  Tells(c, n, DiffById(c, n).modified \cup DiffById(c, n).deleted)
<1> SUFFICES ASSUME NEW p, IdAt(n, p) # IdAt(c, p)
             PROVE  p \in DiffById(c, n).modified \cup DiffById(c, n).deleted
  BY DEF Tells
<1>1. CASE p \in DOMAIN c.file
  <2> DEFINE id == c.file[p]
  <2>1. id \in DOMAIN c.pathOf /\ c.pathOf[id] = p
    BY <1>1 DEF Good
  <2>2. id \in DOMAIN n.pathOf => n.pathOf[id] # p
    BY <1>1 DEF Good, IdAt, HasFile
  <2> HIDE DEF id
  <2>3. p \in DiffById(c, n).deleted
    BY <2>1, <2>2 DEF DiffById
  <2> QED BY <2>3
<1>2. CASE p \notin DOMAIN c.file
  <2> DEFINE id == n.file[p]
  <2>1. id \in DOMAIN n.pathOf /\ n.pathOf[id] = p
    BY <1>2 DEF Good, IdAt, HasFile
  <2>2. id \in DOMAIN c.pathOf => c.pathOf[id] # p
    BY <1>2 DEF Good
  <2> HIDE DEF id
  <2>3. p \in DiffById(c, n).modified
    BY <2>1, <2>2 DEF DiffById
  <2> QED BY <2>3
<1> QED BY <1>1, <1>2

(* Every step keeps the invariant. *)
LEMMA NextKeepsCacheInv ==
  ASSUME IdTrees, CacheInv, [Next]_vars
  PROVE  CacheInv'
<1>1. CASE ProviderChanges
  BY <1>1, OthersKeepCacheInv
<1>2. ASSUME NEW n \in DOMAIN feed, ApplyIdPage(n) PROVE CacheInv'
  BY <1>2, PageKeepsCacheInv
<1>3. ASSUME NEW n \in DOMAIN feed, ReadDropboxPage(n) PROVE CacheInv'
  BY <1>3 DEF CacheInv, ReadDropboxPage
<1>4. CASE FullScanWithDelta
  <2>1. cache' = BuildFromFiles(Listing(tree)) /\ tree' = tree /\ backend' = backend /\ feed' = <<>>
    BY <1>4 DEF FullScanWithDelta
  <2>2. Good(cache') /\ ~Inverts(cache', tree') /\ ~TakesOver(cache', tree')
    BY <2>1, BuiltIsGood DEF CacheInv
  <2>3. feed' \in Seq(Id)
    BY <2>1, EmptySeq
  <2>4. Tells(base', cache', changedPaths')
    <3>1. Tells(cache, cache', DiffById(cache, cache').modified \cup DiffById(cache, cache').deleted)
      BY <2>2, DiffTells DEF CacheInv
    <3>2. base' = cache /\ changedPaths' = DiffById(cache, cache').modified \cup DiffById(cache, cache').deleted
      BY <1>4 DEF FullScanWithDelta
    <3> QED BY <3>1, <3>2
  <2> QED BY <2>1, <2>2, <2>3, <2>4 DEF CacheInv
<1>5. CASE UNCHANGED vars
  BY <1>5 DEF CacheInv, vars, deltaVars
<1> QED BY <1>1, <1>2, <1>3, <1>4, <1>5 DEF Next, Quiet

(* The maps of the cache describe one tree after every page of an id-keyed *)
(* delta and every full scan (id-delta.ts applyIdDeltaPage, metadata-      *)
(* cache.ts applyFileChange; Google Drive and OneDrive).                   *)
THEOREM CacheStaysATree ==
  ASSUME IdTrees
  PROVE  Spec => []CacheIsATree
<1>1. Init => CacheInv
  BY InitCacheInv
<1>2. CacheInv /\ [Next]_vars => CacheInv'
  BY NextKeepsCacheInv
<1>3. CacheInv => CacheIsATree
  BY GoodAgrees DEF CacheInv, CacheIsATree
<1> QED BY <1>1, <1>2, <1>3, PTL DEF Spec

(* A path that is another file's, nobody's or somebody's after a delta or a *)
(* rescan is among the paths it reports, whatever moved or went with what   *)
(* (id-delta.ts applyEntry, remote-fs.ts diffById; Google Drive and         *)
(* OneDrive), as long as no other folder is evicted.                        *)
THEOREM ChangesAreReported ==
  ASSUME IdTrees, "takesOver" \notin TreeEvents
  PROVE  Spec => []EveryChangeReported
<1>1. Init => CacheInv
  BY InitCacheInv
<1>2. CacheInv /\ [Next]_vars => CacheInv'
  BY NextKeepsCacheInv
<1>3. CacheInv => EveryChangeReported
  BY DEF CacheInv, EveryChangeReported, Tells
<1> QED BY <1>1, <1>2, <1>3, PTL DEF Spec

-----------------------------------------------------------------------------
(* Each row of the table of paths adds an id until none is missing. *)

(* Ids that have a path only from one row on. *)
FirstIn(up, n) == {id \in Id : up[n][id] # NoPath /\ up[n - 1][id] = NoPath}

(* No row adds an id without the row before adding its folder. *)
LEMMA RowsAddFolders ==
  ASSUME NEW t \in [Id -> Place \cup {Gone}], NEW up, PathTable(t, up),
         NEW n \in 2..Depth, FirstIn(up, n) # {}
  PROVE  FirstIn(up, n - 1) # {}
<1>1. PICK x \in Id : up[n][x] # NoPath /\ up[n - 1][x] = NoPath
  BY DEF FirstIn
<1>2. /\ n \in 1..Depth /\ n - 1 \in 1..Depth /\ n - 1 \in 0..Depth /\ n - 2 \in 0..Depth
      /\ (n - 1) - 1 = n - 2
  BY DepthIsNat
<1>3. /\ up[n][x] = PathFrom(t, up[n - 1], x) /\ up[n - 1][x] = PathFrom(t, up[n - 2], x)
      /\ up[n - 1] \in [Id -> Path \cup {NoPath}] /\ up[n - 2] \in [Id -> Path \cup {NoPath}]
  BY <1>1, <1>2 DEF PathTable
<1> DEFINE p == t[x].parent
<1>4. /\ t[x] # Gone /\ t[x].name \in AnyName
      /\ \/ p = Root /\ up[n][x] = <<t[x].name>>
         \/ /\ p \in Id /\ p # Root /\ up[n - 1][p] # NoPath
            /\ up[n][x] = Append(up[n - 1][p], t[x].name)
  BY <1>1, <1>3, PathFromCases
<1>5. p # Outside
  BY <1>1, <1>3, <1>4 DEF PathFrom
<1>6. p # Root
  BY <1>1, <1>3, <1>4, <1>5 DEF PathFrom
<1>7. up[n - 2][p] = NoPath
  <2> SUFFICES ASSUME up[n - 2][p] # NoPath PROVE FALSE
    OBVIOUS
  <2>1. up[n - 2][p] \in Path
    BY <1>3, <1>4, <1>6
  <2>2. Append(up[n - 2][p], t[x].name) \in Path
    BY <1>4, <2>1, PathsOfNames
  <2>3. up[n - 1][x] = Append(up[n - 2][p], t[x].name)
    BY <1>3, <1>4, <1>5, <1>6 DEF PathFrom
  <2> QED BY <1>1, <2>2, <2>3, RemoteTreeAssumption DEF Path
<1> QED BY <1>2, <1>4, <1>6, <1>7 DEF FirstIn

(* As deep as there are ids, the rows add nothing more: each has added one
   id at least. *)
LEMMA LastRowIsFull ==
  ASSUME NEW t \in [Id -> Place \cup {Gone}], NEW up, PathTable(t, up), Depth # 0,
         FirstIn(up, Depth) # {}, NEW id \in Id
  PROVE  up[Depth][id] # NoPath
<1>1. Depth \in Nat /\ Depth \in 1..Depth /\ Depth \in 0..Depth
  BY DepthIsNat
<1> DEFINE Bad == {k \in 0..(Depth - 1) : FirstIn(up, Depth - k) = {}}
<1>2. Bad = {}
  <2> SUFFICES ASSUME Bad # {} PROVE FALSE
    OBVIOUS
  <2>1. PICK k \in Bad : \A m \in Bad : k <= m
    <3>1. Bad \subseteq Nat
      OBVIOUS
    <3> HIDE DEF Bad
    <3> QED BY <3>1, Smallest
  <2>2. k \in 0..(Depth - 1) /\ FirstIn(up, Depth - k) = {}
    BY <2>1
  <2>3. k # 0
    BY <1>1, <2>2
  <2>4. k - 1 \in 0..(Depth - 1) /\ ~(k <= k - 1) /\ Depth - (k - 1) \in 2..Depth
        /\ (Depth - (k - 1)) - 1 = Depth - k
    BY <1>1, <2>2, <2>3
  <2>5. FirstIn(up, Depth - (k - 1)) # {}
    BY <2>1, <2>4
  <2> QED BY <2>2, <2>4, <2>5, RowsAddFolders
<1>3. ASSUME NEW n \in 1..Depth PROVE FirstIn(up, n) # {}
  <2>1. Depth - n \in 0..(Depth - 1) /\ Depth - (Depth - n) = n
    BY <1>1
  <2> QED BY <1>2, <2>1
<1> HIDE DEF Bad
<1> DEFINE f == [n \in 1..Depth |-> CHOOSE x \in FirstIn(up, n) : TRUE]
<1>4. \A n \in 1..Depth : f[n] \in FirstIn(up, n)
  BY <1>3
<1> HIDE DEF f
<1>5. ASSUME NEW n \in 1..Depth, NEW m \in 1..Depth, n < m PROVE f[n] # f[m]
  <2>1. n \in 0..Depth /\ m - 1 \in 0..Depth /\ n <= m - 1
    BY <1>1, <1>5
  <2>2. f[n] \in Id /\ up[n][f[n]] # NoPath
    BY <1>4 DEF FirstIn
  <2>3. up[m - 1][f[n]] = up[n][f[n]]
    BY <2>1, <2>2, LaterRows
  <2> QED BY <1>4, <2>2, <2>3 DEF FirstIn
<1>6. f \in Injection(1..Depth, Id)
  <2>1. f \in [1..Depth -> Id]
    <3>1. \A n \in 1..Depth : f[n] \in Id
      BY <1>4 DEF FirstIn
    <3> QED BY <3>1 DEF f
  <2>2. \A n, m \in 1..Depth : n # m => f[n] # f[m]
    BY <1>1, <1>5
  <2> QED BY <2>1, <2>2 DEF Injection, IsInjective
<1>7. f \in Surjection(1..Depth, Id)
  <2>1. IsFiniteSet(Id)
    BY RemoteTreeAssumption
  <2>2. Cardinality(1..Depth) = Cardinality(Id)
    <3>1. Cardinality(1..Depth) = IF 1 > Depth THEN 0 ELSE Depth - 1 + 1
      BY <1>1, FS_Interval
    <3>2. Cardinality(1..Depth) = Depth
      BY <1>1, <3>1
    <3> QED BY <3>2 DEF Depth
  <2> QED BY <1>6, <2>1, <2>2, FS_Injection
<1>8. PICK n \in 1..Depth : f[n] = id
  BY <1>7 DEF Surjection
<1>9. up[n][id] # NoPath /\ n \in 0..Depth /\ n <= Depth
  BY <1>1, <1>4, <1>8 DEF FirstIn
<1> QED BY <1>1, <1>9, LaterRows

(* What is in a folder that has a path has one, and so has what is at the root. *)
LEMMA PathsAreClosed ==
  ASSUME NEW t \in [Id -> Place \cup {Gone}], NEW id \in Id, t[id] # Gone,
         \/ t[id].parent = Root
         \/ t[id].parent \in Folder /\ PathsIn(t)[t[id].parent] # NoPath
  PROVE  PathsIn(t)[id] # NoPath
<1>1. PICK up : PathTable(t, up) /\ PathsIn(t) = up[Depth]
  BY PathTableExists
<1>2. Depth \in Nat /\ Depth # 0
  <2>1. Cardinality(Id) # 0
    BY RemoteTreeAssumption, FS_EmptySet
  <2> QED BY <2>1, DepthIsNat DEF Depth
<1>3. Depth \in 1..Depth /\ Depth \in 0..Depth /\ Depth - 1 \in 0..Depth
  BY <1>2
<1>4. up[Depth][id] = PathFrom(t, up[Depth - 1], id) /\ up[Depth - 1] \in [Id -> Path \cup {NoPath}]
  BY <1>1, <1>3 DEF PathTable
<1> DEFINE p == t[id].parent
<1>5. /\ t[id].name \in AnyName /\ p \in Folder \cup {Root} /\ p # Outside
      /\ Root \notin Folder /\ Folder \subseteq Id
  BY Places
<1>6. CASE p = Root
  <2>1. <<t[id].name>> \in Path
    BY <1>5, PathsOfNames
  <2> QED BY <1>1, <1>4, <1>5, <1>6, <2>1, RemoteTreeAssumption DEF PathFrom, Path
<1>7. CASE p # Root
  <2>1. p \in Id /\ up[Depth][p] # NoPath
    BY <1>1, <1>5, <1>7
  <2>2. CASE up[Depth - 1][p] = NoPath
    <3>1. FirstIn(up, Depth) # {}
      BY <2>1, <2>2 DEF FirstIn
    <3> QED BY <1>1, <1>2, <3>1, LastRowIsFull
  <2>3. CASE up[Depth - 1][p] # NoPath
    <3>1. up[Depth - 1][p] \in Path
      BY <1>4, <2>1, <2>3
    <3>2. Append(up[Depth - 1][p], t[id].name) \in Path
      BY <1>5, <3>1, PathsOfNames
    <3> QED BY <1>1, <1>4, <1>5, <1>7, <2>3, <3>2, RemoteTreeAssumption DEF PathFrom, Path
  <2> QED BY <2>2, <2>3
<1> QED BY <1>6, <1>7

(* Only the metadata file itself comes to be at its path: it is at the root,
   or nobody else's file has its name.  Otherwise a folder that is renamed to
   the one of the metadata takes such a file to that path, and the cache keeps
   it there (rewriteChildPaths does not ask), where a full scan drops it. *)
MetadataApart == Len(Reserved) = 1 \/ Last(Reserved) \notin Name

IsMetadata(e) == e.parent = Root /\ <<e.name>> = Reserved

(* No folder takes a file to the path of the metadata. *)
LEMMA NotBelowAFolder ==
  ASSUME MetadataApart, NEW t \in [Id -> Place \cup {Gone}], NEW id \in Id, t[id] # Gone,
         t[id].parent \in Folder, NEW p \in Path
  PROVE  Append(p, t[id].name) # Reserved
<1> SUFFICES ASSUME Append(p, t[id].name) = Reserved PROVE FALSE
  OBVIOUS
<1>1. t[id].name \in AnyName /\ Root \notin Folder
  BY Places
<1>2. t[id] \in Place /\ t[id].parent # Root
  BY <1>1
<1>3. t[id].name \in Name
  BY <1>2 DEF Place
<1>4. p \in Seq(AnyName) /\ p # <<>>
  BY DEF Path
<1>5. Len(Reserved) # 1 /\ Last(Reserved) = t[id].name
  BY <1>1, <1>4 DEF Last
<1> QED BY <1>3, <1>5 DEF MetadataApart

(* Tracked is what has a path and is not the metadata. *)
LEMMA TrackedIs ==
  ASSUME MetadataApart, NEW t, IsTree(t), NEW id \in Id
  PROVE  id \in Tracked(t) <=> PathsIn(t)[id] # NoPath /\ ~IsMetadata(t[id])
<1>1. t \in [Id -> Place \cup {Gone}] /\ PathsIn(t) \in [Id -> Path \cup {NoPath}]
  BY PathsTyped DEF IsTree
<1>2. SUFFICES ASSUME PathsIn(t)[id] # NoPath
               PROVE  PathsIn(t)[id] = Reserved <=> IsMetadata(t[id])
  BY DEF Tracked
<1>3. CASE t[id].parent = Root
  BY <1>1, <1>2, <1>3, PathsAreNested DEF IsMetadata
<1>4. CASE t[id].parent # Root
  <2>1. /\ t[id] # Gone /\ t[id].parent \in Folder /\ PathsIn(t)[t[id].parent] \in Path
        /\ PathsIn(t)[id] = Append(PathsIn(t)[t[id].parent], t[id].name)
    BY <1>1, <1>2, <1>4, PathsAreNested
  <2> QED BY <1>1, <1>4, <2>1, NotBelowAFolder DEF IsMetadata
<1> QED BY <1>3, <1>4

(* An entry is for the path of the metadata if it is the metadata. *)
LEMMA ResolvesMetadata ==
  ASSUME MetadataApart, NEW t \in [Id -> Place \cup {Gone}], NEW id \in Id, t[id] # Gone,
         NEW c, Good(c)
  PROVE  ResolvePathFromCache(c, t[id]) = Reserved <=> IsMetadata(t[id])
<1>1. CASE t[id].parent = Root
  BY <1>1 DEF ResolvePathFromCache, IsMetadata
<1>2. CASE t[id].parent \notin DOMAIN c.pathOf \cup {Root}
  BY <1>2, CacheAssumption DEF ResolvePathFromCache, IsMetadata
<1>3. CASE t[id].parent # Root /\ t[id].parent \in DOMAIN c.pathOf
  <2>1. t[id].parent \in Folder
    <3>1. t[id].parent \in Id
      BY <1>3 DEF Good
    <3>2. t[id].parent \in Folder \cup {Root, Outside}
      BY Places
    <3> QED BY <1>3, <3>1, <3>2, RemoteTreeAssumption
  <2>2. c.pathOf[t[id].parent] \in Path
    BY <1>3, CachedPaths
  <2> QED BY <1>3, <2>1, <2>2, NotBelowAFolder DEF ResolvePathFromCache, IsMetadata
<1> QED BY <1>1, <1>2, <1>3

-----------------------------------------------------------------------------
(* What the cache has right while entries are to come.                     *)

(* It is cached where it is by now; if it has gone, its folder has as well. *)
Stands(c, t, id) ==
  \/ t[id] = Gone /\ \E p \in Up(c, id) : t[p] = Gone
  \/ /\ t[id] # Gone /\ ~IsMetadata(t[id])
     /\ Up(c, id) = Above(t[id]) /\ Last(c.pathOf[id]) = t[id].name

Settled(c, t, pend) ==
  /\ c.pathOf = [id \in DOMAIN c.pathOf |-> c.pathOf[id]]
  /\ \A id \in DOMAIN c.pathOf \ pend : Stands(c, t, id)
  /\ Tracked(t) \ pend \subseteq DOMAIN c.pathOf

(* Who is right above in the cache is a cached folder, one shorter. *)
LEMMA UpIs ==
  ASSUME NEW c, Good(c), NEW id \in DOMAIN c.pathOf
  PROVE  /\ Len(c.pathOf[id]) \in Nat /\ c.pathOf[id] = Append(Parent(c.pathOf[id]), Last(c.pathOf[id]))
         /\ Up(c, id) = {} => c.pathOf[id] = <<Last(c.pathOf[id])>>
         /\ \A p \in Up(c, id) : /\ Up(c, id) = {p} /\ p \in Folder \cap DOMAIN c.pathOf
                                 /\ c.pathOf[p] = Parent(c.pathOf[id])
                                 /\ Len(c.pathOf[p]) < Len(c.pathOf[id])
                                 /\ Below(c.pathOf[p], c.pathOf[id])
<1> DEFINE q == c.pathOf[id]
<1>1. /\ q \in DOMAIN c.file /\ q \in Seq(AnyName) /\ q # <<>>
      /\ Parent(q) \in Seq(AnyName) /\ Len(Parent(q)) = Len(q) - 1
      /\ Len(q) = 1 => Parent(q) = <<>> /\ Parent(q) \notin DOMAIN c.file
      /\ Len(q) # 1 => Parent(q) \in c.folders
  BY ParentOfCached DEF Good
<1>2. Len(q) \in Nat /\ q = Append(Parent(q), Last(q)) /\ (Len(q) = 1 => q = <<Last(q)>>)
  BY <1>1, ParentAndLast, LenProperties
<1>3. Below(Parent(q), q)
  BY <1>1, BelowParent
<1>4. CASE Len(q) = 1
  <2>1. Up(c, id) = {}
    BY <1>1, <1>4 DEF Up, IdAt, HasFile
  <2> QED BY <1>2, <1>4, <2>1
<1>5. CASE Len(q) # 1
  <2>1. Parent(q) \in DOMAIN c.file /\ c.file[Parent(q)] \in Folder
    BY <1>1, <1>5 DEF Good
  <2>2. Up(c, id) = {c.file[Parent(q)]}
    BY <2>1 DEF Up, IdAt, HasFile
  <2>3. c.file[Parent(q)] \in DOMAIN c.pathOf /\ c.pathOf[c.file[Parent(q)]] = Parent(q)
    BY <2>1 DEF Good
  <2>4. Len(Parent(q)) < Len(q)
    BY <1>1, <1>2
  <2> QED BY <1>2, <1>3, <2>1, <2>2, <2>3, <2>4
<1> QED BY <1>4, <1>5

(* When nothing is to come, the cache is the tree. *)
LEMMA SettledMirrors ==
  ASSUME MetadataApart, NEW t, IsTree(t), NEW c, Good(c), Settled(c, t, {})
  PROVE  c.pathOf = [id \in Tracked(t) |-> PathsIn(t)[id]]
<1> DEFINE P == PathsIn(t)
           Wrong(id) == id \in DOMAIN c.pathOf /\ (t[id] = Gone \/ P[id] # c.pathOf[id])
           Bad == {n \in Nat : \E id : Wrong(id) /\ Len(c.pathOf[id]) = n}
<1>1. t \in [Id -> Place \cup {Gone}]
  BY DEF IsTree
<1>2. DOMAIN c.pathOf \subseteq Id /\ \A id \in DOMAIN c.pathOf : Stands(c, t, id)
  BY DEF Good, Settled
<1> HIDE DEF P
<1>3. Bad = {}
  <2> SUFFICES ASSUME Bad # {} PROVE FALSE
    OBVIOUS
  <2>1. PICK n \in Bad : \A m \in Bad : n <= m
    <3>1. Bad \subseteq Nat
      OBVIOUS
    <3> HIDE DEF Bad
    <3> QED BY <3>1, Smallest
  <2>2. PICK id : Wrong(id) /\ Len(c.pathOf[id]) = n
    BY <2>1
  <2>3. id \in DOMAIN c.pathOf /\ id \in Id /\ Stands(c, t, id)
    BY <1>2, <2>2
  <2>4. ASSUME NEW p \in Up(c, id) PROVE t[p] # Gone /\ P[p] = c.pathOf[p]
    <3>1. p \in DOMAIN c.pathOf /\ Len(c.pathOf[p]) < Len(c.pathOf[id])
      BY <2>3, <2>4, UpIs
    <3>2. Len(c.pathOf[p]) \in Nat /\ n \in Nat
      BY <3>1, <2>1, UpIs
    <3>3. Len(c.pathOf[p]) \notin Bad
      <4> HIDE DEF Bad
      <4> QED BY <2>1, <2>2, <3>1, <3>2
    <3>4. ~Wrong(p)
      BY <3>2, <3>3
    <3> QED BY <3>1, <3>4
  <2>5. /\ t[id] # Gone /\ Up(c, id) = Above(t[id]) /\ Last(c.pathOf[id]) = t[id].name
    BY <2>3, <2>4 DEF Stands
  <2>6. P[id] = c.pathOf[id]
    <3>1. CASE t[id].parent = Root
      <4>1. c.pathOf[id] = <<t[id].name>>
        BY <2>3, <2>5, <3>1, UpIs DEF Above
      <4>2. P[id] # NoPath
        BY <1>1, <2>3, <2>5, <3>1, PathsAreClosed DEF P
      <4> QED BY <1>1, <2>3, <3>1, <4>1, <4>2, PathsAreNested DEF P
    <3>2. CASE t[id].parent # Root
      <4>1. t[id].parent \in Up(c, id)
        BY <2>5, <3>2 DEF Above
      <4>2. /\ t[id].parent \in Folder \cap DOMAIN c.pathOf
            /\ c.pathOf[id] = Append(c.pathOf[t[id].parent], t[id].name)
        BY <2>3, <2>5, <4>1, UpIs
      <4>3. P[t[id].parent] = c.pathOf[t[id].parent] /\ P[t[id].parent] # NoPath
        BY <2>4, <4>1, <4>2, CachedPaths
      <4>4. P[id] # NoPath
        BY <1>1, <2>3, <2>5, <4>2, <4>3, PathsAreClosed DEF P
      <4>5. P[id] = Append(P[t[id].parent], t[id].name)
        BY <1>1, <2>3, <3>2, <4>4, PathsAreNested DEF P
      <4> QED BY <4>2, <4>3, <4>5
    <3> QED BY <3>1, <3>2
  <2> QED BY <2>2, <2>5, <2>6
<1>4. ASSUME NEW id \in DOMAIN c.pathOf PROVE t[id] # Gone /\ P[id] = c.pathOf[id]
  <2>1. Len(c.pathOf[id]) \in Nat
    BY UpIs
  <2> QED BY <1>3, <2>1
<1>5. DOMAIN c.pathOf \subseteq Tracked(t)
  <2> SUFFICES ASSUME NEW id \in DOMAIN c.pathOf PROVE id \in Tracked(t)
    OBVIOUS
  <2>1. P[id] # NoPath /\ ~IsMetadata(t[id]) /\ id \in Id
    BY <1>2, <1>4, CachedPaths DEF Stands
  <2> QED BY <2>1, TrackedIs DEF P
<1>6. DOMAIN c.pathOf = Tracked(t) /\ c.pathOf = [id \in DOMAIN c.pathOf |-> c.pathOf[id]]
  BY <1>5 DEF Settled
<1> HIDE DEF Bad, Wrong
<1> QED BY <1>4, <1>6 DEF P

-----------------------------------------------------------------------------
(* What a removal and an entry leave of the cache. *)

(* The reverse map is a function. *)
IsMap(c) == c.pathOf = [id \in DOMAIN c.pathOf |-> c.pathOf[id]]

(* Who is evicted is one file, at the path. *)
LEMMA WhoIsEvicted ==
  ASSUME NEW c, Good(c), IsMap(c), NEW e, NEW path \in Path, path = ResolvePathFromCache(c, e),
         EvictsNoFolder(c, e),
         HasFile(c, path) => c.file[path] # e.id,
         NEW f, IF HasFile(c, path) THEN f = RemoveTree(c, path) ELSE f = c
  PROVE  /\ IsMap(f)
         /\ \A x \in DOMAIN c.pathOf \ DOMAIN f.pathOf :
              x \notin Folder /\ c.pathOf[x] = path /\ x # e.id
<1>1. CASE ~HasFile(c, path)
  BY <1>1
<1>2. CASE HasFile(c, path)
  <2>1. c.file[path] \in DOMAIN c.pathOf /\ c.pathOf[c.file[path]] = path
    BY <1>2 DEF Good, HasFile
  <2>2. path \notin c.folders /\ c.file[path] \notin Folder
    BY <1>2, <2>1 DEF EvictsNoFolder, Good
  <2>3. SubtreeAt(c, path) = {path}
    BY <2>2, NothingInAFile DEF SubtreeAt
  <2>4. Removed(c, {path}, f)
    BY <1>2, <2>3, RemoveTreeRemoves DEF Path
  <2>5. f.pathOf = Without(c.pathOf, {c.file[q] : q \in ({path} \cup CollectDescendants(c, path)) \cap DOMAIN c.file})
    BY <1>2 DEF RemoveTree, RemoveEntries
  <2>6. IsMap(f)
    BY <2>5 DEF IsMap, Without
  <2>7. ASSUME NEW x \in DOMAIN c.pathOf \ DOMAIN f.pathOf
        PROVE  x \notin Folder /\ c.pathOf[x] = path /\ x # e.id
    <3>1. c.pathOf[x] = path
      BY <2>4, <2>7 DEF Removed
    <3>2. c.file[path] = x
      BY <2>7, <3>1 DEF Good
    <3> QED BY <1>2, <2>2, <3>1, <3>2
  <2> QED BY <2>6, <2>7
<1> QED BY <1>1, <1>2

(* What a removal leaves. *)
LEMMA RemovalLeaves ==
  ASSUME NEW c, Good(c), IsMap(c), NEW id \in DOMAIN c.pathOf
  PROVE  LET n == RemoveTree(c, c.pathOf[id])
         IN  /\ Good(n) /\ IsMap(n)
             /\ \A x \in DOMAIN c.pathOf :
                  x \in DOMAIN n.pathOf <=> x # id /\ ~Below(c.pathOf[id], c.pathOf[x])
             /\ \A x \in DOMAIN n.pathOf : /\ x \in DOMAIN c.pathOf /\ n.pathOf[x] = c.pathOf[x]
                                           /\ Up(n, x) = Up(c, x)
<1> DEFINE p == c.pathOf[id]
           n == RemoveTree(c, p)
<1>1. p \in DOMAIN c.file /\ p \in Path /\ p \in Seq(AnyName) /\ c.file[p] = id
  BY DEF Good, Path
<1>2. Removed(c, SubtreeAt(c, p), n)
  BY <1>1, RemoveTreeRemoves
<1>3. n.pathOf = Without(c.pathOf, {c.file[q] : q \in ({p} \cup CollectDescendants(c, p)) \cap DOMAIN c.file})
  BY DEF RemoveTree, RemoveEntries
<1> HIDE DEF n
<1>4. Good(n) /\ \A x \in DOMAIN n.pathOf : Up(n, x) = Up(c, x)
  BY <1>1, <1>2, RemovedGood
<1>5. IsMap(n)
  BY <1>3 DEF IsMap, Without
<1>6. ASSUME NEW x \in DOMAIN c.pathOf PROVE c.pathOf[x] \in DOMAIN c.file /\ (c.pathOf[x] = p => x = id)
  BY <1>1, <1>6 DEF Good
<1>7. \A x \in DOMAIN c.pathOf : c.pathOf[x] \in SubtreeAt(c, p) <=> x = id \/ Below(p, c.pathOf[x])
  BY <1>6 DEF SubtreeAt, Inner
<1> QED BY <1>2, <1>4, <1>5, <1>7 DEF Removed, n

(* What an entry leaves, and that it is placed itself. *)
LEMMA PlacingLeaves ==
  ASSUME NEW c, Good(c), IsMap(c), NEW e, IsEntry(e), EvictsNoFolder(c, e),
         ResolvePathFromCache(c, e) \notin {NoPath, Reserved}
  PROVE  LET n == ApplyFileChange(c, e)
         IN  /\ IsMap(n) /\ e.id \in DOMAIN n.pathOf
             /\ \A x \in DOMAIN c.pathOf \ DOMAIN n.pathOf :
                  x \notin Folder /\ c.pathOf[x] = ResolvePathFromCache(c, e) /\ x # e.id
<1> DEFINE path == ResolvePathFromCache(c, e)
           old == PathById(c, e.id)
           n == ApplyFileChange(c, e)
           f == IF HasFile(c, path) /\ c.file[path] # e.id THEN RemoveTree(c, path) ELSE c
           l == IF old \in {NoPath, path} THEN f ELSE LeaveOldPath(f, e.id, old, path)
<1>1. path \in Path /\ (Len(path) = 1 \/ Parent(path) \in c.folders)
  BY Resolves
<1>2. n = PlaceAt(l, e.id, path)
  BY DEF ApplyFileChange
<1>3. DOMAIN n.pathOf = DOMAIN l.pathOf \cup {e.id} /\ IsMap(n)
  <2> HIDE DEF l
  <2> QED BY <1>2 DEF PlaceAt, Put, IsMap
<1>4. CASE HasFile(c, path) /\ c.file[path] = e.id
  <2>1. e.id \in DOMAIN c.pathOf /\ c.pathOf[e.id] = path
    BY <1>4 DEF Good, HasFile
  <2>2. old = path /\ f = c
    BY <1>4, <2>1, CachedPaths
  <2> QED BY <1>3, <2>2
<1>5. CASE ~(HasFile(c, path) /\ c.file[path] = e.id)
  <2>1. IF HasFile(c, path) THEN f = RemoveTree(c, path) ELSE f = c
    BY <1>5
  <2>2. HasFile(c, path) => c.file[path] # e.id
    BY <1>5
  <2>3. old # path
    <3>1. ASSUME e.id \in DOMAIN c.pathOf, c.pathOf[e.id] = path PROVE FALSE
      BY <1>5, <3>1 DEF Good, HasFile
    <3> QED BY <3>1, CachedPaths
  <2>4. l = IF old = NoPath THEN f ELSE LeaveOldPath(f, e.id, old, path)
    BY <2>3
  <2> HIDE DEF f, l, n, old, path
  <2>5. Prepared(c, path, f)
    BY <1>1, <2>1, Prepares
  <2>6. \A x \in DOMAIN c.pathOf \ DOMAIN f.pathOf : x \notin Folder /\ c.pathOf[x] = path /\ x # e.id
    BY <1>1, <2>1, <2>2, WhoIsEvicted DEF path
  <2>7. DOMAIN f.pathOf \subseteq DOMAIN l.pathOf \cup {e.id}
    <3>1. CASE old = NoPath
      BY <2>4, <3>1
    <3>2. CASE old # NoPath
      <4>1. e.id \in DOMAIN c.pathOf /\ old = c.pathOf[e.id]
        BY <3>2, CachedPaths DEF old
      <4>2. e.id \in DOMAIN f.pathOf /\ old = f.pathOf[e.id] /\ Good(f) /\ path \notin DOMAIN f.file
        BY <2>5, <2>6, <4>1 DEF Prepared
      <4>3. Left(f, e.id, old, path, l)
        BY <1>1, <2>4, <3>2, <4>2, LeavesOldPath
      <4> QED BY <4>3 DEF Left
    <3> QED BY <3>1, <3>2
  <2> QED BY <1>3, <2>6, <2>7 DEF n, path
<1> QED BY <1>4, <1>5

(* A folder escapes if the one right above it in the cache has gone. *)
LEMMA EscapesFromParent ==
  ASSUME NEW c, Good(c), NEW t
  PROVE  Escapes(c, t) <=> \E y \in Folder \cap DOMAIN c.pathOf : \E p \in Up(c, y) :
                             PathsIn(t)[p] = NoPath /\ PathsIn(t)[y] # NoPath
<1> DEFINE P == PathsIn(t)
           F == Folder \cap DOMAIN c.pathOf
           Out(from, y) == /\ from \in F /\ y \in F /\ Below(c.pathOf[from], c.pathOf[y])
                           /\ P[from] = NoPath /\ P[y] # NoPath
           Bad == {n \in Nat : \E from, y : Out(from, y) /\ Len(c.pathOf[y]) = n}
<1> HIDE DEF P
<1>1. \A y \in F : \A p \in Up(c, y) : p \in F /\ Below(c.pathOf[p], c.pathOf[y])
  BY UpIs
<1>2. ASSUME NEW from \in F, NEW z \in F, Below(c.pathOf[from], c.pathOf[z]),
             P[from] = NoPath, P[z] # NoPath
      PROVE  \E y \in F : \E p \in Up(c, y) : P[p] = NoPath /\ P[y] # NoPath
  <2>1. Len(c.pathOf[z]) \in Bad
    <3>1. Out(from, z) /\ Len(c.pathOf[z]) \in Nat
      BY <1>2, UpIs
    <3> QED BY <3>1
  <2>2. PICK n \in Bad : \A m \in Bad : n <= m
    <3>1. Bad \subseteq Nat
      OBVIOUS
    <3> HIDE DEF Bad
    <3> QED BY <2>1, <3>1, Smallest
  <2>3. PICK f, y : Out(f, y) /\ Len(c.pathOf[y]) = n
    BY <2>2
  <2>4. /\ c.pathOf[f] \in Seq(AnyName) /\ c.pathOf[f] # <<>> /\ c.pathOf[f] \in DOMAIN c.file
        /\ c.pathOf[y] \in Seq(AnyName) /\ c.pathOf[y] # <<>> /\ c.pathOf[y] \in DOMAIN c.file
    BY <2>3 DEF Good, Path
  <2>5. c.pathOf[f] = Parent(c.pathOf[y]) \/ Below(c.pathOf[f], Parent(c.pathOf[y]))
    BY <2>3, <2>4, BelowParent
  <2>6. Parent(c.pathOf[y]) \in c.folders
    <3>1. Parent(c.pathOf[y]) # <<>>
      <4>1. Parent(c.pathOf[y]) \in Seq(AnyName)
        BY <2>4, ParentPath
      <4> QED BY <2>4, <2>5, <4>1, BelowPath, LenProperties, EmptySeq
    <3> QED BY <2>4, <3>1, ParentOfCached
  <2>7. PICK p \in Up(c, y) : TRUE
    BY <2>6 DEF Up, IdAt, HasFile, Good
  <2>8. p \in F /\ c.pathOf[p] = Parent(c.pathOf[y]) /\ Len(c.pathOf[p]) < Len(c.pathOf[y])
        /\ Len(c.pathOf[p]) \in Nat
    BY <2>3, <2>7, UpIs
  <2>9. P[p] = NoPath
    <3> SUFFICES ASSUME P[p] # NoPath PROVE FALSE
      OBVIOUS
    <3>1. c.pathOf[f] # c.pathOf[p]
      BY <2>3, <2>8 DEF Good
    <3>2. Out(f, p)
      BY <2>3, <2>5, <2>8, <3>1
    <3>3. Len(c.pathOf[p]) \in Bad /\ n \in Nat
      BY <2>2, <2>8, <3>2
    <3> HIDE DEF Bad
    <3> QED BY <2>2, <2>3, <2>8, <3>3
  <2> QED BY <2>3, <2>7, <2>9
<1> QED BY <1>1, <1>2 DEF Escapes, P

(* What is taken away with a folder that has gone is not tracked, or to come. *)
LEMMA NothingTrackedBelow ==
  ASSUME MetadataApart, NEW t, IsTree(t), NEW c, Good(c), ~Escapes(c, t),
         NEW id \in DOMAIN c.pathOf, id \notin Tracked(t),
         NEW x \in DOMAIN c.pathOf, x \in Tracked(t), x \in Folder \/ Stands(c, t, x)
  PROVE  ~Below(c.pathOf[id], c.pathOf[x])
<1> SUFFICES ASSUME Below(c.pathOf[id], c.pathOf[x]) PROVE FALSE
  OBVIOUS
<1>1. /\ c.pathOf[id] \in Path /\ c.pathOf[id] \in DOMAIN c.file /\ c.file[c.pathOf[id]] = id
      /\ c.pathOf[x] \in Path /\ c.pathOf[x] \in DOMAIN c.file /\ id \in Id
  BY DEF Good
<1>2. id \in Folder
  <2>1. c.pathOf[id] \in c.folders
    BY <1>1, AboveIsCached
  <2> QED BY <1>1, <2>1 DEF Good
<1>3. PathsIn(t)[id] = NoPath
  BY <1>1, <1>2 DEF Tracked, IsTree, MetadataIsAFile
<1>4. \A y \in Folder \cap DOMAIN c.pathOf : Below(c.pathOf[id], c.pathOf[y]) => y \notin Tracked(t)
  BY <1>2, <1>3 DEF Escapes, Tracked
<1>5. CASE x \in Folder
  BY <1>4, <1>5
<1>6. CASE x \notin Folder
  <2>1. t[x] # Gone /\ \/ t[x].parent = Root
                       \/ t[x].parent \in Tracked(t) /\ t[x].parent # Root
    BY TrackedPlaces
  <2>2. Up(c, x) = Above(t[x])
    BY <1>6, <2>1 DEF Stands
  <2>3. c.pathOf[id] \in Seq(AnyName) /\ c.pathOf[id] # <<>> /\ c.pathOf[x] \in Seq(AnyName)
        /\ c.pathOf[x] # <<>>
    BY <1>1 DEF Path
  <2>4. CASE t[x].parent = Root
    <3>1. c.pathOf[x] = <<Last(c.pathOf[x])>>
      BY <2>2, <2>4, UpIs DEF Above
    <3>2. Len(c.pathOf[x]) = 1
      BY <3>1
    <3>3. Len(c.pathOf[id]) < 1
      BY <2>3, <3>2, BelowPath
    <3> QED BY <2>3, <3>3, LenProperties, EmptySeq
  <2>5. CASE t[x].parent \in Tracked(t) /\ t[x].parent # Root
    <3> DEFINE q == t[x].parent
    <3>1. q \in Up(c, x)
      BY <2>2, <2>5 DEF Above
    <3>2. q \in Folder \cap DOMAIN c.pathOf /\ c.pathOf[q] = Parent(c.pathOf[x])
      BY <3>1, UpIs
    <3>3. c.pathOf[id] = c.pathOf[q] \/ Below(c.pathOf[id], c.pathOf[q])
      BY <2>3, <3>2, BelowParent
    <3>4. q # id
      BY <2>5
    <3>5. c.pathOf[id] # c.pathOf[q]
      BY <3>2, <3>4 DEF Good
    <3> QED BY <1>4, <2>5, <3>2, <3>3, <3>5
  <2> QED BY <2>1, <2>4, <2>5
<1> QED BY <1>5, <1>6

(* Every tracked folder that was cached still is. *)
KeepsFolders(c, n, t) == Folder \cap Tracked(t) \cap DOMAIN c.pathOf \subseteq DOMAIN n.pathOf

(* The end of what is not tracked leaves the rest as settled as it was. *)
LEMMA RemovalSettles ==
  ASSUME MetadataApart, NEW t, IsTree(t), NEW c, Good(c), ~Escapes(c, t),
         NEW pend, NEW id \in Id, id \notin Tracked(t), Settled(c, t, pend \cup {id}),
         NEW n, n = IF id \in DOMAIN c.pathOf THEN RemoveTree(c, c.pathOf[id]) ELSE c
  PROVE  Settled(n, t, pend) /\ ~Escapes(n, t) /\ KeepsFolders(c, n, t)
<1>1. IsMap(c) /\ \A x \in DOMAIN c.pathOf \ (pend \cup {id}) : Stands(c, t, x)
  BY DEF Settled, IsMap
<1>2. CASE id \notin DOMAIN c.pathOf
  BY <1>2 DEF Settled, KeepsFolders
<1>3. CASE id \in DOMAIN c.pathOf
  <2>1. /\ Good(n) /\ IsMap(n)
        /\ \A x \in DOMAIN c.pathOf :
             x \in DOMAIN n.pathOf <=> x # id /\ ~Below(c.pathOf[id], c.pathOf[x])
        /\ \A x \in DOMAIN n.pathOf : /\ x \in DOMAIN c.pathOf /\ n.pathOf[x] = c.pathOf[x]
                                      /\ Up(n, x) = Up(c, x)
    BY <1>1, <1>3, RemovalLeaves
  <2>2. ASSUME NEW x \in DOMAIN c.pathOf \cap Tracked(t), x \in Folder \/ x \notin pend
        PROVE  x \in DOMAIN n.pathOf
    <3>1. x \in Folder \/ Stands(c, t, x)
      BY <1>1, <2>2
    <3> QED BY <1>3, <2>1, <3>1, NothingTrackedBelow
  <2>3. KeepsFolders(c, n, t)
    BY <2>2 DEF KeepsFolders
  <2>4. ~Escapes(n, t)
    <3> SUFFICES ASSUME NEW y \in Folder \cap DOMAIN n.pathOf, NEW p \in Up(n, y),
                        PathsIn(t)[p] = NoPath, PathsIn(t)[y] # NoPath
                 PROVE  FALSE
      BY <2>1, EscapesFromParent
    <3> QED BY <2>1, EscapesFromParent
  <2>5. \A x \in DOMAIN n.pathOf \ pend : Stands(n, t, x)
    <3> SUFFICES ASSUME NEW x \in DOMAIN n.pathOf \ pend PROVE Stands(n, t, x)
      OBVIOUS
    <3>1. x \in DOMAIN c.pathOf /\ x # id /\ Stands(c, t, x)
      BY <1>1, <2>1
    <3> QED BY <2>1, <3>1 DEF Stands
  <2>6. Tracked(t) \ pend \subseteq DOMAIN n.pathOf
    BY <2>2 DEF Settled
  <2> QED BY <2>1, <2>3, <2>4, <2>5, <2>6 DEF Settled, IsMap
<1> QED BY <1>2, <1>3

(* An entry that is placed is settled, and who makes room for it is to come
   or has gone. *)
LEMMA PlacingSettles ==
  ASSUME MetadataApart, NEW t, IsTree(t), NEW c, Good(c), ~Escapes(c, t),
         NEW e, IsEntry(e), t[e.id] # Gone, e.parent = t[e.id].parent, e.name = t[e.id].name,
         NEW pend, Settled(c, t, pend \cup {e.id}),
         ResolvePathFromCache(c, e) \notin {NoPath, Reserved}, EvictsNoFolder(c, e),
         NEW n, n = ApplyFileChange(c, e), Applied(c, e, n)
  PROVE  Settled(n, t, pend) /\ ~Escapes(n, t) /\ KeepsFolders(c, n, t)
<1>1. t \in [Id -> Place \cup {Gone}] /\ (\A a, b \in Id : t[a] = t[b] /\ t[a] # Gone => a = b)
      /\ e.id \in Id /\ IsPlace(e)
  BY DEF IsTree, IsEntry
<1>2. IsMap(c) /\ \A x \in DOMAIN c.pathOf \ (pend \cup {e.id}) : Stands(c, t, x)
  BY DEF Settled, IsMap
<1>3. /\ IsMap(n) /\ e.id \in DOMAIN n.pathOf
      /\ \A x \in DOMAIN c.pathOf \ DOMAIN n.pathOf :
           x \notin Folder /\ c.pathOf[x] = ResolvePathFromCache(c, e) /\ x # e.id
  BY <1>2, PlacingLeaves
<1>4. /\ Good(n) /\ Up(n, e.id) = Above(e) /\ Last(n.pathOf[e.id]) = e.name
      /\ \A x \in DOMAIN n.pathOf \ {e.id} :
           x \in DOMAIN c.pathOf /\ Up(n, x) = Up(c, x) /\ Last(n.pathOf[x]) = Last(c.pathOf[x])
  BY <1>3 DEF Applied
<1>5. ResolvePathFromCache(c, e) = ResolvePathFromCache(c, t[e.id]) /\ Above(e) = Above(t[e.id])
  BY DEF ResolvePathFromCache, Above
<1>6. KeepsFolders(c, n, t)
  BY <1>3 DEF KeepsFolders
<1>7. ~Escapes(n, t)
  <2> SUFFICES ASSUME NEW y \in Folder \cap DOMAIN n.pathOf, NEW p \in Up(n, y),
                      PathsIn(t)[p] = NoPath, PathsIn(t)[y] # NoPath
               PROVE  FALSE
    BY <1>4, EscapesFromParent
  <2>1. CASE y = e.id
    <3>1. p = t[e.id].parent /\ t[e.id].parent # Root
      BY <1>4, <1>5, <2>1 DEF Above
    <3> QED BY <1>1, <2>1, <3>1, PathsAreNested
  <2>2. CASE y # e.id
    <3>1. y \in Folder \cap DOMAIN c.pathOf /\ p \in Up(c, y)
      BY <1>4, <2>2
    <3> QED BY <3>1, EscapesFromParent
  <2> QED BY <2>1, <2>2
<1>8. ~IsMetadata(t[e.id])
  BY <1>1, <1>5, ResolvesMetadata
<1>9. ASSUME NEW x \in DOMAIN n.pathOf \ pend PROVE Stands(n, t, x)
  <2>1. CASE x = e.id
    BY <1>4, <1>5, <1>8, <2>1 DEF Stands
  <2>2. CASE x # e.id
    <3>1. x \in DOMAIN c.pathOf /\ Stands(c, t, x)
      BY <1>2, <1>4, <1>9, <2>2
    <3> QED BY <1>4, <1>9, <2>2, <3>1 DEF Stands
  <2> QED BY <2>1, <2>2
<1>10. ASSUME NEW x \in Tracked(t) \ pend PROVE x \in DOMAIN n.pathOf
  <2> SUFFICES ASSUME x \notin DOMAIN n.pathOf PROVE FALSE
    OBVIOUS
  <2>1. x # e.id /\ x \in DOMAIN c.pathOf
    BY <1>3, <1>10 DEF Settled
  <2>2. Stands(c, t, x) /\ t[x] # Gone /\ x \in Id /\ c.pathOf[x] = ResolvePathFromCache(c, e)
    BY <1>2, <1>3, <1>10, <2>1, TrackedPlaces
  <2>3. Up(c, x) = Above(t[x]) /\ Last(c.pathOf[x]) = t[x].name
    BY <2>2 DEF Stands
  <2>4. Up(c, x) = Above(e) /\ Last(c.pathOf[x]) = e.name
    BY <1>1, <2>1, <2>2, AtPlace
  <2>5. t[x].parent = t[e.id].parent /\ t[x].name = t[e.id].name
    <3>1. Above(t[x]) = Above(e) /\ t[x].name = e.name
      BY <2>3, <2>4
    <3>2. t[x].parent = e.parent
      BY <3>1 DEF Above
    <3> QED BY <3>1, <3>2
  <2>6. t[x] = t[e.id]
    <3>1. /\ t[x] = [parent |-> t[x].parent, name |-> t[x].name]
          /\ t[e.id] = [parent |-> t[e.id].parent, name |-> t[e.id].name]
      BY <1>1, <2>2, Places
    <3> QED BY <2>5, <3>1
  <2> QED BY <1>1, <2>1, <2>2, <2>6
<1> QED BY <1>3, <1>6, <1>7, <1>9, <1>10 DEF Settled, IsMap

(* An entry settles its id, if its folder is in the cache. *)
LEMMA EntrySettles ==
  ASSUME MetadataApart, IsTree(tree), "takesOver" \notin TreeEvents,
         NEW from, NEW acc, Sound(from, acc), ~Escapes(acc.cache, tree),
         NEW id \in Id, NEW pend, Settled(acc.cache, tree, pend \cup {id}),
         id \in Tracked(tree) => tree[id].parent \in DOMAIN acc.cache.pathOf \cup {Root}
  PROVE  LET n == ApplyEntry(acc, EntryOf(id)).cache
         IN  Settled(n, tree, pend) /\ ~Escapes(n, tree) /\ KeepsFolders(acc.cache, n, tree)
<1> DEFINE c == acc.cache
           e == EntryOf(id)
           old == PathById(c, id)
           r == ApplyEntry(acc, e)
           next == ApplyFileChange(c, e)
<1>1. /\ acc = [cache |-> c, changed |-> acc.changed, renamed |-> acc.renamed]
      /\ Good(c) /\ ~Inverts(c, tree) /\ ~TakesOver(c, tree) /\ e.id = id
      /\ tree \in [Id -> Place \cup {Gone}]
  BY DEF Sound, EntryOf, IsTree
<1>2. /\ old = NoPath <=> id \notin DOMAIN c.pathOf
      /\ id \in DOMAIN c.pathOf => old = c.pathOf[id] /\ c.pathOf[id] \in Path
  BY <1>1, CachedPaths
<1>3. ASSUME id \notin Tracked(tree),
             r.cache = IF old = NoPath THEN c ELSE RemoveTree(c, old)
      PROVE  Settled(r.cache, tree, pend) /\ ~Escapes(r.cache, tree) /\ KeepsFolders(c, r.cache, tree)
  <2>1. r.cache = IF id \in DOMAIN c.pathOf THEN RemoveTree(c, c.pathOf[id]) ELSE c
    BY <1>2, <1>3
  <2> HIDE DEF r, old
  <2> QED BY <1>1, <1>3, <2>1, RemovalSettles
<1>4. CASE tree[id] = Gone
  <2>1. id \notin Tracked(tree)
    BY <1>4, TrackedPlaces
  <2>2. ~e.live
    BY <1>4 DEF EntryOf
  <2>3. r.cache = IF old = NoPath THEN c ELSE RemoveTree(c, old)
    BY <1>1, <2>2 DEF ApplyEntry, RemoveReported, Touched
  <2> QED BY <1>3, <2>1, <2>3
<1>5. CASE tree[id] # Gone
  <2>1. IsEntry(e) /\ e.live /\ e.parent = tree[id].parent /\ e.name = tree[id].name
    <3>1. tree[id].parent \in Folder \cup {Root, Outside} /\ tree[id].name \in AnyName
      BY <1>1, <1>5, Places
    <3> QED BY <1>5, <3>1 DEF IsEntry, IsPlace, EntryOf
  <2>2. EvictsNoFolder(c, e)
    BY <1>1, <1>5, <2>1 DEF TakesOver, EvictsNoFolder, ResolvePathFromCache
  <2> HIDE DEF e
  <2>3. Applied(c, e, next)
    <3>1. ~GoesIntoItself(c, e)
      BY <1>1, <1>5, <2>1, NothingGoesIntoItself
    <3> QED BY <1>1, <2>1, <3>1, ApplyFileChangeApplies
  <2>4. r.cache = next
    <3>1. Good(next)
      BY <2>3 DEF Applied
    <3>2. r = [cache |-> next, changed |-> acc.changed \cup Noted(c, id, next), renamed |-> r.renamed]
      BY <1>1, <2>1, <3>1, EntryNotes
    <3> QED BY <3>2
  <2>5. ResolvePathFromCache(c, e) = ResolvePathFromCache(c, tree[id])
    BY <2>1 DEF ResolvePathFromCache
  <2>6. CASE ResolvePathFromCache(c, e) \in {NoPath, Reserved}
    <3>1. id \notin Tracked(tree)
      <4> SUFFICES ASSUME id \in Tracked(tree) PROVE FALSE
        OBVIOUS
      <4>1. ~IsMetadata(tree[id])
        BY TrackedIs
      <4>2. ResolvePathFromCache(c, e) = NoPath
        BY <1>1, <1>5, <2>5, <2>6, <4>1, ResolvesMetadata
      <4>3. e.parent \in DOMAIN c.pathOf \cup {Root} /\ e.name \in AnyName
        BY <2>1 DEF IsEntry, IsPlace
      <4>4. <<e.name>> \in Path /\ \A p \in Path : Append(p, e.name) \in Path
        BY <4>3, PathsOfNames
      <4>5. ResolvePathFromCache(c, e) \in Path
        BY <1>1, <4>3, <4>4, CachedPaths DEF ResolvePathFromCache
      <4> QED BY <4>2, <4>5, RemoteTreeAssumption DEF Path
    <3>2. next = IF old = NoPath THEN c ELSE RemoveTree(c, old)
      BY <1>1, <2>6 DEF ApplyFileChange
    <3> QED BY <1>3, <2>4, <3>1, <3>2 DEF e
  <2>7. CASE ResolvePathFromCache(c, e) \notin {NoPath, Reserved}
    <3> HIDE DEF r, next
    <3>1. Settled(next, tree, pend) /\ ~Escapes(next, tree) /\ KeepsFolders(c, next, tree)
      BY <1>1, <1>5, <2>1, <2>2, <2>3, <2>7, PlacingSettles DEF next
    <3> QED BY <2>4, <3>1 DEF r, e
  <2> QED BY <2>6, <2>7
<1> QED BY <1>4, <1>5

(* A folder that is not cached comes in a page after only those that were
   before it in the feed. *)
LEMMA PageOrdered ==
  ASSUME NEW c, Good(c), NEW ids \in Seq(Id)
  PROVE  \E at \in [1..Len(ids) -> 1..Len(ids)] :
           /\ \A k \in 1..Len(ids) : PageOrder(c, ids)[k] = EntryOf(ids[at[k]])
           /\ \A n \in 1..Len(ids) : \E k \in 1..Len(ids) : at[k] = n
           /\ \A i, j \in 1..Len(ids) :
                i < j /\ ids[at[j]] \in Folder \ DOMAIN c.pathOf => at[i] < at[j]
<1> DEFINE rank == [id \in ToSet(ids) |-> Rank(c, id)]
           sorted == StableSort(ids, rank)
<1>1. \A k \in DOMAIN ids : ids[k] \in Id /\ ids[k] \in ToSet(ids)
  BY DEF ToSet
<1>2. /\ \A id \in Id : Rank(c, id) \in Nat /\ Rank(c, id) >= 1
      /\ \A id \in Folder \ DOMAIN c.pathOf : Rank(c, id) = 1
  <2>1. ASSUME NEW id \in Id PROVE Rank(c, id) \in Nat /\ Rank(c, id) >= 1
    <3>1. PathById(c, id) = NoPath \/ PathById(c, id) \in Seq(AnyName) \ {<<>>}
      BY CachedPaths DEF Path
    <3>2. PathById(c, id) \in Seq(AnyName) \ {<<>>} =>
            Len(PathById(c, id)) \in Nat /\ Len(PathById(c, id)) >= 1
      BY LenProperties, EmptySeq
    <3> QED BY <3>1, <3>2 DEF Rank
  <2>2. ASSUME NEW id \in Folder \ DOMAIN c.pathOf PROVE Rank(c, id) = 1
    BY <2>2, CachedPaths DEF Rank
  <2> QED BY <2>1, <2>2
<1>3. \A k \in DOMAIN ids : rank[ids[k]] = Rank(c, ids[k])
  BY <1>1
<1>4. PageOrder(c, ids) = [n \in DOMAIN ids |-> EntryOf(sorted[n])]
  BY DEF PageOrder
<1>5. DOMAIN ids = 1..Len(ids) /\ \A k \in DOMAIN ids : rank[ids[k]] \in Nat
  BY <1>1, <1>2, <1>3
<1> HIDE DEF rank
<1>6. PICK at \in [DOMAIN ids -> DOMAIN ids] :
        /\ \A k \in DOMAIN ids : sorted[k] = ids[at[k]]
        /\ \A n \in DOMAIN ids : \E k \in DOMAIN ids : at[k] = n
        /\ \A i, j \in DOMAIN ids : i < j => Precedes(ids, rank, at[i], at[j])
  BY <1>5, SortedOrder
<1> HIDE DEF sorted
<1>7. ASSUME NEW i \in DOMAIN ids, NEW j \in DOMAIN ids, i < j,
             ids[at[j]] \in Folder \ DOMAIN c.pathOf
      PROVE  at[i] < at[j]
  <2>1. Precedes(ids, rank, at[i], at[j]) /\ at[i] \in DOMAIN ids /\ at[j] \in DOMAIN ids
    BY <1>6, <1>7
  <2>2. rank[ids[at[j]]] = 1 /\ rank[ids[at[i]]] \in Nat /\ rank[ids[at[i]]] >= 1
    BY <1>1, <1>2, <1>3, <1>7, <2>1
  <2> QED BY <2>1, <2>2 DEF Precedes
<1>8. \A k \in DOMAIN ids : PageOrder(c, ids)[k] = EntryOf(ids[at[k]])
  BY <1>4, <1>6
<1>9. at \in [1..Len(ids) -> 1..Len(ids)]
  BY <1>5, <1>6
<1> QED BY <1>5, <1>6, <1>7, <1>8, <1>9

(* After each entry of a page, what has been shown is settled, if an id that
   is tracked does not come before its folder, or the folder is cached. *)
LEMMA FoldSettles ==
  ASSUME MetadataApart, IsTree(tree), "takesOver" \notin TreeEvents,
         NEW from, NEW start, Sound(from, start), ~Escapes(start.cache, tree),
         NEW L \in Nat, NEW o \in [1..L -> Id], NEW R,
         Settled(start.cache, tree, {o[j] : j \in 1..L} \cup R),
         NEW s, \A i \in 1..L : s[i] = EntryOf(o[i]),
         \A k \in 1..L : o[k] \in Tracked(tree) =>
           /\ tree[o[k]].parent \notin R
           /\ \A j \in (k + 1)..L : tree[o[k]].parent = o[j] => o[j] \in DOMAIN start.cache.pathOf,
         NEW g, Folded(g, start, s, 1..L)
  PROVE  Settled(g[1..L].cache, tree, R) /\ ~Escapes(g[1..L].cache, tree)
<1> DEFINE pend(k) == {o[j] : j \in (k + 1)..L} \cup R
           Fine(k) == /\ Sound(from, g[1..k]) /\ Settled(g[1..k].cache, tree, pend(k))
                      /\ ~Escapes(g[1..k].cache, tree)
                      /\ KeepsFolders(start.cache, g[1..k].cache, tree)
           Bad == {k \in 0..L : ~Fine(k)}
<1>1. Fine(0)
  <2>1. g[{}] = start /\ 1..0 = {}
    BY FoldStep
  <2>2. pend(0) = {o[j] : j \in 1..L} \cup R
    OBVIOUS
  <2> QED BY <2>1, <2>2 DEF KeepsFolders
<1>2. ASSUME NEW k \in 1..L, Fine(k - 1) PROVE Fine(k)
  <2> DEFINE acc == g[1..(k - 1)]
             id == o[k]
  <2>1. k \in Nat /\ k - 1 \in 0..L /\ (k - 1) + 1 = k
    OBVIOUS
  <2>2. g[1..k] = ApplyEntry(acc, EntryOf(id))
    <3>1. 1..k \in SUBSET (1..L) /\ 1..k # {} /\ k \in 1..k
      <4>1. k \in 1..k
        BY <2>1
      <4>2. \A i \in 1..k : i \in 1..L
        OBVIOUS
      <4> QED BY <4>1, <4>2
    <3>2. LastOf(1..k) \in 1..k /\ \A i \in 1..k : LastOf(1..k) >= i
      <4>1. k \in 1..k /\ \A i \in 1..k : k >= i
        OBVIOUS
      <4> QED BY <4>1 DEF LastOf, Max
    <3>3. LastOf(1..k) = k
      BY <3>1, <3>2
    <3>4. (1..k) \ {k} = 1..(k - 1)
      OBVIOUS
    <3>5. g[1..k] = ApplyEntry(g[(1..k) \ {LastOf(1..k)}], s[LastOf(1..k)])
      <4> DEFINE D == 1..L
      <4>1. 1..k \in SUBSET D /\ Folded(g, start, s, D)
        BY <3>1
      <4> HIDE DEF D
      <4>2. \A S \in SUBSET D : S # {} => g[S] = ApplyEntry(g[S \ {LastOf(S)}], s[LastOf(S)])
        BY <4>1, FoldStep
      <4> QED BY <3>1, <4>1, <4>2
    <3> QED BY <3>3, <3>4, <3>5
  <2>3. id \in Id /\ tree \in [Id -> Place \cup {Gone}]
        /\ \A a, b \in Id : tree[a] = tree[b] /\ tree[a] # Gone => a = b
    BY DEF IsTree
  <2>4. pend(k - 1) = pend(k) \cup {id}
    OBVIOUS
  <2>5. /\ Sound(from, acc) /\ Settled(acc.cache, tree, pend(k) \cup {id})
        /\ ~Escapes(acc.cache, tree) /\ KeepsFolders(start.cache, acc.cache, tree)
    BY <1>2, <2>4
  <2>6. Sound(from, g[1..k])
    BY <2>2, <2>3, <2>5, EntryIsSound
  <2>7. ASSUME id \in Tracked(tree) PROVE tree[id].parent \in DOMAIN acc.cache.pathOf \cup {Root}
    <3> DEFINE p == tree[id].parent
    <3>1. tree[id] # Gone /\ (p = Root \/ (p \in Tracked(tree) /\ p \in Folder))
      BY <2>7, TrackedPlaces
    <3>2. CASE p \in Tracked(tree) /\ p \in Folder /\ p \notin pend(k) \cup {id}
      BY <2>5, <3>2 DEF Settled
    <3>3. CASE p \in R
      BY <2>7, <3>3
    <3>4. CASE p = id
      <4>1. {id} \in (SUBSET Folder) \ {{}} => ~IsIn(tree, id, {id})
        BY DEF IsTree
      <4> QED BY <2>3, <3>1, <3>4, <4>1, RemoteTreeAssumption, Places DEF IsIn
    <3>5. CASE p \in Tracked(tree) /\ p \in Folder /\ \E j \in (k + 1)..L : p = o[j]
      <4>1. p \in DOMAIN start.cache.pathOf
        BY <2>7, <3>5
      <4> QED BY <2>5, <3>5, <4>1 DEF KeepsFolders
    <3> QED BY <3>1, <3>2, <3>3, <3>4, <3>5
  <2> HIDE DEF pend, acc, id
  <2>8. /\ Settled(g[1..k].cache, tree, pend(k)) /\ ~Escapes(g[1..k].cache, tree)
        /\ KeepsFolders(acc.cache, g[1..k].cache, tree)
    BY <2>2, <2>3, <2>5, <2>7, EntrySettles
  <2>9. KeepsFolders(start.cache, g[1..k].cache, tree)
    BY <2>5, <2>8 DEF KeepsFolders
  <2> QED BY <2>6, <2>8, <2>9 DEF acc
<1>3. Bad = {}
  <2> SUFFICES ASSUME Bad # {} PROVE FALSE
    OBVIOUS
  <2> HIDE DEF Fine
  <2>1. PICK k \in Bad : \A m \in Bad : k <= m
    <3>1. Bad \subseteq Nat
      OBVIOUS
    <3> HIDE DEF Bad
    <3> QED BY <3>1, Smallest
  <2>2. k \in 0..L /\ ~Fine(k)
    BY <2>1
  <2>3. k # 0
    BY <1>1, <2>2
  <2>4. k \in 1..L /\ k - 1 \in 0..L /\ ~(k <= k - 1)
    BY <2>2, <2>3
  <2>5. Fine(k - 1)
    BY <2>1, <2>4
  <2> QED BY <1>2, <2>2, <2>4, <2>5
<1>4. L \in 0..L
  OBVIOUS
<1>5. Fine(L)
  <2> HIDE DEF Fine
  <2> QED BY <1>3, <1>4
<1>6. pend(L) = R
  OBVIOUS
<1> HIDE DEF pend
<1> QED BY <1>5, <1>6

-----------------------------------------------------------------------------
(* A feed that mentions an id once, and a folder before what is in it. *)
Ordered(f, t) ==
  /\ \A i, j \in DOMAIN f : i < j => f[i] # f[j]
  /\ \A i, j \in DOMAIN f : i < j /\ t[f[i]] # Gone => t[f[i]].parent # f[j]

(* The rest of a feed is ordered as it was. *)
LEMMA RestOfFeed ==
  ASSUME NEW f \in Seq(Id), NEW t, Ordered(f, t), NEW n \in 1..Len(f)
  PROVE  LET r == SubSeq(f, n + 1, Len(f))
         IN  /\ r \in Seq(Id) /\ Ordered(r, t)
             /\ ToSet(r) = {f[i] : i \in (n + 1)..Len(f)}
<1> DEFINE r == SubSeq(f, n + 1, Len(f))
<1>1. n \in Nat /\ n <= Len(f) /\ Len(f) \in Nat /\ DOMAIN f = 1..Len(f)
  OBVIOUS
<1>2. r \in Seq(Id) /\ Len(r) = Len(f) - n /\ \A i \in 1..(Len(f) - n) : r[i] = f[n + i]
  <2>1. /\ SubSeq(f, n + 1, Len(f)) \in Seq(Id) /\ Len(SubSeq(f, n + 1, Len(f))) = Len(f) - n
        /\ \A i \in 1..(Len(f) - n) : SubSeq(f, n + 1, Len(f))[i] = f[n + i]
    BY <1>1, Suffix
  <2> QED BY <2>1
<1> HIDE DEF r
<1>3. DOMAIN r = 1..(Len(f) - n)
  BY <1>1, <1>2
<1>4. \A i \in DOMAIN r : n + i \in (n + 1)..Len(f) /\ n + i \in DOMAIN f /\ r[i] = f[n + i]
  BY <1>1, <1>2, <1>3
<1>5. Ordered(r, t)
  <2>1. ASSUME NEW i \in DOMAIN r, NEW j \in DOMAIN r, i < j PROVE n + i < n + j
    BY <1>1, <1>3, <2>1
  <2> QED BY <1>4, <2>1 DEF Ordered
<1>6. ToSet(r) = {f[i] : i \in (n + 1)..Len(f)}
  <2>1. \A i \in (n + 1)..Len(f) : i - n \in DOMAIN r /\ n + (i - n) = i
    BY <1>1, <1>3
  <2>2. ToSet(r) = {r[i] : i \in DOMAIN r}
    BY DEF ToSet
  <2>3. \A i \in (n + 1)..Len(f) : f[i] = r[i - n] /\ i - n \in DOMAIN r
    BY <1>4, <2>1
  <2> QED BY <1>4, <2>2, <2>3
<1> QED BY <1>2, <1>5, <1>6 DEF r

(* A page settles what it shows. *)
LEMMA PageSettles ==
  ASSUME MetadataApart, "takesOver" \notin TreeEvents, CacheInv,
         Settled(cache, tree, ToSet(feed)), Ordered(feed, tree), ~Escapes(cache, tree),
         NEW n \in DOMAIN feed, ApplyIdPage(n)
  PROVE  Settled(cache', tree, ToSet(feed')) /\ ~Escapes(cache', tree) /\ Ordered(feed', tree)
<1> DEFINE ids == SubSeq(feed, 1, n)
           R == ToSet(SubSeq(feed, n + 1, Len(feed)))
           s == PageOrder(cache, ids)
<1>1. /\ feed \in Seq(Id) /\ n \in 1..Len(feed) /\ Len(feed) \in Nat /\ n \in Nat
      /\ IsTree(tree) /\ Good(cache) /\ \A i \in DOMAIN feed : feed[i] \in Id
      /\ DOMAIN feed = 1..Len(feed)
  BY DEF CacheInv, ApplyIdPage
<1>2. ids \in Seq(Id) /\ Len(ids) = n /\ \A i \in 1..n : ids[i] = feed[i]
  <2>1. \A i \in 1..n : feed[i] \in Id
    BY <1>1
  <2> QED BY <1>1, <2>1, SubSeqProperties
<1>3. Ordered(feed', tree) /\ ToSet(feed') = R /\ R = {feed[i] : i \in (n + 1)..Len(feed)}
  BY <1>1, RestOfFeed DEF ApplyIdPage
<1> HIDE DEF ids, R
<1>4. DOMAIN s = 1..n
  BY <1>1, <1>2, PageEntries
<1>50. PICK at \in [1..Len(ids) -> 1..Len(ids)] :
        /\ \A k \in 1..Len(ids) : s[k] = EntryOf(ids[at[k]])
        /\ \A m \in 1..Len(ids) : \E k \in 1..Len(ids) : at[k] = m
        /\ \A i, j \in 1..Len(ids) :
             i < j /\ ids[at[j]] \in Folder \ DOMAIN cache.pathOf => at[i] < at[j]
  <2> HIDE DEF s
  <2> QED BY <1>1, <1>2, PageOrdered DEF s
<1> HIDE DEF s
<1>5. /\ \A k \in 1..n : /\ s[k] = EntryOf(ids[at[k]]) /\ at[k] \in 1..n /\ at[k] \in DOMAIN feed
                          /\ ids[at[k]] = feed[at[k]] /\ feed[at[k]] \in Id
      /\ \A m \in 1..n : \E k \in 1..n : at[k] = m
      /\ \A i, j \in 1..n : i < j /\ ids[at[j]] \in Folder \ DOMAIN cache.pathOf => at[i] < at[j]
  <2>1. \A k \in 1..n : at[k] \in 1..n
    BY <1>2, <1>50
  <2>2. \A k \in 1..n : at[k] \in DOMAIN feed
    BY <1>1, <2>1
  <2> QED BY <1>1, <1>2, <1>50, <2>1, <2>2
<1> DEFINE o == [k \in 1..n |-> feed[at[k]]]
           from == IF reading THEN base ELSE cache
           start == SoFar
<1>6. /\ o \in [1..n -> Id] /\ \A k \in 1..n : o[k] = feed[at[k]] /\ s[k] = EntryOf(o[k])
  BY <1>1, <1>2, <1>5
<1>7. Sound(from, start) /\ start.cache = cache
  <2>1. /\ SoFar = [cache |-> cache, changed |-> SoFar.changed, renamed |-> SoFar.renamed]
        /\ SoFar.cache = cache /\ SoFar.changed = IF reading THEN changedPaths ELSE {}
    BY DEF SoFar
  <2>2. Tells(base, cache, changedPaths) => Tells(from, cache, SoFar.changed)
    BY <2>1 DEF Tells
  <2> QED BY <2>1, <2>2 DEF CacheInv, Sound
<1>8. PICK g : Folded(g, start, s, 1..n) /\ FoldLeft(ApplyEntry, start, s) = g[1..n]
  BY <1>1, <1>4, FoldLeftIs
<1>9. cache' = g[1..n].cache
  BY <1>8 DEF ApplyIdPage, Publish, ids, s
<1> HIDE DEF o, from, start
<1>10. {o[j] : j \in 1..n} \cup R = ToSet(feed)
  <2>1. ToSet(feed) = {feed[i] : i \in 1..Len(feed)}
    BY <1>1 DEF ToSet
  <2>2. ASSUME NEW i \in 1..Len(feed) PROVE feed[i] \in {o[j] : j \in 1..n} \cup R
    <3>1. CASE i \in 1..n
      <4>1. PICK k \in 1..n : at[k] = i
        BY <1>5, <3>1
      <4>2. o[k] = feed[i]
        BY <1>6, <4>1
      <4> QED BY <4>2
    <3>2. CASE i \notin 1..n
      <4>1. i \in (n + 1)..Len(feed)
        BY <1>1, <3>2
      <4> QED BY <1>3, <4>1
    <3> QED BY <3>1, <3>2
  <2>3. \A j \in 1..n : o[j] \in ToSet(feed)
    BY <1>1, <1>5, <1>6, <2>1
  <2>4. \A x \in R : x \in ToSet(feed)
    BY <1>1, <1>3, <2>1
  <2> QED BY <2>1, <2>2, <2>3, <2>4
<1>11. ASSUME NEW k \in 1..n, o[k] \in Tracked(tree)
       PROVE  /\ tree[o[k]].parent \notin R
              /\ \A j \in (k + 1)..n : tree[o[k]].parent = o[j] => o[j] \in DOMAIN start.cache.pathOf
  <2> DEFINE p == tree[o[k]].parent
  <2>1. tree[o[k]] # Gone /\ (p = Root \/ p \in Folder)
    BY <1>1, <1>11, TrackedPlaces
  <2>2. o[k] = feed[at[k]] /\ at[k] \in 1..n /\ at[k] \in DOMAIN feed /\ tree[feed[at[k]]] # Gone
    BY <1>1, <1>5, <1>6, <2>1
  <2>3. ASSUME p \in R PROVE FALSE
    <3>1. PICK i \in (n + 1)..Len(feed) : p = feed[i]
      BY <1>3, <2>3
    <3>2. at[k] < i /\ i \in DOMAIN feed
      BY <1>1, <2>2, <3>1
    <3> QED BY <2>2, <3>1, <3>2 DEF Ordered
  <2>4. ASSUME NEW j \in (k + 1)..n, p = o[j], o[j] \notin DOMAIN start.cache.pathOf PROVE FALSE
    <3>1. j \in 1..n /\ k < j
      BY <1>1
    <3>2. o[j] = feed[at[j]] /\ at[j] \in 1..n /\ at[j] \in DOMAIN feed /\ ids[at[j]] = feed[at[j]]
      BY <1>1, <1>2, <1>5, <1>6, <3>1
    <3>3. p \in Id
      BY <1>6, <2>4, <3>1
    <3>4. p \in Folder
      BY <2>1, <3>3, CacheAssumption
    <3>5. ids[at[j]] \in Folder \ DOMAIN cache.pathOf
      BY <1>7, <2>4, <3>2, <3>4
    <3>6. at[k] < at[j]
      BY <1>5, <3>1, <3>5
    <3> QED BY <2>2, <2>4, <3>2, <3>6 DEF Ordered
  <2> QED BY <2>3, <2>4
<1>12. Settled(g[1..n].cache, tree, R) /\ ~Escapes(g[1..n].cache, tree)
  BY <1>1, <1>6, <1>7, <1>8, <1>10, <1>11, FoldSettles
<1> QED BY <1>3, <1>9, <1>12

-----------------------------------------------------------------------------
(* The folders above an id. *)

(* The folders above an id, given those of the row before. *)
AboveFrom(t, row, m) ==
  IF t[m] = Gone \/ t[m].parent \notin Folder THEN {}
  ELSE {t[m].parent} \cup row[t[m].parent]

FolderDepth == Cardinality(Folder)

AboveTable(t, up) ==
  /\ up \in [0..FolderDepth -> [Id -> SUBSET Folder]]
  /\ \A m \in Id : up[0][m] = {}
  /\ \A n \in 1..FolderDepth : \A m \in Id : up[n][m] = AboveFrom(t, up[n - 1], m)

(* The folders above an id are the last row of a table as well. *)
LEMMA AboveTableExists ==
  ASSUME NEW t
  PROVE  \E up : AboveTable(t, up) /\ \A id : Ancestors(t, id) = up[FolderDepth][id]
<1> DEFINE X == [Id -> SUBSET Folder]
           first == [m \in Id |-> {}]
           step == [row \in X |-> [m \in Id |-> AboveFrom(t, row, m)]]
           Row(up, n) ==
             [m \in Id |-> IF n = 0 \/ t[m] = Gone \/ t[m].parent \notin Folder THEN {}
                           ELSE {t[m].parent} \cup up[n - 1][t[m].parent]]
           Made(up) == up = [n \in 0..FolderDepth |-> Row(up, n)]
           up0 == CHOOSE up : Made(up)
<1>1. FolderDepth \in Nat /\ Folder \subseteq Id
  <2>1. IsFiniteSet(Folder)
    BY RemoteTreeAssumption, CacheAssumption, FS_Subset
  <2> QED BY <2>1, CacheAssumption, FS_CardinalityType DEF FolderDepth
<1>2. first \in X /\ step \in [X -> X]
  <2>1. ASSUME NEW row \in X, NEW m \in Id PROVE AboveFrom(t, row, m) \in SUBSET Folder
    <3>1. t[m].parent \in Folder => row[t[m].parent] \in SUBSET Folder
      BY <1>1
    <3> QED BY <3>1 DEF AboveFrom
  <2> QED BY <2>1
<1>3. PICK g \in [0..FolderDepth -> X] : g[0] = first /\ \A n \in 1..FolderDepth : g[n] = step[g[n - 1]]
  <2> HIDE DEF X, first, step, Row, Made, up0
  <2>1. PICK g : IsTable(X, step, first, FolderDepth, g)
    BY <1>1, <1>2, TableExists
  <2> QED BY <2>1 DEF IsTable
<1>4. ASSUME NEW n \in 0..FolderDepth PROVE g[n] = Row(g, n)
  <2>1. CASE n = 0
    BY <1>3, <2>1
  <2>2. CASE n # 0
    <3>1. n \in 1..FolderDepth /\ g[n - 1] \in X
      BY <1>1, <1>3, <2>2
    <3>2. g[n] = [m \in Id |-> AboveFrom(t, g[n - 1], m)]
      BY <1>3, <3>1
    <3> QED BY <2>2, <3>2 DEF AboveFrom
  <2> QED BY <2>1, <2>2
<1>5. Made(g)
  <2> HIDE DEF Row
  <2> QED BY <1>4
<1>6. Made(up0)
  <2> HIDE DEF Made
  <2> QED BY <1>5
<1>7. \A id : Ancestors(t, id) = up0[FolderDepth][id]
  BY DEF Ancestors, FolderDepth
<1> HIDE DEF up0
<1>8. DOMAIN up0 = 0..FolderDepth /\ \A n \in 0..FolderDepth : up0[n] = Row(up0, n)
  <2> HIDE DEF Row
  <2> QED BY <1>6
<1>9. 0 \in 0..FolderDepth
  BY <1>1
<1>10. ASSUME NEW m \in Id PROVE up0[0][m] = {}
  BY <1>8, <1>9
<1>11. ASSUME NEW n \in 1..FolderDepth, NEW m \in Id PROVE up0[n][m] = AboveFrom(t, up0[n - 1], m)
  <2>1. n \in 0..FolderDepth /\ n # 0
    OBVIOUS
  <2>2. up0[n] = Row(up0, n)
    BY <1>8, <2>1
  <2> QED BY <2>1, <2>2 DEF AboveFrom
<1>12. up0 \in [0..FolderDepth -> X]
  <2> DEFINE Bad == {n \in 0..FolderDepth : up0[n] \notin X}
  <2>1. SUFFICES ASSUME Bad # {} PROVE FALSE
    BY <1>6
  <2>2. PICK n \in Bad : \A m \in Bad : n <= m
    <3>1. Bad \subseteq Nat
      OBVIOUS
    <3> HIDE DEF Bad
    <3> QED BY <2>1, <3>1, Smallest
  <2>3. n \in 0..FolderDepth /\ up0[n] \notin X
    BY <2>2
  <2>4. n # 0
    BY <1>8, <1>9, <1>10, <2>3
  <2>5. n \in 1..FolderDepth /\ n - 1 \in 0..FolderDepth /\ ~(n <= n - 1)
    BY <1>1, <2>3, <2>4
  <2>6. up0[n - 1] \in X
    <3> HIDE DEF X
    <3> QED BY <2>2, <2>5
  <2>7. \A m \in Id : AboveFrom(t, up0[n - 1], m) \in SUBSET Folder
    <3> TAKE m \in Id
    <3>1. t[m].parent \in Folder => up0[n - 1][t[m].parent] \in SUBSET Folder
      BY <1>1, <2>6
    <3> QED BY <3>1 DEF AboveFrom
  <2>8. up0[n] = [m \in Id |-> up0[n][m]]
    BY <1>8, <2>3
  <2> HIDE DEF Row
  <2> QED BY <1>11, <2>3, <2>5, <2>7, <2>8
<1> QED BY <1>7, <1>10, <1>11, <1>12 DEF AboveTable

(* What is right in a folder is inside it, and of what is inside one, it or
   its folder is right in it. *)
LEMMA InsideIsNested ==
  ASSUME NEW t, NEW f \in Id, NEW x \in Id, t[x] # Gone
  PROVE  /\ f \in Folder /\ t[x].parent = f => x \in Inside(t, f)
         /\ x \in Inside(t, f) => /\ t[x].parent \in Folder
                                  /\ \/ t[x].parent = f
                                     \/ t[t[x].parent] # Gone => t[x].parent \in Inside(t, f)
<1>1. PICK up : AboveTable(t, up) /\ \A id : Ancestors(t, id) = up[FolderDepth][id]
  BY AboveTableExists
<1>2. FolderDepth \in Nat /\ Folder \subseteq Id
  <2>1. IsFiniteSet(Folder)
    BY RemoteTreeAssumption, CacheAssumption, FS_Subset
  <2> QED BY <2>1, CacheAssumption, FS_CardinalityType DEF FolderDepth
<1>3. FolderDepth # 0 => /\ FolderDepth \in 1..FolderDepth
                         /\ Ancestors(t, x) = AboveFrom(t, up[FolderDepth - 1], x)
  <2> SUFFICES ASSUME FolderDepth # 0
               PROVE  /\ FolderDepth \in 1..FolderDepth
                      /\ Ancestors(t, x) = AboveFrom(t, up[FolderDepth - 1], x)
    OBVIOUS
  <2>1. FolderDepth \in 1..FolderDepth
    BY <1>2
  <2> QED BY <1>1, <2>1 DEF AboveTable
<1>4. ASSUME f \in Folder, t[x].parent = f PROVE x \in Inside(t, f)
  <2>1. FolderDepth # 0
    <3>1. IsFiniteSet(Folder)
      BY RemoteTreeAssumption, CacheAssumption, FS_Subset
    <3> QED BY <1>4, <3>1, FS_EmptySet DEF FolderDepth
  <2> QED BY <1>3, <1>4, <2>1 DEF AboveFrom, Inside
<1>5. ASSUME NEW n \in 1..FolderDepth PROVE \A m \in Id : up[n - 1][m] \subseteq up[n][m]
  <2> DEFINE Bad == {k \in 1..FolderDepth : \E m \in Id : ~(up[k - 1][m] \subseteq up[k][m])}
  <2>1. SUFFICES ASSUME Bad # {} PROVE FALSE
    OBVIOUS
  <2>2. PICK k \in Bad : \A l \in Bad : k <= l
    <3>1. Bad \subseteq Nat
      OBVIOUS
    <3> HIDE DEF Bad
    <3> QED BY <2>1, <3>1, Smallest
  <2>3. PICK m \in Id : k \in 1..FolderDepth /\ ~(up[k - 1][m] \subseteq up[k][m])
    BY <2>2
  <2>4. k # 1
    BY <1>1, <2>3 DEF AboveTable
  <2>5. k - 1 \in 1..FolderDepth /\ ~(k <= k - 1)
    BY <1>2, <2>3, <2>4
  <2>6. \A l \in Id : up[(k - 1) - 1][l] \subseteq up[k - 1][l]
    BY <2>2, <2>5
  <2>7. up[k][m] = AboveFrom(t, up[k - 1], m) /\ up[k - 1][m] = AboveFrom(t, up[(k - 1) - 1], m)
    BY <1>1, <2>3, <2>5 DEF AboveTable
  <2> HIDE DEF Bad
  <2> QED BY <1>2, <2>3, <2>6, <2>7 DEF AboveFrom
<1>6. ASSUME x \in Inside(t, f)
      PROVE  /\ t[x].parent \in Folder
             /\ \/ t[x].parent = f
                \/ t[t[x].parent] # Gone => t[x].parent \in Inside(t, f)
  <2>1. f \in Ancestors(t, x)
    BY <1>6 DEF Inside
  <2>2. FolderDepth # 0
    BY <1>1, <2>1 DEF AboveTable
  <2>3. t[x].parent \in Folder /\ (t[x].parent = f \/ f \in up[FolderDepth - 1][t[x].parent])
    BY <1>3, <2>1, <2>2 DEF AboveFrom
  <2>4. t[x].parent \in Id /\ up[FolderDepth - 1][t[x].parent] \subseteq Ancestors(t, t[x].parent)
    BY <1>1, <1>2, <1>3, <1>5, <2>2, <2>3
  <2> QED BY <2>3, <2>4 DEF Inside
<1> QED BY <1>4, <1>6

(* A feed without an id is the feed, its order kept, without that id. *)
LEMMA RemoveFirstIs ==
  ASSUME NEW f \in Seq(Id), \A i, j \in DOMAIN f : i < j => f[i] # f[j], NEW id \in Id
  PROVE  LET r == RemoveFirst(f, id)
         IN  /\ r \in Seq(Id)
             /\ \E at \in [1..Len(r) -> DOMAIN f] :
                  /\ \A i \in 1..Len(r) : r[i] = f[at[i]] /\ r[i] # id
                  /\ \A i, j \in 1..Len(r) : i < j => at[i] < at[j]
                  /\ \A k \in DOMAIN f : f[k] # id => \E i \in 1..Len(r) : at[i] = k
<1> DEFINE r == RemoveFirst(f, id)
<1>1. DOMAIN f = 1..Len(f) /\ Len(f) \in Nat /\ \A i \in DOMAIN f : f[i] \in Id
  OBVIOUS
<1>2. CASE \E i \in 1..Len(f) : f[i] = id
  <2> DEFINE I == {i \in 1..Len(f) : f[i] = id}
             n == Min(I)
  <2>1. PICK m \in I : \A i \in I : m <= i
    <3>1. I \subseteq Nat /\ I # {}
      BY <1>2
    <3> HIDE DEF I
    <3> QED BY <3>1, Smallest
  <2>2. n \in I
    <3> HIDE DEF I
    <3> QED BY <2>1 DEF Min
  <2>3. r = RemoveAt(f, n)
    BY <1>2 DEF RemoveFirst, SelectInSeq
  <2>4. n \in 1..Len(f) /\ f[n] = id
    BY <2>2
  <2> HIDE DEF n, I
  <2> DEFINE a == SubSeq(f, 1, n - 1)
             b == SubSeq(f, n + 1, Len(f))
             at == [i \in 1..(Len(f) - 1) |-> IF i < n THEN i ELSE i + 1]
  <2>5. a \in Seq(Id) /\ Len(a) = n - 1 /\ \A i \in 1..(n - 1) : a[i] = f[i]
    <3>1. \A i \in 1..(n - 1) : f[i] \in Id
      BY <1>1, <2>4
    <3>2. 1 \in Int /\ n - 1 \in Int /\ n - 1 \in Nat
      BY <2>4
    <3> QED BY <3>1, <3>2, SubSeqProperties
  <2>6. b \in Seq(Id) /\ Len(b) = Len(f) - n /\ \A i \in 1..(Len(f) - n) : b[i] = f[n + i]
    <3>1. n \in Nat /\ n <= Len(f)
      BY <2>4
    <3>2. /\ SubSeq(f, n + 1, Len(f)) \in Seq(Id) /\ Len(SubSeq(f, n + 1, Len(f))) = Len(f) - n
          /\ \A i \in 1..(Len(f) - n) : SubSeq(f, n + 1, Len(f))[i] = f[n + i]
      BY <3>1, Suffix
    <3> QED BY <3>2
  <2>7. r = a \o b
    BY <2>3 DEF RemoveAt
  <2> HIDE DEF a, b, r
  <2>8. /\ r \in Seq(Id) /\ Len(r) = Len(f) - 1
        /\ \A i \in 1..(Len(f) - 1) : r[i] = IF i < n THEN f[i] ELSE f[i + 1]
    <3>1. r \in Seq(Id) /\ Len(r) = Len(a) + Len(b)
          /\ \A i \in 1..Len(r) : r[i] = IF i <= Len(a) THEN a[i] ELSE b[i - Len(a)]
      <4>1. /\ a \o b \in Seq(Id) /\ Len(a \o b) = Len(a) + Len(b)
            /\ \A i \in 1..(Len(a) + Len(b)) : (a \o b)[i] = IF i <= Len(a) THEN a[i] ELSE b[i - Len(a)]
        BY <2>5, <2>6, ConcatProperties
      <4>2. 1..Len(r) = 1..(Len(a) + Len(b))
        BY <2>7, <4>1
      <4> QED BY <2>7, <4>1, <4>2
    <3>2. Len(r) = Len(f) - 1
      BY <1>1, <2>4, <2>5, <2>6, <3>1
    <3>3. ASSUME NEW i \in 1..(Len(f) - 1), i < n PROVE r[i] = f[i]
      <4>1. i \in 1..Len(r) /\ i <= Len(a) /\ i \in 1..(n - 1)
        BY <1>1, <2>4, <2>5, <3>2, <3>3
      <4> QED BY <2>5, <3>1, <4>1
    <3>4. ASSUME NEW i \in 1..(Len(f) - 1), ~(i < n) PROVE r[i] = f[i + 1]
      <4>1. i \in 1..Len(r) /\ ~(i <= Len(a)) /\ i - Len(a) \in 1..(Len(f) - n)
            /\ n + (i - Len(a)) = i + 1
        BY <1>1, <2>4, <2>5, <3>2, <3>4
      <4>2. r[i] = b[i - Len(a)] /\ b[i - Len(a)] = f[n + (i - Len(a))]
        BY <2>6, <3>1, <4>1
      <4> QED BY <4>1, <4>2
    <3> QED BY <3>1, <3>2, <3>3, <3>4
  <2>9. ASSUME NEW i \in 1..(Len(f) - 1)
        PROVE  at[i] \in DOMAIN f /\ r[i] = f[at[i]] /\ at[i] # n
    BY <1>1, <2>4, <2>8
  <2>10. at \in [1..(Len(f) - 1) -> DOMAIN f]
    BY <2>9
  <2>11. \A i, j \in 1..(Len(f) - 1) : i < j => at[i] < at[j]
    BY <1>1, <2>4
  <2>12. ASSUME NEW k \in DOMAIN f, f[k] # id PROVE \E i \in 1..(Len(f) - 1) : at[i] = k
    <3>1. k # n /\ k \in 1..Len(f)
      BY <1>1, <2>4, <2>12
    <3>2. CASE k < n
      <4>1. k \in 1..(Len(f) - 1) /\ at[k] = k
        BY <1>1, <2>4, <3>1, <3>2
      <4> QED BY <4>1
    <3>3. CASE ~(k < n)
      <4>1. k - 1 \in 1..(Len(f) - 1) /\ at[k - 1] = k
        BY <1>1, <2>4, <3>1, <3>3
      <4> QED BY <4>1
    <3> QED BY <3>2, <3>3
  <2> HIDE DEF at
  <2>13. \A i \in 1..(Len(f) - 1) : r[i] # id
    <3> TAKE i \in 1..(Len(f) - 1)
    <3>1. at[i] \in DOMAIN f /\ r[i] = f[at[i]] /\ at[i] # n /\ n \in DOMAIN f
      BY <1>1, <2>4, <2>9
    <3>2. at[i] < n \/ n < at[i]
      BY <1>1, <3>1
    <3> QED BY <2>4, <3>1, <3>2
  <2>14. 1..Len(r) = 1..(Len(f) - 1)
    BY <2>8
  <2>15. /\ at \in [1..Len(r) -> DOMAIN f]
         /\ \A i \in 1..Len(r) : r[i] = f[at[i]] /\ r[i] # id
         /\ \A i, j \in 1..Len(r) : i < j => at[i] < at[j]
         /\ \A k \in DOMAIN f : f[k] # id => \E i \in 1..Len(r) : at[i] = k
    BY <2>9, <2>10, <2>11, <2>12, <2>13, <2>14
  <2> QED BY <2>8, <2>15 DEF r
<1>3. CASE ~\E i \in 1..Len(f) : f[i] = id
  <2>1. r = f
    BY <1>3 DEF RemoveFirst
  <2> DEFINE at == [i \in 1..Len(f) |-> i]
  <2>2. /\ at \in [1..Len(f) -> DOMAIN f]
        /\ \A i \in 1..Len(f) : f[i] = f[at[i]] /\ f[i] # id
        /\ \A i, j \in 1..Len(f) : i < j => at[i] < at[j]
        /\ \A k \in DOMAIN f : f[k] # id => \E i \in 1..Len(f) : at[i] = k
    BY <1>1, <1>3
  <2> HIDE DEF at
  <2> QED BY <2>1, <2>2
<1> QED BY <1>2, <1>3

(* A mention keeps a feed in order, if what is in the folder is not in it. *)
LEMMA MentionIsOrdered ==
  ASSUME NEW f \in Seq(Id), NEW t, Ordered(f, t), NEW id \in Id, NEW u,
         \A x \in Id \ {id} : u[x] \in {t[x], Gone},
         \A x \in Id : u[x] # Gone /\ u[x].parent = id => x \notin ToSet(f)
  PROVE  Ordered(Mention(f, id), u) /\ ToSet(Mention(f, id)) = ToSet(f) \cup {id}
<1> DEFINE r == RemoveFirst(f, id)
           m == Mention(f, id)
           L == Len(r)
<1>1. /\ r \in Seq(Id)
      /\ \E at \in [1..L -> DOMAIN f] :
           /\ \A i \in 1..L : r[i] = f[at[i]] /\ r[i] # id
           /\ \A i, j \in 1..L : i < j => at[i] < at[j]
           /\ \A k \in DOMAIN f : f[k] # id => \E i \in 1..L : at[i] = k
  BY RemoveFirstIs DEF Ordered
<1>2. m = Append(r, id)
  BY DEF Mention
<1> HIDE DEF r, m
<1>3. PICK at \in [1..L -> DOMAIN f] :
        /\ \A i \in 1..L : r[i] = f[at[i]] /\ r[i] # id
        /\ \A i, j \in 1..L : i < j => at[i] < at[j]
        /\ \A k \in DOMAIN f : f[k] # id => \E i \in 1..L : at[i] = k
  BY <1>1
<1>4. L \in Nat /\ DOMAIN m = 1..(L + 1) /\ m[L + 1] = id /\ \A i \in 1..L : m[i] = r[i]
  BY <1>1, <1>2
<1>5. \A i \in 1..L : at[i] \in DOMAIN f /\ m[i] = f[at[i]] /\ m[i] # id /\ m[i] \in Id /\ m[i] \in ToSet(f)
  <2>1. \A k \in DOMAIN f : f[k] \in Id /\ f[k] \in ToSet(f)
    BY DEF ToSet
  <2> QED BY <1>3, <1>4, <2>1
<1> HIDE DEF L
<1>6. ASSUME NEW i \in DOMAIN m, NEW j \in DOMAIN m, i < j
      PROVE  m[i] # m[j] /\ (u[m[i]] # Gone => u[m[i]].parent # m[j])
  <2>1. i \in 1..L
    BY <1>4, <1>6
  <2>2. CASE j = L + 1
    BY <1>4, <1>5, <2>1, <2>2
  <2>3. CASE j # L + 1
    <3>1. j \in 1..L
      BY <1>4, <2>3
    <3>2. at[i] < at[j]
      BY <1>3, <1>6, <2>1, <3>1
    <3>3. u[m[i]] \in {t[m[i]], Gone}
      BY <1>5, <2>1
    <3> QED BY <1>5, <2>1, <3>1, <3>2, <3>3 DEF Ordered
  <2> QED BY <2>2, <2>3
<1>7. ToSet(m) = ToSet(f) \cup {id}
  <2>1. \A x : x \in ToSet(m) <=> \E i \in 1..(L + 1) : m[i] = x
    BY <1>4 DEF ToSet
  <2>2. \A x : x \in ToSet(f) <=> \E i \in DOMAIN f : f[i] = x
    BY DEF ToSet
  <2>3. ASSUME NEW x \in ToSet(m) PROVE x \in ToSet(f) \cup {id}
    <3>1. PICK i \in 1..(L + 1) : m[i] = x
      BY <2>1, <2>3
    <3>2. i \in 1..L \/ i = L + 1
      BY <1>4
    <3> QED BY <1>4, <1>5, <3>1, <3>2
  <2>4. id \in ToSet(m)
    <3>1. L + 1 \in 1..(L + 1)
      BY <1>4
    <3> QED BY <1>4, <2>1, <3>1
  <2>5. ASSUME NEW x \in ToSet(f), x # id PROVE x \in ToSet(m)
    <3>1. PICK k \in DOMAIN f : f[k] = x
      BY <2>2
    <3>2. PICK i \in 1..L : at[i] = k
      BY <1>3, <2>5, <3>1
    <3>3. i \in 1..(L + 1) /\ m[i] = x
      BY <1>4, <1>5, <3>1, <3>2
    <3> QED BY <2>1, <3>3
  <2> QED BY <2>3, <2>4, <2>5
<1> QED BY <1>6, <1>7 DEF Ordered, m

-----------------------------------------------------------------------------
(* Another client's change, and a full scan. *)

(* When one id changes, and what goes with it, nothing else comes in. *)
LEMMA NothingElseComes ==
  ASSUME NEW t \in [Id -> Place \cup {Gone}], NEW u \in [Id -> Place \cup {Gone}], NEW id \in Id,
         \A x \in Id \ {id} : u[x] \in {t[x], Gone},
         \A x \in Id : u[x] # Gone /\ u[x].parent = id => PathsIn(t)[id] # NoPath,
         NEW y \in Id \ {id}, PathsIn(u)[y] # NoPath
  PROVE  u[y] = t[y] /\ PathsIn(t)[y] # NoPath
<1> DEFINE P == PathsIn(t)
           Q == PathsIn(u)
           New(x) == x \in Id \ {id} /\ Q[x] # NoPath /\ P[x] = NoPath
           Bad == {n \in Nat : \E x : New(x) /\ Len(Q[x]) = n}
<1>1. Q \in [Id -> Path \cup {NoPath}] /\ \A x \in Id : Q[x] # NoPath => Len(Q[x]) \in Nat
  <2>1. Q \in [Id -> Path \cup {NoPath}]
    BY PathsTyped
  <2>2. \A p \in Path : Len(p) \in Nat
    BY LenProperties DEF Path
  <2> QED BY <2>1, <2>2
<1> HIDE DEF P, Q
<1>2. ASSUME NEW x \in Id \ {id}, Q[x] # NoPath PROVE u[x] = t[x] /\ t[x] # Gone
  BY <1>2, PathsAreNested DEF Q
<1>3. Bad = {}
  <2> SUFFICES ASSUME Bad # {} PROVE FALSE
    OBVIOUS
  <2>1. PICK n \in Bad : \A m \in Bad : n <= m
    <3>1. Bad \subseteq Nat
      OBVIOUS
    <3> HIDE DEF Bad
    <3> QED BY <3>1, Smallest
  <2>2. PICK x : New(x) /\ Len(Q[x]) = n
    BY <2>1
  <2>3. x \in Id \ {id} /\ Q[x] # NoPath /\ P[x] = NoPath /\ u[x] = t[x] /\ t[x] # Gone
    BY <1>2, <2>2
  <2> DEFINE p == t[x].parent
  <2>4. CASE p = Root
    BY <2>3, <2>4, PathsAreClosed DEF P
  <2>5. CASE p # Root
    <3>1. p \in Folder /\ p \in Id /\ Q[p] # NoPath /\ Q[x] = Append(Q[p], t[x].name)
      BY <2>3, <2>5, PathsAreNested DEF Q
    <3>2. P[p] = NoPath
      BY <2>3, <3>1, PathsAreClosed DEF P
    <3>3. p # id
      BY <2>3, <3>2 DEF P
    <3>4. Len(Q[p]) \in Nat /\ Len(Q[x]) = Len(Q[p]) + 1
      <4>1. Q[p] \in Seq(AnyName)
        BY <1>1, <3>1 DEF Path
      <4>2. t[x].name \in AnyName
        BY <2>3, Places
      <4> QED BY <3>1, <4>1, <4>2, AppendProperties, LenProperties
    <3>5. Len(Q[p]) \in Bad
      BY <3>1, <3>2, <3>3, <3>4
    <3> HIDE DEF Bad
    <3> QED BY <2>1, <2>2, <3>4, <3>5
  <2> QED BY <2>4, <2>5
<1>4. ~New(y)
  BY <1>1, <1>3
<1> QED BY <1>2, <1>4 DEF P, Q

(* Another client's change leaves all but its id settled. *)
LEMMA ChangeSettles ==
  ASSUME MetadataApart, NEW t, IsTree(t), NEW u, IsTree(u), NEW c, Good(c),
         NEW pend, Settled(c, t, pend), NEW id \in Id,
         \A x \in Id \ {id} :
           \/ u[x] = t[x]
           \/ u[x] = Gone /\ (t[x] # Gone => t[x].parent # Root /\ u[t[x].parent] = Gone),
         \A x \in Id : u[x] # Gone /\ u[x].parent = id => PathsIn(t)[id] # NoPath,
         t[id] = Gone => id \notin DOMAIN c.pathOf
  PROVE  Settled(c, u, pend \cup {id})
<1>1. t \in [Id -> Place \cup {Gone}] /\ u \in [Id -> Place \cup {Gone}]
  BY DEF IsTree
<1>2. ASSUME NEW x \in DOMAIN c.pathOf \ (pend \cup {id}) PROVE Stands(c, u, x)
  <2>1. x \in Id \ {id} /\ Stands(c, t, x)
    BY <1>2 DEF Good, Settled
  <2>2. CASE t[x] = Gone
    <3>1. PICK p \in Up(c, x) : t[p] = Gone
      BY <2>1, <2>2 DEF Stands
    <3>2. p \in DOMAIN c.pathOf /\ p \in Id
      BY <1>2, <3>1, UpIs DEF Good
    <3>3. p # id
      BY <3>1, <3>2
    <3>4. u[p] = Gone /\ u[x] = Gone
      BY <2>1, <2>2, <3>1, <3>2, <3>3
    <3> QED BY <3>1, <3>4 DEF Stands
  <2>3. CASE t[x] # Gone /\ u[x] = t[x]
    BY <2>1, <2>3 DEF Stands
  <2>4. CASE t[x] # Gone /\ u[x] # t[x]
    <3>1. u[x] = Gone /\ t[x].parent # Root /\ u[t[x].parent] = Gone
      BY <2>1, <2>4
    <3>2. t[x].parent \in Up(c, x)
      BY <2>1, <2>4, <3>1 DEF Stands, Above
    <3> QED BY <3>1, <3>2 DEF Stands
  <2> QED BY <2>2, <2>3, <2>4
<1>3. ASSUME NEW x \in Tracked(u) \ (pend \cup {id}) PROVE x \in DOMAIN c.pathOf
  <2>1. x \in Id /\ PathsIn(u)[x] # NoPath /\ ~IsMetadata(u[x])
    BY <1>3, TrackedIs DEF Tracked
  <2>2. \A y \in Id \ {id} : u[y] \in {t[y], Gone}
    OBVIOUS
  <2>3. u[x] = t[x] /\ PathsIn(t)[x] # NoPath
    BY <1>1, <1>3, <2>1, <2>2, NothingElseComes
  <2>4. x \in Tracked(t)
    BY <2>1, <2>3, TrackedIs
  <2> QED BY <1>3, <2>4 DEF Settled
<1> QED BY <1>2, <1>3 DEF Settled

(* What is built of a listing is settled. *)
LEMMA BuiltSettles ==
  ASSUME MetadataApart, NEW t, IsTree(t)
  PROVE  LET c == BuildFromFiles(Listing(t)) IN Settled(c, t, {}) /\ ~Escapes(c, t)
<1> DEFINE P == PathsIn(t)
           K == Tracked(t)
           c == BuildFromFiles(Listing(t))
           pathOf == [id \in K |-> P[id]]
<1>1. c = BulkLoad(pathOf)
  BY ListedAsTheyAre DEF BuildFromFiles
<1>2. \A id \in K : /\ id \in Id /\ P[id] \in Path /\ P[id] \notin {NoPath, Reserved}
                    /\ t[id] # Gone /\ t[id].name \in AnyName
                    /\ \/ t[id].parent = Root /\ P[id] = <<t[id].name>>
                       \/ /\ t[id].parent \in K /\ t[id].parent \in Folder /\ t[id].parent # Root
                          /\ P[id] = Append(P[t[id].parent], t[id].name)
  BY TrackedPlaces
<1>3. Good(c)
  BY BuiltIsGood
<1> HIDE DEF K, P
<1>4. c.pathOf = [id \in K |-> P[id]]
  <2>1. {id \in DOMAIN pathOf : pathOf[id] # Reserved} = K
    BY <1>2
  <2>2. c.pathOf = [id \in {id \in DOMAIN pathOf : pathOf[id] # Reserved} |-> pathOf[id]]
    BY <1>1 DEF BulkLoad
  <2> HIDE DEF c
  <2> QED BY <2>1, <2>2
<1> HIDE DEF c
<1>5. ASSUME NEW id \in K PROVE Stands(c, t, id)
  <2>1. c.pathOf[id] = ResolvePathFromCache(c, t[id])
    BY <1>2, <1>4, CacheAssumption DEF ResolvePathFromCache
  <2>2. IsPlace(t[id]) /\ id \in DOMAIN c.pathOf
    BY <1>2, <1>4 DEF IsPlace
  <2>3. Up(c, id) = Above(t[id]) /\ Last(c.pathOf[id]) = t[id].name
    BY <1>3, <2>1, <2>2, AtPlace
  <2>4. ~IsMetadata(t[id])
    BY <1>2, TrackedIs DEF K
  <2> QED BY <1>2, <2>3, <2>4 DEF Stands
<1>6. ~Escapes(c, t)
  <2>1. \A id \in DOMAIN c.pathOf : P[id] # NoPath
    BY <1>2, <1>4
  <2> QED BY <2>1 DEF Escapes, P
<1> QED BY <1>4, <1>5, <1>6 DEF Settled, c, K

-----------------------------------------------------------------------------
(* The cache is the tree. *)

(* The changes an id-keyed delta can follow.  The others leave the cache wrong
   until a full scan: no entry tells of what a folder brings in from outside
   or of what is evicted with one, nor does one that comes too early or goes
   with the folder it was in. *)
PlainTrees == /\ IdTrees
              /\ TreeEvents \cap {"takesOver", "escapes", "lateParent", "comesIn"} = {}

MirrorInv ==
  /\ CacheInv
  /\ Settled(cache, tree, ToSet(feed))
  /\ Ordered(feed, tree)
  /\ ~Escapes(cache, tree)

(* A change of another client is settled by its mention in the feed. *)
LEMMA ChangeKeepsMirrorInv ==
  ASSUME MetadataApart, PlainTrees, MirrorInv, CacheInv', NEW id \in Id, NEW u, Change(id, u),
         cache' = cache, ~Escapes(cache, u),
         \A x \in Id \ {id} :
           \/ u[x] = tree[x]
           \/ u[x] = Gone /\ (tree[x] # Gone => tree[x].parent # Root /\ u[tree[x].parent] = Gone),
         \A x \in Id : u[x] # Gone /\ u[x].parent = id =>
                         x \notin ToSet(feed) /\ PathsIn(tree)[id] # NoPath,
         tree[id] = Gone => id \notin DOMAIN cache.pathOf
  PROVE  MirrorInv'
<1>1. tree' = u /\ feed' = Mention(feed, id) /\ feed \in Seq(Id)
  BY DEF MirrorInv, CacheInv, Change, Report
<1>2. IsTree(u) /\ IsTree(tree) /\ Good(cache)
  BY <1>1 DEF MirrorInv, CacheInv
<1>3. Ordered(Mention(feed, id), u) /\ ToSet(Mention(feed, id)) = ToSet(feed) \cup {id}
  <2>1. \A x \in Id \ {id} : u[x] \in {tree[x], Gone}
    OBVIOUS
  <2> QED BY <1>1, <2>1, MentionIsOrdered DEF MirrorInv
<1>4. Settled(cache, u, ToSet(feed) \cup {id})
  BY <1>2, ChangeSettles DEF MirrorInv
<1> QED BY <1>1, <1>3, <1>4 DEF MirrorInv

(* Who is right in a folder that has changed has been shown, and was in it
   before the folder was outside. *)
LEMMA PlainChanges ==
  ASSUME PlainTrees, CacheInv, NEW id \in Id, NEW u \in [Id -> Place \cup {Gone}],
         Survivable(cache, u, id)
  PROVE  /\ ~Escapes(cache, u)
         /\ \A x \in Id : u[x] # Gone /\ u[x].parent = id =>
                            x \notin ToSet(feed) /\ PathsIn(tree)[id] # NoPath
<1>1. ~Escapes(cache, u) /\ ~LateParent(u, id) /\ ~ComesInFilled(u, id)
  BY DEF PlainTrees, CacheInv, Survivable
<1>2. ASSUME NEW x \in Id, u[x] # Gone, u[x].parent = id PROVE x \in Inside(u, id)
  <2>1. id \in Folder
    BY <1>2, Places, CacheAssumption, RemoteTreeAssumption
  <2> QED BY <1>2, <2>1, InsideIsNested
<1>3. Unshown = ToSet(feed)
  BY DEF CacheInv, Unshown
<1> QED BY <1>1, <1>2, <1>3 DEF LateParent, ComesInFilled

(* Any change of another client keeps the invariant. *)
LEMMA OthersKeepMirrorInv ==
  ASSUME MetadataApart, PlainTrees, MirrorInv, ProviderChanges
  PROVE  MirrorInv'
<1>1. PICK id \in Id : \/ \E place \in Place : Create(cache, id, place) \/ Move(cache, id, place)
                       \/ Touch(cache, id)
                       \/ Delete(cache, id)
  BY DEF ProviderChanges, OthersChange
<1>2. cache' = cache /\ CacheInv /\ CacheInv' /\ tree \in [Id -> Place \cup {Gone}]
  BY OthersKeepCacheInv DEF MirrorInv, PlainTrees, ProviderChanges, CacheInv, IsTree
<1>3. ASSUME NEW place \in Place, Create(cache, id, place) \/ Move(cache, id, place)
      PROVE  MirrorInv'
  <2> DEFINE u == [tree EXCEPT ![id] = place]
  <2>1. /\ Survivable(cache, u, id) /\ Change(id, u)
        /\ tree[id] = Gone => id \notin DOMAIN cache.pathOf
    BY <1>3 DEF Create, Move
  <2>2. u \in [Id -> Place \cup {Gone}] /\ \A x \in Id \ {id} : u[x] = tree[x]
    BY <1>2
  <2> HIDE DEF u
  <2> QED BY <1>2, <2>1, <2>2, PlainChanges, ChangeKeepsMirrorInv
<1>4. CASE Touch(cache, id)
  <2>1. Survivable(cache, tree, id) /\ Change(id, tree) /\ tree[id] # Gone
    BY <1>4 DEF Touch
  <2> QED BY <1>2, <2>1, PlainChanges, ChangeKeepsMirrorInv
<1>5. CASE Delete(cache, id)
  <2> DEFINE u == [m \in Id |-> IF m \in Subtree(tree, id) THEN Gone ELSE tree[m]]
  <2>1. Survivable(cache, u, id) /\ Change(id, u) /\ tree[id] # Gone
    BY <1>5 DEF Delete
  <2>2. u \in [Id -> Place \cup {Gone}]
    BY <1>2
  <2>3. /\ \A x \in Subtree(tree, id) \cap Id : u[x] = Gone
        /\ \A x \in Id \ Subtree(tree, id) : u[x] = tree[x]
        /\ Subtree(tree, id) = {id} \cup Inside(tree, id) /\ Inside(tree, id) \subseteq Id
    BY DEF Subtree, Inside
  <2> HIDE DEF u
  <2>4. ASSUME NEW x \in Id \ {id}, u[x] # tree[x]
        PROVE  u[x] = Gone /\ tree[x] # Gone /\ tree[x].parent # Root /\ u[tree[x].parent] = Gone
    <3>1. x \in Inside(tree, id) /\ u[x] = Gone /\ tree[x] # Gone
      BY <2>3, <2>4
    <3>2. /\ tree[x].parent \in Folder
          /\ \/ tree[x].parent = id
             \/ tree[tree[x].parent] # Gone => tree[x].parent \in Inside(tree, id)
      BY <3>1, InsideIsNested
    <3>3. tree[x].parent \in Id /\ tree[x].parent # Root
      BY <3>2, CacheAssumption
    <3>4. u[tree[x].parent] = Gone
      BY <2>3, <3>2, <3>3
    <3> QED BY <3>1, <3>3, <3>4
  <2> QED BY <1>2, <2>1, <2>2, <2>4, PlainChanges, ChangeKeepsMirrorInv
<1> QED BY <1>1, <1>3, <1>4, <1>5

(* Every step keeps it. *)
LEMMA NextKeepsMirrorInv ==
  ASSUME MetadataApart, PlainTrees, MirrorInv, [Next]_vars
  PROVE  MirrorInv'
<1>1. CacheInv /\ CacheInv'
  BY NextKeepsCacheInv DEF PlainTrees, MirrorInv
<1>2. CASE ProviderChanges
  BY <1>2, OthersKeepMirrorInv
<1>3. ASSUME NEW n \in DOMAIN feed, ApplyIdPage(n) PROVE MirrorInv'
  <2>1. tree' = tree
    BY <1>3 DEF ApplyIdPage
  <2>2. Settled(cache', tree, ToSet(feed')) /\ ~Escapes(cache', tree) /\ Ordered(feed', tree)
    BY <1>1, <1>3, PageSettles DEF PlainTrees, MirrorInv
  <2> QED BY <1>1, <2>1, <2>2 DEF MirrorInv
<1>4. ASSUME NEW n \in DOMAIN feed, ReadDropboxPage(n) PROVE MirrorInv'
  BY <1>1, <1>4 DEF CacheInv, ReadDropboxPage
<1>5. CASE FullScanWithDelta
  <2>1. cache' = BuildFromFiles(Listing(tree)) /\ tree' = tree /\ feed' = <<>>
    BY <1>5 DEF FullScanWithDelta
  <2>2. Settled(cache', tree', {}) /\ ~Escapes(cache', tree')
    BY <1>1, <2>1, BuiltSettles DEF CacheInv
  <2>3. Ordered(feed', tree') /\ ToSet(feed') = {}
    BY <2>1 DEF Ordered, ToSet
  <2> QED BY <1>1, <2>2, <2>3 DEF MirrorInv
<1>6. CASE UNCHANGED vars
  BY <1>1, <1>6 DEF MirrorInv, vars, deltaVars
<1> QED BY <1>2, <1>3, <1>4, <1>5, <1>6 DEF Next, Quiet

(* When an id-keyed feed has been read to its end, the cache has exactly    *)
(* what the provider has, each file at its path, however its changes are    *)
(* cut into pages and whichever order a page is applied in (id-delta.ts     *)
(* applyIdDeltaPage, metadata-cache.ts applyFileChange and buildFromFiles;  *)
(* Google Drive and OneDrive).                                              *)
THEOREM CacheShowsTheTree ==
  ASSUME MetadataApart, PlainTrees
  PROVE  Spec => []CacheMirrorsTree
<1>1. Init => MirrorInv
  <2> SUFFICES ASSUME Init PROVE MirrorInv
    OBVIOUS
  <2>1. CacheInv
    BY InitCacheInv DEF PlainTrees
  <2>2. cache = BuildFromFiles(Listing(tree)) /\ feed = <<>>
    BY DEF Init
  <2>3. Settled(cache, tree, {}) /\ ~Escapes(cache, tree)
    BY <2>1, <2>2, BuiltSettles DEF CacheInv
  <2>4. Ordered(feed, tree) /\ ToSet(feed) = {}
    BY <2>2 DEF Ordered, ToSet
  <2> QED BY <2>1, <2>3, <2>4 DEF MirrorInv
<1>2. MirrorInv /\ [Next]_vars => MirrorInv'
  BY NextKeepsMirrorInv
<1>3. MirrorInv => CacheMirrorsTree
  <2> SUFFICES ASSUME MirrorInv, feed = <<>>
               PROVE  cache.pathOf = [id \in Tracked(tree) |-> PathsIn(tree)[id]]
    BY DEF CacheMirrorsTree
  <2>1. ToSet(feed) = {}
    BY DEF ToSet
  <2> QED BY <2>1, SettledMirrors DEF MirrorInv, CacheInv
<1> QED BY <1>1, <1>2, <1>3, PTL DEF Spec
=============================================================================
