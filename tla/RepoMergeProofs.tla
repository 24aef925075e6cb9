--------------------------- MODULE RepoMergeProofs ---------------------------
(***************************************************************************)
(* Proofs about the commit graph of one key, for any number of editors,    *)
(* edits and merges: its types, through the folds that compute merges, and *)
(* that a merge sees an ancestor.                                          *)
(***************************************************************************)
EXTENDS RepoMerge, FiniteSetTheorems, WellFoundedInduction, TLAPS

------------------------------------------------------------------------------
(* The newest of some commits.                                             *)

LEMMA Least ==
  ASSUME NEW S \in SUBSET Nat, S # {}
  PROVE  \E x \in S : \A y \in S : x <= y
<1> DEFINE R == {ss \in Nat \X Nat : ss[1] < ss[2]}
<1>1. IsWellFoundedOn(R, Nat)
  BY NatLessThanWellFounded DEF OpToRel
<1> HIDE DEF R
<1>2. PICK x \in S : \A y \in S : <<y, x>> \notin R
  BY <1>1, WFMin
<1>3. \A y \in S : ~(y < x)
  BY <1>2 DEF R
<1> QED BY <1>3

LEMMA MaxIsElement ==
  ASSUME NEW n \in Nat, NEW S \in SUBSET (1..n), S # {}
  PROVE  Max(S) \in S
<1> DEFINE T == {n - x : x \in S}
<1>1. T \in SUBSET Nat /\ T # {}
  <2>1. \A x \in S : n - x \in Nat
    OBVIOUS
  <2> QED BY <2>1
<1> HIDE DEF T
<1>2. PICK t \in T : \A u \in T : t <= u
  BY <1>1, Least
<1>3. PICK x \in S : t = n - x
  BY DEF T
<1>4. ASSUME NEW y \in S PROVE x >= y
  <2>1. n - y \in T
    BY DEF T
  <2> QED BY <1>2, <1>3, <2>1
<1>5. \E m \in S : \A y \in S : m >= y
  BY <1>4
<1> QED BY <1>5 DEF Max
------------------------------------------------------------------------------
(* The graph of commits and a replica of it.                               *)

Sequential == \E S : commits \in Seq(S)

(* Commits are constructed and never changed.                              *)
Grows == commits' = commits \/ \E e : commits' = Append(commits, e)

LEMMA IdsOf == Sequential => Len(commits) \in Nat /\ Id = 1..Len(commits) /\ None \notin Id
BY DEF Sequential, Id, None

LEMMA Constructed ==
  ASSUME Sequential, NEW e, commits' = Append(commits, e)
  PROVE  /\ Sequential' /\ Id \subseteq Id'
         /\ Len(commits) + 1 \in Id' /\ commits'[Len(commits) + 1] = e
         /\ \A m \in Id : commits'[m] = commits[m]
<1>1. PICK S : commits \in Seq(S)
  BY DEF Sequential
<1> DEFINE T == S \cup {e}
<1>2. commits \in Seq(T) /\ e \in T
  BY <1>1
<1> HIDE DEF T
<1>3. /\ commits' \in Seq(T) /\ Len(commits') = Len(commits) + 1
      /\ Len(commits) \in Nat
  BY <1>2
<1>4. commits'[Len(commits) + 1] = e /\ \A m \in 1..Len(commits) : commits'[m] = commits[m]
  BY <1>2
<1>5. Id = 1..Len(commits) /\ Id' = 1..(Len(commits) + 1)
  BY <1>2, <1>3 DEF Id
<1> QED BY <1>3, <1>4, <1>5 DEF Sequential

LEMMA Growth ==
  ASSUME Sequential, Grows
  PROVE  /\ Sequential' /\ Id \subseteq Id' /\ Added \subseteq Added'
         /\ \A m \in Id \cup {None} : Rec(m)' = Rec(m)
<1>1. Sequential' /\ Id \subseteq Id' /\ \A m \in Id : commits'[m] = commits[m]
  <2>1. CASE commits' = commits
    BY <2>1 DEF Sequential, Id
  <2>2. CASE \E e : commits' = Append(commits, e)
    BY <2>2, Constructed
  <2> QED BY <2>1, <2>2 DEF Grows
<1>2. \A m \in Id \cup {None} : Rec(m)' = Rec(m)
  BY <1>1 DEF Rec
<1> QED BY <1>1, <1>2 DEF Added

LEMMA RecAdded ==
  ASSUME NEW m \in Id \cup {None}
  PROVE  Rec(m) \subseteq Added
BY DEF Rec, Added

LEMMA PickBestOf ==
  ASSUME Sequential, NEW c, NEW S \in SUBSET Id
  PROVE  PickBest(c, S) \in S \cup {None} /\ (S # {} => PickBest(c, S) \in S)
<1> DEFINE own == {m \in S : By(m) = c}
<1>1. own \in SUBSET S
  OBVIOUS
<1> HIDE DEF own
<1>2. own # {} => Max(own) \in S
  BY <1>1, IdsOf, MaxIsElement
<1>3. S # {} => Max(S) \in S
  BY IdsOf, MaxIsElement
<1> QED BY <1>2, <1>3 DEF PickBest, own

LEMMA HeadOf ==
  ASSUME Sequential, NEW c, NEW H \in SUBSET Id
  PROVE  HeadForKey(c, H) \in H \cup {None}
<1>1. LeavesForKey(H) \in SUBSET H
  BY DEF LeavesForKey, LatestByConnection
<1> QED BY <1>1, PickBestOf DEF HeadForKey
------------------------------------------------------------------------------
(* Folds over the numbers from 1, the highest first, as FoldLeft unrolls   *)
(* them.                                                                   *)

(* The highest number of a set that has n, and nothing above it.           *)
LEMMA MaxIs ==
  ASSUME NEW n \in Nat, NEW S \in SUBSET (1..n), n \in S
  PROVE  Max(S) = n
<1>1. \E x \in S : \A y \in S : x >= y
  OBVIOUS
<1>2. Max(S) \in S /\ \A y \in S : Max(S) >= y
  BY <1>1 DEF Max
<1>3. Max(S) \in 1..n /\ Max(S) >= n
  BY <1>2
<1> QED BY <1>3

LEMMA UpTo ==
  ASSUME NEW n \in Nat, NEW i \in 1..n
  PROVE  /\ 1..i \in SUBSET (1..n) /\ 1..i # {}
         /\ Max(1..i) = i /\ (1..i) \ {i} = 1..(i - 1)
<1>1. i \in Nat /\ i \in 1..i /\ 1..i \in SUBSET (1..i) /\ 1..i \in SUBSET (1..n)
  OBVIOUS
<1>2. Max(1..i) = i
  BY <1>1, MaxIs
<1>3. ASSUME NEW x \in 1..i, x # i PROVE x \in 1..(i - 1)
  BY <1>1, <1>3
<1>4. ASSUME NEW x \in 1..(i - 1) PROVE x \in 1..i /\ x # i
  BY <1>1
<1>5. (1..i) \ {i} = 1..(i - 1)
  BY <1>3, <1>4
<1> QED BY <1>1, <1>2, <1>5

(* g is the fold of the step function G from base on.                      *)
IsFold(g, n, T, base, G) ==
  /\ g \in [SUBSET (1..n) -> T]
  /\ \A s \in SUBSET (1..n) :
       g[s] = IF s = {} THEN base ELSE G[<<Max(s), g[s \ {Max(s)}]>>]

StepsOf(n, T, base, G) == n \in Nat /\ base \in T /\ G \in [(1..n) \X T -> T]
HasFold(n, T, base, G) == \E g : IsFold(g, n, T, base, G)

(* A step function G has a fold.                                           *)
LEMMA FoldExists ==
  ASSUME NEW n, NEW T, NEW base, NEW G, StepsOf(n, T, base, G)
  PROVE  HasFold(n, T, base, G)
<1>0. n \in Nat /\ base \in T /\ G \in [(1..n) \X T -> T]
  BY DEF StepsOf
<1> USE <1>0
<1> DEFINE Rec1(g, k) ==
             /\ g \in [SUBSET (1..k) -> T]
             /\ \A s \in SUBSET (1..k) :
                  g[s] = IF s = {} THEN base ELSE G[<<Max(s), g[s \ {Max(s)}]>>]
<1> HIDE DEF Rec1
<1>1. SUFFICES ASSUME ~ \E g : Rec1(g, n) PROVE FALSE
  BY DEF Rec1, HasFold, IsFold
<1> DEFINE Bad == {k \in 0..n : ~ \E g : Rec1(g, k)}
<1>2. Bad \in SUBSET Nat /\ Bad # {}
  BY <1>1
<1>3. PICK k \in Bad : \A m \in Bad : k <= m
  <2> HIDE DEF Bad
  <2> QED BY <1>2, Least
<1>4. CASE k = 0
  <2> DEFINE g == [s \in SUBSET (1..0) |-> base]
  <2>1. 1..0 = {}
    OBVIOUS
  <2>2. Rec1(g, 0)
    BY <2>1 DEF Rec1
  <2> HIDE DEF g
  <2> QED BY <1>3, <1>4, <2>2
<1>5. CASE k # 0
  <2>1. k \in 1..n /\ k - 1 \in 0..n /\ k - 1 < k
    BY <1>3, <1>5
  <2>2. k - 1 \notin Bad
    BY <1>3, <2>1
  <2>3. PICK g : Rec1(g, k - 1)
    BY <2>1, <2>2
  <2> DEFINE h == [s \in SUBSET (1..k) |->
                     IF k \in s THEN G[<<k, g[s \ {k}]>>] ELSE g[s]]
  <2>4. \A s \in SUBSET (1..k) : s \ {k} \in SUBSET (1..(k - 1))
    BY <2>1
  <2>5. \A s \in SUBSET (1..(k - 1)) : s \in SUBSET (1..k) /\ k \notin s
    BY <2>1
  <2>6. g \in [SUBSET (1..(k - 1)) -> T]
    BY <2>3 DEF Rec1
  <2>7. h \in [SUBSET (1..k) -> T]
    <3>1. \A s \in SUBSET (1..k) : G[<<k, g[s \ {k}]>>] \in T
      BY <2>1, <2>4, <2>6
    <3>2. \A s \in SUBSET (1..k) : k \notin s => s \in SUBSET (1..(k - 1))
      BY <2>4
    <3> QED BY <2>6, <3>1, <3>2
  <2>8. \A s \in SUBSET (1..(k - 1)) : h[s] = g[s]
    BY <2>5
  <2>9. ASSUME NEW s \in SUBSET (1..k)
        PROVE  h[s] = IF s = {} THEN base ELSE G[<<Max(s), h[s \ {Max(s)}]>>]
    <3>1. CASE k \in s
      <4>1. Max(s) = k
        BY <2>1, <3>1, MaxIs
      <4>2. h[s] = G[<<k, g[s \ {k}]>>] /\ h[s \ {k}] = g[s \ {k}]
        BY <2>4, <2>8, <3>1
      <4> HIDE DEF h
      <4> QED BY <3>1, <4>1, <4>2
    <3>2. CASE k \notin s
      <4>1. s \in SUBSET (1..(k - 1))
        BY <2>4, <3>2
      <4>2. g[s] = IF s = {} THEN base ELSE G[<<Max(s), g[s \ {Max(s)}]>>]
        BY <2>3, <4>1 DEF Rec1
      <4>3. h[s] = g[s] /\ h[s \ {Max(s)}] = g[s \ {Max(s)}]
        BY <2>8, <4>1
      <4> HIDE DEF h
      <4> QED BY <4>2, <4>3
    <3> QED BY <3>1, <3>2
  <2> HIDE DEF h
  <2>10. Rec1(h, k)
    BY <2>7, <2>9 DEF Rec1
  <2> QED BY <1>3, <2>10
<1> QED BY <1>4, <1>5

(* What holds of the base and is kept by every step holds of the fold.     *)
LEMMA FoldInduction ==
  ASSUME NEW n \in Nat, NEW T, NEW g, g[{}] \in T,
         \A s \in SUBSET (1..n) :
           s # {} => (g[s \ {Max(s)}] \in T => g[s] \in T)
  PROVE  g[1..n] \in T
<1> DEFINE Good(k) == \A s \in SUBSET (1..k) : g[s] \in T
           Bad == {k \in 0..n : ~Good(k)}
<1>1. Good(n) => g[1..n] \in T
  OBVIOUS
<1> HIDE DEF Good
<1>2. SUFFICES ASSUME ~Good(n) PROVE FALSE
  BY <1>1
<1>3. Bad \in SUBSET Nat /\ Bad # {}
  BY <1>2
<1>4. PICK k \in Bad : \A m \in Bad : k <= m
  <2> HIDE DEF Bad
  <2> QED BY <1>3, Least
<1>5. PICK s \in SUBSET (1..k) : g[s] \notin T
  BY <1>4 DEF Good
<1>6. s # {}
  BY <1>5
<1>7. k # 0
  <2>1. 1..0 = {}
    OBVIOUS
  <2>2. k = 0 => s \in SUBSET {}
    BY <2>1
  <2> HIDE DEF Bad
  <2> QED BY <1>6, <2>2
<1>8. k \in 1..n /\ k - 1 \in 0..n /\ k - 1 < k
  BY <1>4, <1>7
<1>9. Good(k - 1)
  <2>1. k - 1 \notin Bad
    BY <1>4, <1>8
  <2> QED BY <1>8, <2>1
<1>10. k \in s
  <2>1. k \notin s => s \in SUBSET (1..(k - 1))
    BY <1>8
  <2> QED BY <1>5, <1>9, <2>1 DEF Good
<1>11. Max(s) = k /\ s \ {k} \in SUBSET (1..(k - 1)) /\ s \in SUBSET (1..n)
  BY <1>8, <1>10, MaxIs
<1>12. g[s \ {k}] \in T
  BY <1>9, <1>11 DEF Good
<1> QED BY <1>5, <1>6, <1>11, <1>12

(* What holds at 0 and is kept from each number to the next.               *)
LEMMA Stays ==
  ASSUME NEW n \in Nat, NEW T, NEW f, f[0] \in T,
         \A i \in 1..n : f[i - 1] \in T => f[i] \in T
  PROVE  \A i \in 0..n : f[i] \in T
<1> DEFINE Bad == {i \in 0..n : f[i] \notin T}
<1>1. SUFFICES ASSUME Bad # {} PROVE FALSE
  OBVIOUS
<1>2. Bad \in SUBSET Nat
  OBVIOUS
<1>3. PICK i \in Bad : \A j \in Bad : i <= j
  <2> HIDE DEF Bad
  <2> QED BY <1>1, <1>2, Least
<1>4. i \in 1..n
  BY <1>3
<1>5. i - 1 \in 0..n /\ i - 1 \notin Bad
  <2>1. i - 1 \in 0..n /\ ~(i <= i - 1)
    BY <1>4
  <2> QED BY <1>3, <2>1
<1> QED BY <1>3, <1>4, <1>5

------------------------------------------------------------------------------
(* The commits that a merge is made of.                                    *)

(* A replica is finite.                                                    *)
LEMMA ReplicaFinite ==
  ASSUME Sequential, NEW H \in SUBSET Id
  PROVE  IsFiniteSet(H) /\ Cardinality(H) \in Nat
<1>1. Id = 1..Len(commits) /\ Len(commits) \in Int /\ 1 \in Int
  BY IdsOf
<1>2. IsFiniteSet(Id)
  BY <1>1, FS_Interval
<1> QED BY <1>2, FS_Subset, FS_CardinalityType

(* A base is one of the two commits, or one that the replica has.          *)
LEMMA LCAMergeBaseOf ==
  ASSUME Sequential, NEW H \in SUBSET Id, NEW m1, NEW m2
  PROVE  LCAMergeBase(H, m1, m2) \in {None, m1, m2} \cup H
<1> DEFINE Common(k) == Reached(H, m1, k) \cap Reached(H, m2, k) \cap H
           rounds == {k \in 0..Cardinality(H) : Common(k) # {}}
<1>1. \A k : Common(k) \subseteq H
  OBVIOUS
<1>2. LCAMergeBase(H, m1, m2) \in {None, m1, m2} \/
      (rounds # {} /\ LCAMergeBase(H, m1, m2) = Max(Common(Min(rounds))))
  BY DEF LCAMergeBase
<1> HIDE DEF Common
<1>3. ASSUME rounds # {} PROVE Max(Common(Min(rounds))) \in H
  <2>1. rounds \in SUBSET Nat
    BY ReplicaFinite
  <2> DEFINE r == Min(rounds)
  <2>2. r \in rounds
    <3> HIDE DEF rounds
    <3>1. \E x \in rounds : \A y \in rounds : x <= y
      BY <1>3, <2>1, Least
    <3> QED BY <3>1 DEF Min
  <2>3. Common(r) # {} /\ Common(r) \subseteq H
    <3> HIDE DEF r
    <3> QED BY <1>1, <2>2
  <2> HIDE DEF r
  <2>4. Max(Common(r)) \in Common(r)
    <3>1. Common(r) \in SUBSET (1..Len(commits)) /\ Len(commits) \in Nat
      BY <2>3, IdsOf
    <3> QED BY <2>3, <3>1, MaxIsElement
  <2> QED BY <2>3, <2>4 DEF r
<1> QED BY <1>2, <1>3

(* What findMergeBase does with a commit.                                  *)
Include(H, S, acc, m) ==
  LET base == LCAMergeBase(H, acc.base, m)
  IN IF m \notin S THEN acc
     ELSE IF acc.base = None THEN [included |-> {m}, base |-> m]
     ELSE IF base = None THEN acc
     ELSE [included |-> acc.included \cup {m}, base |-> base]

Inclusions(H, S, h) ==
  /\ h \in [0..Len(commits) -> [included : SUBSET S, base : {None} \cup S \cup H]]
  /\ h[0] = [included |-> {}, base |-> None]
  /\ \A i \in 1..Len(commits) : h[i] = Include(H, S, h[i - 1], i)

LEMMA FindMergeBaseIncludes ==
  ASSUME Sequential, NEW H \in SUBSET Id, NEW S \in SUBSET Id
  PROVE  \E h : Inclusions(H, S, h) /\ FindMergeBase(H, S) = h[Len(commits)]
<1> DEFINE T == [included : SUBSET S, base : {None} \cup S \cup H]
           n == Len(commits)
           first == [included |-> {}, base |-> None]
           seq == [i \in DOMAIN commits |-> i]
           Fold(g) == [s \in SUBSET (DOMAIN seq) |->
                         IF s = {} THEN first
                         ELSE Include(H, S, g[s \ {Max(s)}], seq[Max(s)])]
           g == CHOOSE g : g = Fold(g)
<1>1. FindMergeBase(H, S) = g[DOMAIN seq]
  <2> HIDE DEF T
  <2> QED BY DEF FindMergeBase, Include, FoldLeftDomain, FoldLeft, MapThenFoldSet
<1>2. n \in Nat /\ DOMAIN seq = 1..n /\ \A i \in 1..n : seq[i] = i
  BY IdsOf DEF Id
<1>3. \A s \in SUBSET (1..n) : s # {} => Max(s) \in s
  BY <1>2, MaxIsElement
<1>4. first \in T
  OBVIOUS
<1>5. ASSUME NEW acc \in T, NEW m \in 1..n PROVE Include(H, S, acc, m) \in T
  <2>1. LCAMergeBase(H, acc.base, m) \in {None, acc.base, m} \cup H
    BY LCAMergeBaseOf
  <2>2. CASE m \notin S
    BY <2>2 DEF Include
  <2>3. CASE m \in S /\ acc.base = None
    BY <2>3 DEF Include
  <2>4. CASE m \in S /\ acc.base # None
    BY <2>1, <2>4 DEF Include
  <2> QED BY <2>2, <2>3, <2>4
<1> HIDE DEF T, first, n, seq
<1>6. g = Fold(g)
  <2> DEFINE G == [x \in (1..n) \X T |-> Include(H, S, x[2], x[1])]
  <2>1. G \in [(1..n) \X T -> T]
    BY <1>5
  <2>2. PICK h \in [SUBSET (1..n) -> T] :
          \A s \in SUBSET (1..n) :
            h[s] = IF s = {} THEN first ELSE G[<<Max(s), h[s \ {Max(s)}]>>]
    <3> HIDE DEF G
    <3>1. StepsOf(n, T, first, G)
      BY <1>2, <1>4, <2>1 DEF StepsOf
    <3>2. HasFold(n, T, first, G)
      BY <3>1, FoldExists, Zenon
    <3> QED BY <3>2 DEF HasFold, IsFold
  <2>3. \A s \in SUBSET (1..n) :
          h[s] = IF s = {} THEN first ELSE Include(H, S, h[s \ {Max(s)}], seq[Max(s)])
    <3>1. TAKE s \in SUBSET (1..n)
    <3>2. CASE s # {}
      <4>1. Max(s) \in 1..n /\ h[s \ {Max(s)}] \in T
        BY <1>3, <3>2
      <4> QED BY <1>2, <2>2, <3>2, <4>1
    <3> QED BY <2>2, <3>2
  <2>4. h = Fold(h)
    BY <1>2, <2>3
  <2> HIDE DEF Fold
  <2> QED BY <2>4
<1> HIDE DEF g
<1>7. g[1..0] = first /\ \A i \in 1..n : g[1..i] = Include(H, S, g[1..(i - 1)], i)
  <2>1. 1..0 = {} /\ {} \in SUBSET (1..n)
    OBVIOUS
  <2>2. g[1..0] = first
    BY <1>2, <1>6, <2>1
  <2>3. ASSUME NEW i \in 1..n PROVE g[1..i] = Include(H, S, g[1..(i - 1)], i)
    <3>1. /\ 1..i \in SUBSET (1..n) /\ 1..i # {}
          /\ Max(1..i) = i /\ (1..i) \ {i} = 1..(i - 1)
      BY <1>2, UpTo
    <3>2. g[1..i] = Include(H, S, g[(1..i) \ {Max(1..i)}], seq[Max(1..i)])
      BY <1>2, <1>6, <3>1
    <3> QED BY <1>2, <3>1, <3>2
  <2> QED BY <2>2, <2>3
<1> DEFINE h == [i \in 0..n |-> g[1..i]]
<1>8. h[0] = first /\ h[n] = g[1..n] /\ \A i \in 1..n : h[i] = Include(H, S, h[i - 1], i)
  <2>1. \A i \in 1..n : i \in 0..n /\ i - 1 \in 0..n
    BY <1>2
  <2>2. 0 \in 0..n /\ n \in 0..n
    BY <1>2
  <2> QED BY <1>7, <2>1, <2>2
<1> HIDE DEF h
<1>9. \A i \in 0..n : h[i] \in T
  <2>1. \A i \in 1..n : h[i - 1] \in T => h[i] \in T
    BY <1>5, <1>8
  <2> QED BY <1>2, <1>4, <1>8, <2>1, Stays
<1>10. h \in [0..n -> T]
  BY <1>9 DEF h
<1>11. Inclusions(H, S, h)
  BY <1>8, <1>10 DEF Inclusions, T, first, n
<1> QED BY <1>1, <1>2, <1>8, <1>11 DEF n

(* What findMergeBase includes are some of the commits, and its base is    *)
(* one of them or one that the replica has.                                *)
LEMMA FindMergeBaseOf ==
  ASSUME Sequential, NEW H \in SUBSET Id, NEW S \in SUBSET Id
  PROVE  FindMergeBase(H, S) \in
           [included : SUBSET S, base : {None} \cup S \cup H]
<1>1. PICK h : Inclusions(H, S, h) /\ FindMergeBase(H, S) = h[Len(commits)]
  BY FindMergeBaseIncludes
<1>2. Len(commits) \in 0..Len(commits)
  BY IdsOf
<1> QED BY <1>1, <1>2 DEF Inclusions

(* The commits with unique records are some of the commits.                *)
LEMMA UniqueRecordsOf ==
  ASSUME Sequential, NEW c, NEW S \in SUBSET Id, NEW U \in UniqueRecords(c, S)
  PROVE  U \in SUBSET S
<1> DEFINE n == Cardinality(S)
           T == SUBSET S
           Replaced(result, m) ==
             {r \in result : Rec(r) = Rec(m) /\ (m > r \/ By(m) = c)}
           Push(result, m) ==
             IF Replaced(result, m) = {} THEN result \cup {m}
             ELSE (result \ {Min(Replaced(result, m))}) \cup {m}
<1>1. PICK order \in SetToSeqs(S) : U = FoldLeft(Push, {}, order)
  BY DEF UniqueRecords
<1> DEFINE Fold(g) == [s \in SUBSET (DOMAIN order) |->
                         IF s = {} THEN {}
                         ELSE Push(g[s \ {Max(s)}], order[Max(s)])]
           g == CHOOSE g : g = Fold(g)
<1>2. U = g[DOMAIN order]
  <2> HIDE DEF T, Push
  <2> QED BY <1>1 DEF FoldLeft, MapThenFoldSet
<1>3. n \in Nat /\ DOMAIN order = 1..n /\ \A i \in 1..n : order[i] \in S
  BY <1>1, ReplicaFinite DEF SetToSeqs
<1>4. \A s \in SUBSET (1..n) : s # {} => Max(s) \in s
  BY <1>3, MaxIsElement
<1>5. \A acc \in T : \A m \in S : Push(acc, m) \in T
  OBVIOUS
<1>6. {} \in T
  OBVIOUS
<1> HIDE DEF T, Push, n
<1>7. g = Fold(g)
  <2> DEFINE G == [x \in (1..n) \X T |-> Push(x[2], order[x[1]])]
  <2>1. G \in [(1..n) \X T -> T]
    BY <1>3, <1>5
  <2>2. PICK h \in [SUBSET (1..n) -> T] :
          \A s \in SUBSET (1..n) :
            h[s] = IF s = {} THEN {} ELSE G[<<Max(s), h[s \ {Max(s)}]>>]
    <3> HIDE DEF G
    <3>1. StepsOf(n, T, {}, G)
      BY <1>3, <1>6, <2>1 DEF StepsOf
    <3>2. HasFold(n, T, {}, G)
      BY <3>1, FoldExists, Zenon
    <3> QED BY <3>2 DEF HasFold, IsFold
  <2>3. \A s \in SUBSET (1..n) :
          h[s] = IF s = {} THEN {} ELSE Push(h[s \ {Max(s)}], order[Max(s)])
    <3>1. TAKE s \in SUBSET (1..n)
    <3>2. CASE s # {}
      <4>1. Max(s) \in 1..n /\ h[s \ {Max(s)}] \in T
        BY <1>4, <3>2
      <4> QED BY <2>2, <3>2, <4>1
    <3> QED BY <2>2, <3>2
  <2>4. h = Fold(h)
    BY <1>3, <2>3
  <2> HIDE DEF Fold
  <2> QED BY <2>4
<1> HIDE DEF g
<1>8. g[{}] \in T
  BY <1>3, <1>6, <1>7
<1>9. ASSUME NEW s \in SUBSET (1..n), s # {}, g[s \ {Max(s)}] \in T
      PROVE  g[s] \in T
  <2>1. g[s] = Push(g[s \ {Max(s)}], order[Max(s)])
    BY <1>3, <1>7, <1>9
  <2>2. order[Max(s)] \in S
    BY <1>3, <1>4, <1>9
  <2> QED BY <1>5, <1>9, <2>1, <2>2
<1>10. g[1..n] \in T
  BY <1>3, <1>8, <1>9, FoldInduction
<1> QED BY <1>2, <1>3, <1>10 DEF T

(* Leaves are merged.                                                      *)
LEMMA MergesLeaves ==
  ASSUME Sequential, NEW c, NEW H \in SUBSET Id, NEW S \in CommitsToMerge(c, H)
  PROVE  S \subseteq LeavesForKey(H)
<1> DEFINE leaves == LeavesForKey(H)
           Likely(longSeen) == {m \in leaves : HighProbabilityLeaf(c, H, m, longSeen)}
<1>1. S = {} \/ \E longSeen : S \in UniqueRecords(c, Likely(longSeen))
  <2> HIDE DEF leaves
  <2>1. CASE Cardinality(leaves) < 2
    BY <2>1 DEF CommitsToMerge, leaves
  <2>2. CASE ~(Cardinality(leaves) < 2)
    <3>1. S \in UNION {IF Leader(c, look.fresh) = c
                       THEN UniqueRecords(c, Likely(look.longSeen)) ELSE {{}} :
                         look \in Looks(leaves)}
      BY <2>2 DEF CommitsToMerge, leaves
    <3> HIDE DEF Likely
    <3> QED BY <3>1
  <2> QED BY <2>1, <2>2
<1>2. \A longSeen : Likely(longSeen) \in SUBSET leaves
  OBVIOUS
<1>3. leaves \in SUBSET Id
  BY DEF LeavesForKey, LatestByConnection
<1> HIDE DEF Likely, leaves
<1>4. \A longSeen : \A U \in UniqueRecords(c, Likely(longSeen)) : U \subseteq leaves
  BY <1>2, <1>3, UniqueRecordsOf
<1> QED BY <1>1, <1>4 DEF leaves

(* A merge invents no element.                                             *)
LEMMA MergeRecordOf ==
  ASSUME Sequential, NEW H \in SUBSET Id, NEW S \in SUBSET Id,
         NEW E, \A m \in Id : commits[m].record \subseteq E
  PROVE  MergeRecord(H, S) \subseteq E
<1> DEFINE found == FindMergeBase(H, S)
<1>1. found \in [included : SUBSET S, base : {None} \cup S \cup H]
  BY FindMergeBaseOf
<1> HIDE DEF found
<1>2. \A m \in {None} \cup Id : Rec(m) \subseteq E
  BY DEF Rec
<1>3. Rec(found.base) \subseteq E /\ \A m \in found.included : Rec(m) \subseteq E
  BY <1>1, <1>2
<1>4. Patched({}, {Rec(m) : m \in S}) \subseteq E
  BY <1>2 DEF Patched
<1>5. Patched(Rec(found.base), {Rec(m) : m \in found.included}) \subseteq E
  BY <1>3 DEF Patched
<1> QED BY <1>4, <1>5 DEF MergeRecord, found
------------------------------------------------------------------------------
(* The types.  What makes them inductive: commits are signed by those who  *)
(* constructed them, a pending commit is of one kind, and what is pending  *)
(* leaves the pending commits when it enters a repository.                 *)

Typed(m) ==
  /\ commits[m].by \in Client
  /\ commits[m].parents \subseteq 1..(m - 1)
  /\ commits[m].record \subseteq Elem
  /\ commits[m].ancestors \subseteq 1..(m - 1)
  /\ commits[m].filter \subseteq Nat

Pending(c) == {setting[c], merging[c]} \ {None}
Everywhere == UNION {have[d] : d \in Client}
IdOrNone == {None} \cup Id

GraphShape ==
  /\ conditions \in Conditions
  /\ Sequential
  /\ \A m \in Id : Typed(m)
  /\ have \in [Client -> SUBSET Id]
  /\ touched \in [Client -> BOOLEAN]
  /\ headId \in [Client -> IdOrNone]
  /\ setting \in [Client -> IdOrNone]
  /\ merging \in [Client -> IdOrNone]
  /\ \A c \in Client : headId[c] \in {None} \cup have[c]
  /\ \A c \in Client : \A p \in Pending(c) : By(p) = c /\ p \notin Everywhere
  /\ \A c \in Client : setting[c] = merging[c] => setting[c] = None

LEMMA ShapeIsType == GraphShape => TypeOK
<1> SUFFICES ASSUME GraphShape PROVE TypeOK
  OBVIOUS
<1>1. have \in [Client -> SUBSET Id] /\ touched \in [Client -> BOOLEAN]
  BY DEF GraphShape
<1>2. \A m \in Id : Typed(m)
  BY DEF GraphShape
<1>3. \A c \in Client : headId[c] \in {None} \cup have[c]
  BY DEF GraphShape
<1>4. ASSUME NEW c \in Client
      PROVE  {setting[c], merging[c]} \subseteq
               {None} \cup (Id \ UNION {have[d] : d \in Client})
  <2>1. setting[c] \in IdOrNone /\ merging[c] \in IdOrNone
    BY DEF GraphShape
  <2>2. \A p \in Pending(c) : p \notin Everywhere
    BY DEF GraphShape
  <2> QED BY <2>1, <2>2 DEF IdOrNone, Pending, Everywhere
<1> QED BY <1>1, <1>2, <1>3, <1>4 DEF TypeOK, Typed

(* c constructs at most one commit.                                        *)
Constructs(c) ==
  \/ commits' = commits
  \/ \E H, P \in SUBSET Id : \E R \in SUBSET Elem : \E fp \in SUBSET Nat :
       commits' = Append(commits, NewCommit(c, H, P, R, fp))

LEMMA ConstructsTyped ==
  ASSUME GraphShape, NEW c \in Client, Constructs(c)
  PROVE  /\ Sequential' /\ Id \subseteq Id'
         /\ \A m \in Id' : Typed(m)'
         /\ \A m \in Id : By(m)' = By(m)
         /\ \A m \in Id' \ Id : By(m)' = c
<1>1. CASE commits' = commits
  BY <1>1 DEF GraphShape, Sequential, Id, Typed, By
<1>2. CASE \E H, P \in SUBSET Id : \E R \in SUBSET Elem : \E fp \in SUBSET Nat :
             commits' = Append(commits, NewCommit(c, H, P, R, fp))
  <2>1. PICK H \in SUBSET Id, P \in SUBSET Id, R \in SUBSET Elem, fp \in SUBSET Nat :
               commits' = Append(commits, NewCommit(c, H, P, R, fp))
    BY <1>2
  <2>2. Sequential /\ \A m \in Id : Typed(m)
    BY DEF GraphShape
  <2>3. PICK e : e = NewCommit(c, H, P, R, fp)
    OBVIOUS
  <2>4. PICK n \in Nat : n = Len(commits)
    BY <2>2, IdsOf
  <2>5. Id = 1..n
    BY <2>2, <2>4, IdsOf
  <2>6. /\ Sequential' /\ Id \subseteq Id' /\ commits'[n + 1] = e
        /\ \A m \in Id : commits'[m] = commits[m]
    BY <2>1, <2>2, <2>3, <2>4, Constructed
  <2>7. Id' = Id \cup {n + 1} /\ n + 1 \notin Id
    <3>1. PICK S : commits \in Seq(S)
      BY <2>2 DEF Sequential
    <3>2. commits \in Seq(S \cup {e}) /\ e \in S \cup {e}
      BY <3>1
    <3>3. PICK T : T = S \cup {e}
      OBVIOUS
    <3>4. DOMAIN commits' = 1..(Len(commits) + 1)
      BY <2>1, <2>3, <3>2, <3>3
    <3> QED BY <2>4, <2>5, <3>4 DEF Id
  <2>8. /\ e.by = c /\ e.parents = P /\ e.record = R
        /\ e.ancestors \subseteq 1..n /\ e.filter \subseteq Nat
    <3>1. Ancestors(H) \subseteq 1..n
      BY <2>5 DEF Ancestors
    <3>2. 1..n \subseteq Nat
      OBVIOUS
    <3> QED BY <2>3, <3>1, <3>2 DEF NewCommit
  <2>9. Typed(n + 1)'
    <3>1. (n + 1) - 1 = n
      OBVIOUS
    <3>2. P \subseteq 1..n
      BY <2>5
    <3> QED BY <2>6, <2>8, <3>1, <3>2 DEF Typed
  <2>10. \A m \in Id : Typed(m)'
    BY <2>2, <2>6 DEF Typed
  <2>11. By(n + 1)' = c /\ \A m \in Id : By(m)' = By(m)
    BY <2>6, <2>8 DEF By
  <2> QED BY <2>6, <2>7, <2>9, <2>10, <2>11
<1> QED BY <1>1, <1>2 DEF Constructs

(* What is pending stays pending or enters a repository, and only what c   *)
(* constructs becomes pending.                                             *)
PendingMoves(c) ==
  /\ \A d \in Client \ {c} : setting'[d] = setting[d] /\ merging'[d] = merging[d]
  /\ Everywhere' \subseteq Everywhere \cup (Pending(c) \ Pending(c)')
  /\ Pending(c)' \subseteq Pending(c) \cup (Id' \ Id)
  /\ setting'[c] = merging'[c] => setting'[c] = None

LEMMA ShapeKept ==
  ASSUME GraphShape, NEW c \in Client, conditions' = conditions, Constructs(c),
         have' \in [Client -> SUBSET Id'], touched' \in [Client -> BOOLEAN],
         headId' \in [Client -> IdOrNone'], setting' \in [Client -> IdOrNone'],
         merging' \in [Client -> IdOrNone'],
         \A d \in Client : headId'[d] \in {None} \cup have'[d],
         PendingMoves(c)
  PROVE  GraphShape'
<1>1. /\ Sequential' /\ Id \subseteq Id' /\ \A m \in Id' : Typed(m)'
      /\ \A m \in Id : By(m)' = By(m)
      /\ \A m \in Id' \ Id : By(m)' = c
  BY ConstructsTyped
<1>2. /\ \A d \in Client : \A p \in Pending(d) : p \in Id /\ By(p) = d /\ p \notin Everywhere
      /\ Everywhere \subseteq Id
      /\ \A d \in Client : setting[d] = merging[d] => setting[d] = None
  <2>1. ASSUME NEW d \in Client, NEW p \in Pending(d) PROVE p \in Id
    BY DEF GraphShape, Pending, IdOrNone
  <2>2. Everywhere \subseteq Id
    BY DEF GraphShape, Everywhere
  <2> QED BY <2>1, <2>2 DEF GraphShape
<1>3. ASSUME NEW d \in Client, NEW p \in Pending(d)'
      PROVE  By(p)' = d /\ p \notin Everywhere'
  <2>1. CASE d = c
    <3>1. CASE p \in Pending(c)
      BY <1>1, <1>2, <1>3, <2>1, <3>1 DEF PendingMoves
    <3>2. CASE p \in Id' \ Id
      <4>1. p \notin Everywhere /\ p \notin Pending(c)
        BY <1>2, <3>2
      <4> QED BY <1>1, <2>1, <3>2, <4>1 DEF PendingMoves
    <3> QED BY <1>3, <2>1, <3>1, <3>2 DEF PendingMoves
  <2>2. CASE d # c
    <3>1. p \in Pending(d)
      BY <1>3, <2>2 DEF PendingMoves, Pending
    <3>2. p \notin Pending(c)
      BY <1>2, <2>2, <3>1
    <3> QED BY <1>1, <1>2, <3>1, <3>2 DEF PendingMoves
  <2> QED BY <2>1, <2>2
<1>4. ASSUME NEW d \in Client, setting'[d] = merging'[d] PROVE setting'[d] = None
  BY <1>2, <1>4 DEF PendingMoves
<1>5. conditions' \in Conditions
  BY DEF GraphShape
<1> QED BY <1>1, <1>3, <1>4, <1>5 DEF GraphShape

(* What the steps of an editor do to the graph, whatever is shown then.    *)
HeadMoves(c) == \E h \in {None} \cup have'[c] : headId' = [headId EXCEPT ![c] = h]
MergesOrNot(c) ==
  \/ NothingToMerge(c, have'[c]) /\ HeadMoves(c)
  \/ StartMerge(c, have'[c]) /\ UNCHANGED headId

SetsValue(c, P, record) ==
  /\ P \subseteq have[c] /\ Cardinality(P) < 2
  /\ P = {} => have[c] = {} /\ c = Creator
  /\ setting[c] = None /\ merging[c] = None
  /\ \E fp \in conditions.falsePositives :
       commits' = Append(commits, NewCommit(c, have[c], P, record, fp))
  /\ setting' = [setting EXCEPT ![c] = Len(commits) + 1]
  /\ UNCHANGED <<conditions, have, headId, merging, touched>>

SignsValue(c) ==
  /\ setting[c] # None
  /\ have' = [have EXCEPT ![c] = @ \cup {setting[c]}]
  /\ setting' = [setting EXCEPT ![c] = None]
  /\ MergesOrNot(c)
  /\ UNCHANGED <<conditions, touched>>

SignsMerge(c) ==
  /\ merging[c] # None
  /\ have' = [have EXCEPT ![c] = @ \cup {merging[c]}]
  /\ merging' = [merging EXCEPT ![c] = None]
  /\ HeadMoves(c)
  /\ UNCHANGED <<conditions, commits, setting, touched>>

Touches(c) ==
  /\ touched' = [touched EXCEPT ![c] = FALSE]
  /\ MergesOrNot(c)
  /\ UNCHANGED <<conditions, have, setting>>

ShowsHead(c) ==
  HeadMoves(c) /\ UNCHANGED <<conditions, commits, have, setting, merging, touched>>

Proceeds(c) ==
  \/ SignsValue(c)
  \/ SignsMerge(c)
  \/ \E m \in Id : Deliver(c, m)
  \/ Touches(c)
  \/ ShowsHead(c)

GraphStep(c) ==
  Proceeds(c) \/ \E P, record : record \subseteq Elem /\ SetsValue(c, P, record)

(* An edit adds only what nobody has added before.                         *)
FreshEdit(c) ==
  \E P, record : /\ record \subseteq Elem /\ SetsValue(c, P, record)
                 /\ (record \ UNION {Rec(p) : p \in P}) \cap Added = {}

LEMMA NewestIsNew ==
  ASSUME Sequential, NEW e, commits' = Append(commits, e)
  PROVE  Len(commits) + 1 \in Id' \ Id
BY IdsOf, Constructed

LEMMA StartMergeStep ==
  ASSUME GraphShape, NEW c \in Client, NEW H \in SUBSET Id, StartMerge(c, H)
  PROVE  /\ Constructs(c) /\ merging[c] = None
         /\ merging' = [merging EXCEPT ![c] = Len(commits) + 1]
         /\ Len(commits) + 1 \in Id' \ Id
<1>1. PICK S \in CommitsToMerge(c, H), fp \in conditions.falsePositives :
        /\ MayMerge(c, S)
        /\ commits' = Append(commits, NewCommit(c, H, S, MergeRecord(H, S), fp))
        /\ merging' = [merging EXCEPT ![c] = Len(commits) + 1]
  BY DEF StartMerge
<1>2. Sequential /\ conditions \in Conditions /\ \A m \in Id : Typed(m)
  BY DEF GraphShape
<1>3. S \in SUBSET Id
  BY <1>2, MergesLeaves DEF LeavesForKey, LatestByConnection
<1>4. MergeRecord(H, S) \in SUBSET Elem
  <2>1. \A m \in Id : commits[m].record \subseteq Elem
    BY <1>2 DEF Typed
  <2> QED BY <1>2, <1>3, <2>1, MergeRecordOf
<1>5. fp \in SUBSET Nat
  BY <1>2, ConstantsOK
<1>6. Constructs(c)
  BY <1>1, <1>3, <1>4, <1>5 DEF Constructs
<1>7. Len(commits) + 1 \in Id' \ Id
  BY <1>1, <1>2, NewestIsNew
<1>8. merging[c] = None
  BY <1>1 DEF MayMerge
<1> QED BY <1>1, <1>6, <1>7, <1>8

(* A pending commit enters the repository of its author.                   *)
LEMMA Signing ==
  ASSUME GraphShape, NEW c \in Client, NEW m, m \in Pending(c),
         have' = [have EXCEPT ![c] = @ \cup {m}]
  PROVE  /\ have'[c] \in SUBSET Id /\ m \in have'[c]
         /\ have' \in [Client -> SUBSET Id]
         /\ \A d \in Client : have[d] \subseteq have'[d]
         /\ Everywhere' = Everywhere \cup {m}
<1>1. have \in [Client -> SUBSET Id]
  BY DEF GraphShape
<1>2. m \in Id
  BY DEF GraphShape, Pending, IdOrNone
<1>3. /\ have'[c] = have[c] \cup {m}
      /\ \A d \in Client \ {c} : have'[d] = have[d]
      /\ have' \in [Client -> SUBSET Id]
  BY <1>1, <1>2
<1>4. \A d \in Client : have[d] \subseteq have'[d]
  BY <1>3
<1>5. Everywhere' = Everywhere \cup {m}
  BY <1>3 DEF Everywhere
<1> QED BY <1>1, <1>2, <1>3, <1>4, <1>5

LEMMA ShapeSetsValue ==
  ASSUME GraphShape, NEW c \in Client, NEW P, NEW record \in SUBSET Elem,
         SetsValue(c, P, record)
  PROVE  GraphShape'
<1> USE DEF SetsValue
<1>1. PICK fp \in conditions.falsePositives :
        commits' = Append(commits, NewCommit(c, have[c], P, record, fp))
  OBVIOUS
<1>2. /\ Sequential /\ conditions \in Conditions /\ have[c] \in SUBSET Id
      /\ P \in SUBSET Id
  BY DEF GraphShape
<1>3. Constructs(c)
  <2>1. fp \in SUBSET Nat
    BY <1>2, ConstantsOK
  <2> QED BY <1>1, <1>2, <2>1 DEF Constructs
<1>4. Len(commits) + 1 \in Id' \ Id /\ Id \subseteq Id'
  BY <1>1, <1>2, <1>3, NewestIsNew, ConstructsTyped
<1>5. /\ have' \in [Client -> SUBSET Id'] /\ touched' \in [Client -> BOOLEAN]
      /\ headId' \in [Client -> IdOrNone'] /\ merging' \in [Client -> IdOrNone']
      /\ \A d \in Client : headId'[d] \in {None} \cup have'[d]
  <2>1. have \in [Client -> SUBSET Id']
    BY <1>4 DEF GraphShape
  <2>2. IdOrNone \subseteq IdOrNone'
    BY <1>4 DEF IdOrNone
  <2> QED BY <2>1, <2>2 DEF GraphShape
<1>6. setting' \in [Client -> IdOrNone']
  BY <1>4 DEF GraphShape, IdOrNone
<1>7. PendingMoves(c)
  <2>1. setting'[c] = Len(commits) + 1 /\ \A d \in Client \ {c} : setting'[d] = setting[d]
    BY DEF GraphShape
  <2>2. Len(commits) + 1 # None
    BY <1>2, IdsOf DEF None
  <2>3. Everywhere' = Everywhere
    BY DEF Everywhere
  <2>4. Pending(c) = {} /\ Pending(c)' = {Len(commits) + 1}
    BY <2>1, <2>2 DEF Pending
  <2> QED BY <1>4, <2>1, <2>2, <2>3, <2>4 DEF PendingMoves
<1>8. conditions' = conditions
  OBVIOUS
<1> HIDE DEF SetsValue
<1> QED BY <1>3, <1>5, <1>6, <1>7, <1>8, ShapeKept

LEMMA ShapeSignsValue ==
  ASSUME GraphShape, NEW c \in Client, SignsValue(c)
  PROVE  GraphShape'
<1> USE DEF SignsValue
<1>1. PICK m : m = setting[c]
  OBVIOUS
<1>2. m # None /\ m \in Pending(c) /\ merging[c] # m
  BY <1>1 DEF Pending, GraphShape
<1>3. /\ have'[c] \in SUBSET Id /\ m \in have'[c]
      /\ have' \in [Client -> SUBSET Id]
      /\ \A d \in Client : have[d] \subseteq have'[d]
      /\ Everywhere' = Everywhere \cup {m}
  BY <1>1, <1>2, Signing
<1>4. PICK H : H = have'[c]
  OBVIOUS
<1>5. H \in SUBSET Id
  BY <1>3, <1>4
<1>6. /\ setting' = [setting EXCEPT ![c] = None]
      /\ touched' \in [Client -> BOOLEAN] /\ conditions' = conditions
  BY DEF GraphShape
<1>7. setting'[c] = None /\ \A d \in Client \ {c} : setting'[d] = setting[d]
  BY <1>6 DEF GraphShape
<1>8. CASE NothingToMerge(c, H) /\ HeadMoves(c)
  <2>1. commits' = commits /\ merging' = merging /\ Id' = Id /\ IdOrNone' = IdOrNone
    BY <1>8 DEF NothingToMerge, Id, IdOrNone
  <2>2. PICK h \in {None} \cup have'[c] : headId' = [headId EXCEPT ![c] = h]
    BY <1>8 DEF HeadMoves
  <2>3. /\ headId' \in [Client -> IdOrNone] /\ setting' \in [Client -> IdOrNone]
        /\ merging \in [Client -> IdOrNone]
        /\ \A d \in Client : headId'[d] \in {None} \cup have'[d]
    BY <1>3, <1>6, <2>2 DEF GraphShape, IdOrNone
  <2>4. PendingMoves(c)
    BY <1>1, <1>2, <1>3, <1>7, <2>1 DEF PendingMoves, Pending
  <2> HIDE DEF SignsValue
  <2> QED BY <1>3, <1>6, <2>1, <2>3, <2>4, ShapeKept DEF Constructs
<1>9. CASE StartMerge(c, H) /\ headId' = headId
  <2>1. /\ Constructs(c) /\ merging[c] = None
        /\ merging' = [merging EXCEPT ![c] = Len(commits) + 1]
        /\ Len(commits) + 1 \in Id' \ Id
    BY <1>5, <1>9, StartMergeStep
  <2>2. Id \subseteq Id' /\ IdOrNone \subseteq IdOrNone'
    BY <2>1, ConstructsTyped DEF IdOrNone
  <2>3. /\ headId' \in [Client -> IdOrNone'] /\ setting' \in [Client -> IdOrNone']
        /\ merging' \in [Client -> IdOrNone'] /\ have' \in [Client -> SUBSET Id']
        /\ \A d \in Client : headId'[d] \in {None} \cup have'[d]
    <3>1. /\ headId \in [Client -> IdOrNone] /\ setting \in [Client -> IdOrNone]
          /\ merging \in [Client -> IdOrNone]
          /\ \A d \in Client : headId[d] \in {None} \cup have[d]
      BY DEF GraphShape
    <3>2. Len(commits) + 1 \in IdOrNone' /\ None \in IdOrNone'
      BY <2>1 DEF IdOrNone
    <3>3. have' \in [Client -> SUBSET Id']
      BY <1>3, <2>2
    <3> QED BY <1>3, <1>6, <1>9, <2>1, <2>2, <3>1, <3>2, <3>3
  <2>4. PendingMoves(c)
    <3>1. merging'[c] = Len(commits) + 1 /\ \A d \in Client \ {c} : merging'[d] = merging[d]
      BY <2>1 DEF GraphShape
    <3>2. Len(commits) + 1 # m
      BY <1>3, <2>1
    <3> QED BY <1>1, <1>2, <1>3, <1>7, <2>1, <3>1, <3>2 DEF PendingMoves, Pending
  <2> HIDE DEF SignsValue
  <2> QED BY <1>6, <2>1, <2>3, <2>4, ShapeKept
<1> QED BY <1>4, <1>8, <1>9 DEF MergesOrNot

LEMMA ShapeSignsMerge ==
  ASSUME GraphShape, NEW c \in Client, SignsMerge(c)
  PROVE  GraphShape'
<1> USE DEF SignsMerge
<1>1. PICK m : m = merging[c]
  OBVIOUS
<1>2. m # None /\ m \in Pending(c) /\ setting[c] # m
  BY <1>1 DEF Pending, GraphShape
<1>3. /\ have'[c] \in SUBSET Id /\ m \in have'[c]
      /\ have' \in [Client -> SUBSET Id]
      /\ \A d \in Client : have[d] \subseteq have'[d]
      /\ Everywhere' = Everywhere \cup {m}
  BY <1>1, <1>2, Signing
<1>4. PICK h \in {None} \cup have'[c] : headId' = [headId EXCEPT ![c] = h]
  BY DEF HeadMoves
<1>6. commits' = commits /\ setting' = setting /\ Id' = Id /\ IdOrNone' = IdOrNone
  BY DEF Id, IdOrNone
<1>7. /\ headId' \in [Client -> IdOrNone] /\ merging' \in [Client -> IdOrNone]
      /\ setting' \in [Client -> IdOrNone] /\ touched' \in [Client -> BOOLEAN]
      /\ \A d \in Client : headId'[d] \in {None} \cup have'[d]
  <2>1. h \in IdOrNone
    BY <1>3, <1>4 DEF IdOrNone
  <2> QED BY <1>3, <1>4, <2>1 DEF GraphShape, IdOrNone
<1>8. PendingMoves(c)
  <2>1. merging'[c] = None /\ \A d \in Client \ {c} : merging'[d] = merging[d]
    BY DEF GraphShape
  <2> QED BY <1>1, <1>2, <1>3, <1>6, <2>1 DEF PendingMoves, Pending
<1>9. conditions' = conditions
  OBVIOUS
<1> HIDE DEF SignsMerge
<1> QED BY <1>3, <1>6, <1>7, <1>8, <1>9, ShapeKept DEF Constructs

LEMMA ShapeDeliver ==
  ASSUME GraphShape, NEW c \in Client, NEW m \in Id, Deliver(c, m)
  PROVE  GraphShape'
<1> USE DEF Deliver
<1>1. commits' = commits /\ setting' = setting /\ merging' = merging
      /\ conditions' = conditions /\ Id' = Id /\ IdOrNone' = IdOrNone
  BY DEF Id, IdOrNone
<1>2. /\ have' \in [Client -> SUBSET Id] /\ touched' \in [Client -> BOOLEAN]
      /\ have'[c] = have[c] \cup {m}
      /\ \A d \in Client \ {c} : have'[d] = have[d]
  BY DEF GraphShape
<1>3. m \in Everywhere /\ Everywhere' \subseteq Everywhere
  BY <1>2 DEF Everywhere
<1>4. headId' \in [Client -> IdOrNone]
  BY DEF GraphShape, IdOrNone
<1>5. \A d \in Client : headId'[d] \in {None} \cup have'[d]
  BY <1>2 DEF GraphShape
<1>6. PendingMoves(c)
  BY <1>1, <1>3 DEF PendingMoves, Pending, GraphShape
<1>7. setting \in [Client -> IdOrNone] /\ merging \in [Client -> IdOrNone]
  BY DEF GraphShape
<1> HIDE DEF Deliver
<1> QED BY <1>1, <1>2, <1>4, <1>5, <1>6, <1>7, ShapeKept DEF Constructs

LEMMA ShapeTouches ==
  ASSUME GraphShape, NEW c \in Client, Touches(c)
  PROVE  GraphShape'
<1> USE DEF Touches
<1>1. PICK H : H = have[c]
  OBVIOUS
<1>2. H \in SUBSET Id
  BY <1>1 DEF GraphShape
<1>6. /\ touched' \in [Client -> BOOLEAN] /\ conditions' = conditions
      /\ have' = have /\ setting' = setting /\ Everywhere' = Everywhere
  BY DEF GraphShape, Everywhere
<1>7. CASE NothingToMerge(c, H) /\ HeadMoves(c)
  <2>1. commits' = commits /\ merging' = merging /\ Id' = Id /\ IdOrNone' = IdOrNone
    BY <1>7 DEF NothingToMerge, Id, IdOrNone
  <2>2. /\ headId' \in [Client -> IdOrNone] /\ setting \in [Client -> IdOrNone]
        /\ merging \in [Client -> IdOrNone] /\ have \in [Client -> SUBSET Id]
        /\ \A d \in Client : headId'[d] \in {None} \cup have[d]
    <3>1. PICK h \in {None} \cup have[c] : headId' = [headId EXCEPT ![c] = h]
      BY <1>6, <1>7 DEF HeadMoves
    <3> QED BY <1>1, <1>2, <3>1 DEF GraphShape, IdOrNone
  <2>3. PendingMoves(c)
    BY <1>6, <2>1 DEF PendingMoves, Pending, GraphShape
  <2> HIDE DEF Touches
  <2> QED BY <1>6, <2>1, <2>2, <2>3, ShapeKept DEF Constructs
<1>8. CASE StartMerge(c, H) /\ headId' = headId
  <2>1. /\ Constructs(c) /\ merging[c] = None
        /\ merging' = [merging EXCEPT ![c] = Len(commits) + 1]
        /\ Len(commits) + 1 \in Id' \ Id
    BY <1>2, <1>8, StartMergeStep
  <2>2. Id \subseteq Id' /\ IdOrNone \subseteq IdOrNone'
    BY <2>1, ConstructsTyped DEF IdOrNone
  <2>3. /\ headId' \in [Client -> IdOrNone'] /\ setting' \in [Client -> IdOrNone']
        /\ merging' \in [Client -> IdOrNone'] /\ have' \in [Client -> SUBSET Id']
        /\ \A d \in Client : headId'[d] \in {None} \cup have'[d]
    <3>1. /\ headId \in [Client -> IdOrNone] /\ setting \in [Client -> IdOrNone]
          /\ merging \in [Client -> IdOrNone] /\ have \in [Client -> SUBSET Id]
          /\ \A d \in Client : headId[d] \in {None} \cup have[d]
      BY DEF GraphShape
    <3>2. Len(commits) + 1 \in IdOrNone'
      BY <2>1 DEF IdOrNone
    <3> QED BY <1>6, <1>8, <2>1, <2>2, <3>1, <3>2
  <2>4. PendingMoves(c)
    <3>1. merging'[c] = Len(commits) + 1 /\ \A d \in Client \ {c} : merging'[d] = merging[d]
      BY <2>1 DEF GraphShape
    <3>2. setting[c] # Len(commits) + 1
      <4>1. setting[c] \in IdOrNone /\ Sequential
        BY DEF GraphShape
      <4>2. Len(commits) + 1 # None
        BY <4>1, IdsOf DEF None
      <4> QED BY <2>1, <4>1, <4>2 DEF IdOrNone
    <3> QED BY <1>6, <2>1, <3>1, <3>2 DEF PendingMoves, Pending
  <2> HIDE DEF Touches
  <2> QED BY <1>6, <2>1, <2>3, <2>4, ShapeKept
<1> QED BY <1>1, <1>6, <1>7, <1>8 DEF MergesOrNot

LEMMA ShapeShowsHead ==
  ASSUME GraphShape, NEW c \in Client, ShowsHead(c)
  PROVE  GraphShape'
<1>1. /\ commits' = commits /\ setting' = setting /\ merging' = merging
      /\ conditions' = conditions /\ have' = have /\ touched' = touched
      /\ Id' = Id /\ IdOrNone' = IdOrNone /\ Everywhere' = Everywhere
  BY DEF ShowsHead, Id, IdOrNone, Everywhere
<1>2. PICK h \in {None} \cup have[c] : headId' = [headId EXCEPT ![c] = h]
  BY <1>1 DEF ShowsHead, HeadMoves
<1>3. headId' \in [Client -> IdOrNone] /\ \A d \in Client : headId'[d] \in {None} \cup have[d]
  BY <1>2 DEF GraphShape, IdOrNone
<1>4. PendingMoves(c)
  BY <1>1 DEF PendingMoves, Pending, GraphShape
<1>5. /\ setting \in [Client -> IdOrNone] /\ merging \in [Client -> IdOrNone]
      /\ have \in [Client -> SUBSET Id] /\ touched \in [Client -> BOOLEAN]
  BY DEF GraphShape
<1> QED BY <1>1, <1>3, <1>4, <1>5, ShapeKept DEF Constructs

LEMMA ShapeGraphStep ==
  ASSUME GraphShape, NEW c \in Client, GraphStep(c)
  PROVE  GraphShape'
BY ShapeSetsValue, ShapeSignsValue, ShapeSignsMerge, ShapeDeliver, ShapeTouches,
   ShapeShowsHead DEF GraphStep, Proceeds

LEMMA ShapeInit == Init => GraphShape
<1> SUFFICES ASSUME Init PROVE GraphShape
  OBVIOUS
<1>1. commits = <<>> /\ Id = {}
  BY DEF Init, Id
<1>2. Sequential
  <2>1. commits \in Seq({})
    BY <1>1
  <2> QED BY <2>1 DEF Sequential
<1>3. \A c \in Client : Pending(c) = {}
  BY DEF Init, Pending
<1> QED BY <1>1, <1>2, <1>3 DEF Init, GraphShape, IdOrNone

LEMMA SetValueIs ==
  ASSUME GraphShape, NEW c \in Client, Edit(c)
  PROVE  FreshEdit(c)
<1>1. headId[c] \in {None} \cup Id /\ \A m \in Id : commits[m].record \subseteq Elem
  BY DEF GraphShape, IdOrNone, Typed
<1>2. Rec(headId[c]) \subseteq Elem
  BY <1>1 DEF Rec
<1>3. PICK record \in SUBSET Elem :
        SetValueForKey(c, record) /\ (record \ Rec(headId[c])) \cap Added = {}
  BY <1>2 DEF Edit
<1>4. PICK P : P = IF headId[c] = None THEN {} ELSE {headId[c]}
  OBVIOUS
<1>5. P \subseteq have[c] /\ (P = {} => have[c] = {} /\ c = Creator)
  BY <1>3, <1>4 DEF GraphShape, SetValueForKey
<1>6. Cardinality(P) < 2
  <2>1. Cardinality({}) = 0
    BY FS_EmptySet
  <2>2. Cardinality({headId[c]}) = 1
    BY FS_Singleton
  <2> QED BY <1>4, <2>1, <2>2
<1>7. (record \ UNION {Rec(p) : p \in P}) \cap Added = {}
  <2>1. UNION {Rec(p) : p \in P} = Rec(headId[c])
    BY <1>4 DEF Rec
  <2> QED BY <1>3, <2>1
<1>8. SetsValue(c, P, record)
  BY <1>3, <1>4, <1>5, <1>6, <1>7 DEF SetValueForKey, SetsValue
<1> QED BY <1>3, <1>7, <1>8 DEF FreshEdit

LEMMA NextMoves ==
  ASSUME GraphShape, Next
  PROVE  \E c \in Client : FreshEdit(c) \/ Proceeds(c)
<1>1. PICK c \in Client : \/ Edit(c) \/ ValueSigned(c) \/ MergeSigned(c)
                          \/ \E m \in Id : Deliver(c, m)
                          \/ Touch(c)
  BY DEF Next
<1>2. CASE ValueSigned(c)
  <2>1. setting[c] \in Pending(c)
    BY <1>2 DEF ValueSigned, Pending
  <2>2. setting[c] \in have'[c]
    <3>1. PICK m : m = setting[c]
      OBVIOUS
    <3>2. have' = [have EXCEPT ![c] = @ \cup {m}]
      BY <1>2, <3>1 DEF ValueSigned
    <3> QED BY <2>1, <3>1, <3>2, Signing
  <2>3. HeadMoves(c) \/ headId' # [headId EXCEPT ![c] = setting[c]]
    BY <2>2 DEF HeadMoves
  <2>4. SignsValue(c)
    BY <1>2, <2>3 DEF ValueSigned, MergeIfNeeded, SignsValue, MergesOrNot
  <2> QED BY <2>4 DEF Proceeds
<1>3. CASE MergeSigned(c)
  <2>1. PICK m : m = merging[c]
    OBVIOUS
  <2>2. m \in Pending(c) /\ have' = [have EXCEPT ![c] = @ \cup {m}]
    BY <1>3, <2>1 DEF MergeSigned, Pending
  <2>3. PICK H \in SUBSET Id : H = have'[c]
    BY <2>2, Signing
  <2>4. HeadForKey(c, H) \in {None} \cup H
    BY HeadOf DEF GraphShape
  <2>5. headId' = [headId EXCEPT ![c] = HeadForKey(c, H)]
    BY <1>3, <2>3 DEF MergeSigned
  <2>6. SignsMerge(c)
    BY <1>3, <2>3, <2>4, <2>5 DEF MergeSigned, SignsMerge, HeadMoves
  <2> QED BY <2>6 DEF Proceeds
<1>4. CASE Touch(c)
  <2>1. PICK H : H = have[c]
    OBVIOUS
  <2>2. H \in SUBSET Id /\ have' = have
    BY <1>4, <2>1 DEF GraphShape, Touch
  <2>3. HeadForKey(c, H) \in {None} \cup H
    BY <2>2, HeadOf DEF GraphShape
  <2>4. MergeIfNeeded(c, H, HeadForKey(c, H)) /\ H = have'[c]
    BY <1>4, <2>1, <2>2 DEF Touch
  <2>5. MergesOrNot(c)
    BY <2>3, <2>4 DEF MergeIfNeeded, MergesOrNot, HeadMoves
  <2>6. Touches(c)
    BY <1>4, <2>5 DEF Touch, Touches
  <2> QED BY <2>6 DEF Proceeds
<1>5. CASE Edit(c)
  BY <1>5, SetValueIs
<1>6. CASE \E m \in Id : Deliver(c, m)
  BY <1>6 DEF Proceeds
<1> QED BY <1>1, <1>2, <1>3, <1>4, <1>5, <1>6

LEMMA NextIs ==
  ASSUME GraphShape, Next
  PROVE  \E c \in Client : GraphStep(c)
BY NextMoves DEF FreshEdit, GraphStep

LEMMA ShapeUnchanged == GraphShape /\ UNCHANGED vars => GraphShape'
BY DEF vars, GraphShape, Sequential, Id, Typed, IdOrNone, Pending, By, Everywhere

LEMMA ShapeStep == GraphShape /\ [Next]_vars => GraphShape'
BY NextIs, ShapeGraphStep, ShapeUnchanged

LEMMA ShapeHolds == Spec => []GraphShape
BY ShapeInit, ShapeStep, PTL DEF Spec

(* The types of the graph, in particular: a vertex shows a commit that its *)
(* repository holds, and no repository holds a commit that is being signed *)
(* (setValueForKey and _createMergeCommitImpl persist after signCommit),   *)
(* for any editors, edits, delays and false positives of the filters.      *)
THEOREM GraphTypeCorrect == Spec => []TypeOK
BY ShapeHolds, ShapeIsType, PTL
------------------------------------------------------------------------------
(* What a merge sees.  Where a commit arrives after its parents, replicas  *)
(* are closed under parents, and as only the creator constructs a commit   *)
(* without a parent and only once, one of any two leaves has a parent.     *)

OneRoot == \A r, k \in Id : Parents(r) = {} /\ Parents(k) = {} => r = k
Known(c) == have[c] \cup Pending(c)

SeesInv ==
  /\ GraphShape
  /\ MergesSeeAncestors
  /\ OneRoot
  /\ \A r \in Id : Parents(r) = {} => r \in have[Creator] \/ r = setting[Creator]
  /\ \A c \in Client : \A m \in Known(c) : Parents(m) \subseteq have[c]

LEMMA TwoElements ==
  ASSUME NEW S, Cardinality(S) > 1
  PROVE  S # {} /\ \E x, y \in S : x # y
<1>1. S # {}
  BY FS_EmptySet
<1>2. PICK x \in S : TRUE
  BY <1>1
<1>3. S # {x}
  BY FS_Singleton
<1> QED BY <1>1, <1>2, <1>3

LEMMA LeavesHaveAncestor ==
  ASSUME GraphShape, OneRoot, NEW H \in SUBSET Id, NEW S \in SUBSET H,
         \A m \in H : Parents(m) \subseteq H, Cardinality(S) > 1
  PROVE  S # {} /\ Ancestors(H) # {}
<1>1. PICK x \in S, y \in S : x # y
  BY TwoElements
<1>2. PICK m \in S : Parents(m) # {}
  BY <1>1 DEF OneRoot
<1>3. PICK p \in Parents(m) : p \in H
  BY <1>2
<1>4. p \in Ancestors(H)
  BY <1>3 DEF Ancestors, HasInEdges
<1> QED BY <1>1, <1>4

(* A commit that keeps to what SeesInv says of commits.                    *)
Sound(e) ==
  /\ e.parents = {} => \A m \in Id : Parents(m) # {}
  /\ Cardinality(e.parents) < 2 \/ e.ancestors # {}

LEMMA SoundCommit ==
  ASSUME SeesInv, NEW e, Sound(e), commits' = Append(commits, e)
  PROVE  /\ MergesSeeAncestors' /\ OneRoot'
         /\ \A m \in Id : Parents(m)' = Parents(m)
         /\ commits'[Len(commits) + 1].parents = e.parents
         /\ Id' = Id \cup {Len(commits) + 1}
<1>1. Sequential
  BY DEF SeesInv, GraphShape
<1>2. PICK n : n = Len(commits) + 1
  OBVIOUS
<1>3. /\ Id \subseteq Id' /\ n \in Id' /\ n \notin Id /\ commits'[n] = e
      /\ \A m \in Id : commits'[m] = commits[m]
  BY <1>1, <1>2, Constructed, NewestIsNew
<1>4. Id' = Id \cup {n}
  <2>1. PICK S : commits \in Seq(S)
    BY <1>1 DEF Sequential
  <2>2. commits \in Seq(S \cup {e}) /\ e \in S \cup {e}
    BY <2>1
  <2>3. PICK T : T = S \cup {e}
    OBVIOUS
  <2>4. DOMAIN commits' = 1..(Len(commits) + 1) /\ DOMAIN commits = 1..Len(commits)
    BY <2>2, <2>3
  <2>5. Len(commits) \in Nat
    BY <2>1
  <2> QED BY <1>2, <2>4, <2>5 DEF Id
<1>5. (\A m \in Id : Parents(m)' = Parents(m)) /\ Parents(n)' = e.parents
  BY <1>3 DEF Parents
<1>6. OneRoot'
  BY <1>4, <1>5 DEF OneRoot, SeesInv, Sound
<1>7. MergesSeeAncestors'
  <2>1. \A m \in Id : Cardinality(Parents(m)) < 2 \/ commits[m].ancestors # {}
    BY DEF SeesInv, MergesSeeAncestors, Merges, Edits
  <2>2. \A m \in Id' : Cardinality(Parents(m)') < 2 \/ commits'[m].ancestors # {}
    BY <1>3, <1>4, <1>5, <2>1 DEF Sound
  <2> QED BY <2>2 DEF MergesSeeAncestors, Merges, Edits
<1>8. commits'[n].parents = e.parents
  BY <1>3
<1> QED BY <1>2, <1>4, <1>5, <1>6, <1>7, <1>8

ConstructsSound == commits' = commits \/ \E e : Sound(e) /\ commits' = Append(commits, e)

LEMMA SeesKept ==
  ASSUME SeesInv, GraphShape', ConstructsSound,
         \A d \in Client : have[d] \subseteq have'[d],
         \A d \in Client : \A m \in Known(d)' :
           m \in Known(d) \/ Parents(m)' \subseteq have'[d],
         \A r \in Id' : Parents(r)' = {} => r \in Id \/ r = setting'[Creator],
         setting[Creator] \in {None, setting'[Creator]} \cup have'[Creator]
  PROVE  SeesInv'
<1>1. Sequential /\ None \notin Id /\ Creator \in Client
  BY IdsOf, ConstantsOK DEF SeesInv, GraphShape
<1>2. MergesSeeAncestors' /\ OneRoot' /\ \A m \in Id : Parents(m)' = Parents(m)
  <2>1. CASE commits' = commits
    BY <2>1 DEF SeesInv, MergesSeeAncestors, Merges, Edits, OneRoot, Parents, Id
  <2>2. CASE \E e : Sound(e) /\ commits' = Append(commits, e)
    BY <2>2, SoundCommit
  <2> QED BY <2>1, <2>2 DEF ConstructsSound
<1>3. ASSUME NEW r \in Id', Parents(r)' = {}
      PROVE  r \in have'[Creator] \/ r = setting'[Creator]
  <2>1. CASE r \in Id
    BY <1>1, <1>2, <1>3, <2>1 DEF SeesInv
  <2> QED BY <1>3, <2>1
<1>4. ASSUME NEW d \in Client, NEW m \in Known(d)'
      PROVE  Parents(m)' \subseteq have'[d]
  <2>1. CASE m \in Known(d)
    <3>1. m \in Id
      BY <2>1 DEF Known, Pending, SeesInv, GraphShape, IdOrNone
    <3> QED BY <1>2, <2>1, <3>1 DEF SeesInv
  <2> QED BY <1>4, <2>1
<1> QED BY <1>2, <1>3, <1>4 DEF SeesInv

LEMMA SeesMerge ==
  ASSUME SeesInv, NEW c \in Client, NEW H \in SUBSET Id, StartMerge(c, H),
         \A m \in H : Parents(m) \subseteq H
  PROVE  /\ ConstructsSound
         /\ \A r \in Id' : Parents(r)' = {} => r \in Id
         /\ merging' = [merging EXCEPT ![c] = Len(commits) + 1]
         /\ commits'[Len(commits) + 1].parents \subseteq H
<1>0. PICK S \in CommitsToMerge(c, H) :
        \E fp : /\ MayMerge(c, S)
               /\ commits' = Append(commits, NewCommit(c, H, S, MergeRecord(H, S), fp))
               /\ merging' = [merging EXCEPT ![c] = Len(commits) + 1]
  BY DEF StartMerge
<1>1. PICK fp :
        /\ MayMerge(c, S)
        /\ commits' = Append(commits, NewCommit(c, H, S, MergeRecord(H, S), fp))
        /\ merging' = [merging EXCEPT ![c] = Len(commits) + 1]
  BY <1>0
<1>2. GraphShape /\ Sequential /\ OneRoot
  BY DEF SeesInv, GraphShape
<1>3. S \in SUBSET H
  BY <1>2, MergesLeaves DEF LeavesForKey, LatestByConnection
<1>4. S # {} /\ Ancestors(H) # {}
  BY <1>1, <1>2, <1>3, LeavesHaveAncestor DEF MayMerge
<1>5. PICK e : e = NewCommit(c, H, S, MergeRecord(H, S), fp)
  OBVIOUS
<1>6. e.parents = S /\ e.ancestors # {}
  BY <1>4, <1>5 DEF NewCommit
<1>7. Sound(e) /\ commits' = Append(commits, e)
  BY <1>1, <1>4, <1>5, <1>6 DEF Sound
<1>8. /\ \A m \in Id : Parents(m)' = Parents(m)
      /\ commits'[Len(commits) + 1].parents = S
      /\ Id' = Id \cup {Len(commits) + 1}
  BY <1>6, <1>7, SoundCommit
<1>9. ASSUME NEW r \in Id', Parents(r)' = {} PROVE r \in Id
  <2>1. r = Len(commits) + 1 => Parents(r)' = S
    BY <1>8 DEF Parents
  <2> QED BY <1>4, <1>8, <1>9, <2>1
<1>10. ConstructsSound
  BY <1>7 DEF ConstructsSound
<1>11. commits'[Len(commits) + 1].parents \subseteq H
  BY <1>3, <1>8
<1> QED BY <1>1, <1>9, <1>10, <1>11

LEMMA SeesSetsValue ==
  ASSUME SeesInv, NEW c \in Client, NEW P, NEW record \in SUBSET Elem,
         SetsValue(c, P, record)
  PROVE  SeesInv'
<1>1. GraphShape' /\ GraphShape
  BY ShapeSetsValue DEF SeesInv
<1> USE DEF SetsValue
<1>2. PICK fp : commits' = Append(commits, NewCommit(c, have[c], P, record, fp))
  OBVIOUS
<1>3. P \subseteq have[c] /\ (P = {} => have[c] = {} /\ c = Creator)
  OBVIOUS
<1>4. Cardinality(P) < 2
  OBVIOUS
<1>5. None \notin Id /\ Creator \in Client
  BY <1>1, IdsOf, ConstantsOK DEF GraphShape
<1>6. ASSUME P = {}, NEW m \in Id PROVE Parents(m) # {}
  BY <1>3, <1>5, <1>6 DEF SeesInv
<1>7. PICK e : e = NewCommit(c, have[c], P, record, fp)
  OBVIOUS
<1>8. e.parents = P /\ Sound(e) /\ commits' = Append(commits, e)
  BY <1>2, <1>4, <1>6, <1>7 DEF Sound, NewCommit
<1>9. /\ commits'[Len(commits) + 1].parents = P
      /\ Id' = Id \cup {Len(commits) + 1}
      /\ setting'[c] = Len(commits) + 1
  BY <1>1, <1>8, SoundCommit DEF GraphShape
<1>10. have' = have /\ merging' = merging /\ setting[c] = None
       /\ \A d \in Client \ {c} : setting'[d] = setting[d]
  BY <1>1 DEF GraphShape
<1>11. ASSUME NEW d \in Client, NEW m \in Known(d)'
       PROVE  m \in Known(d) \/ Parents(m)' \subseteq have'[d]
  <2>1. m \in Known(d) \/ (d = c /\ m = Len(commits) + 1)
    BY <1>9, <1>10, <1>11 DEF Known, Pending
  <2>2. m = Len(commits) + 1 => Parents(m)' = P
    BY <1>9 DEF Parents
  <2> QED BY <1>3, <1>10, <2>1, <2>2
<1>12. ASSUME NEW r \in Id', Parents(r)' = {} PROVE r \in Id \/ r = setting'[Creator]
  <2>1. r = Len(commits) + 1 => Parents(r)' = P
    BY <1>9 DEF Parents
  <2> QED BY <1>3, <1>9, <1>12, <2>1
<1>13. setting[Creator] \in {None, setting'[Creator]}
  BY <1>5, <1>10
<1>14. ConstructsSound /\ \A d \in Client : have[d] \subseteq have'[d]
  BY <1>8, <1>10 DEF ConstructsSound
<1> HIDE DEF SetsValue
<1> QED BY <1>1, <1>11, <1>12, <1>13, <1>14, SeesKept

LEMMA SeesSignsValue ==
  ASSUME SeesInv, NEW c \in Client, SignsValue(c)
  PROVE  SeesInv'
<1>1. GraphShape' /\ GraphShape /\ None \notin Id /\ Creator \in Client
  BY ShapeSignsValue, IdsOf, ConstantsOK DEF SeesInv, GraphShape
<1> USE DEF SignsValue
<1>2. PICK m : m = setting[c]
  OBVIOUS
<1>3. m # None /\ m \in Pending(c)
  BY <1>2 DEF Pending
<1>4. /\ have'[c] \in SUBSET Id /\ m \in have'[c]
      /\ \A d \in Client : have[d] \subseteq have'[d]
  BY <1>1, <1>2, <1>3, Signing
<1>5. /\ have'[c] = have[c] \cup {m} /\ setting'[c] = None
      /\ \A d \in Client \ {c} : have'[d] = have[d] /\ setting'[d] = setting[d]
  BY <1>1, <1>2 DEF GraphShape
<1>6. PICK H : H = have'[c]
  OBVIOUS
<1>7. \A k \in H : Parents(k) \subseteq H
  BY <1>3, <1>5, <1>6 DEF SeesInv, Known
<1>8. H \in SUBSET Id /\ (NothingToMerge(c, H) \/ StartMerge(c, H))
  BY <1>4, <1>6 DEF MergesOrNot
<1>9. setting[Creator] \in {None, setting'[Creator]} \cup have'[Creator]
  BY <1>1, <1>2, <1>4, <1>5
<1> HIDE DEF SignsValue
<1>10. CASE NothingToMerge(c, H)
  <2>1. commits' = commits /\ merging' = merging /\ Id' = Id
    BY <1>10 DEF NothingToMerge, Id
  <2>2. ASSUME NEW d \in Client, NEW k \in Known(d)' PROVE k \in Known(d)
    BY <1>3, <1>5, <2>1, <2>2 DEF Known, Pending
  <2> QED BY <1>1, <1>4, <1>9, <2>1, <2>2, SeesKept DEF ConstructsSound
<1>11. CASE StartMerge(c, H)
  <2>1. /\ ConstructsSound
        /\ \A r \in Id' : Parents(r)' = {} => r \in Id
        /\ merging' = [merging EXCEPT ![c] = Len(commits) + 1]
        /\ commits'[Len(commits) + 1].parents \subseteq H
    BY <1>7, <1>8, <1>11, SeesMerge
  <2>2. ASSUME NEW d \in Client, NEW k \in Known(d)'
        PROVE  k \in Known(d) \/ Parents(k)' \subseteq have'[d]
    <3>1. k \in Known(d) \/ (d = c /\ k = Len(commits) + 1)
      BY <1>1, <1>3, <1>5, <2>1, <2>2 DEF Known, Pending, GraphShape
    <3>2. k = Len(commits) + 1 => Parents(k)' \subseteq H
      BY <2>1 DEF Parents
    <3> QED BY <1>6, <3>1, <3>2
  <2> QED BY <1>1, <1>4, <1>9, <2>1, <2>2, SeesKept
<1> QED BY <1>8, <1>10, <1>11

LEMMA SeesSignsMerge ==
  ASSUME SeesInv, NEW c \in Client, SignsMerge(c)
  PROVE  SeesInv'
<1>1. GraphShape' /\ GraphShape
  BY ShapeSignsMerge DEF SeesInv
<1>2. /\ commits' = commits /\ setting' = setting /\ Id' = Id
      /\ merging[c] \in Pending(c) /\ merging' = [merging EXCEPT ![c] = None]
      /\ have' = [have EXCEPT ![c] = @ \cup {merging[c]}]
  BY DEF SignsMerge, Id, Pending
<1>3. \A d \in Client : have[d] \subseteq have'[d]
  BY <1>1, <1>2 DEF GraphShape
<1>4. ASSUME NEW d \in Client, NEW k \in Known(d)' PROVE k \in Known(d)
  BY <1>1, <1>2, <1>4 DEF Known, Pending, GraphShape
<1> QED BY <1>1, <1>2, <1>3, <1>4, SeesKept DEF ConstructsSound

LEMMA SeesDeliver ==
  ASSUME SeesInv, ~conditions.gaps, NEW c \in Client, NEW m \in Id, Deliver(c, m)
  PROVE  SeesInv'
<1>1. GraphShape' /\ GraphShape
  BY ShapeDeliver DEF SeesInv
<1>2. /\ commits' = commits /\ setting' = setting /\ merging' = merging /\ Id' = Id
      /\ have' = [have EXCEPT ![c] = @ \cup {m}]
      /\ Parents(m) \subseteq have[c]
  BY DEF Deliver, Id
<1>3. \A d \in Client : have[d] \subseteq have'[d]
  BY <1>1, <1>2 DEF GraphShape
<1>4. ASSUME NEW d \in Client, NEW k \in Known(d)'
      PROVE  k \in Known(d) \/ Parents(k)' \subseteq have'[d]
  <2>1. k \in Known(d) \/ (d = c /\ k = m)
    BY <1>1, <1>2, <1>4 DEF Known, Pending, GraphShape
  <2>2. Parents(m)' = Parents(m)
    BY <1>2 DEF Parents
  <2> QED BY <1>2, <1>3, <2>1, <2>2
<1> QED BY <1>1, <1>2, <1>3, <1>4, SeesKept DEF ConstructsSound

LEMMA SeesTouches ==
  ASSUME SeesInv, NEW c \in Client, Touches(c)
  PROVE  SeesInv'
<1>1. GraphShape' /\ GraphShape
  BY ShapeTouches DEF SeesInv
<1>2. PICK H : H = have[c]
  OBVIOUS
<1>3. H \in SUBSET Id /\ \A k \in H : Parents(k) \subseteq H
  BY <1>1, <1>2 DEF SeesInv, Known, GraphShape
<1>4. /\ have' = have /\ setting' = setting
      /\ NothingToMerge(c, H) \/ StartMerge(c, H)
  BY <1>2 DEF Touches, MergesOrNot
<1>5. CASE NothingToMerge(c, H)
  <2>1. commits' = commits /\ merging' = merging /\ Id' = Id
    BY <1>5 DEF NothingToMerge, Id
  <2>2. \A d \in Client : Known(d)' = Known(d)
    BY <1>4, <2>1 DEF Known, Pending
  <2> QED BY <1>1, <1>4, <2>1, <2>2, SeesKept DEF ConstructsSound
<1>6. CASE StartMerge(c, H)
  <2>1. /\ ConstructsSound
        /\ \A r \in Id' : Parents(r)' = {} => r \in Id
        /\ merging' = [merging EXCEPT ![c] = Len(commits) + 1]
        /\ commits'[Len(commits) + 1].parents \subseteq H
    BY <1>3, <1>6, SeesMerge
  <2>2. ASSUME NEW d \in Client, NEW k \in Known(d)'
        PROVE  k \in Known(d) \/ Parents(k)' \subseteq have'[d]
    <3>1. k \in Known(d) \/ (d = c /\ k = Len(commits) + 1)
      BY <1>1, <1>4, <2>1, <2>2 DEF Known, Pending, GraphShape
    <3>2. k = Len(commits) + 1 => Parents(k)' \subseteq H
      BY <2>1 DEF Parents
    <3> QED BY <1>2, <1>4, <3>1, <3>2
  <2> QED BY <1>1, <1>4, <2>1, <2>2, SeesKept
<1> QED BY <1>4, <1>5, <1>6

LEMMA SeesGraphStep ==
  ASSUME SeesInv, ~conditions.gaps, NEW c \in Client, GraphStep(c)
  PROVE  SeesInv'
<1>1. CASE ShowsHead(c)
  <2>1. GraphShape'
    BY <1>1, ShapeShowsHead DEF SeesInv
  <2>2. UNCHANGED <<commits, have, setting, merging>>
    BY <1>1 DEF ShowsHead
  <2> QED BY <2>1, <2>2 DEF SeesInv, MergesSeeAncestors, Merges, Edits, OneRoot,
                            Parents, Id, Known, Pending
<1> QED BY <1>1, SeesSetsValue, SeesSignsValue, SeesSignsMerge, SeesDeliver,
           SeesTouches DEF GraphStep, Proceeds

LEMMA SeesInit == Init => SeesInv
<1> SUFFICES ASSUME Init PROVE SeesInv
  OBVIOUS
<1>1. GraphShape /\ Id = {}
  BY ShapeInit DEF Init, Id
<1>2. \A c \in Client : Known(c) = {}
  BY DEF Init, Known, Pending
<1> QED BY <1>1, <1>2 DEF SeesInv, MergesSeeAncestors, Merges, OneRoot

LEMMA SeesUnchanged == SeesInv /\ UNCHANGED vars => SeesInv'
<1> SUFFICES ASSUME SeesInv, UNCHANGED vars PROVE SeesInv'
  OBVIOUS
<1>1. GraphShape'
  BY ShapeUnchanged DEF SeesInv
<1> QED BY <1>1 DEF vars, SeesInv, MergesSeeAncestors, Merges, Edits, OneRoot,
                    Parents, Id, Known, Pending

LEMMA SeesStep == SeesInv /\ ~conditions.gaps /\ [Next]_vars => SeesInv'
<1>1. SeesInv /\ Next => \E c \in Client : GraphStep(c)
  BY NextIs DEF SeesInv
<1> QED BY <1>1, SeesGraphStep, SeesUnchanged

(* If a commit arrives after its parents, a merge always sees an ancestor, *)
(* as _createMergeCommitImpl asserts, whoever edits and however many do.   *)
(* Without that hypothesis it is false: an editor whose replica has the    *)
(* leaves of three others and none of their parents merges two of them     *)
(* without having seen an ancestor.                                        *)
THEOREM MergesSeeTheirAncestors ==
  ASSUME \A x \in Conditions : ~x.gaps
  PROVE  Spec => []MergesSeeAncestors
<1>2. SeesInv /\ [Next]_vars => SeesInv'
  <2>1. SeesInv => ~conditions.gaps
    BY DEF SeesInv, GraphShape
  <2> QED BY <2>1, SeesStep
<1>3. SeesInv => MergesSeeAncestors
  BY DEF SeesInv
<1> QED BY SeesInit, <1>2, <1>3, PTL DEF Spec
==============================================================================
