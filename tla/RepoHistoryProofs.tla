-------------------------- MODULE RepoHistoryProofs --------------------------
(***************************************************************************)
(* Proofs about who merges the commits of one key, and about what of its   *)
(* history is in the record of a commit, for any number of edits and       *)
(* merges: two editors who look at once do not answer merges with merges,  *)
(* merges lose no addition, and where branches fork at one commit a merge  *)
(* applies the edits of both.                                              *)
(***************************************************************************)
EXTENDS RepoMergeProofs

(* The graph with one more commit.                                         *)
LEMMA AppendedCommit ==
  ASSUME Sequential, NEW e, commits' = Append(commits, e),
         NEW n, n = Len(commits) + 1
  PROVE  /\ Id' = Id \cup {n} /\ n \notin Id /\ n \in Nat /\ Id = 1..(n - 1)
         /\ commits'[n] = e
         /\ By(n)' = e.by /\ Parents(n)' = e.parents
         /\ \A m \in Id : /\ commits'[m] = commits[m]
                          /\ By(m)' = By(m) /\ Parents(m)' = Parents(m)
<1>1. Id \subseteq Id' /\ n \in Id' /\ n \notin Id /\ commits'[n] = e
  BY Constructed, NewestIsNew
<1>2. \A m \in Id : commits'[m] = commits[m]
  BY Constructed
<1>3. PICK S : commits \in Seq(S)
  BY DEF Sequential
<1>4. PICK T : T = S \cup {e}
  OBVIOUS
<1>5. commits \in Seq(T) /\ e \in T
  BY <1>3, <1>4
<1>6. DOMAIN commits' = 1..(Len(commits) + 1) /\ DOMAIN commits = 1..Len(commits)
      /\ Len(commits) \in Nat
  BY <1>5
<1>7. Id' = Id \cup {n} /\ n \in Nat /\ Id = 1..(n - 1)
  BY <1>6 DEF Id
<1> QED BY <1>1, <1>2, <1>7 DEF By, Parents

------------------------------------------------------------------------------
(* Who merges.  Of two editors who look at once only L, whose rank is the  *)
(* lower one, ever leads, and a merge is of a commit by each of them.      *)
LEMMA PromptMerge ==
  ASSUME GraphShape, NEW L, NEW F, Client = {L, F}, Rank[L] < Rank[F],
         conditions.pace = {"prompt"},
         NEW c \in Client, NEW H \in SUBSET Id, NEW S \in CommitsToMerge(c, H),
         Cardinality(S) > 1
  PROVE  /\ c = L /\ S \subseteq LeavesForKey(H)
         /\ \E l, f \in S : By(l) = L /\ By(f) = F
<1> DEFINE leaves == LeavesForKey(H)
<1>1. Sequential /\ \A m \in Id : By(m) \in Client /\ m \in Int
  BY IdsOf DEF GraphShape, Typed, By
<1>2. S \subseteq leaves
  BY <1>1, MergesLeaves
<1>3. leaves \subseteq H
  BY DEF LeavesForKey, LatestByConnection
<1>4. PICK x \in S, y \in S : x # y
  BY TwoElements
<1>5. By(x) # By(y)
  <2>1. By(x) = By(y) => x <= y /\ y <= x
    BY <1>2, <1>4 DEF LeavesForKey, LatestByConnection
  <2>2. x \in Int /\ y \in Int
    BY <1>1, <1>2, <1>3
  <2> QED BY <1>4, <2>1, <2>2
<1>6. By(x) \in Client /\ By(y) \in Client
  BY <1>1, <1>2, <1>3
<1>7. \E l, f \in S : By(l) = L /\ By(f) = F
  BY <1>5, <1>6
<1>8. Leader(c, leaves) = c
  <2>1. S # {}
    BY <1>4
  <2>2. \A look \in Looks(leaves) : look.fresh = leaves
    BY DEF Looks
  <2> HIDE DEF leaves
  <2>3. \E look \in Looks(leaves) : Leader(c, look.fresh) = c
    BY <2>1 DEF CommitsToMerge, leaves
  <2> QED BY <2>2, <2>3
<1>9. c = L
  <2> DEFINE authors == {By(m) : m \in leaves}
             Leads(d) == \A e \in authors : Rank[d] <= Rank[e]
  <2>1. L \in authors /\ F \in authors /\ \A e \in authors : e \in {L, F}
    BY <1>1, <1>2, <1>3, <1>7
  <2>2. Rank[L] \in Nat /\ Rank[F] \in Nat
    BY ConstantsOK
  <2>3. leaves # {}
    BY <2>1
  <2> HIDE DEF authors, leaves
  <2>4. Leads(L)
    BY <2>1, <2>2
  <2>5. c = CHOOSE d \in authors : Leads(d)
    BY <1>8, <2>3 DEF Leader, authors
  <2>6. Leads(c)
    BY <2>1, <2>4, <2>5
  <2>7. Rank[c] <= Rank[L]
    BY <2>1, <2>6
  <2> QED BY <2>2, <2>7
<1> QED BY <1>2, <1>7, <1>9

(* u is an edit that no merge consumes: it is by L, or a commit that L has *)
(* derives from it.                                                        *)
Spared(L, u) ==
  /\ u \in Edits
  /\ \/ By(u) = L
     \/ HasInEdges(have[L], u) /\ \A m \in Merges : u \notin Parents(m)

(* Every merge consumes a commit by F of its own, and two edits are spared.*)
TurnsTaken(L, F) ==
  /\ \A m \in Merges : By(m) = L /\ (m \in have[L] \/ m = merging[L])
  /\ \A m \in Merges : \E p \in Parents(m) : By(p) = F
  /\ \A m, k \in Merges : \A p \in Parents(m) \cap Parents(k) : By(p) = F => m = k
  /\ Merges # {} => \E u, v \in Edits : u # v /\ Spared(L, u) /\ Spared(L, v)

DerivesFromHeld ==
  /\ \A m \in Id : Parents(m) \subseteq have[By(m)]
  /\ \A m \in Id : Parents(m) = {} => By(m) = Creator

MergerInv(L, F) ==
  /\ GraphShape /\ DerivesFromHeld
  /\ conditions.pace = {"prompt"} => TurnsTaken(L, F)

(* No merge is constructed: nothing, or an edit.                           *)
LEMMA TurnsKept ==
  ASSUME NEW L \in Client, NEW F \in Client, MergerInv(L, F), GraphShape',
         conditions' = conditions,
         \A d \in Client : have[d] \subseteq have'[d],
         merging[L] \in {None, merging'[L]} \cup have'[L],
         \/ commits' = commits
         \/ \E e : /\ commits' = Append(commits, e)
                   /\ Cardinality(e.parents) < 2
                   /\ e.by \in Client /\ e.parents \subseteq have'[e.by]
                   /\ e.parents = {} => e.by = Creator
  PROVE  MergerInv(L, F)'
<1>1. Sequential /\ None \notin Id /\ (\A m \in Id : By(m) \in Client)
      /\ \A m \in Id : Parents(m) \subseteq Id
  <2>1. \A m \in Id : By(m) \in Client /\ m \in Nat /\ Parents(m) \subseteq 1..(m - 1)
    BY IdsOf DEF MergerInv, GraphShape, Typed, By, Parents
  <2>2. \A m \in Id : 1..(m - 1) \subseteq Id
    BY IdsOf DEF MergerInv, GraphShape
  <2> QED BY <2>1, <2>2, IdsOf DEF MergerInv, GraphShape
<1>2. /\ Merges' = Merges /\ Edits \subseteq Edits'
      /\ \A m \in Id : By(m)' = By(m) /\ Parents(m)' = Parents(m)
      /\ DerivesFromHeld'
  <2>1. CASE commits' = commits
    <3>1. /\ Id' = Id /\ \A m \in Id : By(m)' = By(m) /\ Parents(m)' = Parents(m)
      BY <2>1 DEF Id, By, Parents
    <3> QED BY <1>1, <3>1 DEF Merges, Edits, MergerInv, DerivesFromHeld
  <2>2. CASE commits' # commits
    <3>1. PICK e : /\ commits' = Append(commits, e)
                   /\ Cardinality(e.parents) < 2
                   /\ e.by \in Client /\ e.parents \subseteq have'[e.by]
                   /\ e.parents = {} => e.by = Creator
      BY <2>2
    <3>2. PICK n : n = Len(commits) + 1
      OBVIOUS
    <3>3. /\ Id' = Id \cup {n} /\ n \notin Id
          /\ By(n)' = e.by /\ Parents(n)' = e.parents
          /\ \A m \in Id : By(m)' = By(m) /\ Parents(m)' = Parents(m)
      BY <1>1, <3>1, <3>2, AppendedCommit
    <3>4. DerivesFromHeld'
      BY <1>1, <3>1, <3>3 DEF MergerInv, DerivesFromHeld
    <3>5. Edits' = Edits \cup {n}
      BY <3>1, <3>3 DEF Edits
    <3> QED BY <3>3, <3>4, <3>5 DEF Merges
  <2> QED BY <2>1, <2>2
<1>3. ASSUME conditions.pace = {"prompt"} PROVE TurnsTaken(L, F)'
  <2>1. TurnsTaken(L, F) /\ Merges \subseteq Id /\ Edits \subseteq Id
    BY <1>3 DEF MergerInv, Merges, Edits
  <2>2. have[L] \subseteq have'[L]
    OBVIOUS
  <2>3. \A m \in Merges' : By(m)' = L /\ (m \in have'[L] \/ m = merging'[L])
    BY <1>1, <1>2, <2>1, <2>2 DEF TurnsTaken
  <2>4. \A m \in Merges' : \E p \in Parents(m)' : By(p)' = F
    BY <1>1, <1>2, <2>1 DEF TurnsTaken
  <2>5. \A m, k \in Merges' : \A p \in Parents(m)' \cap Parents(k)' : By(p)' = F => m = k
    BY <1>1, <1>2, <2>1 DEF TurnsTaken
  <2>6. have[L] \subseteq Id
    BY DEF MergerInv, GraphShape
  <2>7. \A u \in Edits : Spared(L, u) => Spared(L, u)'
    BY <1>2, <2>1, <2>2, <2>6 DEF Spared, HasInEdges
  <2>8. Merges' # {} => \E u, v \in Edits' : u # v /\ Spared(L, u)' /\ Spared(L, v)'
    BY <1>2, <2>1, <2>7 DEF TurnsTaken
  <2> QED BY <2>3, <2>4, <2>5, <2>8 DEF TurnsTaken
<1> QED BY <1>2, <1>3 DEF MergerInv

(* A merge is constructed.                                                 *)
LEMMA TurnsMerge ==
  ASSUME NEW L, NEW F, Client = {L, F}, Rank[L] < Rank[F],
         MergerInv(L, F), GraphShape', conditions' = conditions,
         NEW c \in Client, NEW H \in SUBSET Id, H = have'[c], StartMerge(c, H),
         \A d \in Client : have[d] \subseteq have'[d]
  PROVE  MergerInv(L, F)'
<1>1. PICK S \in CommitsToMerge(c, H) :
        \E fp : /\ MayMerge(c, S)
                /\ commits' = Append(commits, NewCommit(c, H, S, MergeRecord(H, S), fp))
                /\ merging' = [merging EXCEPT ![c] = Len(commits) + 1]
  BY DEF StartMerge
<1>2. PICK fp :
        /\ MayMerge(c, S)
        /\ commits' = Append(commits, NewCommit(c, H, S, MergeRecord(H, S), fp))
        /\ merging' = [merging EXCEPT ![c] = Len(commits) + 1]
  BY <1>1
<1>3. PICK e, n : e = NewCommit(c, H, S, MergeRecord(H, S), fp) /\ n = Len(commits) + 1
  OBVIOUS
<1>4. GraphShape /\ Sequential /\ None \notin Id
  BY IdsOf DEF MergerInv, GraphShape
<1>5. e.by = c /\ e.parents = S
  BY <1>3 DEF NewCommit
<1>6. Cardinality(S) > 1 /\ S # {} /\ merging[c] = None /\ merging'[c] = n
  BY <1>2, <1>3, <1>4, TwoElements DEF MayMerge, GraphShape
<1>7. S \subseteq LeavesForKey(H) /\ LeavesForKey(H) \subseteq H
  BY <1>4, MergesLeaves DEF LeavesForKey, LatestByConnection
<1>8. /\ Id' = Id \cup {n} /\ n \notin Id
      /\ By(n)' = c /\ Parents(n)' = S
      /\ \A m \in Id : By(m)' = By(m) /\ Parents(m)' = Parents(m)
  BY <1>2, <1>3, <1>4, <1>5, AppendedCommit
<1>9. \A m \in Id : By(m) \in Client /\ m \notin Parents(m) /\ Parents(m) \subseteq Id
  <2>1. \A m \in Id : By(m) \in Client /\ m \in Nat /\ Parents(m) \subseteq 1..(m - 1)
    BY <1>4, IdsOf DEF GraphShape, Typed, By, Parents
  <2>2. \A m \in Id : 1..(m - 1) \subseteq Id
    BY <1>4, IdsOf
  <2> QED BY <2>1, <2>2
<1>10. DerivesFromHeld'
  <2>1. Parents(n)' \subseteq have'[c] /\ Parents(n)' # {}
    BY <1>6, <1>7, <1>8
  <2> QED BY <1>8, <1>9, <2>1 DEF MergerInv, DerivesFromHeld
<1>11. Merges' = Merges \cup {n} /\ Edits' = Edits /\ Merges \subseteq Id /\ Edits \subseteq Id
  <2>1. ~(Cardinality(Parents(n)') < 2)
    <3>1. Cardinality(Parents(n)') > 1
      BY <1>6, <1>8
    <3>2. Cardinality(Parents(n)') \in Nat
      <4>1. S \in SUBSET Id
        BY <1>7
      <4> QED BY <1>4, <1>8, <4>1, ReplicaFinite
    <3> QED BY <3>1, <3>2
  <2>2. Edits' = Edits
    BY <1>8, <2>1 DEF Edits
  <2> QED BY <1>8, <2>2 DEF Edits, Merges
<1>12. ASSUME conditions.pace = {"prompt"} PROVE TurnsTaken(L, F)'
  <2>1. TurnsTaken(L, F)
    BY <1>12 DEF MergerInv
  <2>2. c = L /\ \E l, f \in S : By(l) = L /\ By(f) = F
    BY <1>4, <1>6, <1>12, PromptMerge
  <2>3. PICK l \in S, f \in S : By(l) = L /\ By(f) = F
    BY <2>2
  <2>4. L # F
    <3>1. Rank[L] \in Nat
      BY ConstantsOK
    <3> QED BY <3>1
  <2>5. have[L] \subseteq H /\ have'[L] = H
    BY <2>2
  <2>6. \A p \in S : ~HasInEdges(H, p)
    BY <1>7 DEF LeavesForKey, LatestByConnection
  <2>7. \A m \in Merges : m \in have[L] /\ m \in H
    BY <1>4, <1>6, <1>11, <2>1, <2>2, <2>5 DEF TurnsTaken
  <2>8. \A m \in Merges : \A p \in Parents(m) : p \notin S
    BY <2>6, <2>7 DEF HasInEdges
  <2>9. \A m \in Merges' : By(m)' = L /\ (m \in have'[L] \/ m = merging'[L])
    BY <1>6, <1>8, <1>11, <2>1, <2>2, <2>5, <2>7 DEF TurnsTaken
  <2>10. \A m \in Merges' : \E p \in Parents(m)' : By(p)' = F
    <3>1. f \in Id /\ f \in Parents(n)'
      BY <1>7, <1>8
    <3> QED BY <1>8, <1>9, <1>11, <2>1, <2>3, <3>1 DEF TurnsTaken
  <2>11. \A m, k \in Merges' : \A p \in Parents(m)' \cap Parents(k)' : By(p)' = F => m = k
    <3>1. TAKE m, k \in Merges'
    <3>2. CASE m = n \/ k = n
      BY <1>8, <1>11, <2>8, <3>2
    <3>3. CASE m # n /\ k # n
      BY <1>8, <1>9, <1>11, <2>1, <3>3 DEF TurnsTaken
    <3> QED BY <3>2, <3>3
  <2>12. ASSUME NEW u \in Edits,
                By(u) = L \/ (HasInEdges(H, u) /\ \A m \in Merges : u \notin Parents(m))
         PROVE  Spared(L, u)'
    <3>1. HasInEdges(H, u) => HasInEdges(have[L], u)' /\ u \notin S
      BY <1>8, <2>5, <2>6 DEF HasInEdges
    <3> QED BY <1>8, <1>11, <2>12, <3>1 DEF Spared
  <2>13. \E u, v \in Edits' : u # v /\ Spared(L, u)' /\ Spared(L, v)'
    <3>1. CASE Merges # {}
      <4>1. PICK u \in Edits, v \in Edits : u # v /\ Spared(L, u) /\ Spared(L, v)
        BY <2>1, <3>1 DEF TurnsTaken
      <4>2. \A w : HasInEdges(have[L], w) => HasInEdges(H, w)
        BY <2>5 DEF HasInEdges
      <4>3. Spared(L, u)' /\ Spared(L, v)'
        BY <2>12, <4>1, <4>2 DEF Spared
      <4> QED BY <1>11, <4>1, <4>3
    <3>2. CASE Merges = {}
      <4>1. Edits = Id
        BY <3>2 DEF Merges, Edits
      <4>2. l \in Edits /\ l \in H /\ f \in H /\ l \in Id /\ f \in Id /\ Spared(L, l)'
        BY <1>7, <2>3, <2>12, <4>1
      <4>3. ASSUME NEW p, p \in Parents(l) \/ p \in Parents(f)
            PROVE  p \in Edits /\ Spared(L, p)'
        <5>1. p \in Edits
          BY <1>9, <4>1, <4>2, <4>3
        <5>2. HasInEdges(H, p)
          BY <4>2, <4>3 DEF HasInEdges
        <5> QED BY <2>12, <3>2, <5>1, <5>2
      <4>4. Parents(l) # {} \/ Parents(f) # {}
        BY <2>3, <2>4, <4>2 DEF MergerInv, DerivesFromHeld
      <4>5. l \notin Parents(l) /\ l \notin Parents(f)
        BY <1>9, <2>6, <4>2 DEF HasInEdges
      <4> QED BY <1>11, <4>2, <4>3, <4>4, <4>5
    <3> QED BY <3>1, <3>2
  <2> QED BY <2>9, <2>10, <2>11, <2>13 DEF TurnsTaken
<1> QED BY <1>10, <1>12 DEF MergerInv

LEMMA TurnsMergeOrNot ==
  ASSUME NEW L, NEW F, Client = {L, F}, Rank[L] < Rank[F],
         MergerInv(L, F), GraphShape', conditions' = conditions,
         NEW c \in Client, have'[c] \in SUBSET Id, MergesOrNot(c),
         \A d \in Client : have[d] \subseteq have'[d]
  PROVE  MergerInv(L, F)'
<1>1. PICK H \in SUBSET Id : H = have'[c]
  OBVIOUS
<1>2. CASE NothingToMerge(c, have'[c])
  <2>1. commits' = commits /\ merging' = merging /\ L \in Client /\ F \in Client
    BY <1>2 DEF NothingToMerge
  <2> QED BY <2>1, TurnsKept
<1>3. CASE StartMerge(c, have'[c])
  <2>1. StartMerge(c, H)
    BY <1>1, <1>3
  <2> QED BY <1>1, <2>1, TurnsMerge
<1> QED BY <1>2, <1>3 DEF MergesOrNot

LEMMA TurnsGraphStep ==
  ASSUME NEW L, NEW F, Client = {L, F}, Rank[L] < Rank[F],
         MergerInv(L, F), NEW c \in Client, GraphStep(c)
  PROVE  MergerInv(L, F)'
<1>1. GraphShape /\ GraphShape' /\ L \in Client /\ F \in Client
  BY ShapeGraphStep DEF MergerInv
<1>2. have \in [Client -> SUBSET Id] /\ merging \in [Client -> IdOrNone]
  BY <1>1 DEF GraphShape
<1>3. ASSUME NEW P, NEW record, SetsValue(c, P, record) PROVE MergerInv(L, F)'
  <2>1. PICK fp : commits' = Append(commits, NewCommit(c, have[c], P, record, fp))
    BY <1>3 DEF SetsValue
  <2>2. PICK e : e = NewCommit(c, have[c], P, record, fp)
    OBVIOUS
  <2>3. e.by = c /\ e.parents = P
    BY <2>2 DEF NewCommit
  <2>4. /\ P \subseteq have[c] /\ Cardinality(P) < 2 /\ (P = {} => c = Creator)
        /\ have' = have /\ merging' = merging /\ conditions' = conditions
    BY <1>3 DEF SetsValue
  <2>5. commits' = Append(commits, e)
    BY <2>1, <2>2
  <2> QED BY <1>1, <2>3, <2>4, <2>5, TurnsKept
<1>4. ASSUME SignsValue(c) PROVE MergerInv(L, F)'
  <2>1. PICK m : m = setting[c]
    OBVIOUS
  <2>2. m \in Pending(c) /\ have' = [have EXCEPT ![c] = @ \cup {m}]
    BY <1>4, <2>1 DEF SignsValue, Pending
  <2>3. have'[c] \in SUBSET Id /\ \A d \in Client : have[d] \subseteq have'[d]
    BY <1>1, <2>2, Signing
  <2>4. conditions' = conditions /\ MergesOrNot(c)
    BY <1>4 DEF SignsValue
  <2> QED BY <1>1, <2>3, <2>4, TurnsMergeOrNot
<1>5. ASSUME SignsMerge(c) PROVE MergerInv(L, F)'
  <2>1. PICK m : m = merging[c]
    OBVIOUS
  <2>2. m \in Pending(c) /\ have' = [have EXCEPT ![c] = @ \cup {m}]
    BY <1>5, <2>1 DEF SignsMerge, Pending
  <2>3. m \in have'[c] /\ \A d \in Client : have[d] \subseteq have'[d]
    BY <1>1, <2>2, Signing
  <2>4. conditions' = conditions /\ commits' = commits
        /\ merging' = [merging EXCEPT ![c] = None]
    BY <1>5 DEF SignsMerge
  <2>5. merging[L] \in {None, merging'[L]} \cup have'[L]
    BY <1>1, <1>2, <2>1, <2>3, <2>4
  <2> QED BY <1>1, <2>3, <2>4, <2>5, TurnsKept
<1>6. ASSUME NEW m \in Id, Deliver(c, m) PROVE MergerInv(L, F)'
  <2>1. /\ have' = [have EXCEPT ![c] = @ \cup {m}]
        /\ conditions' = conditions /\ commits' = commits /\ merging' = merging
    BY <1>6 DEF Deliver
  <2>2. \A d \in Client : have[d] \subseteq have'[d]
    BY <1>2, <2>1
  <2> QED BY <1>1, <2>1, <2>2, TurnsKept
<1>7. ASSUME Touches(c) PROVE MergerInv(L, F)'
  <2>1. conditions' = conditions /\ have' = have /\ MergesOrNot(c)
    BY <1>7 DEF Touches
  <2> QED BY <1>1, <1>2, <2>1, TurnsMergeOrNot
<1>8. ASSUME ShowsHead(c) PROVE MergerInv(L, F)'
  <2>1. conditions' = conditions /\ have' = have /\ commits' = commits /\ merging' = merging
    BY <1>8 DEF ShowsHead
  <2> QED BY <1>1, <2>1, TurnsKept
<1> QED BY <1>3, <1>4, <1>5, <1>6, <1>7, <1>8 DEF GraphStep, Proceeds

LEMMA TurnsInit ==
  ASSUME NEW L, NEW F, Init
  PROVE  MergerInv(L, F)
<1>1. GraphShape /\ Id = {} /\ Merges = {}
  BY ShapeInit DEF Init, Id, Merges
<1> QED BY <1>1 DEF MergerInv, DerivesFromHeld, TurnsTaken

LEMMA TurnsStep ==
  ASSUME NEW L, NEW F, Client = {L, F}, Rank[L] < Rank[F],
         MergerInv(L, F), [Next]_vars
  PROVE  MergerInv(L, F)'
<1>1. GraphShape /\ L \in Client /\ F \in Client
  BY DEF MergerInv
<1>2. CASE UNCHANGED vars
  <2>1. /\ GraphShape' /\ have' = have /\ merging' = merging
        /\ conditions' = conditions /\ commits' = commits
    BY <1>1, <1>2, ShapeUnchanged DEF vars
  <2> QED BY <1>1, <2>1, TurnsKept
<1>3. CASE Next
  BY <1>1, <1>3, NextIs, TurnsGraphStep
<1> QED BY <1>2, <1>3

(* The merges are counted by the commits they consume.                     *)
LEMMA TurnsCount ==
  ASSUME NEW L, NEW F, L # F, MergerInv(L, F)
  PROVE  NoMergeStorm
<1>1. SUFFICES ASSUME TurnsTaken(L, F), Merges # {}
               PROVE  Cardinality(Merges) + 2 <= Cardinality(Edits)
  BY DEF NoMergeStorm, MergerInv
<1>2. PICK u \in Edits, v \in Edits : u # v /\ Spared(L, u) /\ Spared(L, v)
  BY <1>1 DEF TurnsTaken
<1>3. \A m \in Merges : \A p \in Parents(m) : p \in Id
  <2>1. \A m \in Id : m \in Nat /\ Parents(m) \subseteq 1..(m - 1)
    BY IdsOf DEF MergerInv, GraphShape, Typed, Parents
  <2>2. \A m \in Id : 1..(m - 1) \subseteq Id
    BY IdsOf DEF MergerInv, GraphShape
  <2> QED BY <2>1, <2>2 DEF Merges
<1> DEFINE consumed == [m \in Merges |-> CHOOSE p \in Parents(m) : By(p) = F]
           others == Edits \ {u, v}
<1>4. \A m \in Merges : consumed[m] \in Parents(m) /\ By(consumed[m]) = F
  BY <1>1 DEF TurnsTaken
<1> HIDE DEF consumed
<1>5. ASSUME NEW m \in Merges PROVE consumed[m] \in others
  <2>1. consumed[m] \in Id /\ consumed[m] \notin Merges
    BY <1>1, <1>3, <1>4 DEF TurnsTaken
  <2>2. consumed[m] # u /\ consumed[m] # v
    BY <1>2, <1>4 DEF Spared
  <2> QED BY <2>1, <2>2 DEF Merges
<1>6. \A m, k \in Merges : consumed[m] = consumed[k] => m = k
  BY <1>1, <1>4 DEF TurnsTaken
<1>7. consumed \in Injection(Merges, others)
  <2>1. consumed \in [Merges -> others]
    BY <1>5 DEF consumed
  <2> QED BY <1>6, <2>1 DEF Injection, IsInjective
<1>8. IsFiniteSet(Id)
  BY ReplicaFinite DEF MergerInv, GraphShape
<1>9. IsFiniteSet(Merges) /\ IsFiniteSet(Edits) /\ IsFiniteSet(others)
  BY <1>8, FS_Subset DEF Merges, Edits
<1>10. Cardinality(Merges) <= Cardinality(others)
  BY <1>7, <1>9, FS_Injection
<1>11. Cardinality(others) + 2 = Cardinality(Edits)
  <2>1. /\ IsFiniteSet(Edits \ {u})
        /\ Cardinality(Edits \ {u}) = Cardinality(Edits) - 1
    BY <1>9, FS_RemoveElement
  <2>2. Cardinality((Edits \ {u}) \ {v}) = Cardinality(Edits \ {u}) - 1
    BY <1>2, <2>1, FS_RemoveElement
  <2>3. (Edits \ {u}) \ {v} = others
    OBVIOUS
  <2>4. /\ Cardinality(Edits) \in Nat /\ Cardinality(others) \in Nat
        /\ Cardinality(Edits \ {u}) \in Nat
    BY <1>9, <2>1, FS_CardinalityType
  <2> HIDE DEF others
  <2> QED BY <2>1, <2>2, <2>3, <2>4
<1>12. Cardinality(Merges) \in Nat /\ Cardinality(others) \in Nat /\ Cardinality(Edits) \in Nat
  BY <1>9, FS_CardinalityType
<1> HIDE DEF others
<1> QED BY <1>10, <1>11, <1>12

(* Two editors who look at the leaves while they are fresh do not answer   *)
(* merges with merges, however many edits they make, whatever the filters  *)
(* answer and in whatever order commits arrive ("non-leaders ... back off",*)
(* mergeIfNeeded): only one of them ever leads, a merge consumes an edit   *)
(* by the other one, and two edits are never consumed.                     *)
THEOREM MergesAreNotAnswered ==
  ASSUME IsFiniteSet(Client), Cardinality(Client) = 2
  PROVE  Spec => []NoMergeStorm
<1>1. PICK L, F : Client = {L, F} /\ Rank[L] < Rank[F]
  <2>1. PICK x \in Client, y \in Client : x # y
    BY TwoElements
  <2>2. Cardinality({x, y}) = 2
    <3>1. Cardinality({x}) = 1 /\ IsFiniteSet({x})
      BY FS_Singleton
    <3>2. Cardinality({x} \cup {y}) = Cardinality({x}) + 1
      BY <2>1, <3>1, FS_AddElement
    <3>3. {x} \cup {y} = {x, y}
      OBVIOUS
    <3> QED BY <3>1, <3>2, <3>3
  <2>3. Client = {x, y}
    BY <2>1, <2>2, FS_Subset
  <2>4. Rank[x] \in Nat /\ Rank[y] \in Nat /\ Rank[x] # Rank[y]
    BY <2>1, ConstantsOK
  <2>5. Rank[x] < Rank[y] \/ Rank[y] < Rank[x]
    BY <2>4
  <2>6. Client = {y, x}
    BY <2>3
  <2> QED BY <2>3, <2>5, <2>6
<1>2. L # F
  <2>1. Rank[L] \in Nat
    BY <1>1, ConstantsOK
  <2> QED BY <1>1, <2>1
<1>3. Init => MergerInv(L, F)
  BY TurnsInit
<1>4. MergerInv(L, F) /\ [Next]_vars => MergerInv(L, F)'
  BY <1>1, TurnsStep
<1>5. MergerInv(L, F) => NoMergeStorm
  BY <1>2, TurnsCount
<1> QED BY <1>3, <1>4, <1>5, PTL DEF Spec
------------------------------------------------------------------------------
(* Two folds of step functions that agree do, as far as both go.           *)
LEMMA SameSteps ==
  ASSUME NEW n \in Nat, NEW f, NEW h, f[0] = h[0],
         \A i \in 1..n : f[i - 1] = h[i - 1] => f[i] = h[i]
  PROVE  \A i \in 0..n : f[i] = h[i]
<1> DEFINE Bad == {i \in 0..n : f[i] # h[i]}
<1>1. SUFFICES ASSUME Bad # {} PROVE FALSE
  OBVIOUS
<1>2. Bad \in SUBSET Nat
  OBVIOUS
<1>3. PICK i \in Bad : \A j \in Bad : i <= j
  <2> HIDE DEF Bad
  <2> QED BY <1>1, <1>2, Least
<1>4. i \in 1..n
  BY <1>3
<1>5. i - 1 \in 0..n /\ i - 1 \notin Bad
  <2>1. i - 1 \in 0..n /\ ~(i <= i - 1)
    BY <1>4
  <2> QED BY <1>3, <2>1
<1> QED BY <1>3, <1>4, <1>5

(* What commits must be like for their histories to be well-founded.       *)
Founded == Sequential /\ \A m \in Id : Parents(m) \subseteq 1..(m - 1)

LEMMA FoundedIds ==
  Founded => /\ Len(commits) \in Nat /\ Id = 1..Len(commits)
             /\ \A m \in Id : Parents(m) \subseteq Id
             /\ \A m \in Id : \A p \in Parents(m) : p \in Nat /\ m \in Nat /\ p < m
<1> SUFFICES ASSUME Founded
             PROVE  /\ Len(commits) \in Nat /\ Id = 1..Len(commits)
                    /\ \A m \in Id : Parents(m) \subseteq Id
                    /\ \A m \in Id : \A p \in Parents(m) : p \in Nat /\ m \in Nat /\ p < m
  OBVIOUS
<1>1. Len(commits) \in Nat /\ Id = 1..Len(commits)
  BY IdsOf DEF Founded
<1>2. ASSUME NEW m \in Id, NEW p \in Parents(m) PROVE p \in Id /\ p \in Nat /\ m \in Nat /\ p < m
  <2>1. p \in 1..(m - 1) /\ m \in 1..Len(commits)
    BY <1>1 DEF Founded
  <2> QED BY <1>1, <2>1
<1> QED BY <1>1, <1>2

(* History visits the ids from the commit down.                            *)
Visits(m, h) ==
  /\ h \in [0..m -> SUBSET Id] /\ h[0] = {m}
  /\ \A i \in 1..m :
       h[i] = IF m + 1 - i \in h[i - 1] THEN h[i - 1] \cup Parents(m + 1 - i) ELSE h[i - 1]

LEMMA HistoryVisits ==
  ASSUME Founded, NEW m \in Id
  PROVE  \E h : Visits(m, h) /\ History(m) = h[m]
<1> DEFINE T == SUBSET Id
           Visit(S, i) == IF m + 1 - i \in S THEN S \cup Parents(m + 1 - i) ELSE S
           first == {m}
           seq == [i \in DOMAIN [i \in 1..m |-> i] |-> i]
           Fold(g) == [s \in SUBSET (DOMAIN seq) |->
                         IF s = {} THEN first
                         ELSE Visit(g[s \ {Max(s)}], seq[Max(s)])]
           g == CHOOSE g : g = Fold(g)
<1>1. History(m) = g[DOMAIN seq]
  <2> HIDE DEF T
  <2> QED BY DEF History, FoldLeftDomain, FoldLeft, MapThenFoldSet
<1>2. /\ m \in Nat /\ Id = 1..Len(commits) /\ Len(commits) \in Nat
      /\ DOMAIN seq = 1..m /\ \A i \in 1..m : seq[i] = i
  BY FoundedIds
<1>3. \A s \in SUBSET (1..m) : s # {} => Max(s) \in s
  BY <1>2, MaxIsElement
<1>4. first \in T
  OBVIOUS
<1>5. ASSUME NEW S \in T, NEW i \in 1..m PROVE Visit(S, i) \in T
  <2>1. m + 1 - i \in Id
    BY <1>2
  <2> QED BY <2>1, FoundedIds
<1> HIDE DEF T, Visit, first, seq
<1> DEFINE G == [x \in (1..m) \X T |-> Visit(x[2], x[1])]
<1>6. G \in [(1..m) \X T -> T]
  BY <1>5
<1>7. StepsOf(m, T, first, G)
  <2> HIDE DEF G
  <2> QED BY <1>2, <1>4, <1>6 DEF StepsOf
<1>8. PICK f : IsFold(f, m, T, first, G)
  <2> HIDE DEF G
  <2>1. HasFold(m, T, first, G)
    BY <1>7, FoldExists, Zenon
  <2> QED BY <2>1 DEF HasFold
<1>9. g = Fold(g)
  <2>1. f \in [SUBSET (1..m) -> T]
    BY <1>8 DEF IsFold
  <2>2. \A s \in SUBSET (1..m) :
          f[s] = IF s = {} THEN first ELSE Visit(f[s \ {Max(s)}], seq[Max(s)])
    <3>1. TAKE s \in SUBSET (1..m)
    <3>2. CASE s # {}
      <4>1. Max(s) \in 1..m /\ f[s \ {Max(s)}] \in T
        BY <1>3, <2>1, <3>2
      <4>2. f[s] = G[<<Max(s), f[s \ {Max(s)}]>>]
        BY <1>8, <3>2 DEF IsFold
      <4> QED BY <1>2, <3>2, <4>1, <4>2
    <3>3. CASE s = {}
      BY <1>8, <3>3 DEF IsFold
    <3> QED BY <3>2, <3>3
  <2>3. f = Fold(f)
    BY <1>2, <2>1, <2>2
  <2> HIDE DEF Fold
  <2> QED BY <2>3
<1> HIDE DEF g
<1>10. g[1..0] = first /\ \A i \in 1..m : g[1..i] = Visit(g[1..(i - 1)], i)
  <2>1. 1..0 = {} /\ {} \in SUBSET (1..m)
    OBVIOUS
  <2>2. g[1..0] = first
    BY <1>2, <1>9, <2>1
  <2>3. ASSUME NEW i \in 1..m PROVE g[1..i] = Visit(g[1..(i - 1)], i)
    <3>1. /\ 1..i \in SUBSET (1..m) /\ 1..i # {}
          /\ Max(1..i) = i /\ (1..i) \ {i} = 1..(i - 1)
      BY <1>2, UpTo
    <3>2. g[1..i] = Visit(g[(1..i) \ {Max(1..i)}], seq[Max(1..i)])
      BY <1>2, <1>9, <3>1
    <3> QED BY <1>2, <3>1, <3>2
  <2> QED BY <2>2, <2>3
<1> DEFINE h == [i \in 0..m |-> g[1..i]]
<1>11. h[0] = first /\ h[m] = g[1..m] /\ \A i \in 1..m : h[i] = Visit(h[i - 1], i)
  <2>1. \A i \in 1..m : i \in 0..m /\ i - 1 \in 0..m
    BY <1>2
  <2>2. 0 \in 0..m /\ m \in 0..m
    BY <1>2
  <2> QED BY <1>10, <2>1, <2>2
<1> HIDE DEF h
<1>12. \A i \in 0..m : h[i] \in T
  <2>1. \A i \in 1..m : h[i - 1] \in T => h[i] \in T
    BY <1>5, <1>11
  <2> QED BY <1>2, <1>4, <1>11, <2>1, Stays
<1>13. h \in [0..m -> SUBSET Id]
  BY <1>12 DEF h, T
<1>14. Visits(m, h)
  BY <1>11, <1>13 DEF Visits, Visit, first
<1> QED BY <1>1, <1>2, <1>11, <1>14
(* What History is: the least set that has m and is closed under parents.  *)
IsHistory(m, S) ==
  /\ m \in S /\ S \subseteq 1..m
  /\ \A k \in S : Parents(k) \subseteq S
  /\ \A C : (m \in C /\ \A k \in C \cap Id : Parents(k) \subseteq C) => S \subseteq C

HistoriesAre == \A m \in Id : IsHistory(m, History(m))

LEMMA HistoryIs == Founded => HistoriesAre
<1> SUFFICES ASSUME Founded, NEW m \in Id PROVE IsHistory(m, History(m))
  BY DEF HistoriesAre
<1>1. PICK h : Visits(m, h) /\ History(m) = h[m]
  BY HistoryVisits
<1>2. /\ m \in Nat /\ 1 <= m /\ m \in 0..m /\ 1..m \subseteq Id
      /\ h[0] = {m} /\ \A i \in 1..m : m + 1 - i \in 1..m
  BY <1>1, FoundedIds DEF Visits
<1>3. \A k \in 1..m : Parents(k) \subseteq 1..(k - 1)
  BY <1>2 DEF Founded
<1>4. \A i \in 1..m :
        h[i] = IF m + 1 - i \in h[i - 1] THEN h[i - 1] \cup Parents(m + 1 - i) ELSE h[i - 1]
  BY <1>1 DEF Visits
<1>5. \A i \in 0..m : h[i] \in {S \in SUBSET (1..m) : m \in S}
  <2>1. ASSUME NEW i \in 1..m, h[i - 1] \in {S \in SUBSET (1..m) : m \in S}
        PROVE  h[i] \in {S \in SUBSET (1..m) : m \in S}
    <3>1. Parents(m + 1 - i) \subseteq 1..m
      <4>1. PICK k \in 1..m : k = m + 1 - i
        BY <1>2
      <4>2. 1..(k - 1) \subseteq 1..m
        BY <1>2
      <4> QED BY <1>3, <4>1, <4>2
    <3> QED BY <1>4, <2>1, <3>1
  <2>2. h[0] \in {S \in SUBSET (1..m) : m \in S}
    BY <1>2
  <2> QED BY <1>2, <2>1, <2>2, Stays
<1>6. \A k \in h[m] : Parents(k) \subseteq h[m]
  <2> DEFINE Closed == {x \in (0..m) \X SUBSET (1..m) :
                          \A k \in x[2] : k > m - x[1] => Parents(k) \subseteq x[2]}
             f == [i \in 0..m |-> <<i, h[i]>>]
  <2>1. f[0] \in Closed
    BY <1>2, <1>5
  <2>2. ASSUME NEW i \in 1..m, f[i - 1] \in Closed PROVE f[i] \in Closed
    <3>1. i \in 0..m /\ i - 1 \in 0..m
      BY <1>2
    <3>2. f[i] = <<i, h[i]>> /\ f[i - 1] = <<i - 1, h[i - 1]>>
      BY <3>1
    <3>3. \A k \in h[i - 1] : k > m - (i - 1) => Parents(k) \subseteq h[i - 1]
      BY <2>2, <3>2
    <3>4. ASSUME NEW k \in h[i], k > m - i PROVE Parents(k) \subseteq h[i]
      <4>1. k \in 1..m
        BY <1>5, <3>1
      <4>2. CASE k \in h[i - 1] /\ k = m + 1 - i
        BY <1>4, <4>2
      <4>3. CASE k \in h[i - 1] /\ k # m + 1 - i
        <5>1. k > m - (i - 1)
          BY <1>2, <3>4, <4>1, <4>3
        <5> QED BY <1>4, <3>3, <4>3, <5>1
      <4>4. CASE k \notin h[i - 1]
        <5>1. k \in Parents(m + 1 - i)
          BY <1>4, <3>4, <4>4
        <5>2. PICK j \in 1..m : j = m + 1 - i
          BY <1>2
        <5>3. k \in 1..(j - 1)
          BY <1>3, <5>1, <5>2
        <5> QED BY <1>2, <3>4, <4>1, <5>2, <5>3
      <4> QED BY <4>2, <4>3, <4>4
    <3> QED BY <1>5, <3>1, <3>2, <3>4
  <2> HIDE DEF f, Closed
  <2>3. f[m] \in Closed
    BY <1>2, <2>1, <2>2, Stays
  <2>4. f[m] = <<m, h[m]>>
    BY <1>2 DEF f
  <2>5. \A k \in h[m] : k > m - m => Parents(k) \subseteq h[m]
    BY <2>3, <2>4 DEF Closed
  <2>6. \A k \in h[m] : k > m - m
    BY <1>2, <1>5
  <2> QED BY <2>5, <2>6
<1>7. ASSUME NEW C, m \in C, \A k \in C \cap Id : Parents(k) \subseteq C
      PROVE  h[m] \subseteq C
  <2>1. \A i \in 1..m : h[i - 1] \in SUBSET C => h[i] \in SUBSET C
    BY <1>2, <1>4, <1>7
  <2>2. h[0] \in SUBSET C
    BY <1>2, <1>7
  <2>3. h[m] \in SUBSET C
    BY <1>2, <2>1, <2>2, Stays
  <2> QED BY <2>3
<1>8. m \in h[m] /\ h[m] \subseteq 1..m
  BY <1>2, <1>5
<1> QED BY <1>1, <1>6, <1>7, <1>8 DEF IsHistory

(* A commit's history has its own and those of what is in it.              *)
LEMMA HistoryOf ==
  ASSUME Founded, NEW m \in Id
  PROVE  /\ m \in History(m) /\ History(m) \subseteq Id
         /\ \A k \in History(m) : /\ k \in Nat /\ m \in Nat /\ k <= m
                                 /\ Parents(k) \subseteq History(m)
                                 /\ History(k) \subseteq History(m)
         /\ \A C : (m \in C /\ \A k \in C \cap Id : Parents(k) \subseteq C) =>
                    History(m) \subseteq C
         /\ History(m) = {m} \cup UNION {History(p) : p \in Parents(m)}
         /\ m \notin UNION {History(p) : p \in Parents(m)}
<1>1. /\ m \in Nat /\ m \in 1..m /\ 1..m \subseteq Id /\ Parents(m) \subseteq 1..(m - 1)
      /\ Parents(m) \subseteq Id
  BY FoundedIds DEF Founded
<1>2. \A k \in Id : IsHistory(k, History(k))
  BY HistoryIs DEF HistoriesAre
<1>3. /\ m \in History(m) /\ History(m) \subseteq 1..m
      /\ \A k \in History(m) : Parents(k) \subseteq History(m)
      /\ \A C : (m \in C /\ \A k \in C \cap Id : Parents(k) \subseteq C) => History(m) \subseteq C
  BY <1>2 DEF IsHistory
<1>4. ASSUME NEW k \in History(m) PROVE History(k) \subseteq History(m)
  <2>1. k \in Id
    BY <1>1, <1>3
  <2> QED BY <1>2, <1>3, <2>1 DEF IsHistory
<1> DEFINE Before == UNION {History(p) : p \in Parents(m)}
<1>5. m \in Parents(m) \/ m \notin Before
  <2>1. ASSUME NEW p \in Parents(m), m \in History(p) PROVE FALSE
    <3>1. p \in 1..(m - 1) /\ History(p) \subseteq 1..p
      BY <1>1, <1>2 DEF IsHistory
    <3> QED BY <1>1, <2>1, <3>1
  <2> QED BY <2>1
<1>6. m \notin Parents(m)
  BY <1>1
<1>7. History(m) \subseteq {m} \cup Before
  <2>1. ASSUME NEW k \in {m} \cup Before PROVE Parents(k) \subseteq {m} \cup Before
    <3>1. CASE k = m
      <4>1. \A p \in Parents(m) : p \in History(p)
        BY <1>1, <1>2 DEF IsHistory
      <4> QED BY <3>1, <4>1
    <3>2. CASE k \in Before
      <4>1. PICK p \in Parents(m) : k \in History(p)
        BY <3>2
      <4>2. Parents(k) \subseteq History(p)
        BY <1>1, <1>2, <4>1 DEF IsHistory
      <4> QED BY <4>2
    <3> QED BY <3>1, <3>2
  <2> HIDE DEF Before
  <2> QED BY <1>3, <2>1
<1>8. {m} \cup Before \subseteq History(m)
  <2>1. \A p \in Parents(m) : p \in History(m)
    BY <1>3
  <2> QED BY <1>3, <1>4, <2>1
<1>9. \A k \in History(m) : k \in Nat /\ k <= m
  BY <1>1, <1>3
<1> QED BY <1>1, <1>3, <1>4, <1>5, <1>6, <1>7, <1>8, <1>9

(* What is in a history but its newest commit has a child there.           *)
LEMMA HasChild ==
  ASSUME Founded, NEW m \in Id, NEW p \in History(m), p # m
  PROVE  \E k \in History(m) : p \in Parents(k)
<1> SUFFICES ASSUME \A k \in History(m) : p \notin Parents(k) PROVE FALSE
  OBVIOUS
<1>1. /\ m \in History(m) \ {p}
      /\ \A k \in History(m) \ {p} : Parents(k) \subseteq History(m) \ {p}
  BY HistoryOf
<1>2. History(m) \subseteq History(m) \ {p}
  <2>1. PICK C : C = History(m) \ {p}
    OBVIOUS
  <2>2. m \in C /\ \A k \in C \cap Id : Parents(k) \subseteq C
    BY <1>1, <2>1
  <2>3. History(m) \subseteq C
    BY <2>2, HistoryOf
  <2> QED BY <2>1, <2>3
<1> QED BY <1>2

(* Every history has a commit without parents.                             *)
LEMMA HasRoot ==
  ASSUME Founded, NEW m \in Id
  PROVE  \E r \in History(m) : Parents(r) = {} /\ r \in Id
<1>1. History(m) \in SUBSET Nat /\ History(m) # {} /\ History(m) \subseteq Id
  BY HistoryOf
<1>2. PICK r \in History(m) : \A k \in History(m) : r <= k
  BY <1>1, Least
<1>3. \A p \in Parents(r) : p \in History(m) /\ p \in Nat /\ r \in Nat /\ p < r
  BY <1>1, HistoryOf, FoundedIds
<1>4. Parents(r) = {}
  <2>1. ASSUME NEW p \in Parents(r) PROVE FALSE
    <3>1. p \in Nat /\ r \in Nat /\ p < r /\ r <= p
      BY <1>2, <1>3
    <3> QED BY <3>1
  <2> QED BY <2>1
<1> QED BY <1>1, <1>4

------------------------------------------------------------------------------
(* The rounds of _findLCAMergeBase.                                        *)
Further(H, S) == S \cup UNION {Parents(p) : p \in S \cap H}

Rounds(H, m, k, h) ==
  /\ h \in [0..k -> SUBSET Id] /\ h[0] = Parents(m)
  /\ \A i \in 1..k : h[i] = Further(H, h[i - 1])

LEMMA ReachedInRounds ==
  ASSUME Founded, NEW m \in Id, NEW H, NEW k \in Nat
  PROVE  \E h : Rounds(H, m, k, h) /\ Reached(H, m, k) = h[k]
<1> DEFINE T == SUBSET Id
           Round(S, i) == S \cup UNION {Parents(p) : p \in S \cap H}
           first == Parents(m)
           seq == [i \in DOMAIN [i \in 1..k |-> i] |-> i]
           Fold(g) == [s \in SUBSET (DOMAIN seq) |->
                         IF s = {} THEN first
                         ELSE Round(g[s \ {Max(s)}], seq[Max(s)])]
           g == CHOOSE g : g = Fold(g)
<1>1. Reached(H, m, k) = g[DOMAIN seq]
  <2> HIDE DEF T
  <2> QED BY DEF Reached, FoldLeftDomain, FoldLeft, MapThenFoldSet
<1>2. /\ DOMAIN seq = 1..k /\ \A i \in 1..k : seq[i] = i
      /\ \A p \in Id : Parents(p) \subseteq Id
  BY FoundedIds
<1>3. \A s \in SUBSET (1..k) : s # {} => Max(s) \in s
  BY MaxIsElement
<1>4. first \in T
  BY <1>2
<1>5. ASSUME NEW S \in T, NEW i \in 1..k PROVE Round(S, i) \in T
  BY <1>2
<1> HIDE DEF T, Round, first, seq
<1> DEFINE G == [x \in (1..k) \X T |-> Round(x[2], x[1])]
<1>6. G \in [(1..k) \X T -> T]
  BY <1>5
<1>7. StepsOf(k, T, first, G)
  <2> HIDE DEF G
  <2> QED BY <1>4, <1>6 DEF StepsOf
<1>8. PICK f : IsFold(f, k, T, first, G)
  <2> HIDE DEF G
  <2>1. HasFold(k, T, first, G)
    BY <1>7, FoldExists, Zenon
  <2> QED BY <2>1 DEF HasFold
<1>9. g = Fold(g)
  <2>1. f \in [SUBSET (1..k) -> T]
    BY <1>8 DEF IsFold
  <2>2. \A s \in SUBSET (1..k) :
          f[s] = IF s = {} THEN first ELSE Round(f[s \ {Max(s)}], seq[Max(s)])
    <3>1. TAKE s \in SUBSET (1..k)
    <3>2. CASE s # {}
      <4>1. Max(s) \in 1..k /\ f[s \ {Max(s)}] \in T
        BY <1>3, <2>1, <3>2
      <4>2. f[s] = G[<<Max(s), f[s \ {Max(s)}]>>]
        BY <1>8, <3>2 DEF IsFold
      <4> QED BY <1>2, <3>2, <4>1, <4>2
    <3>3. CASE s = {}
      BY <1>8, <3>3 DEF IsFold
    <3> QED BY <3>2, <3>3
  <2>3. f = Fold(f)
    BY <1>2, <2>1, <2>2
  <2> HIDE DEF Fold
  <2> QED BY <2>3
<1> HIDE DEF g
<1>10. g[1..0] = first /\ \A i \in 1..k : g[1..i] = Round(g[1..(i - 1)], i)
  <2>1. 1..0 = {} /\ {} \in SUBSET (1..k)
    OBVIOUS
  <2>2. g[1..0] = first
    BY <1>2, <1>9, <2>1
  <2>3. ASSUME NEW i \in 1..k PROVE g[1..i] = Round(g[1..(i - 1)], i)
    <3>1. /\ 1..i \in SUBSET (1..k) /\ 1..i # {}
          /\ Max(1..i) = i /\ (1..i) \ {i} = 1..(i - 1)
      BY UpTo
    <3>2. g[1..i] = Round(g[(1..i) \ {Max(1..i)}], seq[Max(1..i)])
      BY <1>2, <1>9, <3>1
    <3> QED BY <1>2, <3>1, <3>2
  <2> QED BY <2>2, <2>3
<1> DEFINE h == [i \in 0..k |-> g[1..i]]
<1>11. h[0] = first /\ h[k] = g[1..k] /\ \A i \in 1..k : h[i] = Round(h[i - 1], i)
  <2>1. \A i \in 1..k : i \in 0..k /\ i - 1 \in 0..k
    OBVIOUS
  <2> QED BY <1>10, <2>1
<1> HIDE DEF h
<1>12. \A i \in 0..k : h[i] \in T
  <2>1. \A i \in 1..k : h[i - 1] \in T => h[i] \in T
    BY <1>5, <1>11
  <2> QED BY <1>4, <1>11, <2>1, Stays
<1>13. h \in [0..k -> SUBSET Id]
  BY <1>12 DEF h, T
<1>14. Rounds(H, m, k, h)
  BY <1>11, <1>13 DEF Rounds, Round, first, Further
<1> QED BY <1>1, <1>2, <1>11, <1>14

LEMMA ReachedIs ==
  ASSUME Founded, NEW m \in Id, NEW H
  PROVE  /\ Reached(H, m, 0) = Parents(m)
         /\ \A k \in Nat : /\ Reached(H, m, k) \subseteq Id
                           /\ Reached(H, m, k + 1) = Further(H, Reached(H, m, k))
<1>1. Reached(H, m, 0) = Parents(m)
  <2>1. PICK h : Rounds(H, m, 0, h) /\ Reached(H, m, 0) = h[0]
    BY ReachedInRounds
  <2> QED BY <2>1 DEF Rounds
<1>2. ASSUME NEW k \in Nat
      PROVE  /\ Reached(H, m, k) \subseteq Id
             /\ Reached(H, m, k + 1) = Further(H, Reached(H, m, k))
  <2>1. PICK f : Rounds(H, m, k, f) /\ Reached(H, m, k) = f[k]
    BY ReachedInRounds
  <2>2. PICK h : Rounds(H, m, k + 1, h) /\ Reached(H, m, k + 1) = h[k + 1]
    BY ReachedInRounds
  <2>3. f[0] = h[0] /\ \A i \in 1..k : f[i] = Further(H, f[i - 1])
    BY <2>1, <2>2 DEF Rounds
  <2>4. \A i \in 1..k : i \in 1..(k + 1)
    OBVIOUS
  <2>5. \A i \in 1..k : h[i] = Further(H, h[i - 1])
    BY <2>2, <2>4 DEF Rounds
  <2>6. \A i \in 0..k : f[i] = h[i]
    BY <2>3, <2>5, SameSteps
  <2>7. h[k + 1] = Further(H, h[k])
    <3>1. k + 1 \in 1..(k + 1) /\ (k + 1) - 1 = k
      OBVIOUS
    <3> QED BY <2>2, <3>1 DEF Rounds
  <2>8. f[k] \in SUBSET Id /\ f[k] = h[k]
    BY <2>1, <2>6 DEF Rounds
  <2> QED BY <2>1, <2>2, <2>7, <2>8
<1> QED BY <1>1, <1>2

(* What is reached are ancestors, and the replica matters only if it lacks *)
(* some of them.                                                           *)
LEMMA ReachedAncestors ==
  ASSUME Founded, NEW m \in Id, NEW H, NEW k \in Nat
  PROVE  Reached(H, m, k) \subseteq History(m) \ {m}
<1>1. \A p \in History(m) : Parents(p) \subseteq History(m) \ {m}
  BY HistoryOf, FoundedIds
<1>2. m \in History(m)
  BY HistoryOf
<1> DEFINE f == [i \in 0..k |-> Reached(H, m, i)]
           T == SUBSET (History(m) \ {m})
<1>3. f[0] \in T
  BY <1>1, <1>2, ReachedIs
<1>4. ASSUME NEW i \in 1..k, f[i - 1] \in T PROVE f[i] \in T
  <2>1. i - 1 \in 0..k /\ i \in 0..k /\ (i - 1) + 1 = i /\ i - 1 \in Nat
    OBVIOUS
  <2>2. Reached(H, m, i) = Further(H, Reached(H, m, i - 1))
    BY <2>1, ReachedIs
  <2>3. Reached(H, m, i - 1) \in T
    BY <1>4, <2>1
  <2>4. Further(H, Reached(H, m, i - 1)) \in T
    BY <1>1, <2>3 DEF Further
  <2> QED BY <2>1, <2>2, <2>4
<1>5. f[k] = Reached(H, m, k) /\ k \in 0..k
  OBVIOUS
<1> HIDE DEF f, T
<1>6. f[k] \in T
  BY <1>3, <1>4, <1>5, Stays
<1> QED BY <1>5, <1>6 DEF T

LEMMA ReachedAlike ==
  ASSUME Founded, NEW m \in Id, NEW H \in SUBSET Id, History(m) \ {m} \subseteq H,
         NEW k \in Nat
  PROVE  Reached(H, m, k) = Reached(Id, m, k)
<1> DEFINE f == [i \in 0..k |-> Reached(H, m, i)]
           h == [i \in 0..k |-> Reached(Id, m, i)]
<1>1. f[0] = h[0]
  BY ReachedIs
<1>2. ASSUME NEW i \in 1..k, f[i - 1] = h[i - 1] PROVE f[i] = h[i]
  <2>1. i - 1 \in 0..k /\ i \in 0..k /\ (i - 1) + 1 = i /\ i - 1 \in Nat
    OBVIOUS
  <2>2. PICK S : S = Reached(H, m, i - 1)
    OBVIOUS
  <2>3. S = Reached(Id, m, i - 1)
    BY <1>2, <2>1, <2>2
  <2>4. S \subseteq H
    BY <2>1, <2>2, ReachedAncestors
  <2>5. Further(H, S) = Further(Id, S)
    BY <2>4 DEF Further
  <2>6. Reached(H, m, i) = Further(H, S) /\ Reached(Id, m, i) = Further(Id, S)
    BY <2>1, <2>2, <2>3, ReachedIs
  <2> QED BY <2>1, <2>5, <2>6
<1>3. f[k] = Reached(H, m, k) /\ h[k] = Reached(Id, m, k) /\ k \in 0..k
  OBVIOUS
<1> HIDE DEF f, h
<1> QED BY <1>1, <1>2, <1>3, SameSteps

(* A round finds one more, until there are no more.                        *)
LEMMA ReachedMore ==
  ASSUME Founded, NEW m \in Id, Parents(m) # {}, NEW k \in Nat
  PROVE  \/ Cardinality(Reached(Id, m, k)) > k
         \/ \A p \in Reached(Id, m, k) : Parents(p) \subseteq Reached(Id, m, k)
<1> DEFINE f == [i \in 0..k |-> <<i, Reached(Id, m, i)>>]
           Enough == {x \in (0..k) \X SUBSET Id :
                        /\ Parents(m) \subseteq x[2]
                        /\ \/ Cardinality(x[2]) > x[1]
                           \/ \A p \in x[2] : Parents(p) \subseteq x[2]}
<1>1. Sequential /\ \A S \in SUBSET Id : IsFiniteSet(S) /\ Cardinality(S) \in Nat
  BY ReplicaFinite DEF Founded
<1>2. f[0] \in Enough
  <2>1. Parents(m) \in SUBSET Id /\ Cardinality(Parents(m)) # 0
    BY <1>1, FoundedIds, FS_EmptySet
  <2>2. f[0] = <<0, Parents(m)>>
    BY ReachedIs
  <2> QED BY <1>1, <2>1, <2>2
<1>3. ASSUME NEW i \in 1..k, f[i - 1] \in Enough PROVE f[i] \in Enough
  <2>1. i - 1 \in 0..k /\ i \in 0..k /\ (i - 1) + 1 = i /\ i - 1 \in Nat /\ i \in Nat
    OBVIOUS
  <2>2. PICK S : S = Reached(Id, m, i - 1)
    OBVIOUS
  <2>3. PICK U : U = Further(Id, S)
    OBVIOUS
  <2>4. f[i] = <<i, U>> /\ f[i - 1] = <<i - 1, S>>
    BY <2>1, <2>2, <2>3, ReachedIs
  <2>5. S \in SUBSET Id /\ U \in SUBSET Id /\ S \subseteq U
    <3>1. S \subseteq Id
      BY <2>1, <2>2, ReachedIs
    <3>2. \A p \in Id : Parents(p) \subseteq Id
      BY FoundedIds
    <3> QED BY <2>3, <3>1, <3>2 DEF Further
  <2>6. /\ Parents(m) \subseteq S
        /\ \/ Cardinality(S) > i - 1
           \/ \A p \in S : Parents(p) \subseteq S
    BY <1>3, <2>4
  <2>7. CASE \A p \in S : Parents(p) \subseteq S
    <3>1. U = S
      BY <2>3, <2>7 DEF Further
    <3> QED BY <2>1, <2>4, <2>5, <2>6, <2>7, <3>1
  <2>8. CASE ~(\A p \in S : Parents(p) \subseteq S)
    <3>1. S # U
      BY <2>3, <2>5, <2>8 DEF Further
    <3>2. Cardinality(S) < Cardinality(U)
      BY <1>1, <2>5, <3>1, FS_Subset
    <3>3. Cardinality(U) > i
      BY <1>1, <2>1, <2>5, <2>6, <2>8, <3>2
    <3> QED BY <2>1, <2>4, <2>5, <2>6, <3>3
  <2> QED BY <2>7, <2>8
<1>4. f[k] = <<k, Reached(Id, m, k)>> /\ k \in 0..k
  OBVIOUS
<1> HIDE DEF f, Enough
<1>5. f[k] \in Enough
  BY <1>2, <1>3, <1>4, Stays
<1> QED BY <1>4, <1>5 DEF Enough

(* After as many rounds as the replica has commits all ancestors are found.*)
LEMMA ReachedAll ==
  ASSUME Founded, NEW m \in Id, Parents(m) # {},
         NEW H \in SUBSET Id, History(m) \ {m} \subseteq H
  PROVE  Reached(H, m, Cardinality(H)) = History(m) \ {m}
<1>1. IsFiniteSet(H) /\ Cardinality(H) \in Nat
  BY ReplicaFinite DEF Founded
<1>2. PICK k \in Nat : k = Cardinality(H)
  BY <1>1
<1>3. PICK S : S = Reached(H, m, k)
  OBVIOUS
<1>4. S = Reached(Id, m, k) /\ S \subseteq History(m) \ {m}
  BY <1>3, ReachedAlike, ReachedAncestors
<1>5. Cardinality(S) <= k
  <2>1. S \subseteq H
    BY <1>4
  <2> QED BY <1>1, <1>2, <2>1, FS_Subset
<1>6. \A p \in S : Parents(p) \subseteq S
  <2>1. \/ Cardinality(S) > k
        \/ \A p \in S : Parents(p) \subseteq S
    BY <1>4, ReachedMore
  <2>2. Cardinality(S) \in Nat
    BY <1>1, <1>4, FS_Subset, FS_CardinalityType
  <2> QED BY <1>2, <1>5, <2>1, <2>2
<1>7. Parents(m) \subseteq S
  <2> DEFINE f == [i \in 0..k |-> Reached(Id, m, i)]
             T == {R \in SUBSET Id : Parents(m) \subseteq R}
  <2>1. f[0] \in T
    BY ReachedIs
  <2>2. ASSUME NEW i \in 1..k, f[i - 1] \in T PROVE f[i] \in T
    <3>1. i - 1 \in 0..k /\ i \in 0..k /\ (i - 1) + 1 = i /\ i - 1 \in Nat /\ i \in Nat
      OBVIOUS
    <3>2. Reached(Id, m, i) = Further(Id, Reached(Id, m, i - 1)) /\ Reached(Id, m, i) \subseteq Id
      BY <3>1, ReachedIs
    <3> QED BY <2>2, <3>1, <3>2 DEF Further
  <2>3. f[k] = S /\ k \in 0..k
    BY <1>4
  <2> HIDE DEF f, T
  <2>4. f[k] \in T
    BY <2>1, <2>2, <2>3, Stays
  <2> QED BY <2>3, <2>4 DEF T
<1>8. History(m) \subseteq S \cup {m}
  <2>1. PICK C : C = S \cup {m}
    OBVIOUS
  <2>2. m \in C /\ \A p \in C \cap Id : Parents(p) \subseteq C
    BY <1>6, <1>7, <2>1
  <2>3. History(m) \subseteq C
    BY <2>2, HistoryOf
  <2> QED BY <2>1, <2>3
<1> QED BY <1>2, <1>3, <1>4, <1>8

(* Sets of one and of two.                                                *)
LEMMA PairCounts ==
  ASSUME NEW x, NEW y, x # y
  PROVE  IsFiniteSet({x, y}) /\ Cardinality({x, y}) = 2
<1>1. IsFiniteSet({x}) /\ Cardinality({x}) = 1 /\ y \notin {x}
  BY FS_Singleton
<1>2. {x} \cup {y} = {x, y}
  OBVIOUS
<1>3. IsFiniteSet({x} \cup {y}) /\ Cardinality({x} \cup {y}) = 1 + 1
  BY <1>1, FS_AddElement
<1> QED BY <1>2, <1>3

LEMMA AtMostOne ==
  ASSUME NEW S, IsFiniteSet(S), Cardinality(S) < 2, S # {}
  PROVE  \E h : S = {h}
<1>1. PICK h \in S : TRUE
  OBVIOUS
<1>2. ASSUME NEW x \in S, x # h PROVE FALSE
  <2>1. Cardinality({h, x}) = 2 /\ {h, x} \subseteq S
    BY <1>2, PairCounts
  <2>2. Cardinality({h, x}) <= Cardinality(S) /\ Cardinality(S) \in Nat
    BY <2>1, FS_Subset, FS_CardinalityType
  <2> QED BY <2>1, <2>2
<1> QED BY <1>1, <1>2

LEMMA ExactlyTwo ==
  ASSUME NEW S, IsFiniteSet(S), Cardinality(S) < 3,
         NEW x \in S, NEW y \in S, x # y
  PROVE  S = {x, y}
<1>1. ASSUME NEW z \in S, z \notin {x, y} PROVE FALSE
  <2>1. IsFiniteSet({x, y}) /\ Cardinality({x, y}) = 2
    BY PairCounts
  <2>2. Cardinality({x, y} \cup {z}) = 2 + 1 /\ {x, y} \cup {z} \subseteq S
    BY <1>1, <2>1, FS_AddElement
  <2>3. Cardinality({x, y} \cup {z}) <= Cardinality(S) /\ Cardinality(S) \in Nat
    BY <2>2, FS_Subset, FS_CardinalityType
  <2> QED BY <2>2, <2>3
<1> QED BY <1>1

------------------------------------------------------------------------------
(* The base of two commits.                                                *)
LEMMA MinIsElement ==
  ASSUME NEW S \in SUBSET Nat, S # {}
  PROVE  Min(S) \in S
<1>1. \E x \in S : \A y \in S : x <= y
  BY Least
<1> QED BY <1>1 DEF Min

(* Two commits that a replica has with their histories, neither in that of *)
(* the other, and a commit their histories share.                          *)
Branches(H, p, q) ==
  /\ p \in Id /\ q \in Id /\ p \notin History(q) /\ q \notin History(p)
  /\ H \subseteq Id /\ History(p) \cup History(q) \subseteq H
  /\ History(p) \cap History(q) # {}

(* A base is the one of the parents if their records are the same, or one  *)
(* of the commits they share, and the newest if they fork there.           *)
IsBase(b, p, q) ==
  \/ b = p /\ Rec(p) = Rec(q)
  \/ /\ b \in History(p) \cap History(q)
     /\ Fork(p, q) => History(b) = History(p) \cap History(q)

LEMMA BaseOfBranches ==
  ASSUME Founded, NEW H, NEW p, NEW q, Branches(H, p, q)
  PROVE  IsBase(LCAMergeBase(H, p, q), p, q)
<1> DEFINE Common(k) == Reached(H, p, k) \cap Reached(H, q, k) \cap H
           rounds == {k \in 0..Cardinality(H) : Common(k) # {}}
           shared == History(p) \cap History(q)
<1>1. /\ p \in Id /\ q \in Id /\ H \in SUBSET Id /\ shared # {} /\ shared \subseteq H
      /\ p \notin shared /\ q \notin shared
      /\ History(p) \ {p} \subseteq H /\ History(q) \ {q} \subseteq H
  BY DEF Branches
<1>2. /\ Cardinality(H) \in Nat /\ Cardinality(H) <= Len(commits) /\ Len(commits) \in Nat
      /\ H \subseteq 1..Len(commits)
  <2>1. Sequential /\ Id = 1..Len(commits) /\ Len(commits) \in Nat
    BY FoundedIds DEF Founded
  <2>2. IsFiniteSet(Id) /\ Cardinality(Id) = Len(commits)
    <3>1. 1 \in Int /\ Len(commits) \in Int /\ (1 > Len(commits) => Len(commits) = 0)
      BY <2>1
    <3> QED BY <2>1, <3>1, FS_Interval
  <2> QED BY <1>1, <2>1, <2>2, FS_Subset, FS_CardinalityType
<1>3. Parents(p) # {} /\ Parents(q) # {}
  <2>1. ASSUME NEW m \in Id, Parents(m) = {} PROVE History(m) = {m}
    BY <2>1, HistoryOf
  <2> QED BY <1>1, <2>1
<1>4. p \notin Parents(q) /\ q \notin Parents(p)
  <2>1. \A m \in Id : Parents(m) \subseteq History(m)
    BY HistoryOf
  <2> QED BY <2>1 DEF Branches
<1>5. ASSUME NEW k \in Nat PROVE Common(k) \subseteq shared
  BY <1>1, ReachedAncestors
<1>6. Cardinality(H) \in rounds
  <2>1. Reached(H, p, Cardinality(H)) = History(p) \ {p}
    BY <1>1, <1>3, ReachedAll
  <2>2. Reached(H, q, Cardinality(H)) = History(q) \ {q}
    BY <1>1, <1>3, ReachedAll
  <2>3. Common(Cardinality(H)) # {}
    BY <1>1, <2>1, <2>2
  <2> QED BY <1>2, <2>3
<1>7. rounds \in SUBSET Nat /\ rounds # {}
  BY <1>2, <1>6
<1>8. PICK r \in rounds : r = Min(rounds)
  <2> HIDE DEF rounds
  <2> QED BY <1>7, MinIsElement
<1>9. r \in Nat /\ r \in 0..Len(commits) /\ Common(r) # {}
  BY <1>2, <1>8
<1>10. PICK b : b = Max(Common(r))
  OBVIOUS
<1>11. LCAMergeBase(H, p, q) = IF Rec(p) = Rec(q) THEN p ELSE b
  BY <1>3, <1>4, <1>7, <1>8, <1>10 DEF LCAMergeBase
<1>12. Common(r) \in SUBSET (1..Len(commits)) /\ Common(r) \subseteq shared
  BY <1>2, <1>5, <1>9
<1> HIDE DEF rounds
<1>13. b \in Common(r)
  BY <1>2, <1>9, <1>10, <1>12, MaxIsElement
<1>14. b \in shared
  BY <1>12, <1>13
<1>15. ASSUME Fork(p, q) PROVE History(b) = shared
  <2>1. PICK newest : newest = Max(shared)
    OBVIOUS
  <2>2. /\ shared = History(newest)
        /\ \A m \in {p, q} : \A k \in 0..Len(commits) :
             Reached(Id, m, k) \cap shared # {} => newest \in Reached(Id, m, k)
    BY <1>15, <2>1 DEF Fork
  <2>3. shared \in SUBSET (1..Len(commits))
    BY <1>1, <1>2
  <2>4. newest \in shared
    BY <1>1, <1>2, <2>1, <2>3, MaxIsElement
  <2>5. Reached(H, p, r) = Reached(Id, p, r) /\ Reached(H, q, r) = Reached(Id, q, r)
    BY <1>1, <1>9, ReachedAlike
  <2>6. newest \in Common(r)
    <3>1. PICK x \in Common(r) : x \in shared
      BY <1>13, <1>14
    <3>2. x \in Reached(Id, p, r) /\ x \in Reached(Id, q, r)
      BY <2>5, <3>1
    <3> QED BY <1>1, <1>9, <2>2, <2>4, <2>5, <3>1, <3>2
  <2>7. \A x \in shared : x <= newest
    <3>1. newest \in Id
      BY <1>1, <2>4
    <3> QED BY <2>2, <3>1, HistoryOf
  <2>8. \A x \in Common(r) : b >= x
    <3>1. \E x \in Common(r) : \A y \in Common(r) : x >= y
      <4>1. \A y \in Common(r) : newest >= y
        BY <1>12, <2>3, <2>4, <2>7
      <4> QED BY <2>6, <4>1
    <3> HIDE DEF Common
    <3> QED BY <1>10, <3>1 DEF Max
  <2>9. b = newest
    <3>1. b >= newest /\ b <= newest
      BY <1>14, <2>6, <2>7, <2>8
    <3>2. b \in 1..Len(commits) /\ newest \in 1..Len(commits)
      BY <1>14, <2>3, <2>4
    <3> QED BY <3>1, <3>2
  <2> QED BY <2>2, <2>9
<1> QED BY <1>11, <1>14, <1>15 DEF IsBase

FindsBase(H, p, q) ==
  \E b : /\ IsBase(b, p, q)
         /\ FindMergeBase(H, {p, q}) = [included |-> {p, q}, base |-> b]

LEMMA FindBaseOfBranches ==
  ASSUME Founded, NEW H, NEW p, NEW q, Branches(H, p, q), p < q
  PROVE  FindsBase(H, p, q)
<1>1. /\ Sequential /\ H \in SUBSET Id /\ {p, q} \in SUBSET Id
      /\ p \in Nat /\ q \in Nat /\ p \in Id /\ q \in Id
      /\ Len(commits) \in Nat /\ Id = 1..Len(commits)
  BY FoundedIds DEF Branches, Founded
<1>2. PICK b : b = LCAMergeBase(H, p, q)
  OBVIOUS
<1>3. IsBase(b, p, q)
  BY <1>2, BaseOfBranches
<1>4. b # None
  <2>1. b = p \/ b \in History(p)
    BY <1>3 DEF IsBase
  <2>2. b \in Id
    BY <1>1, <2>1, HistoryOf
  <2> QED BY <1>1, <2>2 DEF None
<1>5. PICK h : Inclusions(H, {p, q}, h) /\ FindMergeBase(H, {p, q}) = h[Len(commits)]
  BY <1>1, FindMergeBaseIncludes
<1> DEFINE n == Len(commits)
           f == [i \in 0..n |->
                  IF i < p THEN [included |-> {}, base |-> None]
                  ELSE IF i < q THEN [included |-> {p}, base |-> p]
                  ELSE [included |-> {p, q}, base |-> b]]
<1>6. f[0] = h[0]
  BY <1>1, <1>5 DEF Inclusions
<1>7. ASSUME NEW i \in 1..n, f[i - 1] = h[i - 1] PROVE f[i] = h[i]
  <2>1. i \in 0..n /\ i - 1 \in 0..n /\ i \in Nat
    BY <1>1
  <2>2. h[i] = Include(H, {p, q}, f[i - 1], i)
    <3>1. h[i] = Include(H, {p, q}, h[i - 1], i)
      BY <1>5 DEF Inclusions
    <3> HIDE DEF f
    <3> QED BY <1>7, <3>1
  <2>3. CASE i \notin {p, q}
    <3>1. f[i] = f[i - 1]
      BY <1>1, <2>1, <2>3
    <3> HIDE DEF f
    <3>2. Include(H, {p, q}, f[i - 1], i) = f[i - 1]
      BY <2>3 DEF Include
    <3> QED BY <2>2, <3>1, <3>2
  <2>4. CASE i = p
    <3>1. f[i - 1] = [included |-> {}, base |-> None]
      BY <1>1, <2>1, <2>4
    <3>2. f[i] = [included |-> {p}, base |-> p]
      BY <1>1, <2>1, <2>4
    <3> HIDE DEF f
    <3>3. Include(H, {p, q}, f[i - 1], i) = [included |-> {p}, base |-> p]
      BY <2>4, <3>1 DEF Include
    <3> QED BY <2>2, <3>2, <3>3
  <2>5. CASE i = q
    <3>1. f[i - 1] = [included |-> {p}, base |-> p]
      BY <1>1, <2>1, <2>5
    <3>2. f[i] = [included |-> {p, q}, base |-> b]
      BY <1>1, <2>1, <2>5
    <3> HIDE DEF f
    <3>3. f[i - 1].base = p /\ f[i - 1].included = {p} /\ p # None
      BY <1>1, <3>1 DEF None
    <3>4. Include(H, {p, q}, f[i - 1], i) = [included |-> {p} \cup {q}, base |-> b]
      BY <1>2, <1>4, <2>5, <3>3 DEF Include
    <3>5. {p} \cup {q} = {p, q}
      OBVIOUS
    <3> QED BY <2>2, <3>2, <3>4, <3>5
  <2> QED BY <2>3, <2>4, <2>5
<1>8. f[n] = [included |-> {p, q}, base |-> b] /\ n \in 0..n
  BY <1>1
<1> HIDE DEF f
<1>9. f[n] = h[n]
  <2>1. n \in Nat
    BY <1>1
  <2> HIDE DEF n
  <2>2. \A i \in 0..n : f[i] = h[i]
    BY <1>6, <1>7, <2>1, SameSteps
  <2> QED BY <1>8, <2>2
<1> QED BY <1>3, <1>5, <1>8, <1>9 DEF FindsBase

(* A merge of two commits patches both of their changes onto their base.   *)
PatchesPair(H, p, q) ==
  \E b : /\ IsBase(b, p, q)
         /\ MergeRecord(H, {p, q}) = Patched(Rec(b), {Rec(p), Rec(q)})

LEMMA MergeOfBranches ==
  ASSUME Founded, OneRoot, NEW H, NEW p, NEW q, Branches(H, p, q), p < q
  PROVE  PatchesPair(H, p, q)
<1>1. p \in Id /\ q \in Id /\ p # q
  BY HistoryOf DEF Branches
<1>2. Parents(p) # {} /\ Parents(q) # {}
  <2>1. PICK r \in History(p) : Parents(r) = {} /\ r \in Id
    BY <1>1, HasRoot
  <2>2. PICK k \in History(q) : Parents(k) = {} /\ k \in Id
    BY <1>1, HasRoot
  <2>3. r = k
    BY <2>1, <2>2 DEF OneRoot
  <2> QED BY <1>1, <2>1, <2>2, <2>3 DEF OneRoot, Branches
<1>3. PICK b : /\ IsBase(b, p, q)
               /\ FindMergeBase(H, {p, q}) = [included |-> {p, q}, base |-> b]
  <2>1. FindsBase(H, p, q)
    BY FindBaseOfBranches
  <2> QED BY <2>1 DEF FindsBase
<1>4. Cardinality({p, q}) # 1
  <2>1. Cardinality({p, q}) = 2
    BY <1>1, PairCounts, Zenon
  <2> QED BY <2>1
<1>5. PICK found : found = FindMergeBase(H, {p, q})
  OBVIOUS
<1>6. found.included = {p, q} /\ found.base = b
  BY <1>3, <1>5
<1>7. MergeRecord(H, {p, q}) = Patched(Rec(found.base), {Rec(m) : m \in found.included})
  BY <1>2, <1>4, <1>5 DEF MergeRecord
<1>8. {Rec(m) : m \in {p, q}} = {Rec(p), Rec(q)}
  OBVIOUS
<1> QED BY <1>3, <1>6, <1>7, <1>8 DEF PatchesPair

------------------------------------------------------------------------------
(* What of its history is in the record of a commit follows from three     *)
(* laws of the graph: a commit comes after its parents, an edit adds what  *)
(* no record before it has, and a merge patches the changes of both of its *)
(* parents onto their base.                                                *)
AddsNew(n) == \A m \in Id : m < n => AddedBy(n) \cap Rec(m) = {}

PatchesBase(n) ==
  \E p, q, b : /\ p # q /\ Parents(n) = {p, q}
               /\ IsBase(b, p, q)
               /\ Rec(n) = Patched(Rec(b), {Rec(p), Rec(q)})

GraphLaws ==
  /\ Founded
  /\ \A n \in Edits : AddsNew(n)
  /\ \A n \in Merges : MergesOfTwo(n) => PatchesBase(n)

KeepsHistory(m) ==
  MergesOfTwo(m) =>
    /\ Rec(m) \subseteq AddedIn(m)
    /\ AddedIn(m) \ RemovedIn(m) \subseteq Rec(m)
    /\ MergesFork(m) => Rec(m) \cap RemovedIn(m) = {}

LEMMA ContentOf ==
  ASSUME Founded, NEW n \in Id
  PROVE  /\ AddedIn(n) = (IF n \in Edits THEN AddedBy(n) ELSE {}) \cup
                         UNION {AddedIn(p) : p \in Parents(n)}
         /\ RemovedIn(n) = (IF n \in Edits THEN RemovedBy(n) ELSE {}) \cup
                           UNION {RemovedIn(p) : p \in Parents(n)}
<1>1. History(n) = {n} \cup UNION {History(p) : p \in Parents(n)}
  BY HistoryOf
<1>2. \A x : x \in AddedIn(n) <=>
         \/ n \in Edits /\ x \in AddedBy(n)
         \/ \E p \in Parents(n) : x \in AddedIn(p)
  BY <1>1 DEF AddedIn
<1>3. \A x : x \in RemovedIn(n) <=>
         \/ n \in Edits /\ x \in RemovedBy(n)
         \/ \E p \in Parents(n) : x \in RemovedIn(p)
  BY <1>1 DEF RemovedIn
<1> QED BY <1>2, <1>3

LEMMA HistoryWithin ==
  ASSUME Founded, NEW m \in Id, NEW k \in History(m)
  PROVE  /\ k \in Id
         /\ AddedIn(k) \subseteq AddedIn(m) /\ RemovedIn(k) \subseteq RemovedIn(m)
         /\ MergesOfTwo(m) => MergesOfTwo(k)
         /\ MergesFork(m) => MergesFork(k)
<1>1. k \in Id /\ History(k) \subseteq History(m)
  BY HistoryOf
<1> QED BY <1>1 DEF AddedIn, RemovedIn, MergesOfTwo, MergesFork

(* What was removed had been added.                                        *)
LEMMA RemovedWasAdded ==
  ASSUME Founded, NEW m \in Id, NEW x \in RemovedIn(m)
  PROVE  \E p \in History(m) : x \in Rec(p) /\ p \in Id
<1>1. PICK e \in History(m) : x \in RemovedBy(e)
  BY DEF RemovedIn
<1>2. PICK p \in Parents(e) : x \in Rec(p)
  BY <1>1 DEF RemovedBy
<1>3. p \in History(m) /\ p \in Id
  BY HistoryOf
<1> QED BY <1>2, <1>3

LEMMA EditKeeps ==
  ASSUME GraphLaws, NEW n \in Edits,
         \A m \in Id : m < n => KeepsHistory(m)
  PROVE  KeepsHistory(n)
<1>1. Founded /\ n \in Id /\ AddsNew(n) /\ Cardinality(Parents(n)) < 2
  BY DEF GraphLaws, Edits
<1>2. SUFFICES ASSUME MergesOfTwo(n)
               PROVE  /\ Rec(n) \subseteq AddedIn(n)
                      /\ AddedIn(n) \ RemovedIn(n) \subseteq Rec(n)
                      /\ MergesFork(n) => Rec(n) \cap RemovedIn(n) = {}
  BY DEF KeepsHistory
<1>3. /\ AddedIn(n) = AddedBy(n) \cup UNION {AddedIn(p) : p \in Parents(n)}
      /\ RemovedIn(n) = RemovedBy(n) \cup UNION {RemovedIn(p) : p \in Parents(n)}
  BY <1>1, ContentOf
<1>4. CASE Parents(n) = {}
  <2>1. AddedBy(n) = Rec(n) /\ RemovedBy(n) = {}
    BY <1>4 DEF AddedBy, RemovedBy
  <2> QED BY <1>3, <1>4, <2>1
<1>5. CASE Parents(n) # {}
  <2>1. PICK h : Parents(n) = {h}
    <3>1. IsFiniteSet(Parents(n))
      BY <1>1, FoundedIds, ReplicaFinite DEF Founded
    <3> QED BY <1>1, <1>5, <3>1, AtMostOne
  <2>2. h \in Id /\ h \in History(n) /\ h < n
    BY <1>1, <2>1, HistoryOf, FoundedIds
  <2>3. MergesOfTwo(h) /\ (MergesFork(n) => MergesFork(h))
    BY <1>1, <1>2, <2>2, HistoryWithin
  <2>4. /\ Rec(h) \subseteq AddedIn(h)
        /\ AddedIn(h) \ RemovedIn(h) \subseteq Rec(h)
        /\ MergesFork(h) => Rec(h) \cap RemovedIn(h) = {}
    BY <2>2, <2>3 DEF KeepsHistory
  <2>5. AddedBy(n) = Rec(n) \ Rec(h) /\ RemovedBy(n) = Rec(h) \ Rec(n)
    BY <2>1 DEF AddedBy, RemovedBy
  <2>6. AddedIn(n) = AddedBy(n) \cup AddedIn(h) /\ RemovedIn(n) = RemovedBy(n) \cup RemovedIn(h)
    BY <1>3, <2>1
  <2>7. AddedBy(n) \cap RemovedIn(h) = {}
    <3>1. ASSUME NEW x \in RemovedIn(h) PROVE x \notin AddedBy(n)
      <4>1. PICK p \in History(h) : x \in Rec(p) /\ p \in Id
        BY <1>1, <2>2, RemovedWasAdded
      <4>2. p < n
        <5>1. p \in Nat /\ h \in Nat /\ p <= h /\ n \in Nat
          BY <1>1, <2>2, HistoryOf
        <5> QED BY <2>2, <5>1
      <4> QED BY <1>1, <4>1, <4>2 DEF AddsNew
    <3> QED BY <3>1
  <2> QED BY <2>3, <2>4, <2>5, <2>6, <2>7
<1> QED BY <1>4, <1>5

LEMMA AddedOnce ==
  ASSUME GraphLaws, NEW e \in Edits, NEW k \in Edits,
         NEW x, x \in AddedBy(e), x \in AddedBy(k)
  PROVE  e = k
<1>1. e \in Id /\ k \in Id /\ e \in Nat /\ k \in Nat /\ None \notin Id
  BY FoundedIds, IdsOf DEF GraphLaws, Edits, Founded
<1>2. x \in Rec(e) /\ x \in Rec(k)
  BY DEF AddedBy
<1>3. ~(e < k) /\ ~(k < e)
  BY <1>1, <1>2 DEF GraphLaws, AddsNew
<1> QED BY <1>1, <1>3

(* What was removed in the history of a commit was added there.            *)
LEMMA RemovedWasAddedThere ==
  ASSUME Founded, NEW m \in Id, MergesOfTwo(m),
         \A k \in History(m) : KeepsHistory(k)
  PROVE  RemovedIn(m) \subseteq AddedIn(m)
<1>1. ASSUME NEW x \in RemovedIn(m) PROVE x \in AddedIn(m)
  <2>1. PICK k \in History(m) : x \in Rec(k)
    BY RemovedWasAdded
  <2>2. MergesOfTwo(k) /\ AddedIn(k) \subseteq AddedIn(m)
    BY HistoryWithin
  <2> QED BY <2>1, <2>2 DEF KeepsHistory
<1> QED BY <1>1

LEMMA MergeKeeps ==
  ASSUME GraphLaws, NEW n \in Merges,
         \A m \in Id : m < n => KeepsHistory(m)
  PROVE  KeepsHistory(n)
<1>1. SUFFICES ASSUME MergesOfTwo(n)
               PROVE  /\ Rec(n) \subseteq AddedIn(n)
                      /\ AddedIn(n) \ RemovedIn(n) \subseteq Rec(n)
                      /\ MergesFork(n) => Rec(n) \cap RemovedIn(n) = {}
  BY DEF KeepsHistory
<1>2. Founded /\ n \in Id /\ n \notin Edits /\ n \in Nat
  BY FoundedIds DEF GraphLaws, Merges
<1>3. PICK p, q, b : /\ p # q /\ Parents(n) = {p, q}
                     /\ IsBase(b, p, q)
                     /\ Rec(n) = Patched(Rec(b), {Rec(p), Rec(q)})
  BY <1>1 DEF GraphLaws, PatchesBase
<1>4. p \in Id /\ q \in Id /\ p < n /\ q < n /\ p \in History(n) /\ q \in History(n)
  BY <1>2, <1>3, FoundedIds, HistoryOf
<1>5. /\ AddedIn(n) = AddedIn(p) \cup AddedIn(q)
      /\ RemovedIn(n) = RemovedIn(p) \cup RemovedIn(q)
  BY <1>2, <1>3, ContentOf
<1>6. ASSUME NEW m \in {p, q}, NEW k \in History(m)
      PROVE  KeepsHistory(k) /\ MergesOfTwo(k) /\ k \in Id /\ (MergesFork(n) => MergesFork(k))
  <2>1. k \in History(n) /\ k \in Nat /\ m \in Nat /\ k <= m /\ m < n
    BY <1>2, <1>4, HistoryOf
  <2>2. k < n
    BY <1>2, <2>1
  <2> QED BY <1>1, <1>2, <2>1, <2>2, HistoryWithin
<1>7. p \in History(p) /\ q \in History(q)
  BY <1>2, <1>4, HistoryOf
<1>8. ASSUME NEW m \in {p, q}
      PROVE  /\ Rec(m) \subseteq AddedIn(m) /\ AddedIn(m) \ RemovedIn(m) \subseteq Rec(m)
             /\ MergesFork(n) => Rec(m) \cap RemovedIn(m) = {}
             /\ RemovedIn(m) \subseteq AddedIn(m)
  <2>1. m \in History(m) /\ m \in Id
    BY <1>4, <1>7
  <2>2. KeepsHistory(m) /\ MergesOfTwo(m) /\ (MergesFork(n) => MergesFork(m))
    BY <1>6, <2>1
  <2>3. RemovedIn(m) \subseteq AddedIn(m)
    BY <1>2, <1>6, <2>1, <2>2, RemovedWasAddedThere
  <2> QED BY <2>2, <2>3 DEF KeepsHistory
<1>9. CASE b = p /\ Rec(p) = Rec(q)
  <2>1. Rec(n) = Rec(p)
    BY <1>3, <1>9 DEF Patched
  <2> QED BY <1>5, <1>8, <1>9, <2>1
<1>10. CASE /\ b \in History(p) \cap History(q)
            /\ Fork(p, q) => History(b) = History(p) \cap History(q)
  <2>1. /\ AddedIn(b) \subseteq AddedIn(p) \cap AddedIn(q)
        /\ RemovedIn(b) \subseteq RemovedIn(p) \cap RemovedIn(q)
    BY <1>2, <1>4, <1>10, HistoryWithin
  <2>2. Rec(b) \subseteq AddedIn(b) /\ AddedIn(b) \ RemovedIn(b) \subseteq Rec(b)
    BY <1>6, <1>10 DEF KeepsHistory
  <2>3. ASSUME MergesFork(n)
        PROVE  /\ (Rec(p) \cap RemovedIn(p)) \cup (Rec(q) \cap RemovedIn(q)) = {}
               /\ (Rec(p) \cap RemovedIn(q)) \cup (Rec(q) \cap RemovedIn(p)) \subseteq AddedIn(b)
    <3>1. Fork(p, q)
      <4>1. n \in History(n)
        BY <1>2, HistoryOf
      <4> QED BY <1>3, <2>3, <4>1 DEF MergesFork
    <3>2. AddedIn(p) \cap AddedIn(q) \subseteq AddedIn(b)
      <4>1. ASSUME NEW x \in AddedIn(p) \cap AddedIn(q) PROVE x \in AddedIn(b)
        <5>1. PICK e \in History(p) \cap Edits : x \in AddedBy(e)
          BY DEF AddedIn
        <5>2. PICK k \in History(q) \cap Edits : x \in AddedBy(k)
          BY DEF AddedIn
        <5>3. e = k
          BY <5>1, <5>2, AddedOnce
        <5>4. e \in History(b)
          BY <1>10, <3>1, <5>3
        <5> QED BY <5>1, <5>4 DEF AddedIn
      <4> QED BY <4>1
    <3>3. /\ Rec(p) \subseteq AddedIn(p) /\ Rec(q) \subseteq AddedIn(q)
          /\ RemovedIn(p) \subseteq AddedIn(p) /\ RemovedIn(q) \subseteq AddedIn(q)
          /\ Rec(p) \cap RemovedIn(p) = {} /\ Rec(q) \cap RemovedIn(q) = {}
      BY <1>8, <2>3
    <3> QED BY <3>2, <3>3
  <2>4. /\ Rec(p) \subseteq AddedIn(p) /\ AddedIn(p) \ RemovedIn(p) \subseteq Rec(p)
        /\ Rec(q) \subseteq AddedIn(q) /\ AddedIn(q) \ RemovedIn(q) \subseteq Rec(q)
    BY <1>8
  <2>5. \A x : x \in Rec(n) <=>
          \/ x \in Rec(b) /\ x \in Rec(p) /\ x \in Rec(q)
          \/ x \notin Rec(b) /\ (x \in Rec(p) \/ x \in Rec(q))
    BY <1>3 DEF Patched
  <2>6. Rec(n) \subseteq AddedIn(n)
    BY <1>5, <2>4, <2>5
  <2>7. ASSUME NEW x \in AddedIn(n) \ RemovedIn(n) PROVE x \in Rec(n)
    BY <1>5, <2>1, <2>2, <2>4, <2>5, <2>7
  <2>8. ASSUME MergesFork(n), NEW x \in Rec(n) PROVE x \notin RemovedIn(n)
    BY <1>5, <2>1, <2>2, <2>3, <2>5, <2>8
  <2> QED BY <2>6, <2>7, <2>8
<1> QED BY <1>3, <1>9, <1>10 DEF IsBase

(* So every commit keeps what its history made of the record.              *)
LEMMA LawsKeepHistory == GraphLaws => \A m \in Id : KeepsHistory(m)
<1> SUFFICES ASSUME GraphLaws, ~ \A m \in Id : KeepsHistory(m) PROVE FALSE
  OBVIOUS
<1> DEFINE Bad == {m \in Id : ~KeepsHistory(m)}
<1>1. Id \subseteq Nat
  BY FoundedIds DEF GraphLaws
<1>2. Bad \in SUBSET Nat /\ Bad # {}
  BY <1>1
<1>3. PICK n \in Bad : \A m \in Bad : n <= m
  <2> HIDE DEF Bad
  <2> QED BY <1>2, Least
<1>4. \A m \in Id : m < n => KeepsHistory(m)
  <2>1. \A m \in Id : m < n => ~(n <= m)
    BY <1>1, <1>3
  <2> QED BY <1>3, <2>1
<1>5. n \in Edits \/ n \in Merges
  BY <1>3 DEF Merges
<1> QED BY <1>3, <1>4, <1>5, EditKeeps, MergeKeeps

------------------------------------------------------------------------------
(* Another commit changes nothing in the histories of those before it.     *)
CommitsStay == Id \subseteq Id' /\ \A k \in Id : commits'[k] = commits[k]

LEMMA GrowthStays == Founded /\ Grows => CommitsStay
<1>1. Founded /\ commits' = commits => CommitsStay
  BY DEF CommitsStay, Id
<1>2. ASSUME Founded, NEW e, commits' = Append(commits, e) PROVE CommitsStay
  BY <1>2, AppendedCommit DEF Founded, CommitsStay
<1> QED BY <1>1, <1>2 DEF Grows

ReachesAre ==
  \A m \in Id :
    /\ Reached(Id, m, 0) = Parents(m)
    /\ \A k \in Nat : /\ Reached(Id, m, k) \subseteq Id
                      /\ Reached(Id, m, k + 1) = Further(Id, Reached(Id, m, k))

LEMMA ReachedAre == Founded => ReachesAre
BY ReachedIs DEF ReachesAre

LEMMA HistoryStays ==
  ASSUME Founded, Founded', CommitsStay, NEW m \in Id
  PROVE  /\ History(m)' = History(m)
         /\ \A k \in Nat : Reached(Id, m, k)' = Reached(Id, m, k)
<1>1. Id \subseteq Id' /\ \A k \in Id : Parents(k)' = Parents(k) /\ Parents(k) \subseteq Id
  BY FoundedIds DEF CommitsStay, Parents
<1>2. HistoriesAre /\ ReachesAre
  BY HistoryIs, ReachedAre
<1>3. HistoriesAre' /\ ReachesAre'
  <2>1. (Founded => HistoriesAre)'
    BY HistoryIs, PTL
  <2>2. (Founded => ReachesAre)'
    BY ReachedAre, PTL
  <2> QED BY <2>1, <2>2
<1>4. PICK S, T : S = History(m) /\ T = History(m)'
  OBVIOUS
<1>5. m \in Id' /\ S \subseteq Id
  BY <1>1, <1>4, HistoryOf
<1>6. /\ m \in S /\ \A k \in S : Parents(k) \subseteq S
      /\ \A C : (m \in C /\ \A k \in C \cap Id : Parents(k) \subseteq C) => S \subseteq C
  BY <1>2, <1>4 DEF HistoriesAre, IsHistory
<1>7. /\ m \in T /\ \A k \in T : Parents(k)' \subseteq T
      /\ \A C : (m \in C /\ \A k \in C \cap Id' : Parents(k)' \subseteq C) => T \subseteq C
  BY <1>3, <1>4, <1>5 DEF HistoriesAre, IsHistory
<1>8. S \subseteq T
  <2>1. \A k \in T \cap Id : Parents(k) \subseteq T
    BY <1>1, <1>7
  <2> QED BY <1>6, <1>7, <2>1
<1>9. T \subseteq S
  <2>1. \A k \in S \cap Id' : Parents(k)' \subseteq S
    BY <1>1, <1>5, <1>6
  <2> QED BY <1>6, <1>7, <2>1
<1>10. ASSUME NEW k \in Nat PROVE Reached(Id, m, k)' = Reached(Id, m, k)
  <2> DEFINE f == [i \in 0..k |-> Reached(Id, m, i)]
             h == [i \in 0..k |-> Reached(Id, m, i)']
  <2>1. f[0] = h[0]
    BY <1>1, <1>2, <1>3, <1>5 DEF ReachesAre
  <2>2. ASSUME NEW i \in 1..k, f[i - 1] = h[i - 1] PROVE f[i] = h[i]
    <3>1. i - 1 \in 0..k /\ i \in 0..k /\ (i - 1) + 1 = i /\ i - 1 \in Nat
      OBVIOUS
    <3>2. PICK R : R = Reached(Id, m, i - 1)
      OBVIOUS
    <3>3. R = Reached(Id, m, i - 1)'
      BY <2>2, <3>1, <3>2
    <3>4. Reached(Id, m, i) = R \cup UNION {Parents(p) : p \in R \cap Id} /\ R \subseteq Id
      BY <1>2, <3>1, <3>2 DEF ReachesAre, Further
    <3>5. Reached(Id, m, i)' = R \cup UNION {Parents(p)' : p \in R \cap Id'}
      BY <1>3, <1>5, <3>1, <3>3 DEF ReachesAre, Further
    <3>6. UNION {Parents(p)' : p \in R \cap Id'} = UNION {Parents(p) : p \in R \cap Id}
      BY <1>1, <3>4
    <3>7. f[i] = Reached(Id, m, i) /\ h[i] = Reached(Id, m, i)'
      BY <3>1
    <3> QED BY <3>4, <3>5, <3>6, <3>7
  <2>3. f[k] = Reached(Id, m, k) /\ h[k] = Reached(Id, m, k)' /\ k \in 0..k
    OBVIOUS
  <2> HIDE DEF f, h
  <2> QED BY <2>1, <2>2, <2>3, SameSteps
<1> QED BY <1>4, <1>8, <1>9, <1>10

LEMMA CommitStays ==
  ASSUME Founded, Founded', CommitsStay, NEW m \in Id
  PROVE  /\ Rec(m)' = Rec(m) /\ Parents(m)' = Parents(m) /\ AddedBy(m)' = AddedBy(m)
         /\ SawHistory(m)' <=> SawHistory(m)
         /\ MergesOfTwo(m)' <=> MergesOfTwo(m)
<1>1. /\ \A k \in Id : /\ commits'[k] = commits[k] /\ Parents(k)' = Parents(k)
                       /\ History(k)' = History(k) /\ Rec(k)' = Rec(k)
                       /\ Parents(k) \subseteq Id /\ History(k) \subseteq Id
  BY FoundedIds, HistoryStays, HistoryOf DEF CommitsStay, Parents, Rec
<1>2. AddedBy(m)' = AddedBy(m)
  BY <1>1 DEF AddedBy
<1>3. \A k \in Id : SawHistory(k)' <=> SawHistory(k)
  BY <1>1 DEF SawHistory
<1>4. MergesOfTwo(m)' <=> MergesOfTwo(m)
  BY <1>1, <1>3 DEF MergesOfTwo
<1> QED BY <1>1, <1>2, <1>3, <1>4

LEMMA ForkStays ==
  ASSUME Founded, Founded', CommitsStay,
         NEW p \in Id, NEW q \in Id, Fork(p, q)'
  PROVE  Fork(p, q)
<1>1. /\ \A k \in Id : /\ History(k)' = History(k) /\ History(k) \subseteq Id
                       /\ \A i \in Nat : Reached(Id, k, i)' = Reached(Id, k, i)
      /\ Id = 1..Len(commits) /\ Len(commits) \in Nat
      /\ Id' = 1..Len(commits)' /\ Len(commits)' \in Nat /\ Id \subseteq Id'
  <2>1. Id' = 1..Len(commits)' /\ Len(commits)' \in Nat
    BY DEF Founded, Sequential, Id
  <2>2. Id \subseteq Id'
    BY DEF CommitsStay
  <2> QED BY <2>1, <2>2, FoundedIds, HistoryStays, HistoryOf
<1> DEFINE shared == History(p) \cap History(q)
           newest == Max(shared)
<1>2. shared # {} /\ shared' = shared /\ newest' = newest
  BY <1>1 DEF Fork
<1>3. newest \in Id
  <2>1. shared \in SUBSET (1..Len(commits))
    BY <1>1
  <2> HIDE DEF shared
  <2> QED BY <1>1, <1>2, <2>1, MaxIsElement
<1>4. /\ shared = History(newest)'
      /\ \A m \in {p, q} : \A k \in 0..Len(commits)' :
           Reached(Id, m, k)' \cap shared # {} => newest \in Reached(Id, m, k)'
  BY <1>1 DEF Fork
<1>5. 0..Len(commits) \subseteq 0..Len(commits)' /\ 0..Len(commits) \subseteq Nat
  <2>1. Len(commits) \in Id' \/ Len(commits) = 0
    BY <1>1
  <2> QED BY <1>1, <2>1
<1>6. shared = History(newest)
  BY <1>1, <1>3, <1>4
<1>7. \A m \in {p, q} : \A k \in 0..Len(commits) :
        Reached(Id, m, k) \cap shared # {} => newest \in Reached(Id, m, k)
  BY <1>1, <1>4, <1>5
<1> QED BY <1>2, <1>6, <1>7 DEF Fork

LEMMA BaseStays ==
  ASSUME Founded, Founded', CommitsStay,
         NEW p \in Id, NEW q \in Id, NEW b, IsBase(b, p, q)
  PROVE  IsBase(b, p, q)' /\ Rec(b)' = Rec(b) /\ b \in Id
<1>1. b \in Id
  BY HistoryOf DEF IsBase
<1>2. \A k \in Id : History(k)' = History(k) /\ Rec(k)' = Rec(k)
  BY HistoryStays, CommitStays
<1>3. Fork(p, q)' => Fork(p, q)
  BY ForkStays
<1> QED BY <1>1, <1>2, <1>3 DEF IsBase

------------------------------------------------------------------------------
(* The laws hold of what is constructed.                                   *)
LEMMA LawsStay ==
  ASSUME GraphLaws, Founded', NEW e, commits' = Append(commits, e),
         NEW n, n = Len(commits) + 1,
         Cardinality(e.parents) < 2 => AddsNew(n)',
         ~(Cardinality(e.parents) < 2) /\ MergesOfTwo(n)' => PatchesBase(n)'
  PROVE  GraphLaws'
<1>0. CommitsStay
  BY GrowthStays DEF GraphLaws, Grows
<1>1. /\ Founded /\ Id' = Id \cup {n} /\ n \notin Id /\ n \in Nat /\ Id = 1..(n - 1)
      /\ Parents(n)' = e.parents
  BY AppendedCommit DEF GraphLaws, Founded
<1>2. \A m \in Id : /\ Rec(m)' = Rec(m) /\ Parents(m)' = Parents(m)
                    /\ AddedBy(m)' = AddedBy(m)
                    /\ MergesOfTwo(m)' <=> MergesOfTwo(m)
  BY <1>1, <1>0, CommitStays
<1>3. ASSUME NEW m \in Edits' PROVE AddsNew(m)'
  <2>1. CASE m = n
    BY <1>1, <1>3, <2>1 DEF Edits
  <2>2. CASE m # n
    <3>1. m \in Edits /\ m \in Id /\ ~(n < m)
      BY <1>1, <1>2, <1>3, <2>2 DEF Edits
    <3>2. AddsNew(m)
      BY <3>1 DEF GraphLaws
    <3> QED BY <1>1, <1>2, <3>1, <3>2 DEF AddsNew
  <2> QED BY <2>1, <2>2
<1>4. ASSUME NEW m \in Merges', MergesOfTwo(m)' PROVE PatchesBase(m)'
  <2>1. m \in Id' /\ ~(Cardinality(Parents(m)') < 2)
    BY <1>4 DEF Merges, Edits
  <2>2. CASE m = n
    BY <1>1, <1>4, <2>1, <2>2
  <2>3. CASE m # n
    <3>1. m \in Id /\ m \in Merges /\ MergesOfTwo(m)
      BY <1>1, <1>2, <1>4, <2>1, <2>3 DEF Merges, Edits
    <3>2. PICK p, q, b : /\ p # q /\ Parents(m) = {p, q}
                         /\ IsBase(b, p, q)
                         /\ Rec(m) = Patched(Rec(b), {Rec(p), Rec(q)})
      BY <3>1 DEF GraphLaws, PatchesBase
    <3>3. p \in Id /\ q \in Id
      BY <1>1, <3>1, <3>2, FoundedIds
    <3>4. IsBase(b, p, q)' /\ Rec(b)' = Rec(b)
      BY <1>0, <1>1, <3>2, <3>3, BaseStays
    <3>5. Parents(m)' = {p, q} /\ Rec(m)' = Patched(Rec(b)', {Rec(p)', Rec(q)'})
      BY <1>2, <3>1, <3>2, <3>3, <3>4
    <3> QED BY <3>2, <3>4, <3>5 DEF PatchesBase
  <2> QED BY <2>2, <2>3
<1> QED BY <1>3, <1>4 DEF GraphLaws

LEMMA NewEditAdds ==
  ASSUME Founded, Founded', NEW e, commits' = Append(commits, e),
         NEW n, n = Len(commits) + 1,
         e.parents \subseteq Id, Cardinality(e.parents) < 2,
         (e.record \ UNION {Rec(p) : p \in e.parents}) \cap Added = {}
  PROVE  AddsNew(n)'
<1>1. /\ Id' = Id \cup {n} /\ n \notin Id /\ n \in Nat /\ n # None
      /\ commits'[n] = e /\ Parents(n)' = e.parents
  <2>1. /\ Id' = Id \cup {n} /\ n \notin Id /\ n \in Nat /\ Id = 1..(n - 1)
        /\ commits'[n] = e /\ Parents(n)' = e.parents /\ Len(commits) \in Nat
    BY AppendedCommit, FoundedIds DEF Founded
  <2> QED BY <2>1 DEF None
<1>2. \A m \in Id : Rec(m)' = Rec(m) /\ Rec(m) \subseteq Added
  BY GrowthStays, CommitStays, RecAdded DEF Grows
<1>3. Rec(n)' = e.record
  BY <1>1 DEF Rec
<1>4. AddedBy(n)' \cap Added = {}
  <2>1. CASE e.parents = {}
    BY <1>1, <1>3, <2>1 DEF AddedBy
  <2>2. CASE e.parents # {}
    <3>1. IsFiniteSet(e.parents)
      BY ReplicaFinite DEF Founded
    <3>2. PICK h : e.parents = {h}
      BY <2>2, <3>1, AtMostOne
    <3>3. AddedBy(n)' = e.record \ Rec(h)
      BY <1>1, <1>2, <1>3, <3>2 DEF AddedBy
    <3> QED BY <3>2, <3>3
  <2> QED BY <2>1, <2>2
<1>5. \A m \in Id' : m < n => m \in Id
  BY <1>1
<1> QED BY <1>2, <1>4, <1>5 DEF AddsNew

HistoriesUnite ==
  \A m \in Id : m \in History(m) /\ History(m) = {m} \cup UNION {History(p) : p \in Parents(m)}

LEMMA HistoryUnites == Founded => HistoriesUnite
BY HistoryOf DEF HistoriesUnite

LEMMA NewMergePatches ==
  ASSUME Founded, OneRoot, Founded', NEW H \in SUBSET Id,
         NEW S \in SUBSET LeavesForKey(H), Cardinality(S) > 1,
         NEW e, e.parents = S, e.record = MergeRecord(H, S), e.ancestors = Ancestors(H),
         commits' = Append(commits, e),
         NEW n, n = Len(commits) + 1, MergesOfTwo(n)'
  PROVE  PatchesBase(n)'
<1>1. /\ Id' = Id \cup {n} /\ n \notin Id /\ n # None
      /\ commits'[n] = e /\ Parents(n)' = S
  <2>1. /\ Id' = Id \cup {n} /\ n \notin Id /\ n \in Nat /\ Id = 1..(n - 1)
        /\ commits'[n] = e /\ Parents(n)' = e.parents /\ Len(commits) \in Nat
    BY AppendedCommit, FoundedIds DEF Founded
  <2> QED BY <2>1 DEF None
<1>2. S \subseteq H /\ \A m \in S : m \in Id /\ ~HasInEdges(H, m)
  BY DEF LeavesForKey, LatestByConnection
<1>0. CommitsStay
  BY GrowthStays DEF Grows
<1>3. \A m \in Id : History(m)' = History(m) /\ Rec(m)' = Rec(m)
  BY <1>0, HistoryStays, CommitStays
<1>4. n \in History(n)' /\ History(n)' = {n} \cup UNION {History(m) : m \in S}
  <2>1. (Founded => HistoriesUnite)'
    BY HistoryUnites, PTL
  <2>2. n \in History(n)' /\ History(n)' = {n} \cup UNION {History(p)' : p \in Parents(n)'}
    BY <1>1, <2>1 DEF HistoriesUnite
  <2>3. UNION {History(p)' : p \in Parents(n)'} = UNION {History(m) : m \in S}
    BY <1>1, <1>2, <1>3
  <2> QED BY <2>2, <2>3
<1>5. PICK p \in S, q \in S : p < q /\ p # q
  <2>1. PICK x \in S, y \in S : x # y
    BY TwoElements
  <2>2. x \in Nat /\ y \in Nat
    BY <1>2, FoundedIds
  <2>3. x < y \/ y < x
    BY <2>1, <2>2
  <2> QED BY <2>1, <2>3
<1>6. S = {p, q}
  <2>1. Cardinality(Parents(n)') < 3
    BY <1>4 DEF MergesOfTwo
  <2>2. IsFiniteSet(S)
    BY <1>2, ReplicaFinite DEF Founded
  <2> QED BY <1>1, <1>5, <2>1, <2>2, ExactlyTwo
<1>7. History(p) \cup History(q) \subseteq H
  <2>1. SawHistory(n)'
    BY <1>4 DEF MergesOfTwo
  <2>2. History(n)' \ ({n} \cup S) \subseteq Ancestors(H)
    BY <1>1, <2>1 DEF SawHistory
  <2>3. Ancestors(H) \subseteq H
    BY DEF Ancestors
  <2>4. n \notin History(p) \cup History(q)
    BY <1>1, <1>2, HistoryOf
  <2> QED BY <1>2, <1>4, <1>5, <2>2, <2>3, <2>4
<1>8. p \notin History(q) /\ q \notin History(p)
  <2>1. ASSUME NEW x \in {p, q}, NEW y \in {p, q}, x # y, x \in History(y) PROVE FALSE
    <3>1. PICK k \in History(y) : x \in Parents(k)
      BY <1>2, <2>1, HasChild
    <3>2. k \in H
      BY <1>7, <2>1
    <3> QED BY <1>2, <2>1, <3>1, <3>2 DEF HasInEdges
  <2> QED BY <1>5, <2>1
<1>9. History(p) \cap History(q) # {}
  <2>1. PICK r \in History(p) : Parents(r) = {} /\ r \in Id
    BY <1>2, HasRoot
  <2>2. PICK k \in History(q) : Parents(k) = {} /\ k \in Id
    BY <1>2, HasRoot
  <2> QED BY <2>1, <2>2 DEF OneRoot
<1>10. Branches(H, p, q)
  BY <1>2, <1>7, <1>8, <1>9 DEF Branches
<1>11. PICK b : /\ IsBase(b, p, q)
                /\ MergeRecord(H, {p, q}) = Patched(Rec(b), {Rec(p), Rec(q)})
  <2>1. PatchesPair(H, p, q)
    BY <1>5, <1>10, MergeOfBranches
  <2> QED BY <2>1 DEF PatchesPair
<1>12. IsBase(b, p, q)' /\ Rec(b)' = Rec(b)
  BY <1>0, <1>2, <1>11, BaseStays
<1>13. Rec(n)' = MergeRecord(H, {p, q})
  BY <1>1, <1>6 DEF Rec
<1>14. Rec(n)' = Patched(Rec(b)', {Rec(p)', Rec(q)'})
  BY <1>2, <1>3, <1>11, <1>12, <1>13
<1> QED BY <1>1, <1>5, <1>6, <1>12, <1>14 DEF PatchesBase

LEMMA LawsUnchanged ==
  ASSUME GraphLaws, Founded', commits' = commits
  PROVE  GraphLaws'
<1>1. CommitsStay /\ Id' = Id /\ Founded
  BY GrowthStays DEF GraphLaws, Grows, Id
<1>2. \A m \in Id : /\ Rec(m)' = Rec(m) /\ Parents(m)' = Parents(m)
                    /\ AddedBy(m)' = AddedBy(m)
                    /\ MergesOfTwo(m)' <=> MergesOfTwo(m)
  BY <1>1, CommitStays
<1>3. \A m \in Edits' : AddsNew(m)'
  BY <1>1, <1>2 DEF GraphLaws, Edits, AddsNew
<1>4. ASSUME NEW m \in Merges', MergesOfTwo(m)' PROVE PatchesBase(m)'
  <2>1. m \in Id /\ m \in Merges /\ MergesOfTwo(m)
    BY <1>1, <1>2, <1>4 DEF Merges, Edits
  <2>2. PICK p, q, b : /\ p # q /\ Parents(m) = {p, q}
                       /\ IsBase(b, p, q)
                       /\ Rec(m) = Patched(Rec(b), {Rec(p), Rec(q)})
    BY <2>1 DEF GraphLaws, PatchesBase
  <2>3. p \in Id /\ q \in Id
    BY <1>1, <2>1, <2>2, FoundedIds
  <2>4. IsBase(b, p, q)' /\ Rec(b)' = Rec(b)
    BY <1>1, <2>2, <2>3, BaseStays
  <2>5. Parents(m)' = {p, q} /\ Rec(m)' = Patched(Rec(b)', {Rec(p)', Rec(q)'})
    BY <1>2, <2>1, <2>2, <2>3, <2>4
  <2> QED BY <2>2, <2>4, <2>5 DEF PatchesBase
<1> QED BY <1>3, <1>4 DEF GraphLaws

------------------------------------------------------------------------------
(* The laws are kept by every step.  That histories share a commit, so     *)
(* that a merge has a base, is because the creator constructs the only     *)
(* commit without parents.                                                 *)
RootKnown ==
  \A r \in Id : Parents(r) = {} => r \in have[Creator] \/ r = setting[Creator]

HistoryInv == GraphShape /\ GraphLaws /\ OneRoot /\ RootKnown

NewEdit(e) ==
  /\ e.parents \subseteq Id /\ Cardinality(e.parents) < 2
  /\ (e.record \ UNION {Rec(p) : p \in e.parents}) \cap Added = {}
  /\ e.parents = {} =>
       (\A m \in Id : Parents(m) # {}) /\ setting'[Creator] = Len(commits) + 1

NewMerge(e) ==
  \E H \in SUBSET Id : /\ e.parents \subseteq LeavesForKey(H) /\ Cardinality(e.parents) > 1
                       /\ e.record = MergeRecord(H, e.parents)
                       /\ e.ancestors = Ancestors(H)

ConstructsByLaw ==
  \/ commits' = commits
  \/ \E e : commits' = Append(commits, e) /\ (NewEdit(e) \/ NewMerge(e))

LEMMA ShapeIsFounded == GraphShape => Founded
BY DEF GraphShape, Typed, Founded, Parents

LEMMA HistoryKept ==
  ASSUME HistoryInv, GraphShape', ConstructsByLaw,
         have[Creator] \subseteq have'[Creator],
         setting[Creator] \in {None, setting'[Creator]} \cup have'[Creator]
  PROVE  HistoryInv'
<1>1. Founded /\ Founded' /\ GraphLaws /\ OneRoot /\ RootKnown /\ None \notin Id
  <2>1. (GraphShape => Founded)'
    BY ShapeIsFounded, PTL
  <2> QED BY <2>1, IdsOf DEF HistoryInv, GraphLaws, Founded
<1>2. CASE commits' = commits
  <2>1. GraphLaws'
    BY <1>1, <1>2, LawsUnchanged
  <2>2. OneRoot' /\ RootKnown'
    BY <1>1, <1>2 DEF OneRoot, RootKnown, Parents, Id
  <2> QED BY <2>1, <2>2 DEF HistoryInv
<1>3. CASE \E e : commits' = Append(commits, e) /\ (NewEdit(e) \/ NewMerge(e))
  <2>1. PICK e : commits' = Append(commits, e) /\ (NewEdit(e) \/ NewMerge(e))
    BY <1>3
  <2>2. PICK n : n = Len(commits) + 1
    OBVIOUS
  <2>3. /\ Id' = Id \cup {n} /\ n \notin Id /\ Parents(n)' = e.parents
        /\ \A m \in Id : Parents(m)' = Parents(m)
    BY <1>1, <2>1, <2>2, AppendedCommit DEF Founded
  <2>4. CASE NewEdit(e)
    <3>1. AddsNew(n)'
      BY <1>1, <2>1, <2>2, <2>4, NewEditAdds DEF NewEdit
    <3>2. GraphLaws'
      BY <1>1, <2>1, <2>2, <2>4, <3>1, LawsStay DEF NewEdit
    <3>3. e.parents = {} => (\A m \in Id : Parents(m) # {}) /\ setting'[Creator] = n
      BY <2>2, <2>4 DEF NewEdit
    <3>4. OneRoot'
      BY <1>1, <2>3, <3>3 DEF OneRoot
    <3>5. RootKnown'
      BY <1>1, <2>3, <3>3 DEF RootKnown
    <3> QED BY <3>2, <3>4, <3>5 DEF HistoryInv
  <2>5. CASE NewMerge(e)
    <3>1. PICK H \in SUBSET Id : /\ e.parents \subseteq LeavesForKey(H)
                                 /\ Cardinality(e.parents) > 1
                                 /\ e.record = MergeRecord(H, e.parents)
                                 /\ e.ancestors = Ancestors(H)
      BY <2>5 DEF NewMerge
    <3>2. MergesOfTwo(n)' => PatchesBase(n)'
      <4>1. PICK S \in SUBSET LeavesForKey(H) : S = e.parents
        BY <3>1
      <4> QED BY <1>1, <2>1, <2>2, <3>1, <4>1, NewMergePatches
    <3>3. IsFiniteSet(e.parents) /\ Cardinality(e.parents) \in Nat
      BY <1>1, <3>1, ReplicaFinite DEF Founded, LeavesForKey, LatestByConnection
    <3>4. GraphLaws'
      BY <1>1, <2>1, <2>2, <3>1, <3>2, <3>3, LawsStay
    <3>5. e.parents # {}
      BY <3>1, TwoElements
    <3>6. OneRoot' /\ RootKnown'
      BY <1>1, <2>3, <3>5 DEF OneRoot, RootKnown
    <3> QED BY <3>4, <3>6 DEF HistoryInv
  <2> QED BY <2>1, <2>4, <2>5
<1> QED BY <1>2, <1>3 DEF ConstructsByLaw

LEMMA HistoryMerge ==
  ASSUME GraphShape, NEW c, NEW H \in SUBSET Id,
         NothingToMerge(c, H) \/ StartMerge(c, H)
  PROVE  ConstructsByLaw
<1>1. CASE NothingToMerge(c, H)
  BY <1>1 DEF NothingToMerge, ConstructsByLaw
<1>2. CASE StartMerge(c, H)
  <2>1. PICK S \in CommitsToMerge(c, H) :
          \E fp : /\ MayMerge(c, S)
                  /\ commits' = Append(commits, NewCommit(c, H, S, MergeRecord(H, S), fp))
    BY <1>2 DEF StartMerge
  <2>2. PICK fp : /\ MayMerge(c, S)
                  /\ commits' = Append(commits, NewCommit(c, H, S, MergeRecord(H, S), fp))
    BY <2>1
  <2>3. PICK e : e = NewCommit(c, H, S, MergeRecord(H, S), fp)
    OBVIOUS
  <2>4. S \subseteq LeavesForKey(H)
    BY MergesLeaves DEF GraphShape
  <2>5. e.parents = S /\ e.record = MergeRecord(H, S) /\ e.ancestors = Ancestors(H)
    BY <2>3 DEF NewCommit
  <2>6. NewMerge(e)
    BY <2>2, <2>4, <2>5 DEF NewMerge, MayMerge
  <2> QED BY <2>2, <2>3, <2>6 DEF ConstructsByLaw
<1> QED BY <1>1, <1>2

LEMMA HistorySetsValue ==
  ASSUME HistoryInv, NEW c \in Client, NEW P, NEW record \in SUBSET Elem,
         SetsValue(c, P, record), (record \ UNION {Rec(p) : p \in P}) \cap Added = {}
  PROVE  HistoryInv'
<1>1. GraphShape' /\ GraphShape /\ Creator \in Client /\ None \notin Id
  BY ShapeSetsValue, ConstantsOK, IdsOf DEF HistoryInv, GraphShape
<1>2. PICK fp : commits' = Append(commits, NewCommit(c, have[c], P, record, fp))
  BY DEF SetsValue
<1>3. /\ have' = have /\ setting[c] = None
      /\ setting'[c] = Len(commits) + 1
      /\ \A d \in Client \ {c} : setting'[d] = setting[d]
  BY <1>1 DEF SetsValue, GraphShape
<1>4. P \subseteq Id /\ Cardinality(P) < 2 /\ (record \ UNION {Rec(p) : p \in P}) \cap Added = {}
  BY <1>1 DEF SetsValue, GraphShape
<1>5. ASSUME P = {}
      PROVE  (\A m \in Id : Parents(m) # {}) /\ setting'[Creator] = Len(commits) + 1
  <2>1. have[c] = {} /\ c = Creator
    BY <1>5 DEF SetsValue
  <2> QED BY <1>1, <1>3, <2>1 DEF HistoryInv, RootKnown
<1>6. PICK e : e = NewCommit(c, have[c], P, record, fp)
  OBVIOUS
<1>7. e.parents = P /\ e.record = record
  BY <1>6 DEF NewCommit
<1>8. NewEdit(e)
  BY <1>4, <1>5, <1>7 DEF NewEdit
<1>9. ConstructsByLaw
  BY <1>2, <1>6, <1>8 DEF ConstructsByLaw
<1>10. setting[Creator] \in {None, setting'[Creator]}
  BY <1>1, <1>3
<1> QED BY <1>1, <1>3, <1>9, <1>10, HistoryKept

LEMMA HistorySignsValue ==
  ASSUME HistoryInv, NEW c \in Client, SignsValue(c)
  PROVE  HistoryInv'
<1>1. GraphShape' /\ GraphShape /\ Creator \in Client
  BY ShapeSignsValue, ConstantsOK DEF HistoryInv
<1>2. PICK m : m = setting[c]
  OBVIOUS
<1>3. m \in Pending(c) /\ have' = [have EXCEPT ![c] = @ \cup {m}]
  BY <1>2 DEF SignsValue, Pending
<1>4. /\ have'[c] \in SUBSET Id /\ m \in have'[c]
      /\ \A d \in Client : have[d] \subseteq have'[d]
  BY <1>1, <1>3, Signing
<1>5. \A d \in Client \ {c} : setting'[d] = setting[d]
  BY <1>1 DEF SignsValue, GraphShape
<1>6. PICK H \in SUBSET Id : H = have'[c]
  BY <1>4
<1>7. ConstructsByLaw
  <2>1. NothingToMerge(c, H) \/ StartMerge(c, H)
    BY <1>6 DEF SignsValue, MergesOrNot
  <2> QED BY <1>1, <2>1, HistoryMerge
<1>8. setting[Creator] \in {None, setting'[Creator]} \cup have'[Creator]
  BY <1>1, <1>2, <1>4, <1>5
<1> QED BY <1>1, <1>4, <1>7, <1>8, HistoryKept

LEMMA HistoryTouches ==
  ASSUME HistoryInv, NEW c \in Client, Touches(c)
  PROVE  HistoryInv'
<1>1. GraphShape' /\ GraphShape /\ Creator \in Client
  BY ShapeTouches, ConstantsOK DEF HistoryInv
<1>2. have' = have /\ setting' = setting
  BY DEF Touches
<1>3. PICK H \in SUBSET Id : H = have'[c]
  BY <1>1, <1>2 DEF GraphShape
<1>4. NothingToMerge(c, H) \/ StartMerge(c, H)
  BY <1>3 DEF Touches, MergesOrNot
<1>5. ConstructsByLaw
  BY <1>1, <1>4, HistoryMerge
<1> QED BY <1>1, <1>2, <1>5, HistoryKept

LEMMA HistoryGraphStep ==
  ASSUME HistoryInv, NEW c \in Client, FreshEdit(c) \/ Proceeds(c)
  PROVE  HistoryInv'
<1>1. GraphShape /\ GraphShape' /\ Creator \in Client
  BY ShapeGraphStep, ConstantsOK DEF HistoryInv, FreshEdit, GraphStep
<1>2. CASE SignsMerge(c)
  <2>1. /\ commits' = commits /\ setting' = setting
        /\ have' = [have EXCEPT ![c] = @ \cup {merging[c]}]
    BY <1>2 DEF SignsMerge
  <2>2. have[Creator] \subseteq have'[Creator]
    BY <1>1, <2>1 DEF GraphShape
  <2> QED BY <1>1, <2>1, <2>2, HistoryKept DEF ConstructsByLaw
<1>3. CASE \E m \in Id : Deliver(c, m)
  <2>1. PICK m \in Id : Deliver(c, m)
    BY <1>3
  <2>2. /\ commits' = commits /\ setting' = setting
        /\ have' = [have EXCEPT ![c] = @ \cup {m}]
    BY <2>1 DEF Deliver
  <2>3. have[Creator] \subseteq have'[Creator]
    BY <1>1, <2>2 DEF GraphShape
  <2> QED BY <1>1, <2>2, <2>3, HistoryKept DEF ConstructsByLaw
<1>4. CASE ShowsHead(c)
  <2>1. commits' = commits /\ setting' = setting /\ have' = have
    BY <1>4 DEF ShowsHead
  <2> QED BY <1>1, <2>1, HistoryKept DEF ConstructsByLaw
<1> QED BY <1>2, <1>3, <1>4, HistorySetsValue, HistorySignsValue, HistoryTouches
        DEF FreshEdit, Proceeds

LEMMA HistoryInit == Init => HistoryInv
<1> SUFFICES ASSUME Init PROVE HistoryInv
  OBVIOUS
<1>1. GraphShape /\ Id = {} /\ Founded
  BY ShapeInit, ShapeIsFounded DEF Init, Id
<1> QED BY <1>1 DEF HistoryInv, GraphLaws, OneRoot, RootKnown, Edits, Merges

LEMMA HistoryStep == HistoryInv /\ [Next]_vars => HistoryInv'
<1>1. ASSUME HistoryInv, Next PROVE HistoryInv'
  BY <1>1, NextMoves, HistoryGraphStep DEF HistoryInv
<1>2. ASSUME HistoryInv, UNCHANGED vars PROVE HistoryInv'
  <2>1. GraphShape' /\ commits' = commits /\ have' = have /\ setting' = setting
    BY <1>2, ShapeUnchanged DEF HistoryInv, vars
  <2> QED BY <1>2, <2>1, HistoryKept DEF ConstructsByLaw
<1> QED BY <1>1, <1>2

LEMMA HistoryHolds == Spec => [](\A m \in Id : KeepsHistory(m))
<1>1. HistoryInv => \A m \in Id : KeepsHistory(m)
  BY LawsKeepHistory DEF HistoryInv
<1> QED BY HistoryInit, HistoryStep, <1>1, PTL DEF Spec

(* Merges of two commits lose no addition (createMergeRecord), whoever     *)
(* edits and merges, when the leaves are looked at, in what order commits  *)
(* arrive and what the ancestors filters wrongly contain, and however the  *)
(* histories criss-cross.                                                  *)
THEOREM MergesLoseNoAddition == Spec => []NoAdditionLost
<1>1. (\A m \in Id : KeepsHistory(m)) => NoAdditionLost
  BY DEF KeepsHistory, NoAdditionLost
<1> QED BY HistoryHolds, <1>1, PTL

(* Where what was merged forked at one commit, the record of a commit is   *)
(* what the edits in its history made of it (createMergeRecord): nothing   *)
(* that was removed comes back.                                            *)
THEOREM RecordsAreTheirHistory == Spec => []RecordIsItsHistory
<1>1. (\A m \in Id : KeepsHistory(m)) => RecordIsItsHistory
  <2>1. ASSUME NEW m \in Id, KeepsHistory(m), MergesOfTwo(m), MergesFork(m)
        PROVE  Rec(m) = AddedIn(m) \ RemovedIn(m)
    BY <2>1 DEF KeepsHistory
  <2> QED BY <2>1 DEF RecordIsItsHistory
<1> QED BY HistoryHolds, <1>1, PTL
==============================================================================
