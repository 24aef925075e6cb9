------------------------------ MODULE RepoMerge ------------------------------
(***************************************************************************)
(* The commit graph of one key in the replicas of the clients that edit    *)
(* it: heads, leaves, soft merge leaders and three-way merges (repo/repo.ts)*)
(* driven as VertexManager drives them, by commits of the user's edits and *)
(* by the touch that follows a commit from elsewhere.                      *)
(*                                                                         *)
(* A commit's id is its place in the order of the timestamps.  A record is *)
(* a set field, which is diffed and patched element by element.  Every     *)
(* client is one session with one connection; commits carry whole records. *)
(* How commits travel is the subject of SyncProtocol: here a client learns *)
(* any commit some other client has, a commit's parents before it.         *)
(***************************************************************************)
EXTENDS Naturals, FiniteSets, Sequences, SequencesExt, FiniteSetsExt

CONSTANTS
  Client,          (* editors of the key                                   *)
  Rank,            (* Rank[c]: c's hash for this key in RendezvousHash     *)
  Elem,            (* what the user adds to the record and removes from it *)
  Creator,         (* the client that creates the record                   *)
  Conditions,      (* what the editors may meet: see conditions            *)
  MaxEdits,        (* bound: commits of edits                              *)
  MaxMerges        (* bound: merge commits                                 *)

ASSUME ConstantsOK ==
  /\ Rank \in [Client -> Nat]
  /\ \A c, d \in Client : Rank[c] = Rank[d] => c = d
  /\ Creator \in Client
  /\ \A x \in Conditions :
       /\ x.pace \subseteq {"prompt", "slow", "late", "again"}
       /\ x.gaps \in BOOLEAN
       /\ x.falsePositives \subseteq SUBSET Nat
  /\ {MaxEdits, MaxMerges} \subseteq Nat

VARIABLES
  conditions, (* what stays the same in a behaviour: the pace at which     *)
             (* leaves are looked at (see Looks), whether a commit may     *)
             (* arrive before its parents, and the sets of ids an          *)
             (* ancestors filter may wrongly contain                       *)
  commits,   (* every commit constructed, in the order of the timestamps   *)
  have,      (* have[c]: commits in c's MemRepoStorage                     *)
  headId,    (* VertexManager._headId: what the shown record derives from  *)
  setting,   (* the commit setValueForKey is signing, or None              *)
  merging,   (* _pendingMergePromises: the merge being signed, or None     *)
  touched    (* a touch is scheduled                                       *)

vars == <<conditions, commits, have, headId, setting, merging, touched>>

None == 0
Id == DOMAIN commits

(* The types, and: a vertex shows a commit its repository holds, and a     *)
(* commit whose signature is pending is in nobody's repository.            *)
TypeOK ==
  /\ \A m \in Id :
       /\ commits[m].by \in Client
       /\ commits[m].parents \subseteq 1..(m - 1)
       /\ commits[m].record \subseteq Elem
       /\ commits[m].ancestors \subseteq 1..(m - 1)
       /\ commits[m].filter \subseteq Nat
  /\ have \in [Client -> SUBSET Id]
  /\ touched \in [Client -> BOOLEAN]
  /\ \A c \in Client :
       /\ headId[c] \in {None} \cup have[c]
       /\ {setting[c], merging[c]} \subseteq
            {None} \cup (Id \ UNION {have[d] : d \in Client})

Init ==
  /\ conditions \in Conditions
  /\ commits = <<>>
  /\ have = [c \in Client |-> {}]
  /\ headId = [c \in Client |-> None]
  /\ setting = [c \in Client |-> None]
  /\ merging = [c \in Client |-> None]
  /\ touched = [c \in Client |-> FALSE]
------------------------------------------------------------------------------
(* The graph as one replica H of it shows it.                              *)

By(m) == commits[m].by
Parents(m) == commits[m].parents
Rec(m) == IF m = None THEN {} ELSE commits[m].record

(* _adjList.hasInEdges: m is the parent of a commit in H.                  *)
HasInEdges(H, m) == \E k \in H : m \in Parents(k)

(* filterLatestCommitsByConnection.                                        *)
LatestByConnection(S) == {m \in S : \A k \in S : By(k) = By(m) => k <= m}

LeavesForKey(H) == LatestByConnection({m \in H : ~HasInEdges(H, m)})

(* The definitions named Mut... are bugs this code could have; each breaks *)
(* a property below when it stands in for the definition that follows it.  *)
MutPickUnsigned(c, S) ==
  LET own == {m \in Id : By(m) = c}
  IN IF own # {} THEN Max(own) ELSE IF S = {} THEN None ELSE Max(S)

(* pickBestCommitForCurrentClient: c's newest commit, else the newest.     *)
PickBest(c, S) ==
  LET own == {m \in S : By(m) = c}
  IN IF S = {} THEN None ELSE IF own # {} THEN Max(own) ELSE Max(S)

(* headForKey: the only leaf, or the best of several.                      *)
HeadForKey(c, H) ==
  IF LeavesForKey(H) # {} THEN PickBest(c, LeavesForKey(H)) ELSE PickBest(c, H)

MutRootIsNoAncestor(H) == {m \in H : HasInEdges(H, m) /\ Parents(m) # {}}

(* ancestorsFilterForKey.                                                  *)
Ancestors(H) == {m \in H : HasInEdges(H, m)}

(* The sets parents1 and parents2 of _findLCAMergeBase after k rounds.     *)
Reached(H, m, k) ==
  LET Round(S, i) == S \cup UNION {Parents(p) : p \in S \cap H}
  IN FoldLeftDomain(Round, Parents(m), [i \in 1..k |-> i])

MutOldestBase(H, m1, m2) ==
  LET common == Reached(H, m1, Cardinality(H)) \cap Reached(H, m2, Cardinality(H))
  IN IF common \cap H = {} THEN None ELSE Min(common \cap H)

(* _findLCAMergeBase: the newest common ancestor of the first round that   *)
(* has one.  A root has no ancestor to look for.                           *)
LCAMergeBase(H, m1, m2) ==
  LET Common(k) == Reached(H, m1, k) \cap Reached(H, m2, k) \cap H
      rounds == {k \in 0..Cardinality(H) : Common(k) # {}}
  IN IF Parents(m1) = {} \/ Parents(m2) = {} THEN None
     ELSE IF Rec(m1) = Rec(m2) THEN m1
     ELSE IF m2 \in Parents(m1) THEN m2
     ELSE IF m1 \in Parents(m2) THEN m1
     ELSE IF rounds = {} THEN None
     ELSE Max(Common(Min(rounds)))

(* findMergeBase: the base of two commits is compared with the third, and  *)
(* so on.  A commit without a common base is left out of the merge.        *)
FindMergeBase(H, S) ==
  LET Include(acc, m) ==
        LET base == LCAMergeBase(H, acc.base, m)
        IN IF m \notin S THEN acc
           ELSE IF acc.base = None THEN [included |-> {m}, base |-> m]
           ELSE IF base = None THEN acc
           ELSE [included |-> acc.included \cup {m}, base |-> base]
  IN FoldLeftDomain(Include, [included |-> {}, base |-> None], commits)

(* The changes of the records R against base, patched onto base.           *)
Patched(base, R) ==
  (base \ {x \in base : \E r \in R : x \notin r}) \cup UNION {r \ base : r \in R}

MutNewestWins(H, S) == Rec(Max(S))

(* createMergeRecord: roots are merged against the null record.            *)
MergeRecord(H, S) ==
  LET roots == {m \in S : Parents(m) = {}}
      found == FindMergeBase(H, S)
  IN IF roots # {} \/ Cardinality(S) = 1
     THEN Patched({}, {Rec(m) : m \in S})
     ELSE Patched(Rec(found.base), {Rec(m) : m \in found.included})

(* commitIsHighProbabilityLeaf: the filters of the newest log2(N) commits  *)
(* are asked; the first commit that is not newer than the candidate, or    *)
(* whose filter lacks it, decides.  longSeen is what commitInGracePeriod   *)
(* returns: that commit was first looked at more than three seconds ago.   *)
HighProbabilityLeaf(c, H, m, longSeen) ==
  LET graphSize == Max({Cardinality(H), Cardinality(commits[Min(H)].ancestors)})
      deciding == {k \in H : /\ 2^Cardinality({j \in H : j > k}) <= graphSize
                             /\ k <= m \/ m \notin commits[k].filter}
      k == Max(deciding)
  IN /\ ~HasInEdges(H, m)
     /\ \/ 2^Cardinality(H) < graphSize
        \/ /\ deciding # {}
           /\ By(k) = c \/ (k > m /\ ~longSeen)

(* commitsWithUniqueRecords, for every order the commits may have arrived  *)
(* in.  A duplicate that is older and not c's own is kept.                 *)
UniqueRecords(c, S) ==
  LET Push(result, m) ==
        LET replaced == {r \in result : Rec(r) = Rec(m) /\ (m > r \/ By(m) = c)}
        IN IF replaced = {} THEN result \cup {m}
           ELSE (result \ {Min(replaced)}) \cup {m}
  IN {FoldLeft(Push, {}, order) : order \in SetToSeqs(S)}

MutEverybodyLeads(c, fresh) == c

(* mergeLeaderFromLeaves: among the authors of the leaves of the last five *)
(* seconds; without any, everybody leads.                                  *)
Leader(c, fresh) ==
  IF fresh = {} THEN c
  ELSE CHOOSE d \in {By(m) : m \in fresh} :
         \A e \in {By(m) : m \in fresh} : Rank[d] <= Rank[e]

(* When mergeIfNeeded looks at the leaves: while all of them are less than *)
(* five seconds old, when the newest of them still are, later than that,   *)
(* or later and once more.                                                 *)
Looks(leaves) ==
  {[fresh |-> leaves, longSeen |-> FALSE] : p \in conditions.pace \cap {"prompt"}} \cup
  {[fresh |-> {m \in leaves : m >= k}, longSeen |-> FALSE] :
     k \in IF "slow" \in conditions.pace THEN leaves ELSE {}} \cup
  {[fresh |-> {}, longSeen |-> p = "again"] : p \in conditions.pace \cap {"late", "again"}}

(* The sets of commits mergeIfNeeded may choose to merge.                  *)
CommitsToMerge(c, H) ==
  LET leaves == LeavesForKey(H)
      Chosen(longSeen) ==
        UniqueRecords(c, {m \in leaves : HighProbabilityLeaf(c, H, m, longSeen)})
  IN IF Cardinality(leaves) < 2 THEN {{}}
     ELSE UNION {IF Leader(c, look.fresh) = c THEN Chosen(look.longSeen) ELSE {{}} :
                   look \in Looks(leaves)}
------------------------------------------------------------------------------
(* A commit by c that saw the replica H.                                   *)
NewCommit(c, H, parents, record, falsePositives) ==
  [by |-> c, parents |-> parents, record |-> record,
   ancestors |-> Ancestors(H), filter |-> Ancestors(H) \cup falsePositives]

Edits == {m \in Id : Cardinality(Parents(m)) < 2}
Merges == Id \ Edits

(* createMergeCommit: one merge of the key at a time.                      *)
MayMerge(c, S) ==
  Cardinality(S) > 1 /\ merging[c] = None /\ Cardinality(Merges) < MaxMerges

(* mergeIfNeeded for the replica H, up to the signing of a merge commit:   *)
(* there is nothing to merge, or a merge is constructed.                   *)
NothingToMerge(c, H) ==
  /\ \E S \in CommitsToMerge(c, H) : ~MayMerge(c, S)
  /\ UNCHANGED <<commits, merging>>

StartMerge(c, H) ==
  \E S \in CommitsToMerge(c, H) : \E fp \in conditions.falsePositives :
    /\ MayMerge(c, S)
    /\ commits' = Append(commits, NewCommit(c, H, S, MergeRecord(H, S), fp))
    /\ merging' = [merging EXCEPT ![c] = Len(commits) + 1]

(* The caller shows head if there is nothing to merge.                     *)
MergeIfNeeded(c, H, head) ==
  \/ NothingToMerge(c, H) /\ headId' = [headId EXCEPT ![c] = head]
  \/ StartMerge(c, H) /\ UNCHANGED headId

(* The user changes the record and setValueForKey constructs a commit; it  *)
(* refuses while a merge is pending, and commit() runs one at a time.      *)
SetValueForKey(c, record) ==
  LET base == headId[c]
      H == have[c]
  IN /\ setting[c] = None
     /\ merging[c] = None
     /\ Cardinality(Edits) < MaxEdits
     /\ IF base = None THEN H = {} /\ c = Creator ELSE TRUE
     /\ record # Rec(base)
     /\ record # Rec(HeadForKey(c, H))
     /\ \E fp \in conditions.falsePositives :
          commits' = Append(commits,
            NewCommit(c, H, IF base = None THEN {} ELSE {base}, record, fp))
     /\ setting' = [setting EXCEPT ![c] = Len(commits) + 1]
     /\ UNCHANGED <<conditions, have, headId, merging, touched>>

(* The commit is signed: it is persisted, and merged if needed.            *)
ValueSigned(c) ==
  LET m == setting[c]
  IN /\ m # None
     /\ have' = [have EXCEPT ![c] = @ \cup {m}]
     /\ setting' = [setting EXCEPT ![c] = None]
     /\ MergeIfNeeded(c, have'[c], m)
     /\ UNCHANGED <<conditions, touched>>

(* The merge is signed and persisted, and becomes the head of its author.  *)
MergeSigned(c) ==
  LET m == merging[c]
  IN /\ m # None
     /\ have' = [have EXCEPT ![c] = @ \cup {m}]
     /\ merging' = [merging EXCEPT ![c] = None]
     /\ headId' = [headId EXCEPT ![c] = HeadForKey(c, have'[c])]
     /\ UNCHANGED <<conditions, commits, setting, touched>>

(* A commit by somebody else arrives (persistVerifiedCommits, NewCommit):  *)
(* the vertex is created if this is the first one, and touched soon.       *)
Deliver(c, m) ==
  /\ m \in (UNION {have[d] : d \in Client}) \ have[c]
  /\ conditions.gaps \/ Parents(m) \subseteq have[c]
  /\ have' = [have EXCEPT ![c] = @ \cup {m}]
  /\ headId' = [headId EXCEPT ![c] = IF have[c] = {} THEN m ELSE @]
  /\ touched' = [touched EXCEPT ![c] = TRUE]
  /\ UNCHANGED <<conditions, commits, setting, merging>>

(* VertexManager._touchImpl: merge if needed, and show the new head.       *)
Touch(c) ==
  /\ touched[c]
  /\ touched' = [touched EXCEPT ![c] = FALSE]
  /\ MergeIfNeeded(c, have[c], HeadForKey(c, have[c]))
  /\ UNCHANGED <<conditions, have, setting>>

(* Elements are added once and removed once, so that what happened to one  *)
(* can be read off the graph.                                              *)
Added == UNION {Rec(m) : m \in Id}
Edit(c) ==
  \/ \E x \in Elem \ Added : SetValueForKey(c, Rec(headId[c]) \cup {x})
  \/ \E x \in Rec(headId[c]) : SetValueForKey(c, Rec(headId[c]) \ {x})

Next ==
  \E c \in Client :
    \/ Edit(c)
    \/ ValueSigned(c)
    \/ MergeSigned(c)
    \/ \E m \in Id : Deliver(c, m)
    \/ Touch(c)

Spec == Init /\ [][Next]_vars

(* Signatures, timers and the replication (SyncProtocol!Converges) go on:  *)
(* the first two actions are what only ValueSigned and MergeSigned, and    *)
(* only Touch, do.                                                         *)
Signed(c) ==
  \/ setting[c] # None /\ setting' = [setting EXCEPT ![c] = None] /\ UNCHANGED merging
  \/ merging[c] # None /\ merging' = [merging EXCEPT ![c] = None] /\ UNCHANGED setting
TouchRun(c) == touched[c] /\ touched' = [touched EXCEPT ![c] = FALSE]

FairSpec ==
  /\ Spec
  /\ \A c \in Client : WF_<<setting, merging>>(Signed(c))
  /\ \A c \in Client : WF_touched(TouchRun(c))
  /\ \A c \in Client : WF_vars(\E m \in Id : Deliver(c, m))
------------------------------------------------------------------------------
(* m and its ancestors.                                                    *)
History(m) ==
  LET Visit(S, i) == IF m + 1 - i \in S THEN S \cup Parents(m + 1 - i) ELSE S
  IN FoldLeftDomain(Visit, {m}, [i \in 1..m |-> i])

AddedBy(m) == (UNION {Rec(m) \ Rec(p) : p \in Parents(m)}) \cup
              (IF Parents(m) = {} THEN Rec(m) ELSE {})
RemovedBy(m) == UNION {Rec(p) \ Rec(m) : p \in Parents(m)}

(* The author of m had seen the whole history of what it derives from.     *)
SawHistory(m) == History(m) \ ({m} \cup Parents(m)) \subseteq commits[m].ancestors

(* The histories of m1 and m2 fork at one commit: the newest they share    *)
(* has in its history all they share, and going back from either of them,  *)
(* round by round, none of that is met before it.                          *)
Fork(m1, m2) ==
  LET shared == History(m1) \cap History(m2)
      newest == Max(shared)
  IN /\ shared # {} /\ shared = History(newest)
     /\ \A m \in {m1, m2} : \A k \in 0..Len(commits) :
          Reached(Id, m, k) \cap shared # {} => newest \in Reached(Id, m, k)

AddedIn(m) == UNION {AddedBy(e) : e \in History(m) \cap Edits}
RemovedIn(m) == UNION {RemovedBy(e) : e \in History(m) \cap Edits}

(* The merges in the history of m are of two commits, and their authors    *)
(* had all of that history.                                                *)
MergesOfTwo(m) == \A k \in History(m) : SawHistory(k) /\ Cardinality(Parents(k)) < 3
MergesFork(m) == \A k \in History(m) : \A p, q \in Parents(k) : p # q => Fork(p, q)

(* A merge applies the edits of both branches (createMergeRecord): a record *)
(* is what the edits in its history made of it, so that merges lose no     *)
(* addition and bring nothing back that was removed.  It holds whoever     *)
(* merges and when, if what was merged forked at one commit.               *)
RecordIsItsHistory ==
  \A m \in Id : \/ Rec(m) = AddedIn(m) \ RemovedIn(m)
                \/ ~MergesOfTwo(m) \/ ~MergesFork(m)

(* However histories criss-cross, merges of two commits lose no addition   *)
(* (createMergeRecord): what was added in the history of a commit and      *)
(* removed nowhere in it is in its record.                                 *)
NoAdditionLost ==
  \A m \in Id : AddedIn(m) \ RemovedIn(m) \subseteq Rec(m) \/ ~MergesOfTwo(m)

(* Non-leaders back off (mergeIfNeeded): editors do not answer each        *)
(* other's merges with merges.  Every merge answers an edit of its own, so *)
(* that there are at least two more edits than merges.                     *)
NoMergeStorm ==
  conditions.pace = {"prompt"} /\ Merges # {} =>
    Cardinality(Merges) + 2 <= Cardinality(Edits)

(* A merge sees an ancestor of what it merges in its author's replica      *)
(* (_createMergeCommitImpl: "Merge commit got empty ancestors filter").    *)
MergesSeeAncestors == \A m \in Merges : commits[m].ancestors # {}

(* The branches converge (commitIsHighProbabilityLeaf: "we must consider   *)
(* the newest commits as leaves, otherwise we'd deadlock and not converge  *)
(* on all branches"): once the edits stop, valueForKey gives every editor  *)
(* the same record in the end.                                             *)
Value(c) == Rec(HeadForKey(c, have[c]))
Converges == <>[](\A c, d \in Client : Value(c) = Value(d))
=============================================================================
