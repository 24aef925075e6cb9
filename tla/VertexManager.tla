---------------------------- MODULE VertexManager ----------------------------
(***************************************************************************)
(* What the user sees and edits of one key: VertexManager                  *)
(* (cfds/client/graph/vertex-manager.ts) on top of the repository of       *)
(* RepoMerge.  The user changes the record of the vertex at any time, a    *)
(* timer commits it, a touch brings in what others committed, and both     *)
(* rebase the user's changes over the head of the repository.              *)
(* RepoMerge takes the vertex to show what headId names; here it shows     *)
(* record, and the two may come apart.                                     *)
(***************************************************************************)
EXTENDS RepoMerge

VARIABLES
  record,      (* _record: what the user sees                              *)
  timer,       (* _commitDelayTimer is scheduled                           *)
  committing,  (* _commitPromise: commit() is under way                    *)
  startRecord, (* the record it started with                               *)
  waiting,     (* who waits for the pending merge: the commit or the touch *)
  removed      (* history: what users removed from the records they saw    *)

vertexVars == <<record, timer, committing, startRecord, waiting, removed>>
allVars == <<vars, vertexVars>>

VertexTypeOK ==
  /\ TypeOK
  /\ record \in [Client -> SUBSET Elem]
  /\ timer \in [Client -> BOOLEAN]
  /\ committing \in [Client -> BOOLEAN]
  /\ startRecord \in [Client -> SUBSET Elem]
  /\ waiting \in [Client -> {"nobody", "commit", "touch"}]
  /\ removed \in SUBSET Elem
  /\ \A c \in Client :
       /\ setting[c] # None \/ waiting[c] = "commit" <=> committing[c]
       /\ merging[c] = None <=> waiting[c] = "nobody"

VertexInit ==
  /\ Init
  /\ record = [c \in Client |-> {}]
  /\ timer = [c \in Client |-> FALSE]
  /\ committing = [c \in Client |-> FALSE]
  /\ startRecord = [c \in Client |-> {}]
  /\ waiting = [c \in Client |-> "nobody"]
  /\ removed = {}
------------------------------------------------------------------------------
(* The record setter: a change of the record schedules a commit.           *)
Show(c, r, scheduled) ==
  /\ record' = [record EXCEPT ![c] = r]
  /\ timer' = [timer EXCEPT ![c] = scheduled \/ r # record[c]]

(* Repository.rebase of the record over the head of the replica H.  If     *)
(* there is nothing to rebase over it returns no head id at all, so that   *)
(* the next rebase takes the null record for its base.                     *)
Rebase(c, H, scheduled) ==
  LET head == HeadForKey(c, H)
  IN IF head = headId[c] \/ Rec(head) = record[c]
     THEN /\ headId' = [headId EXCEPT ![c] = None]
          /\ Show(c, record[c], scheduled)
     ELSE /\ headId' = [headId EXCEPT ![c] = head]
          /\ Show(c, Patched(Rec(headId[c]), {Rec(head), record[c]}), scheduled)

(* The user adds what nobody added before, or removes something.           *)
Seen == Added \cup removed \cup UNION {record[c] : c \in Client}
EditRecord(c, r) ==
  /\ c = Creator \/ have[c] # {}
  /\ record' = [record EXCEPT ![c] = r]
  /\ timer' = [timer EXCEPT ![c] = TRUE]
  /\ removed' = removed \cup (record[c] \ r)
  /\ UNCHANGED <<vars, committing, startRecord, waiting>>

UserEdit(c) ==
  \/ \E x \in Elem \ Seen : EditRecord(c, record[c] \cup {x})
  \/ \E x \in record[c] \ removed : EditRecord(c, record[c] \ {x})

(* setValueForKey, as commit() calls it: the parent of the new commit.     *)
ParentOf(c) == IF headId[c] # None THEN headId[c] ELSE PickBest(c, have[c])

(* There is nothing to commit.                                             *)
Unchanged(c) ==
  \/ have[c] # {} /\ record[c] = Rec(HeadForKey(c, have[c]))
  \/ ParentOf(c) # None /\ record[c] = Rec(ParentOf(c))

(* commit(), called by the timer: nothing happens if it is under way.      *)
CommitUnderWay(c) ==
  /\ timer[c]
  /\ committing[c]
  /\ timer' = [timer EXCEPT ![c] = FALSE]
  /\ UNCHANGED <<vars, record, committing, startRecord, waiting, removed>>

(* setValueForKey returns undefined and the vertex takes the head for what *)
(* its record derives from.                                                *)
CommitNothing(c) ==
  /\ timer[c] /\ ~committing[c] /\ merging[c] = None
  /\ Unchanged(c)
  /\ timer' = [timer EXCEPT ![c] = FALSE]
  /\ headId' = [headId EXCEPT ![c] = HeadForKey(c, have[c])]
  /\ UNCHANGED <<conditions, commits, have, setting, merging, touched, record,
                 committing, startRecord, waiting, removed>>

(* setValueForKey constructs a commit and waits for its signature.  While  *)
(* a merge is pending it refuses, and the timer is scheduled again.        *)
Commit(c) ==
  /\ timer[c] /\ ~committing[c] /\ merging[c] = None
  /\ ~Unchanged(c)
  /\ Cardinality(Edits) < MaxEdits
  /\ LET p == ParentOf(c)
     IN \E fp \in conditions.falsePositives :
          commits' = Append(commits,
            NewCommit(c, have[c], {p} \ {None}, record[c], fp))
  /\ setting' = [setting EXCEPT ![c] = Len(commits) + 1]
  /\ timer' = [timer EXCEPT ![c] = FALSE]
  /\ committing' = [committing EXCEPT ![c] = TRUE]
  /\ startRecord' = [startRecord EXCEPT ![c] = record[c]]
  /\ UNCHANGED <<conditions, have, headId, merging, touched, record, waiting,
                 removed>>

(* The definitions named Mut... are bugs this code could have; each breaks *)
(* a property below when it stands in for the definition that follows it.  *)
MutShowsNewHead(c, H, newHead) ==
  /\ committing' = [committing EXCEPT ![c] = FALSE]
  /\ headId' = [headId EXCEPT ![c] = newHead]
  /\ Show(c, Rec(newHead), timer[c])

MutNotRescheduled(c, H, newHead) ==
  /\ committing' = [committing EXCEPT ![c] = FALSE]
  /\ IF record[c] = startRecord[c]
     THEN /\ headId' = [headId EXCEPT ![c] = newHead]
          /\ Show(c, Rec(newHead), timer[c])
     ELSE Rebase(c, H, timer[c])

(* setValueForKey returned newHead: the vertex shows it, or if the user    *)
(* went on editing, rebases the edits and commits again.                   *)
Committed(c, H, newHead) ==
  /\ committing' = [committing EXCEPT ![c] = FALSE]
  /\ IF record[c] = startRecord[c]
     THEN /\ headId' = [headId EXCEPT ![c] = newHead]
          /\ Show(c, Rec(newHead), timer[c])
     ELSE Rebase(c, H, TRUE)

CommitSigned(c) ==
  LET m == setting[c]
  IN /\ m # None
     /\ have' = [have EXCEPT ![c] = @ \cup {m}]
     /\ setting' = [setting EXCEPT ![c] = None]
     /\ \/ /\ NothingToMerge(c, have'[c])
           /\ Committed(c, have'[c], m)
           /\ UNCHANGED waiting
        \/ /\ StartMerge(c, have'[c])
           /\ waiting' = [waiting EXCEPT ![c] = "commit"]
           /\ UNCHANGED <<headId, record, timer, committing>>
     /\ UNCHANGED <<conditions, touched, startRecord, removed>>

(* _touchImpl, and its end if there is nothing to merge.                   *)
TouchVertex(c) ==
  /\ touched[c]
  /\ touched' = [touched EXCEPT ![c] = FALSE]
  /\ \/ /\ NothingToMerge(c, have[c])
        /\ Rebase(c, have[c], timer[c])
        /\ UNCHANGED waiting
     \/ /\ StartMerge(c, have[c])
        /\ waiting' = [waiting EXCEPT ![c] = "touch"]
        /\ UNCHANGED <<headId, record, timer>>
  /\ UNCHANGED <<conditions, have, setting, committing, startRecord, removed>>

(* The merge is signed, and whoever waits for it goes on.                  *)
MergeCommitSigned(c) ==
  LET m == merging[c]
  IN /\ m # None
     /\ have' = [have EXCEPT ![c] = @ \cup {m}]
     /\ merging' = [merging EXCEPT ![c] = None]
     /\ waiting' = [waiting EXCEPT ![c] = "nobody"]
     /\ \/ waiting[c] = "commit" /\ Committed(c, have'[c], m)
        \/ waiting[c] = "touch" /\ Rebase(c, have'[c], timer[c])
                                /\ UNCHANGED committing
     /\ UNCHANGED <<conditions, commits, setting, touched, startRecord, removed>>

(* A commit arrives.  The first one creates the vertex, which shows it and *)
(* schedules a commit.                                                     *)
DeliverToVertex(c, m) ==
  /\ Deliver(c, m)
  /\ IF have[c] = {}
     THEN Show(c, Rec(m), TRUE)
     ELSE UNCHANGED <<record, timer>>
  /\ UNCHANGED <<committing, startRecord, waiting, removed>>

VertexNext ==
  \E c \in Client :
    \/ UserEdit(c)
    \/ CommitUnderWay(c) \/ CommitNothing(c) \/ Commit(c)
    \/ CommitSigned(c)
    \/ MergeCommitSigned(c)
    \/ TouchVertex(c)
    \/ \E m \in Id : DeliverToVertex(c, m)

VertexSpec == VertexInit /\ [][VertexNext]_allVars
------------------------------------------------------------------------------
(* What a user added and no commit contains yet stays in the record he     *)
(* sees through every commit, touch and merge that ends meanwhile, until   *)
(* he removes it (_commitImpl: "we must rebase them over our current       *)
(* state").                                                                *)
TypedIsKept ==
  [][\A c \in Client : record[c] \ record'[c] \subseteq Added \cup removed']_allVars

(* And it will be committed: the timer is scheduled, or the commit that is *)
(* under way will schedule it.                                             *)
TypedIsScheduled ==
  \A c \in Client : record[c] \subseteq Added \/ timer[c] \/ committing[c]

(* rebase ("a new record with local changes rebased on top of remote       *)
(* changes", repo.ts): a commit removes only what a user removed.          *)
OnlyUsersRemove ==
  \A m \in Id : \A p \in Parents(m) : Rec(p) \ Rec(m) \subseteq removed
=============================================================================
