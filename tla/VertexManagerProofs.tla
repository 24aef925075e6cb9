------------------------ MODULE VertexManagerProofs ------------------------
(***************************************************************************)
(* That what a user types is neither lost nor left uncommitted, the types  *)
(* of the vertex, and what its merges see, for any number of editors,      *)
(* edits and merges, whatever the merges make of the record, in whatever   *)
(* order commits arrive and whatever the filters answer.                   *)
(***************************************************************************)
EXTENDS VertexManager, RepoMergeProofs, TLAPS

------------------------------------------------------------------------------
(* What the vertices and their repositories are.                           *)

Functional ==
  /\ have = [c \in Client |-> have[c]]
  /\ headId = [c \in Client |-> headId[c]]
  /\ setting = [c \in Client |-> setting[c]]
  /\ merging = [c \in Client |-> merging[c]]
  /\ touched = [c \in Client |-> touched[c]]
  /\ record = [c \in Client |-> record[c]]
  /\ timer = [c \in Client |-> timer[c]]
  /\ committing = [c \in Client |-> committing[c]]
  /\ startRecord = [c \in Client |-> startRecord[c]]
  /\ waiting = [c \in Client |-> waiting[c]]

(* Whatever is named has been constructed.                                 *)
NamesIds(c) ==
  /\ have[c] \subseteq Id
  /\ {headId[c], setting[c], merging[c]} \subseteq Id \cup {None}

(* An editor who has no commit, and did not create the record, has seen    *)
(* nothing; if the creator has none, nobody has.                           *)
StartsEmpty(c) ==
  have[c] = {} =>
    /\ ~touched[c]
    /\ c = Creator => \A d \in Client : have[d] = {}
    /\ c # Creator => /\ record[c] = {} /\ ~timer[c]
                      /\ setting[c] = None /\ merging[c] = None

(* What a commit under way started with has been constructed, and it waits *)
(* for its signature or for a merge, not for both.                         *)
CommitsKnown(c) ==
  /\ committing[c] => startRecord[c] \subseteq Added
  /\ setting[c] # None \/ waiting[c] = "commit" => committing[c]
  /\ setting[c] = None \/ waiting[c] # "commit"

VertexInv ==
  /\ Sequential /\ Functional
  /\ \A c \in Client : NamesIds(c) /\ StartsEmpty(c) /\ CommitsKnown(c)
  /\ TypedIsScheduled

LEMMA VertexInvInit == VertexInit => VertexInv
<1> SUFFICES ASSUME VertexInit PROVE VertexInv
  OBVIOUS
<1>1. Sequential
  <2>1. commits \in Seq({})
    BY DEF VertexInit, Init
  <2> QED BY <2>1 DEF Sequential
<1>2. Functional
  BY DEF VertexInit, Init, Functional
<1>3. \A c \in Client : NamesIds(c) /\ StartsEmpty(c) /\ CommitsKnown(c)
  BY DEF VertexInit, Init, NamesIds, StartsEmpty, CommitsKnown
<1>4. TypedIsScheduled
  BY DEF VertexInit, Init, TypedIsScheduled
<1> QED BY <1>1, <1>2, <1>3, <1>4 DEF VertexInv

(* No editor loses what nobody committed.                                  *)
Keeps == \A c \in Client : record[c] \ record'[c] \subseteq Added \cup removed'

(* A step that touches what one editor keeps: what is to be shown of it.   *)
OthersKept(c) ==
  \A d \in Client \ {c} :
    /\ have'[d] = have[d] /\ headId'[d] = headId[d]
    /\ setting'[d] = setting[d] /\ merging'[d] = merging[d]
    /\ touched'[d] = touched[d] /\ record'[d] = record[d]
    /\ timer'[d] = timer[d] /\ committing'[d] = committing[d]
    /\ startRecord'[d] = startRecord[d] /\ waiting'[d] = waiting[d]

LEMMA OneEditor ==
  ASSUME VertexInv, NEW c \in Client, Grows, Functional', OthersKept(c),
         NamesIds(c)', CommitsKnown(c)', StartsEmpty(c)',
         have[c] \subseteq have'[c],
         have'[c] # {} /\ c # Creator => have[Creator] # {},
         record'[c] \subseteq Added' \/ timer'[c] \/ committing'[c],
         record[c] \ record'[c] \subseteq Added \cup removed'
  PROVE  VertexInv' /\ Keeps
<1>1. /\ Sequential' /\ Id \subseteq Id' /\ Added \subseteq Added'
  BY Growth DEF VertexInv
<1>2. ASSUME NEW d \in Client, d # c
      PROVE  NamesIds(d)' /\ CommitsKnown(d)'
  BY <1>1, <1>2 DEF VertexInv, OthersKept, NamesIds, CommitsKnown
<1>3. ASSUME NEW d \in Client, d # c
      PROVE  StartsEmpty(d)'
  <2>1. /\ StartsEmpty(d)
        /\ have'[d] = have[d] /\ setting'[d] = setting[d] /\ merging'[d] = merging[d]
        /\ touched'[d] = touched[d] /\ record'[d] = record[d] /\ timer'[d] = timer[d]
    BY <1>3 DEF VertexInv, OthersKept
  <2>2. have'[d] = {} /\ d = Creator => \A e \in Client : have'[e] = {}
    BY <2>1, <1>3 DEF OthersKept, StartsEmpty
  <2> QED BY <2>1, <2>2 DEF StartsEmpty
<1>4. TypedIsScheduled'
  BY <1>1 DEF VertexInv, OthersKept, TypedIsScheduled
<1>5. Keeps
  BY DEF OthersKept, Keeps
<1> QED BY <1>1, <1>2, <1>3, <1>4, <1>5 DEF VertexInv
------------------------------------------------------------------------------
(* What the parts of the actions do.                                       *)

LEMMA PatchedKeeps ==
  ASSUME NEW base, NEW R, NEW r \in R
  PROVE  r \ base \subseteq Patched(base, R)
BY DEF Patched

(* The record that is shown, and when its commit is scheduled.             *)
Shows(c, scheduled) ==
  /\ \E r, t : record' = [record EXCEPT ![c] = r] /\ timer' = [timer EXCEPT ![c] = t]
  /\ scheduled \/ record'[c] # record[c] => timer'[c]
  /\ record[c] \ record'[c] \subseteq Added

LEMMA RebaseShows ==
  ASSUME Sequential, Functional, NEW c \in Client, NEW H \in SUBSET Id, NEW scheduled,
         headId[c] \in Id \cup {None}, Rebase(c, H, scheduled)
  PROVE  /\ Shows(c, scheduled)
         /\ \E h \in H \cup {None} : headId' = [headId EXCEPT ![c] = h]
<1> DEFINE head == HeadForKey(c, H)
           patched == Patched(Rec(headId[c]), {Rec(head), record[c]})
<1>1. head \in H \cup {None}
  BY HeadOf
<1> HIDE DEF head
<1>2. CASE headId' = [headId EXCEPT ![c] = None] /\ Show(c, record[c], scheduled)
  BY <1>2 DEF Functional, Show, Shows
<1>3. CASE headId' = [headId EXCEPT ![c] = head] /\ Show(c, patched, scheduled)
  <2>1. record[c] \ Rec(headId[c]) \subseteq patched /\ Rec(headId[c]) \subseteq Added
    BY PatchedKeeps, RecAdded
  <2> HIDE DEF patched
  <2>2. record' = [record EXCEPT ![c] = patched] /\ record'[c] = patched
    BY <1>3 DEF Show, Functional
  <2>3. \E t : timer' = [timer EXCEPT ![c] = t]
    BY <1>3 DEF Show
  <2>4. scheduled \/ record'[c] # record[c] => timer'[c]
    BY <1>3, <2>2 DEF Show, Functional
  <2>5. record[c] \ record'[c] \subseteq Added
    BY <2>1, <2>2
  <2>6. Shows(c, scheduled)
    BY <2>2, <2>3, <2>4, <2>5 DEF Shows
  <2> QED BY <1>1, <1>3, <2>6
<1> QED BY <1>2, <1>3 DEF Rebase, head

(* The commit under way is over.                                           *)
LEMMA CommittedShows ==
  ASSUME Sequential, Functional, NEW c \in Client, NEW H \in SUBSET Id, NEW m \in Id,
         headId[c] \in Id \cup {None}, startRecord[c] \subseteq Added,
         Committed(c, H, m)
  PROVE  /\ committing' = [committing EXCEPT ![c] = FALSE]
         /\ Shows(c, timer[c])
         /\ record'[c] \subseteq Added \/ timer'[c]
         /\ \E h \in Id \cup {None} : headId' = [headId EXCEPT ![c] = h]
<1>1. committing' = [committing EXCEPT ![c] = FALSE]
  BY DEF Committed
<1>2. CASE /\ record[c] = startRecord[c]
           /\ headId' = [headId EXCEPT ![c] = m] /\ Show(c, Rec(m), timer[c])
  <2>1. record' = [record EXCEPT ![c] = Rec(m)] /\ record'[c] = Rec(m)
    BY <1>2 DEF Show, Functional
  <2>2. \E t : timer' = [timer EXCEPT ![c] = t]
    BY <1>2 DEF Show
  <2>3. timer[c] \/ record'[c] # record[c] => timer'[c]
    BY <1>2, <2>1 DEF Show, Functional
  <2>4. Rec(m) \subseteq Added
    BY RecAdded
  <2> QED BY <1>1, <1>2, <2>1, <2>2, <2>3, <2>4 DEF Shows
<1>3. CASE Rebase(c, H, TRUE)
  <2>1. Shows(c, TRUE) /\ \E h \in H \cup {None} : headId' = [headId EXCEPT ![c] = h]
    BY <1>3, RebaseShows
  <2>2. timer'[c] /\ Shows(c, timer[c])
    BY <2>1 DEF Shows
  <2> QED BY <1>1, <2>1, <2>2
<1> QED BY <1>2, <1>3 DEF Committed

LEMMA MergeStarts ==
  ASSUME Sequential, NEW c \in Client, NEW H, StartMerge(c, H)
  PROVE  /\ Grows
         /\ \E m \in Id' : merging' = [merging EXCEPT ![c] = m]
<1>1. PICK e : commits' = Append(commits, e)
               /\ merging' = [merging EXCEPT ![c] = Len(commits) + 1]
  BY DEF StartMerge
<1> QED BY <1>1, Constructed DEF Grows
------------------------------------------------------------------------------
(* The actions.                                                            *)

LEMMA EditStep ==
  ASSUME VertexInv, NEW c \in Client, UserEdit(c)
  PROVE  VertexInv' /\ Keeps
<1>1. PICK r : EditRecord(c, r)
  BY DEF UserEdit
<1>2. /\ c = Creator \/ have[c] # {}
      /\ record' = [record EXCEPT ![c] = r] /\ timer' = [timer EXCEPT ![c] = TRUE]
      /\ removed' = removed \cup (record[c] \ r)
      /\ UNCHANGED <<commits, have, headId, setting, merging, touched,
                     committing, startRecord, waiting>>
  BY <1>1 DEF EditRecord, vars
<1>3. Grows /\ Added' = Added /\ Id' = Id
  BY <1>2 DEF Grows, Added, Id, Rec
<1>4. Functional' /\ OthersKept(c)
  BY <1>2 DEF VertexInv, Functional, OthersKept
<1>5. timer'[c] /\ record'[c] = r
  BY <1>2 DEF VertexInv, Functional
<1>6. NamesIds(c)' /\ CommitsKnown(c)' /\ StartsEmpty(c)'
  BY <1>2, <1>3 DEF VertexInv, NamesIds, CommitsKnown, StartsEmpty
<1>7. have'[c] # {} /\ c # Creator => have[Creator] # {}
  BY <1>2, ConstantsOK DEF VertexInv, StartsEmpty
<1> QED BY <1>2, <1>3, <1>4, <1>5, <1>6, <1>7, OneEditor

LEMMA CreatorFirst ==
  ASSUME VertexInv, NEW c \in Client, have[c] # {}
  PROVE  have[Creator] # {}
BY ConstantsOK DEF VertexInv, StartsEmpty

LEMMA CommitUnderWayStep ==
  ASSUME VertexInv, NEW c \in Client, CommitUnderWay(c)
  PROVE  VertexInv' /\ Keeps
<1>1. /\ committing[c] /\ timer' = [timer EXCEPT ![c] = FALSE]
      /\ UNCHANGED <<commits, have, headId, setting, merging, touched, record,
                     committing, startRecord, waiting, removed>>
  BY DEF CommitUnderWay, vars
<1>2. Grows /\ Added' = Added /\ Id' = Id
  BY <1>1 DEF Grows, Added, Id, Rec
<1>3. Functional' /\ OthersKept(c) /\ timer'[c] = FALSE
  BY <1>1 DEF VertexInv, Functional, OthersKept
<1>4. NamesIds(c)' /\ CommitsKnown(c)' /\ StartsEmpty(c)'
  BY <1>1, <1>2, <1>3 DEF VertexInv, NamesIds, CommitsKnown, StartsEmpty
<1> QED BY <1>1, <1>2, <1>3, <1>4, OneEditor, CreatorFirst

LEMMA CommitNothingStep ==
  ASSUME VertexInv, NEW c \in Client, CommitNothing(c)
  PROVE  VertexInv' /\ Keeps
<1> DEFINE head == HeadForKey(c, have[c])
<1>0. Sequential /\ Functional /\ NamesIds(c) /\ StartsEmpty(c) /\ CommitsKnown(c)
  BY DEF VertexInv
<1>1. /\ Unchanged(c) /\ timer[c] /\ timer' = [timer EXCEPT ![c] = FALSE]
      /\ headId' = [headId EXCEPT ![c] = head]
      /\ UNCHANGED <<commits, have, setting, merging, touched, record,
                     committing, startRecord, waiting, removed>>
  BY DEF CommitNothing
<1>2. Grows /\ Added' = Added /\ Id' = Id
  BY <1>1 DEF Grows, Added, Id, Rec
<1>3. head \in Id \cup {None}
  BY <1>0, HeadOf DEF NamesIds
<1>4. ParentOf(c) \in Id \cup {None}
  BY <1>0, PickBestOf DEF NamesIds, ParentOf
<1>5. record[c] \subseteq Added
  BY <1>1, <1>3, <1>4, RecAdded DEF Unchanged
<1> HIDE DEF head
<1>6. Functional' /\ OthersKept(c) /\ timer'[c] = FALSE /\ headId'[c] = head
  BY <1>0, <1>1 DEF Functional, OthersKept
<1>7. NamesIds(c)' /\ CommitsKnown(c)' /\ StartsEmpty(c)'
  BY <1>0, <1>1, <1>2, <1>3, <1>6 DEF NamesIds, CommitsKnown, StartsEmpty
<1> QED BY <1>1, <1>2, <1>5, <1>6, <1>7, OneEditor, CreatorFirst

LEMMA CommitStep ==
  ASSUME VertexInv, NEW c \in Client, Commit(c)
  PROVE  VertexInv' /\ Keeps
<1> PICK m : m = Len(commits) + 1
  OBVIOUS
<1>0. Sequential /\ Functional /\ NamesIds(c) /\ StartsEmpty(c) /\ CommitsKnown(c)
  BY DEF VertexInv
<1>1. /\ timer[c] /\ ~committing[c] /\ merging[c] = None
      /\ setting' = [setting EXCEPT ![c] = m]
      /\ timer' = [timer EXCEPT ![c] = FALSE]
      /\ committing' = [committing EXCEPT ![c] = TRUE]
      /\ startRecord' = [startRecord EXCEPT ![c] = record[c]]
      /\ UNCHANGED <<have, headId, merging, touched, record, waiting, removed>>
  BY DEF Commit
<1>2. PICK e : commits' = Append(commits, e) /\ e.record = record[c]
  BY DEF Commit, NewCommit
<1>3. /\ m \in Id' /\ commits'[m] = e /\ Id \subseteq Id' /\ Added \subseteq Added'
      /\ Grows
  BY <1>0, <1>2, Constructed, Growth DEF Grows
<1>4. record[c] \subseteq Added' /\ m # None
  <2>1. m # None
    BY <1>0, <1>3, IdsOf DEF None
  <2>2. Rec(m)' = record[c]
    BY <1>2, <1>3, <2>1 DEF Rec
  <2> QED BY <1>3, <2>1, <2>2 DEF Added
<1>5. Functional' /\ OthersKept(c)
  BY <1>0, <1>1 DEF Functional, OthersKept
<1>6. setting'[c] = m /\ committing'[c] = TRUE /\ startRecord'[c] = record[c]
  BY <1>0, <1>1 DEF Functional
<1>7. NamesIds(c)' /\ CommitsKnown(c)'
  BY <1>0, <1>1, <1>3, <1>4, <1>6 DEF NamesIds, CommitsKnown
<1>8. StartsEmpty(c)'
  BY <1>0, <1>1 DEF StartsEmpty
<1> QED BY <1>1, <1>3, <1>5, <1>6, <1>7, <1>8, OneEditor, CreatorFirst

LEMMA CommitSignedStep ==
  ASSUME VertexInv, NEW c \in Client, CommitSigned(c)
  PROVE  VertexInv' /\ Keeps
<1> PICK m : m = setting[c]
  OBVIOUS
<1> PICK H : H = have[c] \cup {m}
  OBVIOUS
<1>0. Sequential /\ Functional /\ NamesIds(c) /\ StartsEmpty(c) /\ CommitsKnown(c)
  BY DEF VertexInv
<1>1. /\ m # None /\ have' = [have EXCEPT ![c] = @ \cup {m}]
      /\ setting' = [setting EXCEPT ![c] = None]
      /\ UNCHANGED <<touched, startRecord, removed>>
  BY DEF CommitSigned
<1>2. m \in Id /\ H \in SUBSET Id /\ committing[c] /\ startRecord[c] \subseteq Added
      /\ waiting[c] # "commit"
  BY <1>0, <1>1 DEF NamesIds, CommitsKnown
<1>3. have'[c] = H /\ setting'[c] = None /\ H # {} /\ have[c] \subseteq H
  BY <1>0, <1>1 DEF Functional
<1>4. c # Creator => have[Creator] # {}
  BY <1>0, <1>1, ConstantsOK DEF VertexInv, StartsEmpty
<1>5. StartsEmpty(c)'
  BY <1>3 DEF StartsEmpty
<1>6. CASE NothingToMerge(c, H) /\ Committed(c, H, m) /\ UNCHANGED waiting
  <2>1. UNCHANGED <<commits, merging>>
    BY <1>6 DEF NothingToMerge
  <2>2. Grows /\ Id' = Id /\ Added' = Added
    BY <2>1 DEF Grows, Added, Id, Rec
  <2>3. /\ committing' = [committing EXCEPT ![c] = FALSE] /\ Shows(c, timer[c])
        /\ record'[c] \subseteq Added \/ timer'[c]
        /\ \E h \in Id \cup {None} : headId' = [headId EXCEPT ![c] = h]
    BY <1>0, <1>2, <1>6, CommittedShows DEF NamesIds
  <2>4. PICK h \in Id \cup {None} : headId' = [headId EXCEPT ![c] = h]
    BY <2>3
  <2>5. PICK r, t : record' = [record EXCEPT ![c] = r] /\ timer' = [timer EXCEPT ![c] = t]
    BY <2>3 DEF Shows
  <2>6. Functional' /\ OthersKept(c) /\ headId'[c] = h /\ committing'[c] = FALSE
    BY <1>0, <1>1, <1>6, <2>1, <2>3, <2>4, <2>5 DEF Functional, OthersKept
  <2>7. NamesIds(c)' /\ CommitsKnown(c)'
    BY <1>0, <1>2, <1>3, <1>6, <2>1, <2>2, <2>6 DEF NamesIds, CommitsKnown
  <2>8. record[c] \ record'[c] \subseteq Added \cup removed'
    BY <2>3 DEF Shows
  <2> QED BY <1>3, <1>4, <1>5, <2>2, <2>3, <2>6, <2>7, <2>8, OneEditor
<1>7. CASE /\ StartMerge(c, H) /\ waiting' = [waiting EXCEPT ![c] = "commit"]
           /\ UNCHANGED <<headId, record, timer, committing>>
  <2>1. Grows
    BY <1>0, <1>7, MergeStarts
  <2>2. PICK n \in Id' : merging' = [merging EXCEPT ![c] = n]
    BY <1>0, <1>7, MergeStarts
  <2>3. Id \subseteq Id' /\ Added \subseteq Added'
    BY <1>0, <2>1, Growth
  <2>4. Functional' /\ OthersKept(c) /\ merging'[c] = n
    BY <1>0, <1>1, <1>7, <2>2 DEF Functional, OthersKept
  <2>5. NamesIds(c)' /\ CommitsKnown(c)'
    BY <1>0, <1>1, <1>2, <1>3, <1>7, <2>2, <2>3, <2>4 DEF NamesIds, CommitsKnown
  <2> QED BY <1>2, <1>3, <1>4, <1>5, <1>7, <2>1, <2>4, <2>5, OneEditor
<1>8. CommitSigned(c) => \/ /\ NothingToMerge(c, have'[c]) /\ Committed(c, have'[c], setting[c])
                            /\ UNCHANGED waiting
                         \/ /\ StartMerge(c, have'[c])
                            /\ waiting' = [waiting EXCEPT ![c] = "commit"]
                            /\ UNCHANGED <<headId, record, timer, committing>>
  BY DEF CommitSigned
<1> QED BY <1>3, <1>6, <1>7, <1>8

LEMMA TouchStep ==
  ASSUME VertexInv, NEW c \in Client, TouchVertex(c)
  PROVE  VertexInv' /\ Keeps
<1> PICK H : H = have[c]
  OBVIOUS
<1>0. Sequential /\ Functional /\ NamesIds(c) /\ StartsEmpty(c) /\ CommitsKnown(c)
  BY DEF VertexInv
<1>1. /\ touched[c] /\ touched' = [touched EXCEPT ![c] = FALSE]
      /\ UNCHANGED <<have, setting, committing, startRecord, removed>>
  BY DEF TouchVertex
<1>2. H \in SUBSET Id /\ have'[c] # {} /\ headId[c] \in Id \cup {None}
  BY <1>0, <1>1 DEF NamesIds, StartsEmpty
<1>3. StartsEmpty(c)' /\ have[Creator] # {}
  BY <1>1, <1>2, CreatorFirst DEF StartsEmpty
<1>4. CASE NothingToMerge(c, H) /\ Rebase(c, H, timer[c]) /\ UNCHANGED waiting
  <2>1. UNCHANGED <<commits, merging>>
    BY <1>4 DEF NothingToMerge
  <2>2. Grows /\ Id' = Id /\ Added' = Added
    BY <2>1 DEF Grows, Added, Id, Rec
  <2>3. Shows(c, timer[c]) /\ \E h \in H \cup {None} : headId' = [headId EXCEPT ![c] = h]
    BY <1>0, <1>2, <1>4, RebaseShows
  <2>4. PICK h \in H \cup {None} : headId' = [headId EXCEPT ![c] = h]
    BY <2>3
  <2>5. PICK r, t : record' = [record EXCEPT ![c] = r] /\ timer' = [timer EXCEPT ![c] = t]
    BY <2>3 DEF Shows
  <2>6. Functional' /\ OthersKept(c) /\ headId'[c] = h
    BY <1>0, <1>1, <1>4, <2>1, <2>4, <2>5 DEF Functional, OthersKept
  <2>7. NamesIds(c)' /\ CommitsKnown(c)'
    BY <1>0, <1>1, <1>2, <1>4, <2>1, <2>2, <2>6 DEF NamesIds, CommitsKnown
  <2>8. record'[c] \subseteq Added' \/ timer'[c] \/ committing'[c]
    BY <1>1, <2>2, <2>3 DEF Shows, VertexInv, TypedIsScheduled
  <2>9. record[c] \ record'[c] \subseteq Added \cup removed'
    BY <2>3 DEF Shows
  <2> QED BY <1>1, <1>3, <2>2, <2>6, <2>7, <2>8, <2>9, OneEditor
<1>5. CASE /\ StartMerge(c, H) /\ waiting' = [waiting EXCEPT ![c] = "touch"]
           /\ UNCHANGED <<headId, record, timer>>
  <2>1. Grows
    BY <1>0, <1>5, MergeStarts
  <2>2. PICK n \in Id' : merging' = [merging EXCEPT ![c] = n]
    BY <1>0, <1>5, MergeStarts
  <2>3. Id \subseteq Id' /\ Added \subseteq Added'
    BY <1>0, <2>1, Growth
  <2>4. Functional' /\ OthersKept(c) /\ merging'[c] = n /\ waiting'[c] = "touch"
    BY <1>0, <1>1, <1>5, <2>2 DEF Functional, OthersKept
  <2>5. CommitsKnown(c)'
    <3>1. setting'[c] # None => committing'[c]
      BY <1>0, <1>1 DEF CommitsKnown
    <3>2. committing'[c] => startRecord'[c] \subseteq Added'
      BY <1>0, <1>1, <2>3 DEF CommitsKnown
    <3> QED BY <2>4, <3>1, <3>2 DEF CommitsKnown
  <2>6. NamesIds(c)'
    BY <1>0, <1>1, <1>5, <2>2, <2>3, <2>4 DEF NamesIds
  <2>7. record'[c] \subseteq Added' \/ timer'[c] \/ committing'[c]
    BY <1>1, <1>5, <2>3 DEF VertexInv, TypedIsScheduled
  <2> QED BY <1>1, <1>3, <1>5, <2>1, <2>4, <2>5, <2>6, <2>7, OneEditor
<1> QED BY <1>4, <1>5 DEF TouchVertex

LEMMA MergeCommitSignedStep ==
  ASSUME VertexInv, NEW c \in Client, MergeCommitSigned(c)
  PROVE  VertexInv' /\ Keeps
<1> PICK m : m = merging[c]
  OBVIOUS
<1> PICK H : H = have[c] \cup {m}
  OBVIOUS
<1>0. Sequential /\ Functional /\ NamesIds(c) /\ StartsEmpty(c) /\ CommitsKnown(c)
  BY DEF VertexInv
<1>1. /\ m # None /\ have' = [have EXCEPT ![c] = @ \cup {m}]
      /\ merging' = [merging EXCEPT ![c] = None]
      /\ waiting' = [waiting EXCEPT ![c] = "nobody"]
      /\ UNCHANGED <<commits, setting, touched, startRecord, removed>>
  BY DEF MergeCommitSigned
<1>2. m \in Id /\ H \in SUBSET Id /\ headId[c] \in Id \cup {None}
  BY <1>0, <1>1 DEF NamesIds
<1>3. have'[c] = H /\ merging'[c] = None /\ H # {} /\ have[c] \subseteq H
      /\ waiting'[c] = "nobody"
  BY <1>0, <1>1 DEF Functional
<1>4. c # Creator => have[Creator] # {}
  BY <1>0, <1>1, ConstantsOK DEF VertexInv, StartsEmpty
<1>5. Grows /\ Id' = Id /\ Added' = Added /\ StartsEmpty(c)'
  BY <1>1, <1>3 DEF Grows, Added, Id, Rec, StartsEmpty
<1>6. CASE waiting[c] = "commit" /\ Committed(c, H, m)
  <2>1. committing[c] /\ startRecord[c] \subseteq Added /\ setting[c] = None
    BY <1>0, <1>6 DEF CommitsKnown
  <2>2. /\ committing' = [committing EXCEPT ![c] = FALSE] /\ Shows(c, timer[c])
        /\ record'[c] \subseteq Added \/ timer'[c]
        /\ \E h \in Id \cup {None} : headId' = [headId EXCEPT ![c] = h]
    BY <1>0, <1>2, <1>6, <2>1, CommittedShows
  <2>3. PICK h \in Id \cup {None} : headId' = [headId EXCEPT ![c] = h]
    BY <2>2
  <2>4. PICK r, t : record' = [record EXCEPT ![c] = r] /\ timer' = [timer EXCEPT ![c] = t]
    BY <2>2 DEF Shows
  <2>5. Functional' /\ OthersKept(c) /\ headId'[c] = h /\ committing'[c] = FALSE
    BY <1>0, <1>1, <2>2, <2>3, <2>4 DEF Functional, OthersKept
  <2>6. NamesIds(c)' /\ CommitsKnown(c)'
    BY <1>0, <1>1, <1>2, <1>3, <1>5, <2>1, <2>5 DEF NamesIds, CommitsKnown
  <2>7. record[c] \ record'[c] \subseteq Added \cup removed'
    BY <2>2 DEF Shows
  <2> QED BY <1>3, <1>4, <1>5, <2>2, <2>5, <2>6, <2>7, OneEditor
<1>7. CASE Rebase(c, H, timer[c]) /\ UNCHANGED committing
  <2>1. Shows(c, timer[c]) /\ \E h \in H \cup {None} : headId' = [headId EXCEPT ![c] = h]
    BY <1>0, <1>2, <1>7, RebaseShows
  <2>2. PICK h \in H \cup {None} : headId' = [headId EXCEPT ![c] = h]
    BY <2>1
  <2>3. PICK r, t : record' = [record EXCEPT ![c] = r] /\ timer' = [timer EXCEPT ![c] = t]
    BY <2>1 DEF Shows
  <2>4. Functional' /\ OthersKept(c) /\ headId'[c] = h
    BY <1>0, <1>1, <1>7, <2>2, <2>3 DEF Functional, OthersKept
  <2>5. NamesIds(c)' /\ CommitsKnown(c)'
    BY <1>0, <1>1, <1>2, <1>3, <1>5, <1>7, <2>4 DEF NamesIds, CommitsKnown
  <2>6. record'[c] \subseteq Added' \/ timer'[c] \/ committing'[c]
    BY <1>5, <1>7, <2>1 DEF Shows, VertexInv, TypedIsScheduled
  <2>7. record[c] \ record'[c] \subseteq Added \cup removed'
    BY <2>1 DEF Shows
  <2> QED BY <1>3, <1>4, <1>5, <2>4, <2>5, <2>6, <2>7, OneEditor
<1>8. MergeCommitSigned(c) =>
        \/ waiting[c] = "commit" /\ Committed(c, have'[c], merging[c])
        \/ Rebase(c, have'[c], timer[c]) /\ UNCHANGED committing
  BY DEF MergeCommitSigned
<1> QED BY <1>3, <1>6, <1>7, <1>8

LEMMA DeliverStep ==
  ASSUME VertexInv, NEW c \in Client, NEW m \in Id, DeliverToVertex(c, m)
  PROVE  VertexInv' /\ Keeps
<1>0. Sequential /\ Functional /\ NamesIds(c) /\ StartsEmpty(c) /\ CommitsKnown(c)
  BY DEF VertexInv
<1>1. /\ \E d \in Client : have[d] # {}
      /\ have' = [have EXCEPT ![c] = @ \cup {m}]
      /\ headId' = [headId EXCEPT ![c] = IF have[c] = {} THEN m ELSE @]
      /\ touched' = [touched EXCEPT ![c] = TRUE]
      /\ UNCHANGED <<commits, setting, merging, committing, startRecord, waiting, removed>>
  BY DEF DeliverToVertex, Deliver
<1>2. /\ Grows /\ Id' = Id /\ Added' = Added /\ have[Creator] # {}
  BY <1>1, CreatorFirst DEF Grows, Added, Id, Rec
<1>3. \/ have[c] = {} /\ Show(c, Rec(m), TRUE)
      \/ have[c] # {} /\ UNCHANGED <<record, timer>>
  BY DEF DeliverToVertex
<1>4. \E r, t : record' = [record EXCEPT ![c] = r] /\ timer' = [timer EXCEPT ![c] = t]
  <2>1. record = [record EXCEPT ![c] = record[c]] /\ timer = [timer EXCEPT ![c] = timer[c]]
    BY <1>0 DEF Functional
  <2> QED BY <1>3, <2>1 DEF Show
<1>5. PICK r, t : record' = [record EXCEPT ![c] = r] /\ timer' = [timer EXCEPT ![c] = t]
  BY <1>4
<1>6. Functional' /\ OthersKept(c) /\ have'[c] = have[c] \cup {m}
      /\ headId'[c] = IF have[c] = {} THEN m ELSE headId[c]
  BY <1>0, <1>1, <1>5 DEF Functional, OthersKept
<1>7. NamesIds(c)' /\ CommitsKnown(c)' /\ StartsEmpty(c)'
  BY <1>0, <1>1, <1>2, <1>6 DEF NamesIds, CommitsKnown, StartsEmpty
<1>8. CASE have[c] = {} /\ Show(c, Rec(m), TRUE)
  <2>1. record[c] = {}
    BY <1>0, <1>2, <1>8 DEF StartsEmpty
  <2>2. timer'[c]
    BY <1>0, <1>8 DEF Show, Functional
  <2> QED BY <1>2, <1>6, <1>7, <2>1, <2>2, OneEditor
<1>9. CASE have[c] # {} /\ UNCHANGED <<record, timer>>
  <2>1. record'[c] \subseteq Added' \/ timer'[c] \/ committing'[c]
    BY <1>1, <1>2, <1>9 DEF VertexInv, TypedIsScheduled
  <2> QED BY <1>2, <1>6, <1>7, <1>9, <2>1, OneEditor
<1> QED BY <1>3, <1>8, <1>9
------------------------------------------------------------------------------
LEMMA VertexInvNext ==
  ASSUME VertexInv, [VertexNext]_allVars
  PROVE  VertexInv' /\ Keeps
<1>1. CASE UNCHANGED allVars
  BY <1>1 DEF allVars, vars, vertexVars, VertexInv, Sequential, Functional, NamesIds,
              StartsEmpty, CommitsKnown, TypedIsScheduled, Added, Id, Rec, Keeps
<1>2. ASSUME NEW c \in Client, UserEdit(c) PROVE VertexInv' /\ Keeps
  BY <1>2, EditStep
<1>3. ASSUME NEW c \in Client, CommitUnderWay(c) \/ CommitNothing(c) \/ Commit(c)
      PROVE  VertexInv' /\ Keeps
  BY <1>3, CommitUnderWayStep, CommitNothingStep, CommitStep
<1>4. ASSUME NEW c \in Client, CommitSigned(c) \/ MergeCommitSigned(c) \/ TouchVertex(c)
      PROVE  VertexInv' /\ Keeps
  BY <1>4, CommitSignedStep, MergeCommitSignedStep, TouchStep
<1>5. ASSUME NEW c \in Client, NEW m \in Id, DeliverToVertex(c, m)
      PROVE  VertexInv' /\ Keeps
  BY <1>5, DeliverStep
<1> QED BY <1>1, <1>2, <1>3, <1>4, <1>5 DEF VertexNext

(* What a user added and no commit contains has a commit coming: the timer *)
(* is scheduled, or a commit is under way that will schedule it.           *)
THEOREM TypedWillBeCommitted == VertexSpec => []TypedIsScheduled
<1>1. VertexInv => TypedIsScheduled
  BY DEF VertexInv
<1> QED BY <1>1, VertexInvInit, VertexInvNext, PTL DEF VertexSpec

(* No commit, merge, rebase or arrival that ends takes from the record a   *)
(* user sees what no commit contains yet.                                  *)
THEOREM TypedStays == VertexSpec => TypedIsKept
<1>1. VertexInv /\ [VertexNext]_allVars => [Keeps]_allVars
  BY VertexInvNext
<1>2. VertexInv /\ [VertexNext]_allVars => VertexInv'
  BY VertexInvNext
<1> QED BY <1>1, <1>2, VertexInvInit, PTL DEF VertexSpec, TypedIsKept, Keeps
------------------------------------------------------------------------------
(* The types: those of the graph, and those of what the vertex keeps.  The *)
(* steps of the vertex are steps of the graph that show another head.      *)

VertexShape ==
  /\ GraphShape
  /\ record \in [Client -> SUBSET Elem]
  /\ timer \in [Client -> BOOLEAN]
  /\ committing \in [Client -> BOOLEAN]
  /\ startRecord \in [Client -> SUBSET Elem]
  /\ waiting \in [Client -> {"nobody", "commit", "touch"}]
  /\ removed \in SUBSET Elem
  /\ \A c \in Client :
       /\ setting[c] # None \/ waiting[c] = "commit" <=> committing[c]
       /\ merging[c] = None <=> waiting[c] = "nobody"
       /\ setting[c] = None \/ waiting[c] # "commit"

LEMMA VertexShapeIsType == VertexShape => VertexTypeOK
BY ShapeIsType DEF VertexShape, VertexTypeOK

LEMMA VertexShapeInit == VertexInit => VertexShape
BY ShapeInit DEF VertexInit, VertexShape, Init

LEMMA RecElem ==
  ASSUME GraphShape, NEW m \in Id \cup {None}
  PROVE  Rec(m) \subseteq Elem
BY DEF GraphShape, Typed, Rec

(* What a vertex shows next.                                               *)
ShowsElem(c) ==
  \E r \in SUBSET Elem : \E t \in BOOLEAN :
    record' = [record EXCEPT ![c] = r] /\ timer' = [timer EXCEPT ![c] = t]

LEMMA RebaseElem ==
  ASSUME VertexShape, NEW c \in Client, NEW H \in SUBSET Id, NEW scheduled \in BOOLEAN,
         Rebase(c, H, scheduled)
  PROVE  /\ ShowsElem(c)
         /\ \E h \in {None} \cup H : headId' = [headId EXCEPT ![c] = h]
<1> DEFINE head == HeadForKey(c, H)
           patched == Patched(Rec(headId[c]), {Rec(head), record[c]})
<1>1. head \in H \cup {None}
  BY HeadOf DEF VertexShape, GraphShape
<1>2. record[c] \in SUBSET Elem /\ headId[c] \in Id \cup {None}
  BY DEF VertexShape, GraphShape, IdOrNone
<1>3. patched \in SUBSET Elem
  <2>1. Rec(head) \subseteq Elem /\ Rec(headId[c]) \subseteq Elem
    BY <1>1, <1>2, RecElem DEF VertexShape
  <2> QED BY <1>2, <2>1 DEF Patched
<1> HIDE DEF patched
<1>4. \A r \in SUBSET Elem : Show(c, r, scheduled) => ShowsElem(c)
  BY DEF Show, ShowsElem
<1> QED BY <1>1, <1>2, <1>3, <1>4 DEF Rebase, patched

LEMMA CommittedElem ==
  ASSUME VertexShape, NEW c \in Client, NEW H \in SUBSET Id, NEW m \in H,
         Committed(c, H, m)
  PROVE  /\ ShowsElem(c) /\ committing' = [committing EXCEPT ![c] = FALSE]
         /\ \E h \in {None} \cup H : headId' = [headId EXCEPT ![c] = h]
<1>1. Rec(m) \in SUBSET Elem /\ timer[c] \in BOOLEAN
  BY RecElem DEF VertexShape
<1>2. Show(c, Rec(m), timer[c]) => ShowsElem(c)
  BY <1>1 DEF Show, ShowsElem
<1> QED BY <1>2, RebaseElem DEF Committed

LEMMA OneVertex ==
  ASSUME VertexShape, GraphShape', NEW c \in Client, ShowsElem(c),
         \E b \in BOOLEAN : committing' = [committing EXCEPT ![c] = b],
         \E r \in SUBSET Elem : startRecord' = [startRecord EXCEPT ![c] = r],
         \E w \in {"nobody", "commit", "touch"} : waiting' = [waiting EXCEPT ![c] = w],
         removed' \in SUBSET Elem,
         \A d \in Client \ {c} : setting'[d] = setting[d] /\ merging'[d] = merging[d],
         setting'[c] # None \/ waiting'[c] = "commit" <=> committing'[c],
         merging'[c] = None <=> waiting'[c] = "nobody",
         setting'[c] = None \/ waiting'[c] # "commit"
  PROVE  VertexShape'
<1>1. /\ record' \in [Client -> SUBSET Elem] /\ timer' \in [Client -> BOOLEAN]
  BY DEF VertexShape, ShowsElem
<1>2. /\ committing' \in [Client -> BOOLEAN]
      /\ \A d \in Client \ {c} : committing'[d] = committing[d]
  BY DEF VertexShape
<1>3. startRecord' \in [Client -> SUBSET Elem]
  BY DEF VertexShape
<1>4. /\ waiting' \in [Client -> {"nobody", "commit", "touch"}]
      /\ \A d \in Client \ {c} : waiting'[d] = waiting[d]
  BY DEF VertexShape
<1>5. ASSUME NEW d \in Client
      PROVE  /\ setting'[d] # None \/ waiting'[d] = "commit" <=> committing'[d]
             /\ merging'[d] = None <=> waiting'[d] = "nobody"
             /\ setting'[d] = None \/ waiting'[d] # "commit"
  BY <1>2, <1>4 DEF VertexShape
<1> QED BY <1>1, <1>2, <1>3, <1>4, <1>5 DEF VertexShape

(* What a step leaves alone, as one that sets it to what it is.            *)
LEMMA KeptVertex ==
  ASSUME VertexShape, NEW c \in Client
  PROVE  /\ UNCHANGED <<record, timer>> => ShowsElem(c)
         /\ committing' = committing =>
              \E b \in BOOLEAN : committing' = [committing EXCEPT ![c] = b]
         /\ startRecord' = startRecord =>
              \E r \in SUBSET Elem : startRecord' = [startRecord EXCEPT ![c] = r]
         /\ waiting' = waiting =>
              \E w \in {"nobody", "commit", "touch"} : waiting' = [waiting EXCEPT ![c] = w]
<1>1. /\ record = [record EXCEPT ![c] = record[c]] /\ record[c] \in SUBSET Elem
      /\ timer = [timer EXCEPT ![c] = timer[c]] /\ timer[c] \in BOOLEAN
  BY DEF VertexShape
<1>2. committing = [committing EXCEPT ![c] = committing[c]] /\ committing[c] \in BOOLEAN
  BY DEF VertexShape
<1>3. /\ startRecord = [startRecord EXCEPT ![c] = startRecord[c]]
      /\ startRecord[c] \in SUBSET Elem
  BY DEF VertexShape
<1>4. /\ waiting = [waiting EXCEPT ![c] = waiting[c]]
      /\ waiting[c] \in {"nobody", "commit", "touch"}
  BY DEF VertexShape
<1>5. UNCHANGED <<record, timer>> => ShowsElem(c)
  BY <1>1 DEF ShowsElem
<1> QED BY <1>2, <1>3, <1>4, <1>5

(* The timer is that of an editor who has something to commit.             *)
Commits(c) == timer[c] => c = Creator \/ have[c] # {}

LEMMA CommitIs ==
  ASSUME VertexShape, NEW c \in Client, Commits(c), Commit(c)
  PROVE  GraphStep(c)
<1>1. PICK p : p = ParentOf(c)
  OBVIOUS
<1>2. PICK P : P = {p} \ {None}
  OBVIOUS
<1>3. /\ GraphShape /\ Sequential /\ have[c] \in SUBSET Id
      /\ headId[c] \in {None} \cup have[c] /\ None \notin Id
  BY IdsOf DEF VertexShape, GraphShape
<1>4. PickBest(c, have[c]) \in have[c] \cup {None}
      /\ (have[c] # {} => PickBest(c, have[c]) \in have[c])
  <2>1. PICK S \in SUBSET Id : S = have[c]
    BY <1>3
  <2> QED BY <1>3, <2>1, PickBestOf
<1>5. p \in have[c] \cup {None} /\ (p = None => have[c] = {})
  BY <1>1, <1>3, <1>4 DEF ParentOf
<1>6. P \subseteq have[c] /\ (P = {} => have[c] = {} /\ c = Creator)
  <2>1. P = {} => p = None
    BY <1>2
  <2>2. timer[c]
    BY DEF Commit
  <2> QED BY <1>2, <1>5, <2>1, <2>2 DEF Commits
<1>7. Cardinality(P) < 2
  <2>1. Cardinality({}) = 0
    BY FS_EmptySet
  <2>2. Cardinality({p}) = 1
    BY FS_Singleton
  <2>3. P = {} \/ P = {p}
    BY <1>2
  <2> QED BY <2>1, <2>2, <2>3
<1>8. setting[c] = None /\ merging[c] = None
  BY DEF VertexShape, Commit
<1>9. PICK fp \in conditions.falsePositives :
        commits' = Append(commits, NewCommit(c, have[c], P, record[c], fp))
  BY <1>1, <1>2 DEF Commit
<1>10. SetsValue(c, P, record[c])
  BY <1>6, <1>7, <1>8, <1>9 DEF SetsValue, Commit
<1>11. record[c] \subseteq Elem
  BY DEF VertexShape
<1> QED BY <1>10, <1>11 DEF GraphStep

LEMMA ShapeUserEdit ==
  ASSUME VertexShape, NEW c \in Client, UserEdit(c)
  PROVE  UNCHANGED vars /\ VertexShape'
<1>1. record[c] \in SUBSET Elem
  BY DEF VertexShape
<1>2. PICK r \in SUBSET Elem : EditRecord(c, r)
  BY <1>1 DEF UserEdit
<1>3. /\ UNCHANGED vars
      /\ UNCHANGED <<committing, startRecord, waiting, setting, merging>>
      /\ removed' \in SUBSET Elem
  BY <1>1, <1>2 DEF EditRecord, VertexShape, vars
<1>4. ShowsElem(c)
  BY <1>2 DEF EditRecord, ShowsElem
<1>5. GraphShape'
  BY <1>3, ShapeUnchanged DEF VertexShape
<1>6. /\ setting'[c] # None \/ waiting'[c] = "commit" <=> committing'[c]
      /\ merging'[c] = None <=> waiting'[c] = "nobody"
      /\ setting'[c] = None \/ waiting'[c] # "commit"
  BY <1>3 DEF VertexShape
<1> QED BY <1>3, <1>4, <1>5, <1>6, OneVertex, KeptVertex

LEMMA ShapeCommitUnderWay ==
  ASSUME VertexShape, NEW c \in Client, CommitUnderWay(c)
  PROVE  UNCHANGED vars /\ VertexShape'
<1>1. /\ UNCHANGED vars /\ timer' = [timer EXCEPT ![c] = FALSE]
      /\ UNCHANGED <<committing, startRecord, waiting, setting, merging, record, removed>>
  BY DEF CommitUnderWay, vars
<1>2. timer' \in [Client -> BOOLEAN]
  BY <1>1 DEF VertexShape
<1>3. GraphShape'
  BY <1>1, ShapeUnchanged DEF VertexShape
<1> QED BY <1>1, <1>2, <1>3 DEF VertexShape

LEMMA ShapeCommitNothing ==
  ASSUME VertexShape, NEW c \in Client, CommitNothing(c)
  PROVE  GraphStep(c) /\ VertexShape'
<1>1. /\ headId' = [headId EXCEPT ![c] = HeadForKey(c, have[c])]
      /\ timer' = [timer EXCEPT ![c] = FALSE]
      /\ UNCHANGED <<conditions, commits, have, setting, merging, touched, record,
                     committing, startRecord, waiting, removed>>
  BY DEF CommitNothing
<1>2. PICK H \in SUBSET Id : H = have[c]
  BY DEF VertexShape, GraphShape
<1>3. HeadForKey(c, H) \in {None} \cup H
  BY HeadOf DEF VertexShape, GraphShape
<1>4. ShowsHead(c)
  BY <1>1, <1>2, <1>3 DEF ShowsHead, HeadMoves
<1>5. GraphStep(c) /\ GraphShape'
  BY <1>4, ShapeShowsHead DEF GraphStep, Proceeds, VertexShape
<1>6. timer' \in [Client -> BOOLEAN]
  BY <1>1 DEF VertexShape
<1> QED BY <1>1, <1>5, <1>6 DEF VertexShape

LEMMA ShapeCommit ==
  ASSUME VertexShape, NEW c \in Client, Commits(c), Commit(c)
  PROVE  GraphStep(c) /\ VertexShape'
<1>1. GraphStep(c) /\ GraphShape'
  BY CommitIs, ShapeGraphStep DEF VertexShape
<1>2. /\ merging[c] = None /\ ~committing[c]
      /\ setting' = [setting EXCEPT ![c] = Len(commits) + 1]
      /\ timer' = [timer EXCEPT ![c] = FALSE]
      /\ committing' = [committing EXCEPT ![c] = TRUE]
      /\ startRecord' = [startRecord EXCEPT ![c] = record[c]]
      /\ UNCHANGED <<merging, record, waiting, removed>>
  BY DEF Commit
<1>3. Len(commits) + 1 # None
  BY IdsOf DEF VertexShape, GraphShape, None
<1>4. /\ setting'[c] # None /\ committing'[c] = TRUE
      /\ \A d \in Client \ {c} : setting'[d] = setting[d] /\ merging'[d] = merging[d]
  BY <1>2, <1>3 DEF VertexShape, GraphShape
<1>5. waiting'[c] = "nobody" /\ merging'[c] = None
  BY <1>2 DEF VertexShape
<1>6. record[c] \in SUBSET Elem /\ removed' \in SUBSET Elem
  BY <1>2 DEF VertexShape
<1>7. ShowsElem(c)
  <2>1. record' = [record EXCEPT ![c] = record[c]]
    BY <1>2 DEF VertexShape
  <2> QED BY <1>2, <1>6, <2>1 DEF ShowsElem
<1>8. /\ \E b \in BOOLEAN : committing' = [committing EXCEPT ![c] = b]
      /\ \E r \in SUBSET Elem : startRecord' = [startRecord EXCEPT ![c] = r]
  BY <1>2, <1>6
<1>9. \E w \in {"nobody", "commit", "touch"} : waiting' = [waiting EXCEPT ![c] = w]
  BY <1>2, KeptVertex
<1>10. setting'[c] # None \/ waiting'[c] = "commit" <=> committing'[c]
  BY <1>4
<1> QED BY <1>1, <1>4, <1>5, <1>6, <1>7, <1>8, <1>9, <1>10, OneVertex

LEMMA ShapeCommitSigned ==
  ASSUME VertexShape, NEW c \in Client, CommitSigned(c)
  PROVE  GraphStep(c) /\ VertexShape'
<1>1. PICK m : m = setting[c]
  OBVIOUS
<1>2. PICK H : H = have'[c]
  OBVIOUS
<1>3. /\ m # None /\ have' = [have EXCEPT ![c] = @ \cup {m}]
      /\ setting' = [setting EXCEPT ![c] = None]
      /\ UNCHANGED <<conditions, touched, startRecord, removed>>
  BY <1>1 DEF CommitSigned
<1>4. m \in Pending(c)
  BY <1>1, <1>3 DEF Pending
<1>5. H \in SUBSET Id /\ m \in H
  BY <1>2, <1>3, <1>4, Signing DEF VertexShape
<1>6. \/ /\ NothingToMerge(c, H) /\ Committed(c, H, m) /\ UNCHANGED waiting
      \/ /\ StartMerge(c, H) /\ waiting' = [waiting EXCEPT ![c] = "commit"]
         /\ UNCHANGED <<headId, record, timer, committing>>
  BY <1>1, <1>2 DEF CommitSigned
<1>7. committing[c] /\ waiting[c] # "commit" /\ removed' \in SUBSET Elem
      /\ setting'[c] = None /\ \A d \in Client \ {c} : setting'[d] = setting[d]
  BY <1>1, <1>3 DEF VertexShape, GraphShape
<1>8. CASE /\ NothingToMerge(c, H) /\ Committed(c, H, m) /\ UNCHANGED waiting
  <2>1. /\ ShowsElem(c) /\ committing' = [committing EXCEPT ![c] = FALSE]
        /\ \E h \in {None} \cup H : headId' = [headId EXCEPT ![c] = h]
    BY <1>5, <1>8, CommittedElem
  <2>2. SignsValue(c)
    BY <1>1, <1>2, <1>3, <1>8, <2>1 DEF SignsValue, MergesOrNot, HeadMoves
  <2>3. GraphStep(c) /\ GraphShape'
    BY <2>2, ShapeSignsValue DEF GraphStep, Proceeds, VertexShape
  <2>4. merging' = merging /\ committing'[c] = FALSE
    BY <1>8, <2>1 DEF NothingToMerge, VertexShape
  <2>5. merging'[c] = None <=> waiting'[c] = "nobody"
    BY <1>8, <2>4 DEF VertexShape
  <2>6. \E b \in BOOLEAN : committing' = [committing EXCEPT ![c] = b]
    BY <2>1
  <2> QED BY <1>3, <1>7, <1>8, <2>1, <2>3, <2>4, <2>5, <2>6, OneVertex, KeptVertex
<1>9. CASE /\ StartMerge(c, H) /\ waiting' = [waiting EXCEPT ![c] = "commit"]
           /\ UNCHANGED <<headId, record, timer, committing>>
  <2>1. SignsValue(c)
    BY <1>1, <1>2, <1>3, <1>9 DEF SignsValue, MergesOrNot
  <2>2. GraphStep(c) /\ GraphShape'
    BY <2>1, ShapeSignsValue DEF GraphStep, Proceeds, VertexShape
  <2>3. merging' = [merging EXCEPT ![c] = Len(commits) + 1] /\ Len(commits) + 1 # None
    BY <1>5, <1>9, StartMergeStep, IdsOf DEF VertexShape, GraphShape, None
  <2>4. merging'[c] # None /\ \A d \in Client \ {c} : merging'[d] = merging[d]
    BY <2>3 DEF VertexShape, GraphShape
  <2>5. waiting'[c] = "commit"
    BY <1>9 DEF VertexShape
  <2>6. committing'[c] = committing[c]
    BY <1>9
  <2>7. ShowsElem(c) /\ \E b \in BOOLEAN : committing' = [committing EXCEPT ![c] = b]
    BY <1>9, KeptVertex
  <2>8. \E r \in SUBSET Elem : startRecord' = [startRecord EXCEPT ![c] = r]
    BY <1>3, KeptVertex
  <2> QED BY <1>7, <1>9, <2>2, <2>4, <2>5, <2>6, <2>7, <2>8, OneVertex
<1> QED BY <1>6, <1>8, <1>9

LEMMA ShapeTouchVertex ==
  ASSUME VertexShape, NEW c \in Client, TouchVertex(c)
  PROVE  GraphStep(c) /\ VertexShape'
<1>1. PICK H \in SUBSET Id : H = have[c]
  BY DEF VertexShape, GraphShape
<1>2. /\ touched' = [touched EXCEPT ![c] = FALSE]
      /\ UNCHANGED <<conditions, have, setting, committing, startRecord, removed>>
  BY DEF TouchVertex
<1>3. \/ NothingToMerge(c, H) /\ Rebase(c, H, timer[c]) /\ UNCHANGED waiting
      \/ /\ StartMerge(c, H) /\ waiting' = [waiting EXCEPT ![c] = "touch"]
         /\ UNCHANGED <<headId, record, timer>>
  BY <1>1 DEF TouchVertex
<1>4. H = have'[c] /\ timer[c] \in BOOLEAN /\ removed' \in SUBSET Elem
  BY <1>1, <1>2 DEF VertexShape
<1>5. CASE NothingToMerge(c, H) /\ Rebase(c, H, timer[c]) /\ UNCHANGED waiting
  <2>1. ShowsElem(c) /\ \E h \in {None} \cup H : headId' = [headId EXCEPT ![c] = h]
    <3>1. timer[c] \in BOOLEAN /\ Rebase(c, H, timer[c])
      BY <1>4, <1>5
    <3> QED BY <3>1, RebaseElem
  <2>2. Touches(c)
    BY <1>2, <1>4, <1>5, <2>1 DEF Touches, MergesOrNot, HeadMoves
  <2>3. GraphStep(c) /\ GraphShape'
    BY <2>2, ShapeTouches DEF GraphStep, Proceeds, VertexShape
  <2>4. merging' = merging
    BY <1>5 DEF NothingToMerge
  <2>5. /\ setting'[c] # None \/ waiting'[c] = "commit" <=> committing'[c]
        /\ merging'[c] = None <=> waiting'[c] = "nobody"
        /\ setting'[c] = None \/ waiting'[c] # "commit"
    BY <1>2, <1>5, <2>4 DEF VertexShape
  <2> QED BY <1>2, <1>4, <1>5, <2>1, <2>3, <2>4, <2>5, OneVertex, KeptVertex
<1>6. CASE /\ StartMerge(c, H) /\ waiting' = [waiting EXCEPT ![c] = "touch"]
           /\ UNCHANGED <<headId, record, timer>>
  <2>1. Touches(c)
    BY <1>2, <1>4, <1>6 DEF Touches, MergesOrNot
  <2>2. GraphStep(c) /\ GraphShape'
    BY <2>1, ShapeTouches DEF GraphStep, Proceeds, VertexShape
  <2>3. /\ merging' = [merging EXCEPT ![c] = Len(commits) + 1] /\ Len(commits) + 1 # None
        /\ merging[c] = None
    BY <1>6, StartMergeStep, IdsOf DEF VertexShape, GraphShape, None
  <2>4. merging'[c] # None /\ \A d \in Client \ {c} : merging'[d] = merging[d]
    BY <2>3 DEF VertexShape, GraphShape
  <2>5. waiting'[c] = "touch" /\ waiting[c] = "nobody"
    BY <1>6, <2>3 DEF VertexShape
  <2>6. setting'[c] # None \/ waiting'[c] = "commit" <=> committing'[c]
    BY <1>2, <2>5 DEF VertexShape
  <2>7. ShowsElem(c) /\ \E b \in BOOLEAN : committing' = [committing EXCEPT ![c] = b]
    BY <1>2, <1>6, KeptVertex
  <2>8. \E r \in SUBSET Elem : startRecord' = [startRecord EXCEPT ![c] = r]
    BY <1>2, KeptVertex
  <2>9. \A d \in Client \ {c} : setting'[d] = setting[d]
    BY <1>2
  <2> QED BY <1>4, <1>6, <2>2, <2>4, <2>5, <2>6, <2>7, <2>8, <2>9, OneVertex
<1> QED BY <1>3, <1>5, <1>6

LEMMA ShapeMergeCommitSigned ==
  ASSUME VertexShape, NEW c \in Client, MergeCommitSigned(c)
  PROVE  GraphStep(c) /\ VertexShape'
<1>1. PICK m : m = merging[c]
  OBVIOUS
<1>2. PICK H : H = have'[c]
  OBVIOUS
<1>3. /\ m # None /\ have' = [have EXCEPT ![c] = @ \cup {m}]
      /\ merging' = [merging EXCEPT ![c] = None]
      /\ waiting' = [waiting EXCEPT ![c] = "nobody"]
      /\ UNCHANGED <<conditions, commits, setting, touched, startRecord, removed>>
  BY <1>1 DEF MergeCommitSigned
<1>4. m \in Pending(c)
  BY <1>1, <1>3 DEF Pending
<1>5. H \in SUBSET Id /\ m \in H
  BY <1>2, <1>3, <1>4, Signing DEF VertexShape
<1>6. \/ waiting[c] = "commit" /\ Committed(c, H, m)
      \/ waiting[c] = "touch" /\ Rebase(c, H, timer[c]) /\ UNCHANGED committing
  BY <1>1, <1>2 DEF MergeCommitSigned
<1>7. /\ removed' \in SUBSET Elem /\ merging'[c] = None /\ waiting'[c] = "nobody"
      /\ \A d \in Client \ {c} : setting'[d] = setting[d] /\ merging'[d] = merging[d]
  BY <1>3 DEF VertexShape, GraphShape
<1>8. /\ ShowsElem(c)
      /\ \E b \in BOOLEAN : committing' = [committing EXCEPT ![c] = b]
      /\ \E h \in {None} \cup H : headId' = [headId EXCEPT ![c] = h]
      /\ setting[c] # None <=> committing'[c]
  <2>1. CASE waiting[c] = "commit" /\ Committed(c, H, m)
    <3>1. /\ ShowsElem(c) /\ committing' = [committing EXCEPT ![c] = FALSE]
          /\ \E h \in {None} \cup H : headId' = [headId EXCEPT ![c] = h]
      BY <1>5, <2>1, CommittedElem
    <3>2. setting[c] = None /\ committing'[c] = FALSE
      BY <2>1, <3>1 DEF VertexShape
    <3> QED BY <3>1, <3>2
  <2>2. CASE waiting[c] = "touch" /\ Rebase(c, H, timer[c]) /\ UNCHANGED committing
    <3>1. ShowsElem(c) /\ \E h \in {None} \cup H : headId' = [headId EXCEPT ![c] = h]
      <4>1. timer[c] \in BOOLEAN
        BY DEF VertexShape
      <4> QED BY <1>5, <2>2, <4>1, RebaseElem
    <3>2. setting[c] # None <=> committing'[c]
      BY <2>2 DEF VertexShape
    <3> QED BY <2>2, <3>1, <3>2, KeptVertex
  <2> QED BY <1>6, <2>1, <2>2
<1>9. SignsMerge(c)
  BY <1>1, <1>2, <1>3, <1>8 DEF SignsMerge, HeadMoves
<1>10. GraphStep(c) /\ GraphShape'
  BY <1>9, ShapeSignsMerge DEF GraphStep, Proceeds, VertexShape
<1>11. setting'[c] # None \/ waiting'[c] = "commit" <=> committing'[c]
  BY <1>3, <1>7, <1>8
<1>12. \E r \in SUBSET Elem : startRecord' = [startRecord EXCEPT ![c] = r]
  BY <1>3, KeptVertex
<1> QED BY <1>3, <1>7, <1>8, <1>10, <1>11, <1>12, OneVertex

LEMMA ShapeDeliverToVertex ==
  ASSUME VertexShape, NEW c \in Client, NEW m \in Id, DeliverToVertex(c, m)
  PROVE  GraphStep(c) /\ VertexShape'
<1>1. Deliver(c, m)
  BY DEF DeliverToVertex
<1>2. GraphStep(c) /\ GraphShape'
  BY <1>1, ShapeDeliver DEF GraphStep, Proceeds, VertexShape
<1>3. UNCHANGED <<setting, merging, committing, startRecord, waiting, removed>>
  BY DEF DeliverToVertex, Deliver
<1>4. ShowsElem(c)
  <2>1. Rec(m) \in SUBSET Elem
    BY RecElem DEF VertexShape
  <2>2. Show(c, Rec(m), TRUE) => ShowsElem(c)
    BY <2>1 DEF Show, ShowsElem
  <2> QED BY <2>2, KeptVertex DEF DeliverToVertex
<1>5. removed' \in SUBSET Elem
  BY <1>3 DEF VertexShape
<1>6. /\ setting'[c] # None \/ waiting'[c] = "commit" <=> committing'[c]
      /\ merging'[c] = None <=> waiting'[c] = "nobody"
      /\ setting'[c] = None \/ waiting'[c] # "commit"
  BY <1>3 DEF VertexShape
<1> QED BY <1>2, <1>3, <1>4, <1>5, <1>6, OneVertex, KeptVertex

LEMMA VertexShapeNext ==
  ASSUME VertexInv, VertexShape, [VertexNext]_allVars
  PROVE  VertexShape' /\ (UNCHANGED vars \/ \E c \in Client : GraphStep(c))
<1>1. CASE UNCHANGED allVars
  <2>1. UNCHANGED vars /\ UNCHANGED vertexVars
    BY <1>1 DEF allVars
  <2>2. GraphShape'
    BY <2>1, ShapeUnchanged DEF VertexShape
  <2>3. UNCHANGED <<setting, merging>>
    BY <2>1 DEF vars
  <2> QED BY <2>1, <2>2, <2>3 DEF VertexShape, vertexVars
<1>2. CASE VertexNext
  <2>1. PICK c \in Client :
          \/ UserEdit(c) \/ CommitUnderWay(c) \/ CommitNothing(c) \/ Commit(c)
          \/ CommitSigned(c) \/ MergeCommitSigned(c) \/ TouchVertex(c)
          \/ \E m \in Id : DeliverToVertex(c, m)
    BY <1>2 DEF VertexNext
  <2>2. Commits(c)
    BY DEF Commits, VertexInv, StartsEmpty
  <2> QED BY <2>1, <2>2, ShapeUserEdit, ShapeCommitUnderWay, ShapeCommitNothing,
             ShapeCommit, ShapeCommitSigned, ShapeMergeCommitSigned, ShapeTouchVertex,
             ShapeDeliverToVertex
<1> QED BY <1>1, <1>2

(* The types of the vertex and its repository; in particular a commit is   *)
(* under way exactly while its signature or the merge that follows it is   *)
(* pending (_commitPromise), and a merge is pending exactly while a commit *)
(* or a touch waits for it.                                                *)
THEOREM VertexTypeCorrect == VertexSpec => []VertexTypeOK
<1> DEFINE Inv == VertexInv /\ VertexShape
<1>1. VertexInit => Inv
  BY VertexInvInit, VertexShapeInit
<1>2. Inv /\ [VertexNext]_allVars => Inv'
  BY VertexInvNext, VertexShapeNext
<1>3. Inv => VertexTypeOK
  BY VertexShapeIsType
<1> QED BY <1>1, <1>2, <1>3, PTL DEF VertexSpec

(* The merges of editors whose vertices keep what they type see an         *)
(* ancestor too, if a commit arrives after its parents.                    *)
THEOREM VertexMergesSeeAncestors ==
  ASSUME \A x \in Conditions : ~x.gaps
  PROVE  VertexSpec => []MergesSeeAncestors
<1> DEFINE Inv == VertexInv /\ VertexShape /\ SeesInv
<1>1. VertexInit => Inv
  BY VertexInvInit, VertexShapeInit, SeesInit DEF VertexInit
<1>2. Inv /\ [VertexNext]_allVars => Inv'
  <2>1. SeesInv => ~conditions.gaps
    BY DEF SeesInv, GraphShape
  <2>2. Inv /\ [VertexNext]_allVars => SeesInv'
    BY <2>1, VertexShapeNext, SeesGraphStep, SeesUnchanged
  <2> QED BY <2>2, VertexInvNext, VertexShapeNext
<1>3. Inv => MergesSeeAncestors
  BY DEF SeesInv
<1> QED BY <1>1, <1>2, <1>3, PTL DEF VertexSpec
=============================================================================
