------------------------- MODULE SyncProtocolProofs -------------------------
(***************************************************************************)
(* Proofs about SyncProtocol for any number of clients and commits and any *)
(* number of faults: the variables keep their types, every node holds      *)
(* only commits of somebody who could write (Provenance), nobody reads what*)
(* is stored while he is no member (ReadWhileMember), and the protocol     *)
(* implements ReplicatedSet: whatever request, answer, tab or     *)
(* process is lost, nobody holds a commit that does not exist, forgets one *)
(* without a crash, or loses one that was saved.                           *)
(***************************************************************************)
EXTENDS SyncProtocol, TLAPS

(* A message built of parts of the right types is one (SyncMessage).       *)
LEMMA MessageType ==
  ASSUME NEW c \in Client, NEW live \in BOOLEAN, NEW stage \in Stage,
         NEW filter \in SUBSET Commit, NEW sent \in SUBSET Commit,
         NEW values \in SUBSET Commit
  PROVE  Message(c, live, stage, filter, sent, values) \in Msg
BY DEF Message, Msg

(* And its parts can be read back with their types.                        *)
LEMMA MessageFields ==
  ASSUME NEW m \in Msg
  PROVE  /\ m.from \in Client
         /\ m.live \in BOOLEAN
         /\ m.stage \in Stage
         /\ m.filter \in SUBSET Commit
         /\ m.sent \in SUBSET Commit
         /\ m.values \in SUBSET Commit
BY DEF Msg

(* A Bloom filter answers true for commits only (SyncMessage.build).       *)
LEMMA FilterType ==
  ASSUME NEW S \in SUBSET Commit, NEW fp \in SUBSET Commit
  PROVE  BloomFilter(S, fp) \in SUBSET Commit
BY DEF BloomFilter

(* What is left of a request nobody waits for is a message                 *)
(* (sendJSONToURL).                                                        *)
LEMMA AbandonType ==
  ASSUME TypeOK, NEW c \in Client, Abandon(c)
  PROVE  msgs' \in SUBSET Msg
<1> DEFINE Orphan(m) == Message(c, FALSE, m.stage, {}, m.sent, m.values)
<1>1. ASSUME NEW m \in msgs PROVE Orphan(m) \in Msg
  BY MessageFields, MessageType DEF TypeOK
<1>2. msgs' \subseteq msgs \cup {Orphan(m) : m \in msgs}
  <2>1. Pending(c) \subseteq msgs
    BY DEF Pending
  <2>2. CASE msgs' = msgs \ Pending(c)
    BY <2>2
  <2>3. CASE msgs' = (msgs \ Pending(c)) \cup
                       {Orphan(m) : m \in {p \in Pending(c) : p.stage # "response"}}
    <3> HIDE DEF Orphan
    <3> QED BY <2>1, <2>3
  <2> QED BY <2>2, <2>3 DEF Abandon
<1> HIDE DEF Orphan
<1> QED BY <1>1, <1>2 DEF TypeOK

(* Persist stores only commits and computes views that are sets of them.   *)
LEMMA PersistType ==
  ASSUME TypeOK, NEW c \in Client, NEW S \in SUBSET Commit, Persist(c, S),
         members' = members
  PROVE  /\ srv' \in SUBSET Commit
         /\ writeQ' \in SUBSET Commit
         /\ view' \in [Client -> {NoView} \cup SUBSET Commit]
         /\ view'[c] \in SUBSET Commit
         /\ entitled' \in [Client -> SUBSET Commit]
BY ConstantsOK DEF TypeOK, Persist, Stored, ViewsAfter, Readable

(* A server that starts again, from its log, has variables of the right    *)
(* types (loadRepoFromBackup).                                             *)
LEMMA RestartType ==
  ASSUME TypeOK, NEW v \in Nat, Restart(v), faults' \in [Fault -> Nat]
  PROVE  TypeOK'
BY DEF TypeOK, Restart

(* Faults are counted by natural numbers.                                  *)
LEMMA FailType ==
  ASSUME TypeOK, NEW f \in Fault, Fail(f)
  PROVE  faults' \in [Fault -> Nat]
BY DEF TypeOK, Fail

(* Every step keeps the types.                                             *)
LEMMA TypeStep == TypeOK /\ [Next]_vars => TypeOK'
<1> SUFFICES ASSUME TypeOK, [Next]_vars PROVE TypeOK'
  OBVIOUS
<1>1. ASSUME NEW c \in Client, NEW m \in Commit, CommitLocally(c, m)
      PROVE  TypeOK'
  BY <1>1 DEF TypeOK, CommitLocally, serverVars
<1>2. ASSUME NEW c \in Client, NEW m \in Commit, BackupToIDB(c, m)
      PROVE  TypeOK'
  BY <1>2 DEF TypeOK, BackupToIDB, serverVars
<1>3. ASSUME NEW c \in Client, LoadRepository(c) PROVE TypeOK'
  BY <1>3 DEF TypeOK, LoadRepository, Stored, PollsOnceLoaded, serverVars
<1>4. ASSUME NEW c \in Client, MarkRepositoryReady(c) PROVE TypeOK'
  BY <1>4 DEF TypeOK, MarkRepositoryReady, serverVars
<1>5. ASSUME NEW c \in Client, OpenRepository(c) PROVE TypeOK'
  BY <1>5 DEF TypeOK, OpenRepository, serverVars
<1>6. ASSUME NEW c \in Client, NEW fp \in SUBSET Commit, Send(c, fp)
      PROVE  TypeOK'
  <2>1. Submittable(c) \in SUBSET Commit
    BY DEF Submittable, TypeOK
  <2> DEFINE filter == IF IncludeMissing(c) THEN BloomFilter(Submittable(c), fp)
                                          ELSE {}
             values == IF IncludeMissing(c) THEN Submittable(c) \ serverFilter[c]
                                          ELSE {}
             m == Message(c, TRUE, "request", filter, values, values)
  <2>2. filter \in SUBSET Commit /\ values \in SUBSET Commit
    BY <2>1, FilterType
  <2>3. m \in Msg
    BY <2>2, MessageType DEF Stage
  <2>4. msgs' = msgs \cup {m}
    BY <1>6 DEF Send
  <2> HIDE DEF m
  <2>5. msgs' \in SUBSET Msg
    BY <2>3, <2>4 DEF TypeOK
  <2> QED BY <1>6, <2>5 DEF TypeOK, Send, clientVars, serverVars
<1>7. ASSUME NEW c \in Client, NEW fp \in SUBSET Commit, Reply(c, fp)
      PROVE  TypeOK'
  <2>1. PICK m \in msgs : Reply(c, fp)!(m)
    BY <1>7 DEF Reply
  <2>2. m.values \in SUBSET Commit /\ m.sent \in SUBSET Commit
    BY MessageFields DEF TypeOK
  <2>3. /\ srv' \in SUBSET Commit
        /\ writeQ' \in SUBSET Commit
        /\ view' \in [Client -> {NoView} \cup SUBSET Commit]
        /\ view'[c] \in SUBSET Commit
        /\ entitled' \in [Client -> SUBSET Commit]
    BY <2>1, <2>2, PersistType
  <2> DEFINE upToDate == version[c] >= srvVersion
             filter == IF upToDate THEN BloomFilter(view'[c], fp) ELSE {}
             missing == IF upToDate THEN view'[c] \ m.filter ELSE {}
             r == Message(c, TRUE, "response", filter, m.sent, missing)
  <2>4. filter \in SUBSET Commit /\ missing \in SUBSET Commit
    BY <2>3, FilterType
  <2>5. r \in Msg
    BY <2>2, <2>4, MessageType DEF Stage
  <2>6. msgs' = (msgs \ {m}) \cup {r}
    BY <2>1
  <2> HIDE DEF r
  <2>7. msgs' \in SUBSET Msg
    BY <2>5, <2>6 DEF TypeOK
  <2> QED BY <2>1, <2>3, <2>7 DEF TypeOK, clientVars
<1>8. ASSUME NEW c \in Client, Receive(c) PROVE TypeOK'
  <2>1. PICK m \in Pending(c) : Receive(c)!(m)
    BY <1>8 DEF Receive
  <2>2. m \in msgs /\ m \in Msg
    BY DEF Pending, TypeOK
  <2>3. m.values \in SUBSET Commit /\ m.filter \in SUBSET Commit
    BY <2>2 DEF Msg
  <2>4. submitCount' \in [Client -> [Commit -> Nat]]
    BY <2>1 DEF TypeOK
  <2>5. successes' \in [Client -> 0..1]
    <3> DEFINE goesOn == sync[c] = "active" /\ ~(successes[c] + 1 > CycleCount)
               i == IF goesOn THEN successes[c] + 1 ELSE 0
    <3>1. i \in 0..1
      BY SMTT(30) DEF TypeOK, CycleCount
    <3>2. successes' = [successes EXCEPT ![c] = i]
      BY <2>1
    <3> QED BY <3>1, <3>2 DEF TypeOK
  <2>6. /\ sync' \in [Client -> {"off", "active", "done"}]
        /\ ready' \in [Client -> BOOLEAN]
        /\ syncFinished' \in [Client -> BOOLEAN]
        /\ goal' \in [Client -> SUBSET Commit]
    BY <2>1 DEF TypeOK
  <2>7. /\ repo' \in [Client -> SUBSET Commit]
        /\ serverFilter' \in [Client -> {NoFilter} \cup SUBSET Commit]
        /\ online' \in [Client -> BOOLEAN]
        /\ msgs' \in SUBSET Msg
    BY <2>1, <2>3 DEF TypeOK, Stored
  <2> QED BY <2>1, <2>4, <2>5, <2>6, <2>7 DEF TypeOK, serverVars
<1>9. ASSUME NEW c \in Client, Timeout(c) PROVE TypeOK'
  <2>1. msgs' \in SUBSET Msg /\ faults' \in [Fault -> Nat]
    BY <1>9, AbandonType, FailType DEF Timeout, Fault
  <2> QED BY <1>9, <2>1 DEF TypeOK, Timeout, serverVars
<1>10. ASSUME NEW c \in Client, Reload(c) PROVE TypeOK'
  <2>1. msgs' \in SUBSET Msg /\ faults' \in [Fault -> Nat]
    BY <1>10, AbandonType, FailType DEF Reload, Fault
  <2> QED BY <1>10, <2>1 DEF TypeOK, Reload, serverVars
<1>11. ASSUME NEW c \in Client, Verify(c) PROVE TypeOK'
  <2>1. PICK m \in msgs, known \in SUBSET srv :
          /\ msgs' = (msgs \ {m}) \cup
                       {Message(c, m.live, "verified", m.filter, m.sent,
                                {x \in m.values \ known : MayWrite(x)})}
          /\ UNCHANGED <<clientVars, serverVars, created, goal, faults>>
    BY <1>11 DEF Verify
  <2> DEFINE v == Message(c, m.live, "verified", m.filter, m.sent,
                          {x \in m.values \ known : MayWrite(x)})
  <2>2. m \in Msg
    BY DEF TypeOK
  <2>3. v \in Msg
    BY <2>2, MessageFields, MessageType DEF Stage
  <2> HIDE DEF v
  <2>4. msgs' \in SUBSET Msg
    BY <2>1, <2>3 DEF TypeOK, v
  <2> QED BY <2>1, <2>4 DEF TypeOK, clientVars, serverVars
<1>12. ASSUME NEW c \in Client, ReplyToNobody(c) PROVE TypeOK'
  <2>1. PICK m \in msgs : ReplyToNobody(c)!(m)
    BY <1>12 DEF ReplyToNobody
  <2>2. m.values \in SUBSET Commit
    BY DEF TypeOK, Msg
  <2> QED BY <2>1, <2>2, PersistType DEF TypeOK, clientVars
<1>13. ASSUME NEW c \in Client, Grant(c) \/ Revoke(c) PROVE TypeOK'
  <2>1. CASE Grant(c)
    BY <2>1 DEF TypeOK, Grant, clientVars
  <2>2. CASE Revoke(c)
    BY <2>2, FailType DEF TypeOK, Revoke, Fault, clientVars
  <2> QED BY <1>13, <2>1, <2>2
<1>14. ASSUME NEW x \in Commit, Flush(x) PROVE TypeOK'
  BY <1>14 DEF TypeOK, Flush, clientVars
<1>15. CASE SetupDone
  BY <1>15 DEF TypeOK, SetupDone, clientVars
<1>16. CASE Crash
  BY <1>16, RestartType, FailType DEF Crash, Fault, TypeOK
<1>17. CASE Upgrade
  BY <1>17, RestartType, FailType DEF Upgrade, Fault, TypeOK
<1>18. CASE UNCHANGED vars
  BY <1>18 DEF TypeOK, vars, clientVars, serverVars
<1> QED
  BY <1>1, <1>2, <1>3, <1>4, <1>5, <1>6, <1>7, <1>8, <1>9, <1>10, <1>11,
     <1>12, <1>13, <1>14, <1>15, <1>16, <1>17, <1>18 DEF Next

(* A fresh client and a fresh server have variables of the right types.    *)
LEMMA InitType == Init => TypeOK
<1> SUFFICES ASSUME Init PROVE TypeOK
  OBVIOUS
<1>1. /\ repo \in [Client -> SUBSET Commit]
      /\ idb \in [Client -> SUBSET Commit]
      /\ goal \in [Client -> SUBSET Commit]
      /\ entitled \in [Client -> SUBSET Commit]
      /\ submitCount \in [Client -> [Commit -> Nat]]
      /\ faults \in [Fault -> Nat]
  BY DEF Init
<1>2. /\ serverFilter \in [Client -> {NoFilter} \cup SUBSET Commit]
      /\ view \in [Client -> {NoView} \cup SUBSET Commit]
  BY DEF Init
<1>3. /\ loaded \in [Client -> BOOLEAN]
      /\ ready \in [Client -> BOOLEAN]
      /\ online \in [Client -> BOOLEAN]
      /\ sync \in [Client -> {"off", "active", "done"}]
      /\ syncFinished \in [Client -> BOOLEAN]
      /\ version \in [Client -> Nat]
  BY DEF Init
<1>4. successes \in [Client -> 0..1]
  BY DEF Init
<1> QED BY <1>1, <1>2, <1>3, <1>4, ConstantsOK DEF Init, TypeOK

(* The variables keep their types: requests, answers and the sets of       *)
(* commits of every node are what the protocol's messages declare, and a   *)
(* sync() never counts more than one cycle before its last.                *)
THEOREM TypeCorrect == Spec => []TypeOK
<1>1. Init => TypeOK
  BY InitType
<1>2. TypeOK /\ [Next]_vars => TypeOK'
  BY TypeStep
<1> QED BY <1>1, <1>2, PTL DEF Spec
-----------------------------------------------------------------------------
(* Provenance is not inductive: a commit is in a request or an answer for  *)
(* some steps before it is stored, and in a view before it is sent; and who*)
(* is a member now may sign whatever commit of his there is.               *)
InFlightOK ==
  \A m \in msgs :
    /\ m.values \subseteq created
    /\ m.stage # "request" => m.values \subseteq eligible
ViewsOK == \A c \in Client : view[c] # NoView => view[c] \subseteq eligible
EligibleOK ==
  /\ eligible \subseteq created
  /\ \A m \in created : Author[m] \in members => m \in eligible
IInv == TypeOK /\ Provenance /\ InFlightOK /\ ViewsOK /\ EligibleOK

(* Commits are never forgotten, and who loses his membership keeps what it *)
(* allowed: the server does not take back what it accepted from him or sent*)
(* to him.                                                                 *)
Grows == /\ created \subseteq created' /\ eligible \subseteq eligible'
         /\ \A c \in Client : entitled[c] \subseteq entitled'[c]

LEMMA HistoryGrows == ASSUME TypeOK, [Next]_vars PROVE Grows
<1>1. ASSUME NEW c \in Client, NEW m \in Commit,
             CommitLocally(c, m) \/ BackupToIDB(c, m)
      PROVE  Grows
  BY <1>1 DEF Grows, CommitLocally, BackupToIDB, serverVars
<1>2. ASSUME NEW c \in Client,
             \/ LoadRepository(c) \/ MarkRepositoryReady(c) \/ OpenRepository(c)
             \/ Receive(c) \/ Timeout(c) \/ Reload(c)
             \/ \E fp \in SUBSET Commit : Send(c, fp)
      PROVE  Grows
  BY <1>2 DEF Grows, LoadRepository, MarkRepositoryReady, OpenRepository,
              Receive, Timeout, Reload, Send, serverVars
<1>3. ASSUME NEW c \in Client,
             \/ Verify(c) \/ ReplyToNobody(c) \/ Grant(c) \/ Revoke(c)
             \/ \E fp \in SUBSET Commit : Reply(c, fp)
      PROVE  Grows
  <2>1. CASE Verify(c)
    BY <2>1 DEF Grows, Verify, serverVars
  <2>2. CASE ReplyToNobody(c)
    BY <2>2 DEF Grows, ReplyToNobody, Persist
  <2>3. CASE Grant(c)
    BY <2>3 DEF Grows, Grant, TypeOK
  <2>4. CASE Revoke(c)
    BY <2>4 DEF Grows, Revoke
  <2>5. ASSUME NEW fp \in SUBSET Commit, Reply(c, fp)
        PROVE  Grows
    BY <2>5 DEF Grows, Reply, Persist
  <2> QED BY <1>3, <2>1, <2>2, <2>3, <2>4, <2>5
<1>4. CASE (\E x \in Commit : Flush(x)) \/ SetupDone \/ Crash \/ Upgrade
  BY <1>4 DEF Grows, Flush, SetupDone, Crash, Upgrade, Restart
<1>5. CASE UNCHANGED vars
  BY <1>5 DEF Grows, vars, serverVars
<1> QED
  BY <1>1, <1>2, <1>3, <1>4, <1>5 DEF Next

(* The commits of members stay eligible: a commit is made or a membership  *)
(* begins only together with what makes it so (VertexManager.commit, the   *)
(* workspace record).                                                      *)
LEMMA EligibleStep == ASSUME TypeOK, EligibleOK, [Next]_vars PROVE EligibleOK'
<1>1. ASSUME NEW c \in Client, NEW m \in Commit, CommitLocally(c, m)
      PROVE  EligibleOK'
  BY <1>1 DEF EligibleOK, CommitLocally
<1>2. ASSUME NEW c \in Client, Grant(c) PROVE EligibleOK'
  BY <1>2 DEF EligibleOK, Grant
<1>3. ASSUME created' = created, eligible' = eligible, members' \subseteq members
      PROVE  EligibleOK'
  BY <1>3 DEF EligibleOK
<1>4. ASSUME NEW c \in Client,
             \/ \E m \in Commit : BackupToIDB(c, m)
             \/ LoadRepository(c) \/ MarkRepositoryReady(c) \/ OpenRepository(c)
             \/ Receive(c) \/ Timeout(c) \/ Reload(c)
             \/ \E fp \in SUBSET Commit : Send(c, fp)
      PROVE  EligibleOK'
  BY <1>3, <1>4 DEF BackupToIDB, LoadRepository, MarkRepositoryReady,
                    OpenRepository, Receive, Timeout, Reload, Send, serverVars
<1>5. ASSUME NEW c \in Client,
             \/ Verify(c) \/ ReplyToNobody(c) \/ Revoke(c)
             \/ \E fp \in SUBSET Commit : Reply(c, fp)
      PROVE  EligibleOK'
  <2>1. CASE Verify(c)
    BY <1>3, <2>1 DEF Verify, serverVars
  <2>2. CASE ReplyToNobody(c)
    BY <1>3, <2>2 DEF ReplyToNobody
  <2>3. CASE Revoke(c)
    BY <1>3, <2>3 DEF Revoke
  <2>4. ASSUME NEW fp \in SUBSET Commit, Reply(c, fp) PROVE EligibleOK'
    BY <1>3, <2>4 DEF Reply
  <2> QED BY <1>5, <2>1, <2>2, <2>3, <2>4
<1>6. CASE (\E x \in Commit : Flush(x)) \/ SetupDone \/ Crash \/ Upgrade
  BY <1>3, <1>6 DEF Flush, SetupDone, Crash, Upgrade, Restart
<1>7. CASE UNCHANGED vars
  BY <1>3, <1>7 DEF vars, serverVars
<1> QED
  BY <1>1, <1>2, <1>4, <1>5, <1>6, <1>7 DEF Next

(* The part of a step's effect that Provenance is about; parts that an     *)
(* action leaves alone, or only takes from, are kept.                      *)
LEMMA NodesKept ==
  ASSUME IInv, TypeOK', created \subseteq created', eligible \subseteq eligible',
         srv' \subseteq srv \cup eligible',
         disk' \cup writeQ' \subseteq srv',
         \A c \in Client :
           repo'[c] \cup idb'[c] \subseteq repo[c] \cup idb[c] \cup MayHold(c)'
  PROVE  Provenance'
BY DEF IInv, TypeOK, Provenance, MayHold

(* Taking messages away keeps what InFlightOK says of the others.          *)
LEMMA MessagesKept ==
  ASSUME IInv, created \subseteq created', eligible \subseteq eligible',
         msgs' \subseteq msgs
  PROVE  InFlightOK'
BY DEF IInv, InFlightOK

(* And leaving the views alone keeps ViewsOK (_cachedCommitsPerUser).      *)
LEMMA ViewsKept ==
  ASSUME IInv, created \subseteq created', eligible \subseteq eligible',
         view' = view
  PROVE  ViewsOK'
BY DEF IInv, ViewsOK

(* A request that was given up on carries what it carried before.          *)
LEMMA AbandonKept ==
  ASSUME IInv, NEW c \in Client, Abandon(c), created' = created,
         eligible' = eligible
  PROVE  InFlightOK'
BY DEF IInv, InFlightOK, Abandon, Pending, Message

(* What Persist stores was verified, so stores and views stay signed.      *)
LEMMA PersistSigned ==
  ASSUME IInv, NEW c \in Client, NEW S \in SUBSET Commit, Persist(c, S),
         S \subseteq eligible, eligible' = eligible,
         disk' = disk
  PROVE  /\ srv' \subseteq srv \cup eligible'
         /\ disk' \cup writeQ' \subseteq srv'
         /\ ViewsOK'
         /\ view'[c] \subseteq eligible'
<1>2. srv' = srv \cup S /\ srv' \subseteq eligible
  BY DEF Persist, Stored, IInv, Provenance
<1>3. disk' \cup writeQ' \subseteq srv'
  BY <1>2 DEF Persist, IInv, Provenance
<1>4. \A u \in Client : ViewsAfter(S)[u] = NoView \/ ViewsAfter(S)[u] \subseteq eligible
  BY DEF ViewsAfter, IInv, ViewsOK
<1>5. Readable(c, srv') \subseteq eligible
  BY <1>2 DEF Readable
<1>6. ViewsAfter(S) \in [Client -> {NoView} \cup SUBSET Commit]
  BY DEF ViewsAfter, IInv, TypeOK
<1>7. /\ \A u \in Client : view'[u] = NoView \/ view'[u] \subseteq eligible
      /\ view'[c] \subseteq eligible
  BY <1>4, <1>5, <1>6 DEF Persist
<1> QED BY <1>2, <1>3, <1>7 DEF ViewsOK

(* Every step keeps the invariant.                                         *)
LEMMA IInvStep == IInv /\ [Next]_vars => IInv'
<1> SUFFICES ASSUME IInv, [Next]_vars PROVE IInv'
  OBVIOUS
<1>a. TypeOK /\ TypeOK'
  BY TypeStep DEF IInv
<1>b. created \subseteq created' /\ eligible \subseteq eligible' /\ EligibleOK'
  BY <1>a, HistoryGrows, EligibleStep DEF Grows, IInv
<1>c. eligible \subseteq eligible' /\ srv \subseteq eligible /\ disk \cup writeQ \subseteq srv
  BY <1>b DEF IInv, Provenance
<1>d. \A c \in Client : eligible' \subseteq MayHold(c)'
  BY DEF MayHold
<1> DEFINE Kept == Provenance' /\ InFlightOK' /\ ViewsOK'
<1>1. ASSUME NEW c \in Client, NEW m \in Commit, CommitLocally(c, m)
      PROVE  Kept
  <2>1. repo' = [repo EXCEPT ![c] = @ \cup {m}] /\ idb' = idb
    BY <1>1 DEF CommitLocally
  <2>2. m \in MayHold(c)'
    BY <1>1 DEF CommitLocally, MayHold
  <2>3. \A d \in Client :
          repo'[d] \cup idb'[d] \subseteq repo[d] \cup idb[d] \cup MayHold(d)'
    BY <2>1, <2>2, <1>a DEF TypeOK
  <2>4. /\ srv' = srv /\ writeQ' = writeQ /\ disk' = disk
        /\ view' = view /\ msgs' = msgs
    BY <1>1 DEF CommitLocally, serverVars
  <2> QED BY <2>3, <2>4, <1>a, <1>b, <1>c, NodesKept, MessagesKept, ViewsKept
<1>2. ASSUME NEW c \in Client, NEW m \in Commit, BackupToIDB(c, m)
      PROVE  Kept
  <2>1. \A d \in Client :
          repo'[d] \cup idb'[d] \subseteq repo[d] \cup idb[d] \cup MayHold(d)'
    BY <1>2, <1>a DEF BackupToIDB, TypeOK
  <2>2. /\ srv' = srv /\ writeQ' = writeQ /\ disk' = disk
        /\ view' = view /\ msgs' = msgs
    BY <1>2 DEF BackupToIDB, serverVars
  <2> QED BY <2>1, <2>2, <1>a, <1>b, <1>c, NodesKept, MessagesKept, ViewsKept
<1>3. ASSUME NEW c \in Client, LoadRepository(c) PROVE Kept
  <2>1. \A d \in Client :
          repo'[d] \cup idb'[d] \subseteq repo[d] \cup idb[d] \cup MayHold(d)'
    BY <1>3, <1>a DEF LoadRepository, Stored, TypeOK
  <2>2. /\ srv' = srv /\ writeQ' = writeQ /\ disk' = disk
        /\ view' = view /\ msgs' = msgs
    BY <1>3 DEF LoadRepository, serverVars
  <2> QED BY <2>1, <2>2, <1>a, <1>b, <1>c, NodesKept, MessagesKept, ViewsKept
<1>4. ASSUME NEW c \in Client, MarkRepositoryReady(c) \/ OpenRepository(c)
      PROVE  Kept
  <2>1. /\ srv' = srv /\ writeQ' = writeQ /\ disk' = disk
        /\ view' = view /\ msgs' = msgs /\ repo' = repo /\ idb' = idb
    BY <1>4 DEF MarkRepositoryReady, OpenRepository, serverVars
  <2> QED BY <2>1, <1>a, <1>b, <1>c, NodesKept, MessagesKept, ViewsKept
<1>5. ASSUME NEW c \in Client, NEW fp \in SUBSET Commit, Send(c, fp)
      PROVE  Kept
  <2>1. PICK filter, values :
          /\ values \subseteq Submittable(c)
          /\ msgs' = msgs \cup {Message(c, TRUE, "request", filter, values, values)}
    BY <1>5 DEF Send
  <2>2. values \subseteq created
    BY <2>1 DEF Submittable, IInv, Provenance, MayHold, EligibleOK
  <2>3. /\ srv' = srv /\ writeQ' = writeQ /\ disk' = disk /\ view' = view
        /\ repo' = repo /\ idb' = idb /\ created' = created /\ eligible' = eligible
    BY <1>5 DEF Send, clientVars, serverVars
  <2>4. InFlightOK'
    BY <2>1, <2>2, <2>3 DEF IInv, InFlightOK, Message
  <2> QED BY <2>3, <2>4, <1>a, <1>b, <1>c, NodesKept, ViewsKept
<1>6. ASSUME NEW c \in Client, NEW fp \in SUBSET Commit, Reply(c, fp)
      PROVE  Kept
  <2>1. PICK m \in msgs : Reply(c, fp)!(m)
    BY <1>6 DEF Reply
  <2>2. /\ repo' = repo /\ idb' = idb /\ created' = created
        /\ eligible' = eligible /\ disk' = disk
    BY <2>1 DEF clientVars
  <2>3. m.values \in SUBSET Commit /\ m.values \subseteq eligible
    BY <2>1, <1>a, MessageFields DEF IInv, InFlightOK, TypeOK
  <2>4. /\ srv' \subseteq srv \cup eligible'
        /\ disk' \cup writeQ' \subseteq srv'
        /\ ViewsOK'
        /\ view'[c] \subseteq eligible'
    BY <2>1, <2>2, <2>3, PersistSigned
  <2>5. PICK filter, missing :
          /\ missing \subseteq view'[c]
          /\ msgs' = (msgs \ {m}) \cup
                       {Message(c, TRUE, "response", filter, m.sent, missing)}
    BY <2>1
  <2>6. missing \subseteq eligible' /\ missing \subseteq created'
    BY <2>2, <2>4, <2>5 DEF IInv, EligibleOK
  <2>7. InFlightOK'
    BY <2>2, <2>5, <2>6 DEF IInv, InFlightOK, Message
  <2> QED BY <2>2, <2>4, <2>7, <1>a, <1>b, NodesKept
<1>7. ASSUME NEW c \in Client, Receive(c) PROVE Kept
  <2>1. PICK m \in Pending(c) : Receive(c)!(m)
    BY <1>7 DEF Receive
  <2>2. m \in msgs /\ m.values \subseteq eligible
    BY <2>1 DEF Pending, IInv, InFlightOK
  <2>3. repo' = [repo EXCEPT ![c] = @ \cup m.values] /\ idb' = idb
    BY <2>1 DEF Stored
  <2>4. \A d \in Client :
          repo'[d] \cup idb'[d] \subseteq repo[d] \cup idb[d] \cup MayHold(d)'
    BY <2>2, <2>3, <1>a, <1>c, <1>d DEF TypeOK
  <2>5. /\ srv' = srv /\ writeQ' = writeQ /\ disk' = disk /\ view' = view
        /\ msgs' \subseteq msgs
    BY <2>1 DEF serverVars
  <2> QED BY <2>4, <2>5, <1>a, <1>b, <1>c, NodesKept, MessagesKept, ViewsKept
<1>8. ASSUME NEW c \in Client, Timeout(c) \/ Reload(c) PROVE Kept
  <2>1. /\ srv' = srv /\ writeQ' = writeQ /\ disk' = disk /\ view' = view
        /\ idb' = idb /\ created' = created /\ eligible' = eligible
        /\ Abandon(c)
    BY <1>8 DEF Timeout, Reload, serverVars
  <2>2. \A d \in Client : repo'[d] \subseteq repo[d]
    BY <1>8, <1>a DEF Timeout, Reload, TypeOK
  <2> QED BY <2>1, <2>2, <1>a, <1>b, <1>c, NodesKept, AbandonKept, ViewsKept
<1>9. ASSUME NEW c \in Client, Verify(c) PROVE Kept
  <2>1. PICK m \in msgs, known \in SUBSET srv :
          /\ msgs' = (msgs \ {m}) \cup
                       {Message(c, m.live, "verified", m.filter, m.sent,
                                {x \in m.values \ known : MayWrite(x)})}
          /\ UNCHANGED <<clientVars, serverVars, created, goal, faults>>
    BY <1>9 DEF Verify
  <2> DEFINE verified == {x \in m.values \ known : MayWrite(x)}
  <2>2. verified \subseteq eligible /\ verified \subseteq created
    BY DEF IInv, InFlightOK, EligibleOK, MayWrite
  <2>3. /\ srv' = srv /\ writeQ' = writeQ /\ disk' = disk /\ view' = view
        /\ repo' = repo /\ idb' = idb /\ created' = created /\ eligible' = eligible
    BY <2>1 DEF clientVars, serverVars
  <2> HIDE DEF verified
  <2>4. InFlightOK'
    BY <2>1, <2>2, <2>3 DEF IInv, InFlightOK, Message, verified
  <2> QED BY <2>3, <2>4, <1>a, <1>b, <1>c, NodesKept, ViewsKept
<1>10. ASSUME NEW c \in Client, ReplyToNobody(c) PROVE Kept
  <2>1. PICK m \in msgs : ReplyToNobody(c)!(m)
    BY <1>10 DEF ReplyToNobody
  <2>2. /\ repo' = repo /\ idb' = idb /\ created' = created
        /\ eligible' = eligible /\ disk' = disk /\ msgs' \subseteq msgs
    BY <2>1 DEF clientVars
  <2>3. m.values \in SUBSET Commit /\ m.values \subseteq eligible
    BY <2>1, <1>a, MessageFields DEF IInv, InFlightOK, TypeOK
  <2>4. /\ srv' \subseteq srv \cup eligible'
        /\ disk' \cup writeQ' \subseteq srv'
        /\ ViewsOK'
    BY <2>1, <2>2, <2>3, PersistSigned
  <2> QED BY <2>2, <2>4, <1>a, <1>b, NodesKept, MessagesKept
<1>11. ASSUME NEW c \in Client, Grant(c) \/ Revoke(c) PROVE Kept
  <2>1. /\ srv' = srv /\ writeQ' = writeQ /\ disk' = disk
        /\ view' = view /\ msgs' = msgs /\ repo' = repo /\ idb' = idb
    BY <1>11 DEF Grant, Revoke, clientVars
  <2> QED BY <2>1, <1>a, <1>b, <1>c, NodesKept, MessagesKept, ViewsKept
<1>12. ASSUME NEW x \in Commit, Flush(x) PROVE Kept
  <2>1. /\ srv' = srv /\ disk' \cup writeQ' \subseteq disk \cup writeQ
        /\ view' = view /\ msgs' = msgs /\ repo' = repo /\ idb' = idb
    BY <1>12 DEF Flush, clientVars
  <2> QED BY <2>1, <1>a, <1>b, <1>c, NodesKept, MessagesKept, ViewsKept
<1>13. ASSUME SetupDone PROVE Kept
  <2>1. /\ srv' = srv /\ writeQ' = writeQ /\ disk' = disk
        /\ view' = view /\ msgs' = msgs /\ repo' = repo /\ idb' = idb
    BY <1>13 DEF SetupDone, clientVars
  <2> QED BY <2>1, <1>a, <1>b, <1>c, NodesKept, MessagesKept, ViewsKept
<1>14. ASSUME NEW v, Restart(v) PROVE Kept
  <2>1. /\ srv' = disk /\ writeQ' = {} /\ disk' = disk
        /\ msgs' \subseteq msgs /\ repo' = repo /\ idb' = idb
    BY <1>14 DEF Restart
  <2>2. \A c \in Client : view'[c] = NoView
    BY <1>14 DEF Restart
  <2> QED BY <2>1, <2>2, <1>a, <1>b, <1>c, NodesKept, MessagesKept DEF ViewsOK
<1>15. ASSUME Crash \/ Upgrade PROVE Kept
  BY <1>14, <1>15 DEF Crash, Upgrade
<1>16. ASSUME UNCHANGED vars PROVE Kept
  <2>1. /\ srv' = srv /\ writeQ' = writeQ /\ disk' = disk
        /\ view' = view /\ msgs' = msgs /\ repo' = repo /\ idb' = idb
    BY <1>16 DEF vars, clientVars, serverVars
  <2> QED BY <2>1, <1>a, <1>b, <1>c, NodesKept, MessagesKept, ViewsKept
<1>17. Kept
  BY <1>1, <1>2, <1>3, <1>4, <1>5, <1>6, <1>7, <1>8, <1>9, <1>10, <1>11,
     <1>12, <1>13, <1>15, <1>16 DEF Next
<1> QED BY <1>a, <1>b, <1>17 DEF IInv

(* Nothing is stored or under way at first.                                *)
LEMMA InitIInv == Init => IInv
<1> SUFFICES ASSUME Init PROVE IInv
  OBVIOUS
<1>1. TypeOK
  BY InitType
<1>2. Provenance /\ InFlightOK /\ ViewsOK /\ EligibleOK
  BY DEF Init, Provenance, InFlightOK, ViewsOK, EligibleOK
<1> QED BY <1>1, <1>2 DEF IInv

(* What a node keeps comes from somebody who may write: the server stores  *)
(* only commits that existed while their signer was a member, whatever     *)
(* client relays them and whoever joins or is removed before, while and    *)
(* after they are verified; its log holds nothing its memory does not, and *)
(* a client holds only such commits and its own.                           *)
THEOREM ProvenanceHolds == Spec => []Provenance
<1>1. IInv => Provenance
  BY DEF IInv
<1> QED BY <1>1, InitIInv, IInvStep, PTL DEF Spec
------------------------------------------------------------------------------
(* Reading ends with the membership.                                       *)

(* ReadWhileMember is not inductive without the backup: what a tab saved   *)
(* it loads again.                                                         *)
ReadersOK ==
  \A c \in Client :
    /\ view[c] # NoView => view[c] \subseteq srv \cap entitled[c]
    /\ \A m \in msgs :
         m.from = c /\ m.stage = "response" => m.values \subseteq entitled[c]
    /\ \A x \in repo[c] \cup idb[c] : Author[x] = c \/ x \in entitled[c]

(* A step that adds no answer, and to the stores of the clients nothing but*)
(* what they signed, keeps it, whoever joins or is removed.                *)
LEMMA ReadersKept ==
  ASSUME ReadersOK, Grows, srv' = srv, view' = view,
         \A m \in msgs' : m.stage = "response" => m \in msgs,
         \A c \in Client : \A x \in repo'[c] \cup idb'[c] :
           x \in repo[c] \cup idb[c] \/ Author[x] = c
  PROVE  ReadersOK'
BY DEF ReadersOK, Grows

(* Abandon drops answers and invents none (sendJSONToURL).                 *)
LEMMA AbandonAnswers ==
  ASSUME TypeOK, NEW c \in Client, Abandon(c)
  PROVE  \A m \in msgs' : m.stage = "response" => m \in msgs
BY DEF Abandon, Pending, Message

(* Persist computes the view of c alone, of what c may read: all there is  *)
(* for a member, nothing for anybody else; whatever is stored drops the    *)
(* views of the others, removed members among them.                        *)
LEMMA PersistViews ==
  ASSUME TypeOK, ReadersOK, NEW c \in Client, NEW S \in SUBSET Commit,
         Persist(c, S)
  PROVE  \A d \in Client : view'[d] # NoView => view'[d] \subseteq srv' \cap entitled'[d]
<1>1. srv \subseteq srv' /\ \A d \in Client : entitled[d] \subseteq entitled'[d]
  BY DEF Persist, Stored
<1>2. ViewsAfter(S) \in [Client -> {NoView} \cup SUBSET Commit]
  BY DEF ViewsAfter, TypeOK
<1>3. \A d \in Client :
        ViewsAfter(S)[d] # NoView => ViewsAfter(S)[d] \subseteq srv \cap entitled[d]
  BY DEF ViewsAfter, ReadersOK
<1>4. Readable(c, srv') \subseteq srv' \cap entitled'[c]
  BY DEF Readable, Persist
<1>5. view' = [ViewsAfter(S) EXCEPT ![c] = IF @ = NoView THEN Readable(c, srv')
                                                        ELSE @]
  BY DEF Persist
<1> QED BY <1>1, <1>2, <1>3, <1>4, <1>5

(* Every step keeps it: only an answer tells a client of commits by others,*)
(* and it is read off a view of his.                                       *)
LEMMA ReadersStep == TypeOK /\ ReadersOK /\ [Next]_vars => ReadersOK'
<1> SUFFICES ASSUME TypeOK, ReadersOK, [Next]_vars PROVE ReadersOK'
  OBVIOUS
<1>a. TypeOK' /\ Grows
  BY TypeStep, HistoryGrows
<1>1. ASSUME NEW c \in Client, NEW m \in Commit,
             CommitLocally(c, m) \/ BackupToIDB(c, m)
      PROVE  ReadersOK'
  <2>1. srv' = srv /\ view' = view /\ msgs' = msgs
    BY <1>1 DEF CommitLocally, BackupToIDB, serverVars
  <2>2. \A d \in Client : \A x \in repo'[d] \cup idb'[d] :
          x \in repo[d] \cup idb[d] \/ Author[x] = d
    <3>1. CASE CommitLocally(c, m)
      BY <3>1 DEF CommitLocally, TypeOK
    <3>2. CASE BackupToIDB(c, m)
      BY <3>2 DEF BackupToIDB, TypeOK
    <3> QED BY <1>1, <3>1, <3>2
  <2> QED BY <2>1, <2>2, <1>a, ReadersKept
<1>2. ASSUME NEW c \in Client,
             LoadRepository(c) \/ MarkRepositoryReady(c) \/ OpenRepository(c)
      PROVE  ReadersOK'
  <2>1. /\ srv' = srv /\ view' = view /\ msgs' = msgs /\ idb' = idb
    BY <1>2 DEF LoadRepository, MarkRepositoryReady, OpenRepository, serverVars
  <2>2. \A d \in Client : repo'[d] \subseteq repo[d] \cup idb[d]
    <3>1. CASE LoadRepository(c)
      BY <3>1 DEF LoadRepository, Stored, TypeOK
    <3>2. CASE MarkRepositoryReady(c) \/ OpenRepository(c)
      BY <3>2 DEF MarkRepositoryReady, OpenRepository
    <3> QED BY <1>2, <3>1, <3>2
  <2> QED BY <2>1, <2>2, <1>a, ReadersKept
<1>3. ASSUME NEW c \in Client, NEW fp \in SUBSET Commit, Send(c, fp)
      PROVE  ReadersOK'
  <2>1. /\ srv' = srv /\ view' = view /\ repo' = repo /\ idb' = idb
    BY <1>3 DEF Send, clientVars, serverVars
  <2>2. \A m \in msgs' : m.stage = "response" => m \in msgs
    BY <1>3 DEF Send, Message
  <2> QED BY <2>1, <2>2, <1>a, ReadersKept
<1>4. ASSUME NEW c \in Client, NEW fp \in SUBSET Commit, Reply(c, fp)
      PROVE  ReadersOK'
  <2>1. PICK m \in msgs : Reply(c, fp)!(m)
    BY <1>4 DEF Reply
  <2>2. repo' = repo /\ idb' = idb
    BY <2>1 DEF clientVars
  <2>3. m.values \in SUBSET Commit
    BY MessageFields DEF TypeOK
  <2>4. /\ \A d \in Client : view'[d] # NoView => view'[d] \subseteq srv' \cap entitled'[d]
        /\ view'[c] # NoView
    BY <2>1, <2>3, PersistViews, PersistType, ConstantsOK
  <2>5. PICK filter, missing :
          /\ missing \subseteq view'[c]
          /\ msgs' = (msgs \ {m}) \cup
                       {Message(c, TRUE, "response", filter, m.sent, missing)}
    BY <2>1
  <2>6. \A d \in Client : \A k \in msgs' :
          k.from = d /\ k.stage = "response" => k.values \subseteq entitled'[d]
    BY <1>a, <2>4, <2>5 DEF ReadersOK, Grows, Message
  <2> QED BY <1>a, <2>2, <2>4, <2>6 DEF ReadersOK, Grows
<1>5. ASSUME NEW c \in Client, Receive(c) PROVE ReadersOK'
  <2>1. PICK m \in Pending(c) : Receive(c)!(m)
    BY <1>5 DEF Receive
  <2>2. m \in msgs /\ m.values \subseteq entitled[c]
    BY <2>1 DEF Pending, ReadersOK
  <2>3. /\ srv' = srv /\ view' = view /\ entitled' = entitled /\ idb' = idb
        /\ msgs' \subseteq msgs
    BY <2>1 DEF serverVars
  <2>4. \A d \in Client : repo'[d] \subseteq repo[d] \cup entitled[d]
    BY <2>1, <2>2 DEF Stored, TypeOK
  <2> QED BY <2>3, <2>4 DEF ReadersOK
<1>6. ASSUME NEW c \in Client, Timeout(c) \/ Reload(c) PROVE ReadersOK'
  <2>1. /\ srv' = srv /\ view' = view /\ idb' = idb /\ Abandon(c)
    BY <1>6 DEF Timeout, Reload, serverVars
  <2>2. \A d \in Client : repo'[d] \subseteq repo[d]
    BY <1>6 DEF Timeout, Reload, TypeOK
  <2> QED BY <2>1, <2>2, <1>a, AbandonAnswers, ReadersKept
<1>7. ASSUME NEW c \in Client, Verify(c) PROVE ReadersOK'
  <2>1. /\ srv' = srv /\ view' = view /\ repo' = repo /\ idb' = idb
    BY <1>7 DEF Verify, clientVars, serverVars
  <2>2. \A m \in msgs' : m.stage = "response" => m \in msgs
    BY <1>7 DEF Verify, Message
  <2> QED BY <2>1, <2>2, <1>a, ReadersKept
<1>8. ASSUME NEW c \in Client, ReplyToNobody(c) PROVE ReadersOK'
  <2>1. PICK m \in msgs : ReplyToNobody(c)!(m)
    BY <1>8 DEF ReplyToNobody
  <2>2. repo' = repo /\ idb' = idb /\ msgs' \subseteq msgs
    BY <2>1 DEF clientVars
  <2>3. m.values \in SUBSET Commit
    BY MessageFields DEF TypeOK
  <2>4. \A d \in Client : view'[d] # NoView => view'[d] \subseteq srv' \cap entitled'[d]
    BY <2>1, <2>3, PersistViews
  <2> QED BY <1>a, <2>2, <2>4 DEF ReadersOK, Grows
<1>9. ASSUME NEW c \in Client, Grant(c) \/ Revoke(c) PROVE ReadersOK'
  <2>1. /\ srv' = srv /\ view' = view /\ repo' = repo /\ idb' = idb /\ msgs' = msgs
    BY <1>9 DEF Grant, Revoke, clientVars
  <2> QED BY <2>1, <1>a, ReadersKept
<1>10. CASE (\E x \in Commit : Flush(x)) \/ SetupDone
  <2>1. /\ srv' = srv /\ view' = view /\ repo' = repo /\ idb' = idb /\ msgs' = msgs
    BY <1>10 DEF Flush, SetupDone, clientVars
  <2> QED BY <2>1, <1>a, ReadersKept
<1>11. CASE Crash \/ Upgrade
  <2>1. /\ repo' = repo /\ idb' = idb /\ entitled' = entitled /\ msgs' \subseteq msgs
        /\ \A c \in Client : view'[c] = NoView
    BY <1>11 DEF Crash, Upgrade, Restart
  <2> QED BY <2>1 DEF ReadersOK
<1>12. CASE UNCHANGED vars
  <2>1. /\ srv' = srv /\ view' = view /\ repo' = repo /\ idb' = idb /\ msgs' = msgs
    BY <1>12 DEF vars, clientVars, serverVars
  <2> QED BY <2>1, <1>a, ReadersKept
<1> QED
  BY <1>1, <1>2, <1>3, <1>4, <1>5, <1>6, <1>7, <1>8, <1>9, <1>10, <1>11, <1>12
  DEF Next

(* Reading ends with the membership: the list cached for a removed member  *)
(* is served until the next store, but neither it nor an answer under way  *)
(* ever shows him what the server did not hold while he was a member, and  *)
(* who never was one is shown nothing (Repository.commits).                *)
THEOREM ReadersAreMembers == Spec => []ReadWhileMember
<1>1. Init => TypeOK /\ ReadersOK
  BY InitType DEF Init, ReadersOK
<1>2. TypeOK /\ ReadersOK /\ [Next]_vars => (TypeOK /\ ReadersOK)'
  BY TypeStep, ReadersStep
<1>3. ReadersOK => ReadWhileMember
  BY DEF ReadersOK, ReadWhileMember
<1> QED BY <1>1, <1>2, <1>3, PTL DEF Spec
------------------------------------------------------------------------------
(* The refinement of ReplicatedSet.                                        *)

(* The sets of commits of the nodes, in memory and on stable storage.      *)
Node == Client \cup {Server}
Replica == [n \in Node |-> IF n = Server THEN srv ELSE repo[n]]
Stable == [n \in Node |-> IF n = Server THEN disk ELSE idb[n]]

(* A client's set changes in the place of its node (MemRepoStorage).       *)
LEMMA ClientReplica ==
  ASSUME TypeOK, NEW c \in Client, NEW S, repo' = [repo EXCEPT ![c] = S],
         srv' = srv
  PROVE  Replica' = [Replica EXCEPT ![c] = S]
BY ConstantsOK DEF Replica, Node, TypeOK

(* And so does the server's.                                               *)
LEMMA ServerReplica ==
  ASSUME repo' = repo
  PROVE  Replica' = [Replica EXCEPT ![Server] = srv']
BY ConstantsOK DEF Replica, Node

(* The same of what is on stable storage (IDBRepositoryBackup).            *)
LEMMA ClientStable ==
  ASSUME TypeOK, NEW c \in Client, NEW S, idb' = [idb EXCEPT ![c] = S],
         disk' = disk
  PROVE  Stable' = [Stable EXCEPT ![c] = S]
BY ConstantsOK DEF Stable, Node, TypeOK

(* And of the log (JSONLogRepoBackup).                                     *)
LEMMA ServerStable ==
  ASSUME idb' = idb
  PROVE  Stable' = [Stable EXCEPT ![Server] = disk']
BY ConstantsOK DEF Stable, Node

(* Nothing changes on a node whose variables do not.                       *)
LEMMA SameReplica == repo' = repo /\ srv' = srv => Replica' = Replica
BY DEF Replica

(* The same of what is saved.                                             *)
LEMMA SameStable == idb' = idb /\ disk' = disk => Stable' = Stable
BY DEF Stable

(* A node that is told of commits that exist (persistVerifiedCommits).     *)
LEMMA Learns ==
  ASSUME NEW n \in Node, NEW S \in SUBSET created, created' = created,
         Replica' = [Replica EXCEPT ![n] = @ \cup S], Stable' = Stable
  PROVE  Replication!Next
BY DEF Replication!Next, Replication!Learn, Replica, Stable, Node

(* A node that starts again with part of what it saved (loadRepository).   *)
LEMMA Crashes ==
  ASSUME NEW n \in Node, NEW S \in SUBSET Stable[n], created' = created,
         Replica' = [Replica EXCEPT ![n] = S], Stable' = Stable
  PROVE  Replication!Next
BY DEF Replication!Next, Replication!Crash, Replica, Stable, Node

(* A commit is written to a node's backup (persistCommits, append).        *)
LEMMA Saves ==
  ASSUME NEW n \in Node, NEW m \in Commit, m \in Replica[n],
         created' = created, Replica' = Replica,
         Stable' = [Stable EXCEPT ![n] = @ \cup {m}]
  PROVE  Replication!Next
BY DEF Replication!Next, Replication!Save, Replica, Stable, Node

(* A user's edit is committed on a node (VertexManager.commit).            *)
LEMMA Creates ==
  ASSUME NEW n \in Node, NEW m \in Commit, m \notin created,
         created' = created \cup {m}, Stable' = Stable,
         Replica' = [Replica EXCEPT ![n] = @ \cup {m}]
  PROVE  Replication!Next
BY DEF Replication!Next, Replication!Create, Replica, Stable, Node

(* Nothing happens that ReplicatedSet sees (messages, timers, views).      *)
LEMMA Stutters ==
  ASSUME created' = created, Replica' = Replica, Stable' = Stable
  PROVE  UNCHANGED Replication!vars
BY DEF Replication!vars, Replica, Stable, Node
-----------------------------------------------------------------------------
(* Every step of the protocol is a step of ReplicatedSet or none.          *)
LEMMA RefinementStep ==
  IInv /\ [Next]_vars => [Replication!Next]_(Replication!vars)
<1> SUFFICES ASSUME IInv, [Next]_vars
             PROVE  Replication!Next \/ UNCHANGED Replication!vars
  OBVIOUS
<1>a. TypeOK
  BY DEF IInv
<1>b. Client \subseteq Node /\ Server \in Node
  BY DEF Node
<1>c. /\ \A c \in Client : Replica[c] = repo[c] /\ Stable[c] = idb[c]
      /\ Replica[Server] = srv /\ Stable[Server] = disk
  BY ConstantsOK DEF Replica, Stable, Node
<1>d. /\ \A c \in Client : repo[c] \cup idb[c] \subseteq created
      /\ srv \subseteq created /\ disk \cup writeQ \subseteq srv
  BY DEF IInv, Provenance, MayHold, EligibleOK
<1> DEFINE Refined == Replication!Next \/ UNCHANGED Replication!vars
<1>1. ASSUME NEW c \in Client, NEW m \in Commit, CommitLocally(c, m)
      PROVE  Refined
  <2>1. /\ m \notin created /\ created' = created \cup {m}
        /\ repo' = [repo EXCEPT ![c] = repo[c] \cup {m}]
        /\ srv' = srv /\ idb' = idb /\ disk' = disk
    BY <1>1 DEF CommitLocally, serverVars
  <2>2. Replica' = [Replica EXCEPT ![c] = Replica[c] \cup {m}]
    BY <2>1, <1>a, <1>c, ClientReplica
  <2> QED BY <2>1, <2>2, <1>b, SameStable, Creates
<1>2. ASSUME NEW c \in Client, NEW m \in Commit, BackupToIDB(c, m)
      PROVE  Refined
  <2>1. /\ m \in repo[c] /\ created' = created
        /\ idb' = [idb EXCEPT ![c] = idb[c] \cup {m}]
        /\ srv' = srv /\ repo' = repo /\ disk' = disk
    BY <1>2 DEF BackupToIDB, serverVars
  <2>2. Stable' = [Stable EXCEPT ![c] = Stable[c] \cup {m}]
    BY <2>1, <1>a, <1>c, ClientStable
  <2> QED BY <2>1, <2>2, <1>b, <1>c, SameReplica, Saves
<1>3. ASSUME NEW c \in Client, LoadRepository(c) PROVE Refined
  <2>1. /\ created' = created /\ srv' = srv /\ idb' = idb /\ disk' = disk
        /\ repo' = [repo EXCEPT ![c] = repo[c] \cup idb[c]]
    BY <1>3 DEF LoadRepository, Stored, serverVars
  <2>2. Replica' = [Replica EXCEPT ![c] = Replica[c] \cup idb[c]]
    BY <2>1, <1>a, <1>c, ClientReplica
  <2> QED BY <2>1, <2>2, <1>b, <1>d, SameStable, Learns
<1>4. ASSUME NEW c \in Client, Receive(c) PROVE Refined
  <2>1. PICK m \in Pending(c) : Receive(c)!(m)
    BY <1>4 DEF Receive
  <2>2. m.values \subseteq created
    BY <2>1 DEF Pending, IInv, InFlightOK
  <2>3. /\ created' = created /\ srv' = srv /\ idb' = idb /\ disk' = disk
        /\ repo' = [repo EXCEPT ![c] = repo[c] \cup m.values]
    BY <2>1 DEF Stored, serverVars
  <2>4. Replica' = [Replica EXCEPT ![c] = Replica[c] \cup m.values]
    BY <2>3, <1>a, <1>c, ClientReplica
  <2> QED BY <2>2, <2>3, <2>4, <1>b, SameStable, Learns
<1>5. ASSUME NEW c \in Client, Reload(c) PROVE Refined
  <2>1. /\ created' = created /\ srv' = srv /\ idb' = idb /\ disk' = disk
        /\ repo' = [repo EXCEPT ![c] = {}]
    BY <1>5 DEF Reload, serverVars
  <2>2. Replica' = [Replica EXCEPT ![c] = {}]
    BY <2>1, <1>a, ClientReplica
  <2> QED BY <2>1, <2>2, <1>b, SameStable, Crashes
<1>6. ASSUME NEW c \in Client, NEW S \in SUBSET created, Persist(c, S),
             repo' = repo, idb' = idb, disk' = disk, created' = created
      PROVE  Refined
  <2>1. srv' = srv \cup S
    BY <1>6 DEF Persist, Stored
  <2>2. Replica' = [Replica EXCEPT ![Server] = Replica[Server] \cup S]
    BY <2>1, <1>6, <1>c, ServerReplica
  <2> QED BY <2>2, <1>6, <1>b, SameStable, Learns
<1>7. ASSUME NEW c \in Client,
             ReplyToNobody(c) \/ \E fp \in SUBSET Commit : Reply(c, fp)
      PROVE  Refined
  <2>1. PICK m \in msgs : /\ Persist(c, m.values)
                          /\ UNCHANGED <<clientVars, disk, created>>
    BY <1>7 DEF ReplyToNobody, Reply
  <2>2. m.values \in SUBSET created
    BY DEF IInv, InFlightOK
  <2> QED BY <2>1, <2>2, <1>6 DEF clientVars
<1>8. ASSUME NEW x \in Commit, Flush(x) PROVE Refined
  <2>1. /\ x \in srv /\ created' = created /\ srv' = srv /\ repo' = repo
        /\ idb' = idb /\ disk' = disk \cup {x}
    BY <1>8, <1>d DEF Flush, clientVars
  <2>2. Stable' = [Stable EXCEPT ![Server] = Stable[Server] \cup {x}]
    BY <2>1, <1>c, ServerStable
  <2> QED BY <2>1, <2>2, <1>b, <1>c, SameReplica, Saves
<1>9. ASSUME Crash \/ Upgrade PROVE Refined
  <2>1. /\ created' = created /\ srv' = disk /\ repo' = repo /\ idb' = idb
        /\ disk' = disk
    BY <1>9 DEF Crash, Upgrade, Restart
  <2>2. Replica' = [Replica EXCEPT ![Server] = disk]
    BY <2>1, ServerReplica
  <2> QED BY <2>1, <2>2, <1>b, <1>c, SameStable, Crashes
<1>10. ASSUME UNCHANGED <<created, srv, repo, idb, disk>> PROVE Refined
  BY <1>10, SameReplica, SameStable, Stutters
<1>11. ASSUME NEW c \in Client,
              \/ MarkRepositoryReady(c) \/ OpenRepository(c) \/ Timeout(c)
              \/ Verify(c) \/ Grant(c) \/ Revoke(c) \/ \E fp \in SUBSET Commit : Send(c, fp)
       PROVE  Refined
  BY <1>10, <1>11 DEF MarkRepositoryReady, OpenRepository, Timeout, Verify,
                      Grant, Revoke, Send, clientVars, serverVars
<1>12. ASSUME SetupDone \/ UNCHANGED vars PROVE Refined
  BY <1>10, <1>12 DEF SetupDone, vars, clientVars, serverVars
<1> HIDE DEF Refined
<1>13. ASSUME NEW c \in Client,
              \/ \E m \in Commit : CommitLocally(c, m) \/ BackupToIDB(c, m)
              \/ LoadRepository(c) \/ MarkRepositoryReady(c) \/ OpenRepository(c)
              \/ \E fp \in SUBSET Commit : Send(c, fp) \/ Reply(c, fp)
              \/ Receive(c) \/ Timeout(c) \/ Reload(c)
              \/ Verify(c) \/ ReplyToNobody(c)
              \/ Grant(c) \/ Revoke(c)
       PROVE  Refined
  BY <1>1, <1>2, <1>3, <1>4, <1>5, <1>7, <1>11, <1>13
<1>14. ASSUME Next PROVE Refined
  <2>1. CASE \E x \in Commit : Flush(x)
    BY <2>1, <1>8
  <2>2. CASE Crash \/ Upgrade
    BY <2>2, <1>9
  <2>3. CASE SetupDone
    BY <2>3, <1>12
  <2> QED BY <2>1, <2>2, <2>3, <1>13, <1>14 DEF Next
<1> QED BY <1>12, <1>14 DEF Refined

(* The nodes start empty, and every step is a step of ReplicatedSet: of    *)
(* the client's and the server's part in it, "both peers have reached      *)
(* consensus" (BaseClient.sync) can only add.                              *)
THEOREM Refines == Spec => Replicates
<1>1. Init => IInv
  BY InitIInv
<1>2. Init => Replication!Init
  BY DEF Init, Replication!Init
<1>3. IInv /\ [Next]_vars => IInv'
  BY IInvStep
<1>4. IInv /\ [Next]_vars => [Replication!Next]_(Replication!vars)
  BY RefinementStep
<1> QED
  BY <1>1, <1>2, <1>3, <1>4, PTL DEF Spec, Replicates, Replication!Spec
=============================================================================
