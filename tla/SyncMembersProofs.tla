------------------------- MODULE SyncMembersProofs -------------------------
(***************************************************************************)
(* Proofs about SyncProtocol for a workspace whose clients all belong to   *)
(* members from first to last, while no new build is deployed: the retry   *)
(* budget, and what a client has when it has opened the repository.  Both  *)
(* fail without these conditions (see the README), and hold with them for  *)
(* any number of clients, commits, timeouts, reloads and crashes.          *)
(***************************************************************************)
EXTENDS SyncProtocolProofs

(* Everybody is and stays a member, and no new build is deployed.          *)
Steady == FirstMembers = Client /\ MaxRevoke = 0 /\ MaxUpgrade = 0

(* Everybody is a member, and no build was deployed.                       *)
MembersOK == members = Client /\ srvVersion = 0

(* A cached view is never stale: whatever changes the store drops it.      *)
ViewsFresh == \A c \in Client : view[c] \in {NoView, srv}

(* One cycle at a time; a request carries what it submits; and what a      *)
(* verified one submitted is stored or about to be.                        *)
CyclesOK ==
  /\ \A p, q \in msgs : p.live /\ q.live /\ p.from = q.from => p = q
  /\ \A p \in msgs :
       /\ p.stage = "request" => p.values = p.sent
       /\ p.stage = "verified" => p.sent \subseteq srv \cup p.values

(* The budget for a commit is spent once the server has the commit and the *)
(* client knows it: by the last filter, and by the one that is on its way. *)
(* A commit of which one submission is left is not submitted in vain.      *)
Spent(c, m) == submitCount[c][m] = 1 + faults["crash"]
LastLeft(c, m) == submitCount[c][m] = faults["crash"]
Known(c, m) ==
  /\ m \in srv
  /\ serverFilter[c] # NoFilter /\ m \in serverFilter[c]
  /\ \A p \in Pending(c) : m \notin p.sent /\ (p.stage = "response" => m \in p.filter)
Lands(c, m) ==
  \A p \in Pending(c) :
    p.stage = "response" /\ m \in p.sent => m \in srv /\ m \in p.filter
BudgetOK(c) ==
  \A m \in Commit :
    /\ submitCount[c][m] <= 1 + faults["crash"]
    /\ Spent(c, m) => Known(c, m)
    /\ LastLeft(c, m) => Lands(c, m)

(* The second cycle of a sync() is one that asks for everything.           *)
OpeningOK(c) ==
  /\ goal[c] \subseteq srv
  /\ sync[c] = "active" /\ successes[c] = 1 =>
       \A p \in Pending(c) :
         /\ p.stage # "response" => p.filter = {}
         /\ p.stage = "response" => goal[c] \subseteq p.values

MInv ==
  /\ TypeOK
  /\ MembersOK /\ ViewsFresh /\ CyclesOK
  /\ \A c \in Client : BudgetOK(c) /\ OpeningOK(c)
-----------------------------------------------------------------------------
(* A client that waits for no new cycle, learns nothing and submits nothing*)
(* keeps its part of the invariant when the server only gains commits.     *)
LEMMA BudgetKept ==
  ASSUME NEW c, BudgetOK(c), srv \subseteq srv', Pending(c)' \subseteq Pending(c),
         submitCount'[c] = submitCount[c], serverFilter'[c] = serverFilter[c],
         faults'["crash"] = faults["crash"]
  PROVE  BudgetOK(c)'
BY DEF BudgetOK, Spent, Known, LastLeft, Lands

(* The same of the opening of a repository (BaseClient.sync).              *)
LEMMA OpeningKept ==
  ASSUME NEW c, OpeningOK(c), srv \subseteq srv', Pending(c)' \subseteq Pending(c),
         goal'[c] = goal[c], sync'[c] = sync[c], successes'[c] = successes[c]
  PROVE  OpeningOK(c)'
BY DEF OpeningOK

(* Clients do not wait for each other's cycles.                            *)
LEMMA OthersPending ==
  ASSUME NEW c \in Client, NEW new, NEW old,
         \A p \in new \cup old : p.from = c,
         msgs' = (msgs \ old) \cup new
  PROVE  \A d \in Client \ {c} : Pending(d)' = Pending(d)
BY DEF Pending

(* The one cycle of c is replaced by its next stage.                       *)
LEMMA NextStage ==
  ASSUME CyclesOK, NEW m \in msgs, NEW m2, m.live, m2.from = m.from,
         msgs' = (msgs \ {m}) \cup {m2}
  PROVE  \A p \in Pending(m.from)' : p = m2
BY DEF CyclesOK, Pending

(* Whoever gave up on a cycle waits for none (_pendingSyncPromise).        *)
LEMMA NothingPending ==
  ASSUME NEW c \in Client, Abandon(c)
  PROVE  /\ Pending(c)' = {}
         /\ \A d \in Client \ {c} : Pending(d)' = Pending(d)
BY DEF Abandon, Pending, Message

(* What is kept of the cycles when one is given up on.                     *)
LEMMA AbandonCycles ==
  ASSUME CyclesOK, NEW c \in Client, Abandon(c), srv' = srv
  PROVE  CyclesOK'
BY DEF CyclesOK, Abandon, Pending, Message

(* Persist makes visible what was verified, to a member all of it.         *)
LEMMA PersistFresh ==
  ASSUME TypeOK, ViewsFresh, members = Client, members' = members,
         NEW c \in Client, NEW S \in SUBSET Commit, Persist(c, S)
  PROVE  /\ srv' = srv \cup S
         /\ ViewsFresh'
         /\ view'[c] = srv'
<1>1. srv' = srv \cup S
  BY DEF Persist, Stored
<1>2. ViewsAfter(S) \in [Client -> {NoView} \cup SUBSET Commit]
  BY DEF ViewsAfter, TypeOK
<1>3. \A d \in Client : ViewsAfter(S)[d] \in {NoView, srv'}
  BY <1>1 DEF ViewsAfter, ViewsFresh
<1>4. Readable(c, srv') = srv'
  BY DEF Readable
<1>5. view' = [ViewsAfter(S) EXCEPT ![c] = IF @ = NoView THEN Readable(c, srv')
                                                        ELSE @]
  BY DEF Persist
<1>6. srv' # NoView
  BY <1>1, ConstantsOK DEF TypeOK
<1> QED BY <1>1, <1>2, <1>3, <1>4, <1>5, <1>6 DEF ViewsFresh

(* With members everywhere and no build deployed they stay so.             *)
LEMMA MembersStep ==
  ASSUME Steady, TypeOK, TypeOK', MembersOK, [Next]_vars
  PROVE  MembersOK'
<1> DEFINE Same == srvVersion' = srvVersion /\ members' = Client
<1>1. members = Client
  BY DEF MembersOK
<1>2. ~Upgrade /\ \A c \in Client : ~Revoke(c)
  BY DEF Upgrade, Revoke, MayFail, Bound, Steady, TypeOK, Fault
<1>3. Same
  <2>1. ASSUME NEW c \in Client, NEW m \in Commit,
               CommitLocally(c, m) \/ BackupToIDB(c, m)
        PROVE  Same
    BY <2>1, <1>1 DEF CommitLocally, BackupToIDB, serverVars
  <2>2. ASSUME NEW c \in Client,
               \/ LoadRepository(c) \/ MarkRepositoryReady(c) \/ OpenRepository(c)
               \/ Receive(c) \/ Timeout(c) \/ Reload(c) \/ Verify(c)
               \/ \E fp \in SUBSET Commit : Send(c, fp)
        PROVE  Same
    BY <2>2, <1>1 DEF LoadRepository, MarkRepositoryReady, OpenRepository, Receive,
                Timeout, Reload, Verify, Send, serverVars
  <2>3. ASSUME NEW c \in Client,
               ReplyToNobody(c) \/ Grant(c) \/ \E fp \in SUBSET Commit : Reply(c, fp)
        PROVE  Same
    <3>1. CASE ReplyToNobody(c) \/ Grant(c)
      BY <3>1, <1>1 DEF ReplyToNobody, Grant
    <3>2. ASSUME NEW fp \in SUBSET Commit, Reply(c, fp)
          PROVE  Same
      BY <3>2, <1>1 DEF Reply
    <3> QED BY <2>3, <3>1, <3>2
  <2>4. CASE (\E x \in Commit : Flush(x)) \/ SetupDone \/ Crash
    BY <2>4, <1>1 DEF Flush, SetupDone, Crash, Restart
  <2>5. CASE UNCHANGED vars
    BY <2>5, <1>1 DEF vars, serverVars
  <2> QED BY <1>2, <2>1, <2>2, <2>3, <2>4, <2>5 DEF Next
<1> QED BY <1>3 DEF MembersOK

(* A step that touches no cycle, store, view, count or opening.            *)
LEMMA QuietStep ==
  ASSUME MInv, msgs' = msgs, srv' = srv, view' = view,
         submitCount' = submitCount, serverFilter' = serverFilter,
         sync' = sync, successes' = successes, goal' = goal, faults' = faults
  PROVE  /\ ViewsFresh' /\ CyclesOK'
         /\ \A c \in Client : BudgetOK(c)' /\ OpeningOK(c)'
<1>1. \A c \in Client : Pending(c)' = Pending(c)
  BY DEF Pending
<1>2. \A c \in Client : BudgetOK(c)' /\ OpeningOK(c)'
  BY <1>1, BudgetKept, OpeningKept DEF MInv
<1>3. ViewsFresh' /\ CyclesOK'
  BY DEF MInv, ViewsFresh, CyclesOK
<1> QED BY <1>2, <1>3

(* A new cycle submits nothing the server is known to have, and while the  *)
(* repository is being opened it asks for everything (sendSyncMessage).    *)
LEMMA SendStep ==
  ASSUME MInv, NEW c \in Client, NEW fp \in SUBSET Commit, Send(c, fp)
  PROVE  /\ ViewsFresh' /\ CyclesOK'
         /\ \A d \in Client : BudgetOK(d)' /\ OpeningOK(d)'
<1>1. PICK filter, values :
        /\ values = {} \/ (serverFilter[c] # NoFilter /\ values \cap serverFilter[c] = {})
        /\ sync[c] = "active" => filter = {}
        /\ msgs' = msgs \cup {Message(c, TRUE, "request", filter, values, values)}
  BY DEF Send, IncludeMissing
<1> DEFINE new == Message(c, TRUE, "request", filter, values, values)
<1>2. /\ Pending(c) = {} /\ srv' = srv /\ view' = view
      /\ submitCount' = submitCount /\ serverFilter' = serverFilter
      /\ sync' = sync /\ successes' = successes /\ goal' = goal /\ faults' = faults
  BY DEF Send, clientVars, serverVars
<1>3. /\ new.from = c /\ new.live /\ new.stage = "request" /\ new.filter = filter
      /\ new.sent = values /\ new.values = values
  BY DEF Message
<1> HIDE DEF new
<1>4. msgs' = msgs \cup {new}
  BY <1>1 DEF new
<1>5. Pending(c)' = {new} /\ \A d \in Client \ {c} : Pending(d)' = Pending(d)
  BY <1>2, <1>3, <1>4 DEF Pending
<1>6. CyclesOK'
  BY <1>2, <1>3, <1>4 DEF MInv, CyclesOK, Pending
<1>7. BudgetOK(c)'
  BY <1>1, <1>2, <1>3, <1>5 DEF MInv, BudgetOK, Spent, Known, LastLeft, Lands
<1>8. OpeningOK(c)'
  BY <1>1, <1>2, <1>3, <1>5 DEF MInv, OpeningOK
<1>9. \A d \in Client \ {c} : BudgetOK(d)' /\ OpeningOK(d)'
  BY <1>2, <1>5, BudgetKept, OpeningKept DEF MInv
<1> QED BY <1>2, <1>6, <1>7, <1>8, <1>9 DEF MInv, ViewsFresh

(* All that a request submitted is stored or was verified (verifyCommits). *)
LEMMA VerifyStep ==
  ASSUME MInv, NEW c \in Client, Verify(c)
  PROVE  /\ ViewsFresh' /\ CyclesOK'
         /\ \A d \in Client : BudgetOK(d)' /\ OpeningOK(d)'
<1>1. PICK m \in msgs, known \in SUBSET srv :
        /\ m.from = c /\ m.stage = "request"
        /\ msgs' = (msgs \ {m}) \cup
                     {Message(c, m.live, "verified", m.filter, m.sent,
                              {x \in m.values \ known : MayWrite(x)})}
        /\ UNCHANGED <<clientVars, serverVars, created, goal, faults>>
  BY DEF Verify
<1> DEFINE new == Message(c, m.live, "verified", m.filter, m.sent,
                          {x \in m.values \ known : MayWrite(x)})
<1>2. /\ srv' = srv /\ view' = view
      /\ submitCount' = submitCount /\ serverFilter' = serverFilter
      /\ sync' = sync /\ successes' = successes /\ goal' = goal /\ faults' = faults
  BY <1>1 DEF clientVars, serverVars
<1>3. m \in Msg /\ m.values \in SUBSET Commit /\ m.values = m.sent
  BY <1>1, MessageFields DEF MInv, TypeOK, CyclesOK
<1>4. \A x \in m.values : MayWrite(x)
  BY <1>3, ConstantsOK DEF MInv, MembersOK, MayWrite
<1>5. /\ new.from = c /\ new.live = m.live /\ new.stage = "verified"
      /\ new.filter = m.filter /\ new.sent = m.sent
      /\ new.sent \subseteq srv \cup new.values
  BY <1>1, <1>3, <1>4 DEF Message
<1> HIDE DEF new
<1>6. msgs' = (msgs \ {m}) \cup {new}
  BY <1>1 DEF new
<1>7. CyclesOK'
  BY <1>1, <1>2, <1>5, <1>6 DEF MInv, CyclesOK
<1>8. \A d \in Client \ {c} : Pending(d)' = Pending(d)
  BY <1>1, <1>5, <1>6 DEF Pending
<1>9. \A p \in Pending(c)' :
        p \in Pending(c) \/ (p = new /\ m \in Pending(c))
  BY <1>1, <1>5, <1>6 DEF Pending
<1>10. BudgetOK(c)'
  BY <1>2, <1>5, <1>9 DEF MInv, BudgetOK, Spent, Known, LastLeft, Lands
<1>11. OpeningOK(c)'
  BY <1>1, <1>2, <1>5, <1>9 DEF MInv, OpeningOK
<1>12. \A d \in Client \ {c} : BudgetOK(d)' /\ OpeningOK(d)'
  BY <1>2, <1>8, BudgetKept, OpeningKept DEF MInv
<1> QED BY <1>2, <1>7, <1>10, <1>11, <1>12 DEF MInv, ViewsFresh

(* The answer's filter contains all that the server has, and its values    *)
(* all that the client's filter lacked (doSync).                           *)
LEMMA ReplyStep ==
  ASSUME MInv, NEW c \in Client, NEW fp \in SUBSET Commit, Reply(c, fp)
  PROVE  /\ ViewsFresh' /\ CyclesOK'
         /\ \A d \in Client : BudgetOK(d)' /\ OpeningOK(d)'
<1>1. PICK m \in msgs : Reply(c, fp)!(m)
  BY DEF Reply
<1>2. m.values \in SUBSET Commit /\ m.sent \subseteq srv \cup m.values
  BY <1>1, MessageFields DEF MInv, TypeOK, CyclesOK
<1>3. /\ submitCount' = submitCount /\ serverFilter' = serverFilter
      /\ sync' = sync /\ successes' = successes /\ goal' = goal /\ faults' = faults
      /\ members' = members
  BY <1>1 DEF clientVars
<1>4. srv' = srv \cup m.values /\ ViewsFresh' /\ view'[c] = srv'
  BY <1>1, <1>2, <1>3, PersistFresh DEF MInv, MembersOK
<1>5. version[c] >= srvVersion
  BY DEF MInv, TypeOK, MembersOK
<1>6. PICK new :
        /\ new.from = c /\ new.live /\ new.stage = "response" /\ new.sent = m.sent
        /\ srv' \subseteq new.filter /\ new.values = srv' \ m.filter
        /\ msgs' = (msgs \ {m}) \cup {new}
  <2>1. msgs' = (msgs \ {m}) \cup
                  {Message(c, TRUE, "response", BloomFilter(srv', fp), m.sent,
                           srv' \ m.filter)}
    BY <1>1, <1>4, <1>5
  <2>2. srv' \subseteq BloomFilter(srv', fp)
    BY DEF BloomFilter
  <2> QED BY <2>1, <2>2 DEF Message
<1>7. /\ m \in Pending(c) /\ \A p \in Pending(c)' : p = new
      /\ \A d \in Client \ {c} : Pending(d)' = Pending(d)
  BY <1>1, <1>6 DEF MInv, CyclesOK, Pending
<1>8. CyclesOK'
  BY <1>1, <1>4, <1>6 DEF MInv, CyclesOK
<1>9. BudgetOK(c)'
  BY <1>2, <1>3, <1>4, <1>6, <1>7 DEF MInv, BudgetOK, Spent, Known, LastLeft, Lands
<1>10. OpeningOK(c)'
  BY <1>1, <1>3, <1>4, <1>6, <1>7 DEF MInv, OpeningOK
<1>11. \A d \in Client \ {c} : BudgetOK(d)' /\ OpeningOK(d)'
  BY <1>3, <1>4, <1>7, BudgetKept, OpeningKept DEF MInv
<1> QED BY <1>4, <1>8, <1>9, <1>10, <1>11

(* An answer nobody waits for still stores what was verified.              *)
LEMMA ReplyToNobodyStep ==
  ASSUME MInv, NEW c \in Client, ReplyToNobody(c)
  PROVE  /\ ViewsFresh' /\ CyclesOK'
         /\ \A d \in Client : BudgetOK(d)' /\ OpeningOK(d)'
<1>1. PICK m \in msgs : ReplyToNobody(c)!(m)
  BY DEF ReplyToNobody
<1>2. m.values \in SUBSET Commit
  BY MessageFields DEF MInv, TypeOK
<1>3. /\ submitCount' = submitCount /\ serverFilter' = serverFilter
      /\ sync' = sync /\ successes' = successes /\ goal' = goal /\ faults' = faults
      /\ members' = members /\ msgs' \subseteq msgs
  BY <1>1 DEF clientVars
<1>4. srv' = srv \cup m.values /\ ViewsFresh'
  BY <1>1, <1>2, <1>3, PersistFresh DEF MInv, MembersOK
<1>5. CyclesOK'
  BY <1>3, <1>4 DEF MInv, CyclesOK
<1>6. \A d \in Client : Pending(d)' \subseteq Pending(d)
  BY <1>3 DEF Pending
<1>7. \A d \in Client : BudgetOK(d)' /\ OpeningOK(d)'
  BY <1>3, <1>4, <1>6, BudgetKept, OpeningKept DEF MInv
<1> QED BY <1>4, <1>5, <1>7

(* An answer spends budget only for what its filter contains, and tells    *)
(* the client so (afterMessageSent).                                       *)
LEMMA ReceiveStep ==
  ASSUME MInv, NEW c \in Client, Receive(c)
  PROVE  /\ ViewsFresh' /\ CyclesOK'
         /\ \A d \in Client : BudgetOK(d)' /\ OpeningOK(d)'
<1>1. PICK m \in Pending(c) : Receive(c)!(m)
  BY DEF Receive
<1>2. m \in msgs /\ m.from = c /\ m.live /\ m.stage = "response"
  BY <1>1 DEF Pending
<1>3. m.filter \in SUBSET Commit /\ m.filter # NoFilter
  BY <1>2, MessageFields, ConstantsOK DEF MInv, TypeOK
<1>4. /\ Pending(c)' = {}
      /\ \A d \in Client \ {c} : Pending(d)' = Pending(d)
  BY <1>1, <1>2 DEF MInv, CyclesOK, Pending
<1>5. /\ srv' = srv /\ view' = view /\ faults' = faults
      /\ serverFilter' = [serverFilter EXCEPT ![c] = m.filter]
      /\ submitCount' = [submitCount EXCEPT ![c] =
                           [x \in Commit |-> IF x \in m.sent THEN @[x] + 1 ELSE @[x]]]
  BY <1>1 DEF serverVars, Counted
<1>6. /\ serverFilter'[c] = m.filter
      /\ \A x \in Commit :
           submitCount'[c][x] = IF x \in m.sent THEN submitCount[c][x] + 1
                                                ELSE submitCount[c][x]
      /\ \A d \in Client \ {c} : /\ serverFilter'[d] = serverFilter[d]
                                /\ submitCount'[d] = submitCount[d]
  BY <1>5 DEF MInv, TypeOK
<1>7. CyclesOK'
  BY <1>1, <1>5 DEF MInv, CyclesOK
<1>8. BudgetOK(c)'
  <2> SUFFICES ASSUME NEW x \in Commit
               PROVE  /\ submitCount'[c][x] <= 1 + faults["crash"]
                      /\ submitCount'[c][x] = 1 + faults["crash"] =>
                           x \in srv /\ x \in m.filter
    BY <1>3, <1>4, <1>5, <1>6 DEF BudgetOK, Spent, Known, Lands
  <2>1. submitCount[c][x] \in Nat /\ faults["crash"] \in Nat
    BY DEF MInv, TypeOK, Fault
  <2>2. /\ submitCount[c][x] <= 1 + faults["crash"]
        /\ Spent(c, x) => x \notin m.sent /\ x \in m.filter /\ x \in srv
        /\ LastLeft(c, x) /\ x \in m.sent => x \in srv /\ x \in m.filter
    BY <1>1, <1>2 DEF MInv, BudgetOK, Known, Lands
  <2> QED BY <2>1, <2>2, <1>6 DEF Spent, LastLeft
<1>9. OpeningOK(c)'
  <2>1. goal'[c] \in {{}, goal[c]}
    BY <1>1 DEF MInv, TypeOK
  <2> QED BY <2>1, <1>4, <1>5 DEF MInv, OpeningOK
<1>10. \A d \in Client \ {c} : /\ goal'[d] = goal[d] /\ sync'[d] = sync[d]
                             /\ successes'[d] = successes[d]
  BY <1>1 DEF MInv, TypeOK
<1>11. \A d \in Client \ {c} : BudgetOK(d)' /\ OpeningOK(d)'
  BY <1>4, <1>5, <1>6, <1>10, BudgetKept, OpeningKept DEF MInv
<1> QED BY <1>5, <1>7, <1>8, <1>9, <1>11 DEF MInv, ViewsFresh

(* Who gives up on a cycle, or starts again, waits for none and has spent  *)
(* no more than before (sendSyncMessage, loadRepository).                  *)
LEMMA GiveUpStep ==
  ASSUME MInv, NEW c \in Client, Timeout(c) \/ Reload(c)
  PROVE  /\ ViewsFresh' /\ CyclesOK'
         /\ \A d \in Client : BudgetOK(d)' /\ OpeningOK(d)'
<1>1. /\ Abandon(c) /\ srv' = srv /\ view' = view
      /\ faults'["crash"] = faults["crash"]
  BY DEF Timeout, Reload, Fail, serverVars, MInv, TypeOK, Fault
<1>2. \A d \in Client \ {c} :
        /\ submitCount'[d] = submitCount[d] /\ serverFilter'[d] = serverFilter[d]
        /\ goal'[d] = goal[d] /\ sync'[d] = sync[d] /\ successes'[d] = successes[d]
  <2>1. CASE Timeout(c)
    BY <2>1 DEF Timeout
  <2>2. CASE Reload(c)
    BY <2>2 DEF Reload, MInv, TypeOK
  <2> QED BY <2>1, <2>2
<1>3. /\ Pending(c)' = {}
      /\ \A d \in Client \ {c} : Pending(d)' = Pending(d)
  BY <1>1, NothingPending
<1>4. CyclesOK'
  BY <1>1, AbandonCycles DEF MInv
<1>5. BudgetOK(c)' /\ OpeningOK(c)'
  <2>1. CASE Timeout(c)
    <3>1. /\ submitCount' = submitCount /\ serverFilter' = serverFilter
          /\ goal' = goal /\ sync' = sync /\ successes' = successes
      BY <2>1 DEF Timeout
    <3> QED BY <3>1, <1>1, <1>3, BudgetKept, OpeningKept DEF MInv
  <2>2. CASE Reload(c)
    <3>1. /\ \A m \in Commit : submitCount'[c][m] = 0
          /\ goal'[c] = {} /\ sync'[c] = "off"
      BY <2>2 DEF Reload, MInv, TypeOK
    <3>2. faults["crash"] \in Nat
      BY DEF MInv, TypeOK, Fault
    <3>3. BudgetOK(c)'
      BY <3>1, <3>2, <1>1, <1>3 DEF BudgetOK, Spent, LastLeft, Lands
    <3> QED BY <3>1, <3>3 DEF OpeningOK
  <2> QED BY <2>1, <2>2
<1>6. \A d \in Client \ {c} : BudgetOK(d)' /\ OpeningOK(d)'
  BY <1>1, <1>2, <1>3, BudgetKept, OpeningKept DEF MInv
<1> QED BY <1>1, <1>4, <1>5, <1>6 DEF MInv, ViewsFresh

(* A crash allows one more submission, and the submissions that are under  *)
(* way are not of commits whose budget was spent before (loadRepoFromBackup).*)
LEMMA CrashStep ==
  ASSUME MInv, Crash
  PROVE  /\ ViewsFresh' /\ CyclesOK'
         /\ \A d \in Client : BudgetOK(d)' /\ OpeningOK(d)'
<1>1. /\ srv' = disk /\ msgs' \subseteq msgs
      /\ \A m \in msgs' : m.stage # "verified"
      /\ \A d \in Client : view'[d] = NoView
      /\ submitCount' = submitCount /\ sync' = sync /\ successes' = successes
      /\ \A d \in Client : goal'[d] = goal[d] \cap disk
  BY DEF Crash, Restart
<1>2. /\ faults["crash"] \in Nat /\ faults'["crash"] = faults["crash"] + 1
      /\ \A d \in Client, m \in Commit : submitCount[d][m] \in Nat
  BY DEF Crash, Fail, MInv, TypeOK, Fault
<1>3. \A d \in Client : Pending(d)' \subseteq Pending(d)
  BY <1>1 DEF Pending
<1>4. ViewsFresh' /\ CyclesOK'
  BY <1>1 DEF MInv, ViewsFresh, CyclesOK
<1>5. ASSUME NEW d \in Client PROVE BudgetOK(d)'
  <2> SUFFICES ASSUME NEW m \in Commit
               PROVE  /\ submitCount[d][m] <= faults["crash"] + 1
                      /\ submitCount[d][m] = faults["crash"] + 1 => Lands(d, m)'
    BY <1>1, <1>2 DEF BudgetOK, Spent, LastLeft
  <2>1. /\ submitCount[d][m] <= 1 + faults["crash"]
        /\ Spent(d, m) => \A p \in Pending(d) : m \notin p.sent
    BY DEF MInv, BudgetOK, Known
  <2> QED BY <2>1, <1>2, <1>3 DEF Spent, Lands
<1>6. \A d \in Client : OpeningOK(d)'
  BY <1>1, <1>3 DEF MInv, OpeningOK
<1> QED BY <1>4, <1>5, <1>6

(* The app opens the repository: no cycle counts yet.                      *)
LEMMA OpenStep ==
  ASSUME MInv, NEW c \in Client, OpenRepository(c)
  PROVE  /\ ViewsFresh' /\ CyclesOK'
         /\ \A d \in Client : BudgetOK(d)' /\ OpeningOK(d)'
<1>1. /\ msgs' = msgs /\ srv' = srv /\ view' = view /\ faults' = faults
      /\ submitCount' = submitCount /\ serverFilter' = serverFilter
  BY DEF OpenRepository, serverVars
<1>2. /\ goal'[c] \subseteq srv /\ successes'[c] = 0
      /\ \A d \in Client \ {c} : /\ goal'[d] = goal[d] /\ sync'[d] = sync[d]
                                /\ successes'[d] = successes[d]
  BY DEF OpenRepository, MInv, TypeOK
<1>3. \A d \in Client : Pending(d)' = Pending(d)
  BY <1>1 DEF Pending
<1>4. \A d \in Client : BudgetOK(d)'
  BY <1>1, <1>3, BudgetKept DEF MInv
<1>5. OpeningOK(c)'
  BY <1>1, <1>2 DEF OpeningOK
<1>6. \A d \in Client \ {c} : OpeningOK(d)'
  BY <1>1, <1>2, <1>3, OpeningKept DEF MInv
<1> QED BY <1>1, <1>4, <1>5, <1>6 DEF MInv, ViewsFresh, CyclesOK
-----------------------------------------------------------------------------
(* Every step keeps the invariant.                                         *)
LEMMA MInvStep == ASSUME Steady PROVE MInv /\ [Next]_vars => MInv'
<1> SUFFICES ASSUME MInv, [Next]_vars PROVE MInv'
  OBVIOUS
<1>a. TypeOK /\ TypeOK' /\ MembersOK'
  BY TypeStep, MembersStep DEF MInv
<1> DEFINE Kept == /\ ViewsFresh' /\ CyclesOK'
                   /\ \A d \in Client : BudgetOK(d)' /\ OpeningOK(d)'
<1>1. ASSUME NEW c \in Client,
             \/ \E m \in Commit : CommitLocally(c, m) \/ BackupToIDB(c, m)
             \/ LoadRepository(c) \/ MarkRepositoryReady(c) \/ Grant(c)
      PROVE  Kept
  <2>1. CASE Grant(c)
    BY <2>1, QuietStep DEF Grant, clientVars
  <2>2. CASE LoadRepository(c) \/ MarkRepositoryReady(c)
    BY <2>2, QuietStep DEF LoadRepository, MarkRepositoryReady, serverVars
  <2>3. ASSUME NEW m \in Commit, CommitLocally(c, m) \/ BackupToIDB(c, m)
        PROVE  Kept
    BY <2>3, QuietStep DEF CommitLocally, BackupToIDB, serverVars
  <2> QED BY <1>1, <2>1, <2>2, <2>3
<1>2. ASSUME NEW x \in Commit, Flush(x) PROVE Kept
  BY <1>2, QuietStep DEF Flush, clientVars
<1>3. ASSUME SetupDone \/ UNCHANGED vars PROVE Kept
  BY <1>3, QuietStep DEF SetupDone, vars, clientVars, serverVars
<1>4. ~Upgrade /\ \A c \in Client : ~Revoke(c)
  BY <1>a DEF Upgrade, Revoke, MayFail, Bound, Steady, TypeOK, Fault
<1>5. ASSUME NEW c \in Client,
             \/ \E m \in Commit : CommitLocally(c, m) \/ BackupToIDB(c, m)
             \/ LoadRepository(c) \/ MarkRepositoryReady(c) \/ OpenRepository(c)
             \/ \E fp \in SUBSET Commit : Send(c, fp) \/ Reply(c, fp)
             \/ Receive(c) \/ Timeout(c) \/ Reload(c)
             \/ Verify(c) \/ ReplyToNobody(c)
             \/ Grant(c) \/ Revoke(c)
      PROVE  Kept
  BY <1>1, <1>5, <1>4, OpenStep, SendStep, ReplyStep, ReceiveStep, GiveUpStep,
     VerifyStep, ReplyToNobodyStep
<1>6. ASSUME Next PROVE Kept
  <2>1. CASE \E x \in Commit : Flush(x)
    BY <2>1, <1>2
  <2>2. CASE SetupDone \/ Crash
    BY <2>2, <1>3, CrashStep
  <2> QED BY <2>1, <2>2, <1>5, <1>4, <1>6 DEF Next
<1> QED BY <1>a, <1>3, <1>6 DEF MInv

(* At first nobody has submitted anything and nothing is being opened.     *)
LEMMA InitMInv == ASSUME Steady PROVE Init => MInv
<1> SUFFICES ASSUME Init PROVE MInv
  OBVIOUS
<1>1. TypeOK
  BY InitType
<1>2. MembersOK /\ ViewsFresh /\ CyclesOK
  BY DEF Init, Steady, MembersOK, ViewsFresh, CyclesOK
<1>3. \A c \in Client : Pending(c) = {}
  BY DEF Init, Pending
<1>4. \A c \in Client : BudgetOK(c) /\ OpeningOK(c)
  BY <1>3 DEF Init, Fault, BudgetOK, Spent, Lands, OpeningOK
<1> QED BY <1>1, <1>2, <1>4 DEF MInv

(* sync() ends by an answer only (BaseClient.sync).                        *)
LEMMA EndsByReceive ==
  ASSUME TypeOK, [Next]_vars, NEW c \in Client, sync[c] = "active",
         sync'[c] = "done"
  PROVE  Receive(c)
<1>1. ASSUME NEW d \in Client,
             \/ \E m \in Commit : CommitLocally(d, m) \/ BackupToIDB(d, m)
             \/ LoadRepository(d) \/ MarkRepositoryReady(d)
             \/ Timeout(d) \/ Verify(d)
      PROVE  sync' = sync
  BY <1>1 DEF CommitLocally, BackupToIDB, LoadRepository, MarkRepositoryReady,
              Timeout, Verify, clientVars
<1>2. ASSUME NEW d \in Client,
             \/ ReplyToNobody(d) \/ Grant(d) \/ Revoke(d)
             \/ \E fp \in SUBSET Commit : Send(d, fp) \/ Reply(d, fp)
      PROVE  sync' = sync
  BY <1>2 DEF ReplyToNobody, Grant, Revoke, Send, Reply, clientVars
<1>3. ASSUME \/ \E x \in Commit : Flush(x)
             \/ SetupDone \/ Crash \/ Upgrade \/ UNCHANGED vars
      PROVE  sync' = sync
  BY <1>3 DEF Flush, SetupDone, Crash, Upgrade, Restart, vars, clientVars
<1>4. ASSUME NEW d \in Client, OpenRepository(d) \/ Reload(d)
      PROVE  sync'[c] # "done"
  BY <1>4 DEF OpenRepository, Reload, TypeOK
<1>5. ASSUME NEW d \in Client, Receive(d), d # c PROVE sync'[c] = sync[c]
  BY <1>5 DEF Receive, TypeOK
<1> QED BY <1>1, <1>2, <1>3, <1>4, <1>5 DEF Next

(* Only crashes of the server cost submissions: no lost request, late      *)
(* answer, reload, wrong filter or other client uses up COMMIT_SUBMIT_RETRY*)
(* (afterMessageSent, valuesForMessage).                                   *)
THEOREM RetryBudgetHolds == ASSUME Steady PROVE Spec => []RetryBudget
<1>1. MInv => RetryBudget
  BY DEF MInv, BudgetOK, RetryBudget
<1> QED BY <1>1, InitMInv, MInvStep, PTL DEF Spec

(* When sync() returns, the client has what the server had when it began   *)
(* and did not lose since: the second cycle asked for everything, and the  *)
(* answer to it was a view of all that was stored (BaseClient.sync).       *)
THEOREM OpenedCompletely == ASSUME Steady PROVE Spec => OpenedIsComplete
<1> DEFINE Ends(c) ==
             sync[c] = "active" /\ sync'[c] = "done" /\ version[c] >= srvVersion
           Complete == \A c \in Client : Ends(c) => goal[c] \subseteq repo'[c]
<1>1. ASSUME MInv, [Next]_vars, NEW c \in Client, Ends(c)
      PROVE  goal[c] \subseteq repo'[c]
  <2>1. Receive(c)
    BY <1>1, EndsByReceive DEF MInv
  <2>2. PICK m \in Pending(c) : Receive(c)!(m)
    BY <2>1 DEF Receive
  <2>3. successes[c] = 1
    BY <1>1, <2>2 DEF MInv, TypeOK, CycleCount
  <2>4. m.stage = "response" /\ goal[c] \subseteq m.values
    BY <1>1, <2>2, <2>3 DEF MInv, OpeningOK
  <2>5. repo'[c] = repo[c] \cup m.values
    BY <1>1, <2>2 DEF Stored, MInv, TypeOK
  <2> QED BY <2>4, <2>5
<1>2. MInv /\ [Next]_vars => [Complete]_vars
  BY <1>1
<1> HIDE DEF Complete
<1>3. Spec => [][Complete]_vars
  BY <1>2, InitMInv, MInvStep, PTL DEF Spec
<1> QED BY <1>3 DEF OpenedIsComplete, Complete
=============================================================================
