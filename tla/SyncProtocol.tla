---------------------------- MODULE SyncProtocol ----------------------------
(***************************************************************************)
(* The sync loop that replicates one repository between its clients and a  *)
(* server: net/message.ts, net/base-client.ts, net/repo-client.ts, the     *)
(* sync endpoint of net/server/sync.ts, the opening and reloading of a     *)
(* repository by cfds/client/graph/graph-manager.ts, and the two backups   *)
(* (IndexedDB on a client, a JSON log on the server).                      *)
(*                                                                         *)
(* A Bloom filter is the set of commits its has() answers true for: the    *)
(* added ones and any false positives.  An empty filter has no bits set    *)
(* and so no false positives.  Commits are opaque ids; their graph is the  *)
(* subject of RepoMerge.                                                   *)
(***************************************************************************)
EXTENDS Naturals, FiniteSets

CONSTANTS
  Client,             (* browser tabs that have the repository open        *)
  Commit,             (* commit ids                                        *)
  Author,             (* Author[m]: the client whose session signs m       *)
  FirstMembers,       (* users the workspace record lists from the start   *)
  CommitSubmitRetry,  (* COMMIT_SUBMIT_RETRY, 10 in the code               *)
  Server,             (* the server, as a node of ReplicatedSet            *)
  NoFilter, NoView,   (* "undefined" of a filter and of a cached view      *)
  MaxTimeout,         (* bound: requests that clients give up on           *)
  MaxCrash,           (* bound: crashes of the server                      *)
  MaxReload,          (* bound: reloads of clients                         *)
  MaxUpgrade,         (* bound: builds deployed to the server              *)
  MaxRevoke           (* bound: members removed from the workspace         *)

ASSUME ConstantsOK ==
  /\ Author \in [Commit -> Client]
  /\ FirstMembers \subseteq Client
  /\ CommitSubmitRetry \in Nat \ {0}
  /\ Server \notin Client
  /\ \A S \in SUBSET Commit : S # NoFilter /\ S # NoView
  /\ {MaxTimeout, MaxCrash, MaxReload, MaxUpgrade, MaxRevoke} \subseteq Nat

VARIABLES
  repo,          (* repo[c]: commits in the client's MemRepoStorage        *)
  idb,           (* idb[c]: commits in the client's IndexedDB backup       *)
  submitCount,   (* _submitCount: answered submissions of each commit      *)
  serverFilter,  (* _previousServerFilter                                  *)
  loaded,        (* plumbing.loadingFinished: the backup has been read     *)
  ready,         (* BaseClient.ready: the polling timer may send           *)
  online,        (* _connectionOnline                                      *)
  sync,          (* progress of the BaseClient.sync() that opens the repo  *)
  successes,     (* its counter i of successful cycles                     *)
  syncFinished,  (* plumbing.syncFinished: edits may be committed          *)
  version,       (* version[c]: build the client runs                      *)
  msgs,          (* requests and responses under way                       *)
  srv,           (* commits in the server's MemRepoStorage                 *)
  writeQ,        (* commits handed to JSONLogRepoBackup, not yet on disk   *)
  disk,          (* commits in the server's JSON log                       *)
  hashReady,     (* setup() has added this process to _rendezvousHash      *)
  view,          (* _cachedCommitsPerUser                                  *)
  members,       (* users the workspace record of /sys/dir lists           *)
  srvVersion,    (* build the server runs                                  *)
  created,       (* history: commits made so far                           *)
  eligible,      (* history: commits that existed while their signer was a *)
                 (* member                                                 *)
  entitled,      (* history: entitled[c] are the commits the server held   *)
                 (* while c was a member                                   *)
  goal,          (* history: what the server held when a sync() began that *)
                 (* has not ended, if the client is a member and no list   *)
                 (* cached before hides anything from it                   *)
  faults         (* how often each bounded fault happened                  *)

clientVars == <<repo, idb, submitCount, serverFilter, loaded, ready, online,
                sync, successes, syncFinished, version>>
serverVars == <<srv, writeQ, disk, hashReady, view, members, srvVersion,
                eligible, entitled>>
vars == <<clientVars, msgs, serverVars, created, goal, faults>>

Stage == {"request", "verified", "response"}
Fault == {"timeout", "crash", "reload", "upgrade", "revoke"}
Bound == [timeout |-> MaxTimeout, crash |-> MaxCrash,
          reload |-> MaxReload, upgrade |-> MaxUpgrade,
          revoke |-> MaxRevoke]

(* A sync cycle under way.  sent are the commits its request carried; in   *)
(* values the server leaves the commits it verified, then its answer.      *)
(* live is false once the client stopped waiting for the answer.           *)
Msg == [from : Client, live : BOOLEAN, stage : Stage, filter : SUBSET Commit,
        sent : SUBSET Commit, values : SUBSET Commit]

Message(c, live, stage, filter, sent, values) ==
  [from |-> c, live |-> live, stage |-> stage, filter |-> filter,
   sent |-> sent, values |-> values]

TypeOK ==
  /\ repo \in [Client -> SUBSET Commit]
  /\ idb \in [Client -> SUBSET Commit]
  /\ submitCount \in [Client -> [Commit -> Nat]]
  /\ serverFilter \in [Client -> {NoFilter} \cup SUBSET Commit]
  /\ loaded \in [Client -> BOOLEAN]
  /\ ready \in [Client -> BOOLEAN]
  /\ online \in [Client -> BOOLEAN]
  /\ sync \in [Client -> {"off", "active", "done"}]
  /\ successes \in [Client -> 0..1]
  /\ syncFinished \in [Client -> BOOLEAN]
  /\ version \in [Client -> Nat]
  /\ msgs \in SUBSET Msg
  /\ srv \in SUBSET Commit
  /\ writeQ \in SUBSET Commit
  /\ disk \in SUBSET Commit
  /\ hashReady \in BOOLEAN
  /\ view \in [Client -> {NoView} \cup SUBSET Commit]
  /\ members \in SUBSET Client
  /\ srvVersion \in Nat
  /\ created \in SUBSET Commit
  /\ eligible \in SUBSET Commit
  /\ entitled \in [Client -> SUBSET Commit]
  /\ goal \in [Client -> SUBSET Commit]
  /\ faults \in [Fault -> Nat]
------------------------------------------------------------------------------
(* The client.                                                             *)

Init ==
  /\ repo = [c \in Client |-> {}]
  /\ idb = [c \in Client |-> {}]
  /\ submitCount = [c \in Client |-> [m \in Commit |-> 0]]
  /\ serverFilter = [c \in Client |-> NoFilter]
  /\ loaded = [c \in Client |-> FALSE]
  /\ ready = [c \in Client |-> FALSE]
  /\ online = [c \in Client |-> TRUE]
  /\ sync = [c \in Client |-> "off"]
  /\ successes = [c \in Client |-> 0]
  /\ syncFinished = [c \in Client |-> FALSE]
  /\ version = [c \in Client |-> 0]
  /\ msgs = {}
  /\ srv = {}
  /\ writeQ = {}
  /\ disk = {}
  /\ hashReady = FALSE
  /\ view = [c \in Client |-> NoView]
  /\ members = FirstMembers
  /\ srvVersion = 0
  /\ created = {}
  /\ eligible = {}
  /\ entitled = [c \in Client |-> {}]
  /\ goal = [c \in Client |-> {}]
  /\ faults = [f \in Fault |-> 0]

MayFail(f) == faults[f] < Bound[f]
Fail(f) == faults' = [faults EXCEPT ![f] = @ + 1]

(* The definitions named Mut... are bugs this code could have; each breaks *)
(* a property below when it stands in for the definition that follows it.  *)
MutFixedSeeds(S, fp) == IF S = {} THEN {} ELSE Commit

(* The filters SyncMessage.build can produce for S with false positives fp *)
(* (new hash seeds are drawn for every filter).                            *)
BloomFilter(S, fp) == IF S = {} THEN {} ELSE S \cup fp

(* _pendingSyncPromise: the one cycle the client is waiting for.           *)
Pending(c) == {m \in msgs : m.from = c /\ m.live}

(* valuesForMessage() and localIds(): commits not yet given up on.         *)
Submittable(c) == {m \in repo[c] : submitCount[c][m] < CommitSubmitRetry}

MutReplaces(old, new) == new

(* MemRepoStorage.persistCommits: commits are only ever added.             *)
Stored(old, new) == old \cup new

(* The user edits: VertexManager.commit, allowed once repositoryReady.     *)
CommitLocally(c, m) ==
  /\ Author[m] = c
  /\ m \notin created
  /\ syncFinished[c]
  /\ created' = created \cup {m}
  /\ eligible' = IF c \in members THEN eligible \cup {m} ELSE eligible
  /\ repo' = [repo EXCEPT ![c] = @ \cup {m}]
  /\ UNCHANGED <<idb, submitCount, serverFilter, loaded, ready, online, sync,
                 successes, syncFinished, version, msgs, srv, writeQ, disk,
                 hashReady, view, members, srvVersion, entitled, goal, faults>>

MutNeverPolls(contents) == FALSE

PollsOnceLoaded(contents) == contents # {}

(* loadRepository: the backup is read; the client starts polling at once   *)
(* if the repository is not empty.  localStorage holds strings, so the     *)
(* comparison with true that sets syncFinished is false whatever it holds. *)
LoadRepository(c) ==
  /\ ~loaded[c]
  /\ loaded' = [loaded EXCEPT ![c] = TRUE]
  /\ repo' = [repo EXCEPT ![c] = Stored(@, idb[c])]
  /\ syncFinished' = [syncFinished EXCEPT ![c] = FALSE]
  /\ ready' = [ready EXCEPT ![c] = PollsOnceLoaded(repo'[c])]
  /\ UNCHANGED <<idb, submitCount, serverFilter, online, sync, successes,
                 version, msgs, serverVars, created, goal, faults>>

(* markRepositoryReady: a workspace the user has just created, which is    *)
(* empty and nobody else works in, is opened for edits in the turn that    *)
(* started to load it.                                                     *)
MarkRepositoryReady(c) ==
  /\ created = {}
  /\ \A d \in Client : ~syncFinished[d]
  /\ ~loaded[c]
  /\ syncFinished' = [syncFinished EXCEPT ![c] = TRUE]
  /\ UNCHANGED <<repo, idb, submitCount, serverFilter, loaded, ready, online,
                 sync, successes, version, msgs, serverVars, created, goal,
                 faults>>

(* The app opens the repository: prepareRepositoryForUI, syncRepository.   *)
OpenRepository(c) ==
  /\ loaded[c]
  /\ sync[c] = "off"
  /\ ~syncFinished[c]
  /\ online[c]
  /\ sync' = [sync EXCEPT ![c] = "active"]
  /\ successes' = [successes EXCEPT ![c] = 0]
  /\ goal' = [goal EXCEPT ![c] =
                IF c \in members /\ view[c] \in {NoView, srv} THEN srv ELSE {}]
  /\ UNCHANGED <<repo, idb, submitCount, serverFilter, loaded, ready, online,
                 syncFinished, version, msgs, serverVars, created, faults>>

MutAlwaysIncludes(c) == serverFilter[c] # NoFilter

(* While sync() is active, and before the first answer, a message has an   *)
(* empty filter and no values.                                             *)
IncludeMissing(c) == sync[c] # "active" /\ serverFilter[c] # NoFilter

(* sendSyncMessage: the polling timer of a ready client or the loop of     *)
(* sync() starts a cycle unless one is pending.                            *)
Send(c, fp) ==
  LET filter == IF IncludeMissing(c) THEN BloomFilter(Submittable(c), fp) ELSE {}
      values == IF IncludeMissing(c) THEN Submittable(c) \ serverFilter[c] ELSE {}
  IN /\ ready[c] \/ sync[c] = "active"
     /\ Pending(c) = {}
     /\ msgs' = msgs \cup
                  {Message(c, TRUE, "request", filter, values, values)}
     /\ UNCHANGED <<clientVars, serverVars, created, goal, faults>>

MutOneCycle == 0

MutTooManyCycles == 2

(* syncCycles while _syncActive is set.                                    *)
CycleCount == 1

MutCountsAll(c, m) == Submittable(c)

(* afterMessageSent counts the commits of the request that was answered.   *)
Counted(c, m) == m.sent

(* The answer arrives in time.  sync() ends when i <= cycleCount fails.    *)
Receive(c) ==
  \E m \in Pending(c) :
    /\ m.stage = "response"
    /\ msgs' = msgs \ {m}
    /\ serverFilter' = [serverFilter EXCEPT ![c] = m.filter]
    /\ submitCount' = [submitCount EXCEPT ![c] =
                         [x \in Commit |-> IF x \in Counted(c, m) THEN @[x] + 1
                                                               ELSE @[x]]]
    /\ repo' = [repo EXCEPT ![c] = Stored(@, m.values)]
    /\ online' = [online EXCEPT ![c] = TRUE]
    /\ LET finished == sync[c] = "active" /\ successes[c] + 1 > CycleCount
       IN /\ sync' = [sync EXCEPT ![c] = IF finished THEN "done" ELSE @]
          /\ successes' = [successes EXCEPT ![c] =
                             IF sync[c] = "active" /\ ~finished THEN @ + 1 ELSE 0]
          /\ ready' = [ready EXCEPT ![c] = @ \/ finished]
          /\ syncFinished' = [syncFinished EXCEPT ![c] = @ \/ finished]
          /\ goal' = [goal EXCEPT ![c] = IF finished THEN {} ELSE @]
    /\ UNCHANGED <<idb, loaded, version, serverVars, created, faults>>

(* What may become of a request its client no longer waits for: it is lost *)
(* or the server still handles it.                                         *)
Abandon(c) ==
  \/ msgs' = msgs \ Pending(c)
  \/ msgs' = (msgs \ Pending(c)) \cup
               {Message(c, FALSE, m.stage, {}, m.sent, m.values) :
                  m \in {p \in Pending(c) : p.stage # "response"}}

(* scheduler.send rejects: sendJSONToURL timed out or the fetch failed.    *)
Timeout(c) ==
  /\ MayFail("timeout")
  /\ Pending(c) # {}
  /\ Abandon(c)
  /\ online' = [online EXCEPT ![c] = FALSE]
  /\ Fail("timeout")
  /\ UNCHANGED <<repo, idb, submitCount, serverFilter, loaded, ready, sync,
                 successes, syncFinished, version, serverVars, created, goal>>

(* IDBRepositoryBackup.persistCommits, run for every NewCommit and by the  *)
(* background timer.                                                       *)
BackupToIDB(c, m) ==
  /\ m \in repo[c] \ idb[c]
  /\ idb' = [idb EXCEPT ![c] = @ \cup {m}]
  /\ UNCHANGED <<repo, submitCount, serverFilter, loaded, ready, online, sync,
                 successes, syncFinished, version, msgs, serverVars, created,
                 goal, faults>>

(* The tab is closed or crashes and is opened again, with the build the    *)
(* server delivers now.                                                    *)
Reload(c) ==
  /\ MayFail("reload")
  /\ Fail("reload")
  /\ Abandon(c)
  /\ repo' = [repo EXCEPT ![c] = {}]
  /\ submitCount' = [submitCount EXCEPT ![c] = [m \in Commit |-> 0]]
  /\ serverFilter' = [serverFilter EXCEPT ![c] = NoFilter]
  /\ loaded' = [loaded EXCEPT ![c] = FALSE]
  /\ ready' = [ready EXCEPT ![c] = FALSE]
  /\ online' = [online EXCEPT ![c] = TRUE]
  /\ sync' = [sync EXCEPT ![c] = "off"]
  /\ successes' = [successes EXCEPT ![c] = 0]
  /\ syncFinished' = [syncFinished EXCEPT ![c] = FALSE]
  /\ version' = [version EXCEPT ![c] = srvVersion]
  /\ goal' = [goal EXCEPT ![c] = {}]
  /\ UNCHANGED <<idb, serverVars, created>>
------------------------------------------------------------------------------
(* The server.                                                             *)

MutAnybodyWrites(m) == TRUE

(* verifyCommits and the workspace authorizer, for writes: the signer of   *)
(* the commit has to be a member.                                          *)
MayWrite(m) == Author[m] \in members

(* The request arrives; persistCommits skips the commits in _commitsCache  *)
(* and awaits the verification of the others.  All of the commits are      *)
(* cached once a view has been computed, before that any of them may be.   *)
Verify(c) ==
  \E m \in msgs :
    \E known \in {srv} \cup {k \in SUBSET srv : \A u \in Client : view[u] = NoView} :
      /\ m.from = c
      /\ m.stage = "request"
      /\ msgs' = (msgs \ {m}) \cup
                   {Message(c, m.live, "verified", m.filter, m.sent,
                            {x \in m.values \ known : MayWrite(x)})}
      /\ UNCHANGED <<clientVars, serverVars, created, goal, faults>>

(* The workspace authorizer, for reads.                                    *)
Readable(c, S) == IF c \in members THEN S ELSE {}

MutKeepsViews(S) == view

MutExtendsViews(S) ==
  [u \in Client |-> IF view[u] \in {NoView, {}} THEN NoView ELSE view[u] \cup S]

(* _cachedCommitsPerUser.clear(), once there is something to store.        *)
ViewsAfter(S) == IF S = {} THEN view ELSE [u \in Client |-> NoView]

(* persistVerifiedCommits: the new commits become visible, every cached    *)
(* view is dropped, and NewCommit hands them to the backup if the          *)
(* rendezvous hash names this process as the owner of their keys.  The     *)
(* answer is built in the same turn; to count and to list the commits the  *)
(* client may read it computes the view again.                             *)
Persist(c, S) ==
  /\ srv' = Stored(srv, S)
  /\ writeQ' = IF hashReady THEN writeQ \cup (S \ srv) ELSE writeQ
  /\ view' = [ViewsAfter(S) EXCEPT ![c] = IF @ = NoView THEN Readable(c, srv')
                                                       ELSE @]
  /\ entitled' = [u \in Client |-> IF u \in members THEN entitled[u] \cup srv'
                                                   ELSE entitled[u]]

(* The answer: a filter of the commits the client may read, and those its  *)
(* own filter lacks.  A client of an older build gets neither.             *)
Reply(c, fp) ==
  \E m \in msgs :
    LET upToDate == version[c] >= srvVersion
        filter == IF upToDate THEN BloomFilter(view'[c], fp) ELSE {}
        missing == IF upToDate THEN view'[c] \ m.filter ELSE {}
    IN /\ m.from = c
       /\ m.live
       /\ m.stage = "verified"
       /\ Persist(c, m.values)
       /\ msgs' = (msgs \ {m}) \cup
                    {Message(c, TRUE, "response", filter, m.sent, missing)}
       /\ UNCHANGED <<clientVars, disk, hashReady, members, srvVersion,
                      created, eligible, goal, faults>>

(* The same for a request nobody waits for any more: its answer is lost.   *)
ReplyToNobody(c) ==
  \E m \in msgs :
    /\ m.from = c
    /\ ~m.live
    /\ m.stage = "verified"
    /\ Persist(c, m.values)
    /\ msgs' = msgs \ {m}
    /\ UNCHANGED <<clientVars, disk, hashReady, members, srvVersion, created,
                   eligible, goal, faults>>

(* JSONLogFile.append writes a commit to the log.                          *)
Flush(x) ==
  /\ x \in writeQ
  /\ writeQ' = writeQ \ {x}
  /\ disk' = disk \cup {x}
  /\ UNCHANGED <<clientVars, msgs, srv, hashReady, view, members, srvVersion,
                 created, eligible, entitled, goal, faults>>

(* SyncService.setup finishes: addPeer for every process of the pool.      *)
(* Requests are served before that, setup() is not awaited.                *)
SetupDone ==
  /\ ~hashReady
  /\ hashReady' = TRUE
  /\ UNCHANGED <<clientVars, msgs, srv, writeQ, disk, view, members,
                 srvVersion, created, eligible, entitled, goal, faults>>

(* The server process dies, with every request it was handling, and is     *)
(* started again: loadRepoFromBackup reads the log.  The fetch of a client *)
(* whose request died fails.                                               *)
Restart(newVersion) ==
  LET dead == {m \in msgs : m.stage = "verified"}
  IN /\ srv' = disk
     /\ writeQ' = {}
     /\ hashReady' = FALSE
     /\ view' = [c \in Client |-> NoView]
     /\ msgs' = msgs \ dead
     /\ online' = [c \in Client |->
                     online[c] /\ \A m \in dead : m.from # c \/ ~m.live]
     /\ srvVersion' = newVersion
     /\ goal' = [c \in Client |-> goal[c] \cap disk]
     /\ UNCHANGED <<repo, idb, submitCount, serverFilter, loaded, ready, sync,
                    successes, syncFinished, version, disk, members, created,
                    eligible, entitled>>

Crash ==
  /\ MayFail("crash")
  /\ Fail("crash")
  /\ Restart(srvVersion)

(* A new build is deployed (server-control restarts the process).          *)
Upgrade ==
  /\ MayFail("upgrade")
  /\ Fail("upgrade")
  /\ Restart(srvVersion + 1)

(* The workspace record that lists c reaches /sys/dir.                     *)
Grant(c) ==
  /\ c \notin members
  /\ members' = members \cup {c}
  /\ eligible' = eligible \cup {m \in created : Author[m] = c}
  /\ entitled' = [entitled EXCEPT ![c] = @ \cup srv]
  /\ UNCHANGED <<clientVars, msgs, srv, writeQ, disk, hashReady, view,
                 srvVersion, created, goal, faults>>

(* removeUser: a workspace record that does not list c any more reaches    *)
(* /sys/dir.  The repository of the workspace is not told: what is cached  *)
(* for c, verified or under way stays.                                     *)
Revoke(c) ==
  /\ MayFail("revoke")
  /\ c \in members
  /\ members' = members \ {c}
  /\ goal' = [goal EXCEPT ![c] = {}]
  /\ Fail("revoke")
  /\ UNCHANGED <<clientVars, msgs, srv, writeQ, disk, hashReady, view,
                 srvVersion, created, eligible, entitled>>
------------------------------------------------------------------------------
Next ==
  \/ \E c \in Client :
       \/ \E m \in Commit : CommitLocally(c, m) \/ BackupToIDB(c, m)
       \/ LoadRepository(c) \/ MarkRepositoryReady(c) \/ OpenRepository(c)
       \/ \E fp \in SUBSET Commit : Send(c, fp) \/ Reply(c, fp)
       \/ Receive(c) \/ Timeout(c) \/ Reload(c)
       \/ Verify(c) \/ ReplyToNobody(c)
       \/ Grant(c) \/ Revoke(c)
  \/ \E x \in Commit : Flush(x)
  \/ SetupDone
  \/ Crash
  \/ Upgrade

Spec == Init /\ [][Next]_vars

(* Timers, promises and the network keep running; the seeds of the filters *)
(* are drawn anew for every message, so neither side produces filters with *)
(* false positives for ever.  Nothing is assumed of the user.              *)
Fairness ==
  /\ \A c \in Client :
       /\ WF_vars(LoadRepository(c))
       /\ WF_vars(Receive(c))
       /\ WF_vars(Verify(c))
       /\ WF_vars(ReplyToNobody(c))
       /\ SF_vars(Send(c, {}))
       /\ SF_vars(Reply(c, {}))
  /\ \A x \in Commit : WF_vars(Flush(x))
  /\ WF_vars(SetupDone)

FairSpec == Spec /\ Fairness
------------------------------------------------------------------------------
(* What a node keeps comes from somebody who may write: the server stores  *)
(* only what existed while its signer was a member (doSync ->              *)
(* verifyCommits: a commit verified before he was removed may be stored    *)
(* after, one he makes after that is not), a client holds only such commits*)
(* and its own, and the log never runs ahead of the memory.                *)
MayHold(c) == eligible \cup {m \in created : Author[m] = c}
Provenance ==
  /\ srv \subseteq eligible
  /\ disk \cup writeQ \subseteq srv
  /\ \A c \in Client : repo[c] \cup idb[c] \subseteq MayHold(c)

(* Reading ends with the membership, although the list cached for a user   *)
(* is served until the next store (Repository.commits): what he is shown,  *)
(* sent or keeps, unless he made it himself, the server held while he was  *)
(* a member; who never was one gets nothing, who was removed nothing that  *)
(* was stored later.                                                       *)
ReadWhileMember ==
  \A c \in Client :
    /\ view[c] # NoView => view[c] \subseteq srv \cap entitled[c]
    /\ \A m \in msgs :
         m.from = c /\ m.stage = "response" => m.values \subseteq entitled[c]
    /\ \A x \in repo[c] : Author[x] = c \/ x \in entitled[c]

(* syncRepository ("both peers have reached consensus", BaseClient.sync):  *)
(* once sync() returns, the client has everything the server held when it  *)
(* was called, although the first of its two cycles may be a timer's cycle *)
(* that was sent before, with a filter full of false positives.  (Unless a *)
(* build was deployed or the client removed meanwhile; a member whose list *)
(* was cached before he became one, as MembersSeeAll shows, gets nothing.) *)
OpenedIsComplete ==
  [][\A c \in Client :
       sync[c] = "active" /\ sync'[c] = "done" /\ version[c] >= srvVersion
         => goal[c] \subseteq repo'[c]]_vars

(* Only an answered request counts against COMMIT_SUBMIT_RETRY: a client   *)
(* submits a commit again only after the server lost it in a crash or in   *)
(* an answer that has not arrived yet, never because a filter was wrong.   *)
(* (While every client belongs to a member and runs the deployed build.)   *)
RetryBudget ==
  \A c \in Client : \A m \in Commit :
    version[c] >= srvVersion => submitCount[c][m] <= 1 + faults["crash"]

(* Replicas agree in the end: from some time on a client of the deployed   *)
(* build that polls or opens the repository holds what the server holds.   *)
Converges ==
  <>[](\A c \in Client : (ready[c] \/ sync[c] = "active") /\ version[c] >= srvVersion
                          => repo[c] = srv)

(* A commit that reached the client's backup reaches the server to stay,   *)
(* whatever request, answer, tab or process is lost on the way.            *)
BackedUpIsReplicated ==
  \A c \in Client : \A m \in Commit : m \in idb[c] ~> m \in srv

(* A workspace member reads everything in it ("Full read-write for         *)
(* workspace members", repo/auth.ts).                                      *)
MembersSeeAll ==
  \A c \in Client : \A m \in Commit :
    (m \in srv /\ c \in members /\ ready[c]) ~> (m \in repo[c])

(* The replication it implements: clients and the server as nodes.         *)
Replication == INSTANCE ReplicatedSet WITH
  Node <- Client \cup {Server},
  replica <- [n \in Client \cup {Server} |->
                IF n = Server THEN srv ELSE repo[n]],
  stable <- [n \in Client \cup {Server} |->
               IF n = Server THEN disk ELSE idb[n]]
Replicates == Replication!Spec
==============================================================================
