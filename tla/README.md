# A TLA+ model of Ovvio's replication

Ovvio is a collaborative workspace. Its data is a graph of *vertices* (notes, tags,
users, workspaces), each of which is a *record* under a *key* of a *repository*. A
repository is a set of signed, immutable *commits*; the commits of one key form a
graph whose leaves are merged like the branches of a version control system. Browsers
keep the repositories in memory and in IndexedDB, server processes in memory and in
JSON logs, and a polling protocol on top of Bloom filters brings the sets of commits
together. There is no coordinator, no lock and no version vector: what makes the
system correct is that commits are only ever added, that the filters are drawn anew
for every message, and that concurrent edits are merged the same way by everybody.

The specifications in this directory model that core: the replication, the merging,
what the user sees while both go on, what a browser has under way with its server and
its database, and the log on disk.

    ReplicatedSet      what replication promises (abstract)
        ^   ^
        |   |          implements (checked by TLC and proved)
        |   +------ JSONLog          the log file of a server process
        |               ^            extends
        |           JSONLogProofs    types, what was written, the refinement
        +---------- SyncProtocol     clients and server of one repository
                        ^            extends
                    SyncProtocolProofs      types, provenance, readers, the refinement
                        ^            extends
                    SyncMembersProofs       retries, what opening brings
    RepoMerge          the commit graph of one key
        ^   ^          extend
        |   +------ RepoMergeProofs  types, what merges see
        |               ^   ^        extend
        |               |   +------ RepoHistoryProofs  who merges, what merges make
        |               |            with VertexManager
        |           VertexManagerProofs     types, nothing typed is lost
    VertexManager      the record a user sees and edits

    Queries            the results that the views show
        ^              extends
    QueriesProofs           no wakeup is lost, types, results at rest

    SyncScheduler      requests: priorities, batches, failures
    CommitBackup       the backup in the browser's database
        ^   ^          extend
        |   +------ ClientIOProofs   the proofs about both
    MCClientIO         both in one instance

An `MC...` module gives the constants of the module it is named after their values for
TLC, and a `.cfg` file is one model-checking run.

## 1. Inventory

Line numbers refer to `src/`. "Hard" names the behaviours that unit tests hardly reach;
`PROJECT.json` lists them one by one under `hazards`, each at its line.

### Sync cycle (`net/base-client.ts`, `net/repo-client.ts`, `net/message.ts`, `net/server/sync.ts`)

*State, client:* the commits of the repository, `_submitCount` per commit,
`_previousServerFilter`, `_pendingSyncPromise`, `_syncActive`, `ready`,
`_connectionOnline`. *State, server:* the commits, `_cachedCommitsPerUser`, the
rendezvous hash of the processes, the build id.
*Operations:* `sendSyncMessage` (one cycle), `sync()` (cycles until the peers agree),
the polling timer, `doSync` (verify, persist, answer), `setup`.
*Interaction:* a request carries a filter of the client's commits and the commits the
last filter of the server lacked; the answer carries a filter of the server and the
commits the client's filter lacked. A `NewCommit` event hands new commits to the log.
*Hard:* a cycle that was sent before the state it depends on changed, lost and late
answers, false positives, a crash between the answer and the write to the log, cached
views, the retry budget.
*Correct if:* nobody holds what nobody may write; nobody reads what he may not; a
client that opened a repository has what the server had; the replicas agree in the
end; what is on stable storage is never lost; the retry budget is not used up by
failures.

### Repository lifecycle on a client (`cfds/client/graph/graph-manager.ts`, `repo/idbbackup.ts`)

*State:* `plumbing` of each repository (loading, `loadingFinished`, `syncFinished`,
client, backup), the IndexedDB databases, `_persistedCommitIds`, `localStorage`.
*Operations:* `loadRepository`, `prepareRepositoryForUI`, `syncRepository`,
`markRepositoryReady`, `repositoryReady`, `persistCommits`, the backup timer.
*Hard:* the tab may be closed between an edit, its backup and its submission; a
repository may poll before it is open for edits; transactions overlap, and one that
fails takes back what it wrote.
*Correct if:* every commit reaches the database, and what was backed up reaches the
server whatever happens to the tab.

### Queries (`cfds/client/graph/query.ts`, `graph-manager.ts`, `base/timer.ts`, `coroutine.ts`, `emitter.ts`)

*State:* the vertices, `_pendingMutations`, the results and the emissions of each query,
the timers of the event loop, the queues of the coroutine scheduler.
*Operations:* the scan of a source, `vertexChanged`, `vertexDeleted`, the processing of
pending mutations, creating and touching vertices, `tick`, delivering what was emitted.
*Interaction:* a `NewCommit` event creates or touches a vertex; its changed fields
become a pending mutation; the graph tells the first query of a chain, each query the
next one, with a cycle of the event loop in between.
*Hard:* a scan yields between two keys while events of the same keys are handled;
events are delayed, and are read against the results at that later time; everything
depends on some timer being scheduled.
*Correct if:* when all is quiet the results are the vertices that satisfy the
predicates, and all becomes quiet.

### Request scheduler (`net/sync-scheduler.ts`, `net/rest-api.ts`)

*State:* requests by URL and priority, the fetch in progress, `gAccessDeniedCount`.
*Operations:* `send`, `sendPendingRequests`, `sendJSONToURL` with its timeout and its
pause after a refusal.
*Hard:* requests of several clients share a batch and its failure; clients send again
while the rest of their batch is still being settled; ten refusals delete the
databases of the browser.
*Correct if:* every request is settled once and in the end, and the browser is logged
out by refusals alone.

### Commit graph of a key (`repo/repo.ts`, `repo/commit.ts`)

*State:* commits by id and by key, the adjacency list, pending merges, several caches.
*Operations:* `setValueForKey`, `mergeIfNeeded`, `createMergeCommit`, `headForKey`,
`leavesForKey`, `findMergeBase`, `rebase`, `persistCommits`.
*Interaction:* every client runs the same algorithm on its own replica; the results
are commits like any other.
*Hard:* several clients see several leaves at once; a merge is computed, then signed
asynchronously, while commits arrive; leaves are estimated from Bloom filters; the
history of a merge may criss-cross.
*Correct if:* a merge loses no edit and revives none, editors do not answer merges with
merges for ever, and all replicas show the same record in the end.

### Vertex manager (`cfds/client/graph/vertex-manager.ts`)

*State:* `_record`, `_headId`, the commit timer, `_commitPromise`, the touch timer.
*Operations:* the record setter, `commit`, `_commitImpl`, `rebase`, `touch`.
*Hard:* the user types while his last edit is being committed and somebody else's
arrives.
*Correct if:* what he typed stays, is committed, and nothing else is undone.

### Server log (`repo/json-log-repo-backup.ts`, `base/json-log.ts`, `base/serial-scheduler.ts`)

*State:* the file, its offset, `_pendingFunctions`, the scheduler's timer.
*Operations:* `open`/`scan` (read and repair), `append`, `barrier`, `close`.
*Hard:* the process dies inside a write; appends overlap; the repair counts bytes.
*Correct if:* what was written is read back and the repair cuts the torn tail only.

### The other parts

| Part | State and operations | Hard | Here |
|---|---|---|---|
| Authorizers (`repo/auth.ts`) | none; decide reads and writes from `/sys/dir` | stale decisions | the workspace authorizer, in SyncProtocol |
| Sessions, trust pool (`auth/session.ts`, `net/server/auth.ts`) | known keys; login, signatures | commits that arrive before their session | taken as known |
| Indexes and resolver (`repo/index.ts`, `repo/resolver.ts`) | commits of heads that match a predicate, updated on `NewCommit` | stale entries | no |
| Records and schemes (`cfds/base`, `cfds/change`) | diff, patch, upgrade of values | none concurrent | the set field, in RepoMerge |
| Rich text (`cfds/richtext`) | tree algorithms | large inputs | no: nothing to gain from small trees |
| Undo, adjacency lists (`cfds/client/undo`, `cfds/client/graph/adj-list.ts`) | changes of one user; edges | none concurrent | no |
| Vertices (`cfds/client/graph/vertices`) | business rules on one record | none concurrent | no |
| Base utilities (`base/`) | timers, coroutines, emitter, serial scheduler, collections | order, re-entrancy | timers, coroutines and emitter in Queries, the serial scheduler in JSONLog and CommitBackup |
| Server services, server control, CLI, logging | handlers, shell commands, I/O | restarts | their effect: Crash, Upgrade, the batch of "repo dedup" |
| User interface, styles, emails, analytics, vendored code | presentation | | no |

## 2. Modules

### ReplicatedSet

The promise, with no protocol: nodes with a set of commits (`replica`) and a part of it
on stable storage (`stable`). A node creates a commit, learns commits that exist, saves
one, or crashes and falls back to what it saved. Whatever implements it never invents a
commit, never forgets one without a crash, and never loses a saved one. SyncProtocol
implements it with the clients and the server as nodes, JSONLog with the one node whose
`stable` is what a scan of the bytes of the file yields. So the assumption SyncProtocol
makes of its disk is what JSONLog is checked against.

### SyncProtocol

One repository, its clients and one server process. A Bloom filter is the set its `has`
answers true for, `S \cup fp` with `fp` chosen by TLC for every filter: the code draws
new seeds each time. An empty filter has no false positives.

| Variable | Code |
|---|---|
| `repo`, `idb` | `MemRepoStorage` and the IndexedDB backup of a client |
| `submitCount`, `serverFilter` | `_submitCount`, `_previousServerFilter` |
| `loaded`, `ready`, `syncFinished` | `plumbing.loadingFinished`, `BaseClient.ready`, `plumbing.syncFinished` |
| `sync`, `successes` | the loop of `BaseClient.sync()` and its counter |
| `online`, `version` | `_connectionOnline`, the build of the tab |
| `msgs` | cycles under way: `request` (not yet handled), `verified` (between the `await` of `verifyCommits` and the rest of `doSync`), `response` |
| `srv`, `view` | the server's storage and `_cachedCommitsPerUser` |
| `writeQ`, `disk` | commits handed to the log, and in it |
| `hashReady` | `setup()` has filled `_rendezvousHash`: before that no commit is logged |
| `members`, `srvVersion` | the users of the workspace record, the deployed build |
| `eligible`, `entitled` | no code: commits that existed while their signer was a member, and what the server held while a client was one |

`Send`, `Verify`, `Reply` (or `ReplyToNobody`) and `Receive` are one cycle, cut where
the code awaits. `LoadRepository`, `OpenRepository` and `MarkRepositoryReady` are the
lifecycle; `CommitLocally` and `BackupToIDB` what the tab does by itself; `Timeout`,
`Reload`, `Crash` and `Upgrade` the faults, each with a bound (`Max...`) that counts how
often it happens; `Grant` and `Revoke` the arrival of a workspace record that lists a
user who was not listed, or no longer one who was (`ws-general.tsx:386`, read back at
`auth.ts:211`). Neither touches the list cached for him (`repo.ts:232`). `MaxRevoke`
bounds the removals; who was removed may be listed again.

Left out: stopping and starting a client from the UI, opening a repository while
offline, several server processes and the exchange between them, the order in which
sessions and commits arrive, the directory repository itself. Requests in batches and
IndexedDB transactions are CommitBackup's and SyncScheduler's: here a request stands
alone and a backup writes one commit. `Author[m]` fixes who signs a commit: who may sign is the
subject, not how signatures are checked.

### RepoMerge

The commits of one key. `commits` is the sequence of all commits ever constructed, in
the order of their timestamps, and `have[c]` the replica of client `c`; a commit that is
constructed and not yet signed is in nobody's replica. Operators translate
`filterLatestCommitsByConnection`, `pickBestCommitForCurrentClient`, `headForKey`,
`_findLCAMergeBase`, `findMergeBase`, `createMergeRecord`,
`commitIsHighProbabilityLeaf`, `commitsWithUniqueRecords` and
`mergeLeaderFromLeaves`; the actions are an edit (`SetValueForKey`, `ValueSigned`), a
merge (`StartMerge` inside other actions, `MergeSigned`), `Deliver` and `Touch`.

Time enters only through the `pace` of `Conditions`: when a client looks at the leaves relative to the five
seconds of the leader election and to the three seconds of `commitInGracePeriod`.
`"prompt"`: all leaves are fresh. `"slow"`: the oldest ones are not. `"late"`: none is.
`"again"`: none is, and the deciding commit has been looked at before. A record is one
set field; commits carry whole records; every client is one session with one
connection; one client creates the record; timestamps are the order of construction.

Which paces, false positives and gaps (commits that arrive before their parents) there
are is chosen by `Conditions`, once for a behaviour.

Here the vertex shows whatever commit `headId` names. VertexManager removes this
idealisation.

### VertexManager

Extends RepoMerge by what one tab keeps of the vertex: the record, the commit timer, a
commit under way and what it started with, and who waits for the pending merge. Its
actions replace those of RepoMerge that belong to the vertex (`UserEdit`, `Commit`,
`CommitNothing`, `CommitUnderWay`, `CommitSigned`, `MergeCommitSigned`, `TouchVertex`,
`DeliverToVertex`) and reuse `StartMerge`, `NothingToMerge`, `Deliver` and the graph.

### JSONLog

The file as a sequence of bytes, `EntrySize` bytes for an entry. `AppendCommits`,
`ProcessPendingFunctions`, `Seek` and `Write` are the steps of an append: the scheduler
calls itself serial, but its timer is started again by an append that is scheduled while
another waits, so appends overlap and share the file offset. `Crash` may leave a prefix
of a write, and `Open` reads and repairs. `Dedup` is what the command "repo dedup"
wrote before: a batch of entries, where the server appends one at a time.

### Queries

A chain of `Depth` queries over the graph, as `SharedQueriesManager` and the views build
them: query 1 filters the vertices, query `q` the results of query `q - 1`. What a
vertex contains is reduced to the queries whose predicate it satisfies (`match`).

| Variable | Code |
|---|---|
| `stored`, `vertices` | keys of the repositories (`GraphManager.keys()`), keys with a `VertexManager` |
| `arriving` | keys whose `NewCommit` is emitted by a background coroutine (`repo.ts:1378`) |
| `initial`, `touched`, `mutated` | `reportInitialFields` in a microtask, `touch` under way, `_pendingMutations` |
| `phase`, `todo`, `results` | closed, scheduled, scanning or loaded; the keys a scan has yet to visit; `_results` |
| `pending` | the emissions of a query that its emitter delays to the next cycle |
| `cycle`, `next` | timers of `NextEventLoopCycleTimer` that fire now, and in the next cycle |
| `tickCount`, `stage` | `_tickCount` (two ticks of three are skipped), what a tick ran so far |
| `late` | no code: the keys a query looked at when its source had lost them |

Everything on the thread is an action of its own (`BeginCycle`, `RunCoroutine`,
`EndTick`, `SkipTick`, `Deliver`, `Delivered`, `ReportInitialFields`); what comes from
outside (`Edit`, `Create`, `Arrive`, `Touched`, `Open`) happens between two cycles.
A tick runs any coroutines in any order, since the code decides by measured time and by
a comparison that is the reverse of its comment (`coroutine.ts:205`), and stops after
any number of them but not before the first.

Abstractions: a scan does not wait for its source to have loaded, since the one query
that asks for it (`waitForSource`) has the graph as its source; a query that was opened
is never suspended, because `onResultsChanged` detaches another callback than it
attached (`query.ts:479`) and `Emitter.detach` removes a callback only if it is the
only one (`emitter.ts:133`); a key stays in its group; union sources, limits, the order
of the results and the notification of the views (a timer of 300 ms) are left out.

### SyncScheduler

The requests of all repositories of a browser to one server. A client waits until its
request is settled (`waiting`), so it has one at most. `Taken` is the batch of
`sendPendingRequests`: up to `MaxBatch` of each priority, highest first, until there are
`MaxBatch`. The fetch ends in `TimedOut`, `Failed`, `Refused` or `Accepted`, a refusal
is followed by a pause (`PauseEnds`) or by the logout, an accepted answer by `Decode`
for each request with a sleep in between, or by `DecodeFails`. `dropped` are the
requests of a batch that could not be serialised: `JSON.stringify` is outside the `try`
(`sync-scheduler.ts:157`) and their promises are never settled.

### CommitBackup

The backup of one repository: the `NewCommit` handler and the backup timer (`Save`) call
`persistCommits`, whose functions a `SerialScheduler` starts (`Begin`); each writes
(`Put`) in a transaction that completes or fails (`Complete`, `Fail`). Transactions of
one store run one after the other, though functions overlap. `Close` and `Load` are the
end of a page and the next start. Left out: the intervals of the timer (it comes to any
batch at any time, but to one not while the same is being saved), the deletion of the
database at a logout, and the durability of the database itself.

### MCClientIO

An instance of SyncScheduler and CommitBackup together. They share no state, so that
the instance lets one move only while the other is in its initial state.

## 3. Properties and runs

Passing runs:

| Run | Instance | Properties |
|---|---|---|
| `sync_members` | 2 clients, a commit each, one client not a member at first, a member removed at any point, retry budget 2; no backups | `TypeOK`, `Provenance`, `ReadWhileMember`, `OpenedIsComplete` |
| `sync_pair` | 2 clients, 1 commit, a crash of the server, fairness | `RetryBudget`, `Replicates`, `Converges` |
| `sync_recover` | 1 client; 2 commits and a crash or a reload; 1 commit and two of a timeout, a reload and an upgrade; fairness | `Provenance`, `RetryBudget`, `Converges`, `BackedUpIsReplicated` |
| `merge` | 2 editors, 3 elements, 4 edits, commits before their parents; prompt editors with and without false positives, and editors of any later pace, 3 merges | `TypeOK`, `MergesSeeAncestors`, `RecordIsItsHistory`, `NoMergeStorm`, `NoAdditionLost` |
| `vertex` | 2 users, 2 elements, prompt, false positives | `VertexTypeOK`, `MergesSeeAncestors`, `TypedIsScheduled`, `TypedIsKept` |
| `log` | 3 commits, 4 crashes, every tear of two bytes or more, fairness | `TypeOK`, `WrittenIsRead`, `Durable`, `AppendsFinish` |
| `queries` | a chain of 2 queries, 2 keys, 1 change besides the commits of the last session, fairness | `TypeOK`, `WorkIsScheduled`, `NothingMissing`, `NothingStale`, `ComesToRest` |
| `client_io` | 3 repositories, batches of 2, logout after 2 refusals, any number of urgent requests; 2 commits, 2 failing transactions, a reload; fairness | `SchedulerTypeOK`, `NoRequestForgotten`, `LogoutAfterRefusals`, `EveryRequestSettled`, `BackupTypeOK`, `MarkedIsStored`, `BackedUp` |

What they say:

- `Provenance`: the server stores only commits that existed while their signer was a
  member; the log never holds what memory does not; a client holds only its own commits
  and such commits. A commit that is verified when its signer is removed may still be
  stored; one he makes later is not.
- `ReadWhileMember`: reading ends with the membership. What a cached view or an answer
  shows a client, and what it holds that is not its own, the server held at a time when
  that client was a member: who never was one sees nothing, who was removed nothing that
  was stored after that, although the list cached for him is served on (see the
  divergences without a run). A server that goes on extending the cached lists, instead
  of dropping them when a commit is stored, violates it.
- `OpenedIsComplete`: when `sync()` returns, the client has everything the server held
  when it was called and did not lose in a crash, even though the first of the two
  cycles it waits for may be a polling cycle sent earlier, whose filter hides the commit
  it lacks. `sync_members` has the second author this takes: a client that holds nothing
  sends an empty filter, which hides nothing. With one cycle instead of two it fails, and
  so it does if the cycles of `sync()` carry a filter like all others. It is said of a
  tab whose build is the deployed one, an older one being answered with nothing, and of
  a client that is not removed from the workspace meanwhile and whose list was not cached
  before it became a member (`doc_members_see_all`).
- `RetryBudget`: a commit is counted at most once, and once more per crash of the
  server, so that failures do not use `COMMIT_SUBMIT_RETRY` up. With two commits
  (`sync_recover`) a filter of the server that lacks one of them may claim it, and the
  commit is then not submitted in that cycle. It is said, like `Converges`, of tabs whose
  build is the deployed one.
- `Replicates`: every step is a step of ReplicatedSet or changes none of its variables.
- `Converges` (SyncProtocol): from some time on every polling client holds exactly what
  the server holds, however often the filters of either side hid a commit before. It
  fails when the seeds of a filter stay the same.
- `BackedUpIsReplicated`: what reached IndexedDB reaches the server.
- `RecordIsItsHistory`: the record of a commit is what was added in its history minus
  what was removed there, if every merge in that history was of two commits that forked
  at one: the newest commit they share has all they share in its history, and a walk
  back from either meets it first (`Fork`). `NoAdditionLost` is the half of it that holds
  however histories criss-cross. Neither asks who merged, or when.
- `MergesSeeAncestors`: the assertion at `repo/repo.ts:974` holds. With two editors it
  does so even if commits arrive before their parents; see the divergences for more.
- `NoMergeStorm`: two prompt editors do not answer each other's merges: there are at least
  two more edits than merges.
- `TypedIsKept`, `TypedIsScheduled`: what a user added and nobody committed stays on his
  screen until he removes it, and a commit of it is scheduled or under way.
- `WrittenIsRead`, `Durable`, `AppendsFinish`: see ReplicatedSet above; every append
  ends unless the process dies.
- `WorkIsScheduled`: whatever has something left to do (an emitter, a scan, the pending
  mutations, a `NewCommit` event), a timer of this cycle or the next will come to it.
- `NothingMissing`: when the loop is at rest, every vertex that satisfies the predicates
  of a query and of those above it is in its results, whatever the order of scans,
  events, ticks and commits was. `NothingStale`: nothing else is, with the exception
  listed below. `ComesToRest`: when the changes end, the loop comes to rest.
- `NoRequestForgotten`: the request of a waiting client is in exactly one place, in a
  queue, in what is left of the batch under way, or lost with a batch that was not
  serialised, although clients send again while their batch is being settled.
- `EveryRequestSettled`: a client that waits is answered or rejected in the end,
  whatever fails, a batch that was not serialised and the logout excepted, unless batches
  full of more urgent requests pass it over again and again for ever. Nothing bounds the
  urgent requests: without that exception TLC finds two repositories with local changes
  that starve a third. A request with local changes is never starved.
- `LogoutAfterRefusals`: the databases are deleted only after refusals in a row.
- `MarkedIsStored`: what counts as persisted is in the database or on its way there,
  except for what was undone by a failing transaction. `BackedUp`: every commit reaches
  the database, with the two exceptions listed below.

For each of these properties the module holds a `Mut...` operator: a bug the code could
plausibly have, under which TLC finds the property violated.

### Divergences that a run shows

| Run | Says | Does |
|---|---|---|
| `doc_members_see_all` | `repo/auth.ts:210`: "Full read-write for workspace members" | `repo/repo.ts:234` caches the commits a user may read and drops the cache only when this repository stores a commit. A user who polled before the workspace record listed him keeps an empty list until somebody commits |
| `doc_rebase` | `repo/repo.ts:1142`: the rebased record "can be used to safely update the UI, as well as update" | `repo/repo.ts:1152` tests a string for being a `Commit`, so a rebase with nothing to do forgets the head. The next commit names the newest commit of the key as its parent although its record was made without it: an addition by somebody else is removed |
| `doc_converge` | `repo/repo.ts:339`: "We must consider the newest commits as leaves, otherwise we'd deadlock and not converge on all branches" | `repo/repo.ts:349` answers for the newest commit of a key with "is it my own": only its author may merge it, while `mergeIfNeeded` lets only the merge leader merge. When the leader is somebody else, neither merges, nobody looks again until the next edit, and the editors go on showing different records |
| `doc_log_tail` | `logging/json-log-stream.ts:13`: "trimming any corrupted tail" | `base/json-log.ts:165` counts two newlines for each entry, and a batch of n entries has n + 1 (`cli/repo.ts:138` writes batches of 50). The repair of a torn tail then cuts behind the last good entry, and appends after the next start are lost at the start that follows |

### Divergences met while modelling, without a run

- `repo/repo.ts:232`: the list of commits a user may read is cached until this repository
  stores a commit. A user who is removed from a workspace (`ws-general.tsx:386`,
  `auth.ts:211`) is served all that was stored before, new sessions of his included, for
  as long as nobody commits to the workspace. `ReadWhileMember` says that it is no more
  than that. His own commits are refused at once, verified ones excepted.
- `net/sync-scheduler.ts:137` takes the requests of a higher priority first, and
  `net/base-client.ts:200` gives every request of a repository with local changes the
  highest: as many repositories as fill a batch, each with changes at every cycle, starve
  the others. `EveryRequestSettled` says that it takes an endless row of such batches.
- `net/repo-client.ts:57` gives a commit up after ten answered submissions, while
  `README.md:188` promises that the client "will just wait happily for everything to
  sync": a workspace whose record never reaches `/sys/dir`, or a tab of an old build,
  uses the budget up. If the server then loses the commit in a crash it is not sent again
  before a reload.
- `net/server/sync.ts:114`: requests are served before `setup()` has filled the
  rendezvous hash, and `:237` logs a commit only if the hash names this process. What
  is stored before that is never logged. SyncProtocol models it (`hashReady`), which is
  why ReplicatedSet does not promise that every commit is saved.
- `graph-manager.ts:304` compares a string of `localStorage` with `true`: a repository
  is never open for edits when it is loaded, and `markRepositoryReady` (`:515`) is undone
  by the load that is under way.
- `repo/repo.ts:477` finds no merge base for a root, so three branches off the first
  commit, merged by three editors, lose the edits of one (`:985` leaves it out, `:394`
  lists it among the parents). `NoAdditionLost` is about merges of two commits,
  whoever makes them.
- `repo/repo.ts:974` asserts that a merge sees an ancestor. It does if commits arrive
  after their parents (`MergesSeeTheirAncestors`, section 5). If an editor has the first
  commit of a key and newer leaves of three others, but none of their parents, the four
  commits are as many as `:334` counts, two of the leaves pass for likely ones, and the
  assertion fails: TLC finds it in a step from the state in which alice has commits 1,
  3, 4 and 5, where 2 derives from 1 and the others from 2. To reach that state from
  the initial one takes more editors than an exhaustive search covers. The rejected
  promise is not caught by `_touchImpl` (`vertex-manager.ts:428`).
- `repo/repo.ts:1083` refuses an edit while a merge is pending, but signs the edit after
  the test: a merge a touch starts in between becomes the newer leaf of the client and
  `valueForKey` does not return the edit, against `:1074`. The vertex itself keeps it
  (`TypedIsKept`).
- `repo/repo.ts:1028` is to filter equal records out of a merge; `:1617` keeps an older
  duplicate of somebody else's.
- `repo/repo.ts:796`: the cache of heads compares a session with a connection id and
  never hits. `:1736`: `commitInGracePeriod` is true once the three seconds are over.
- Histories criss-cross, and a merge may then bring back an element that was removed: a
  merge base of two commits need not have all they share in its history. Editors of a
  later pace get there within the bounds of `merge`, prompt ones with eight edits and
  three merges: an edit that is pending while its author merges leaves the merge without
  descendants, and `headForKey` (`repo/repo.ts:794`) takes him back to it when the other
  has merged past it, since it prefers his own commits. `RecordIsItsHistory` says that
  nothing but criss-crossing brings elements back.
- Two editors of a later pace may answer each other's merges until one of them is fresh
  enough to lead; `MaxMerges` bounds it in `merge`.
- `repo/idbbackup.ts:154` marks a commit as persisted before its transaction completes.
  What a failing transaction wrote stays marked, and neither the handler nor the timer
  writes it again before the next load; `:85` saves full batches of 100 only, so the
  timer never writes again what failed behind the last full batch, which in a small
  repository is everything. `BackedUp` states what is left.
- `cfds/client/graph/query.ts:652`: a scan visits the keys its source had when the scan
  began and yields between them. A key that the source loses meanwhile is added when
  the scan comes to it, since the event of the loss came first, and stays: a note
  that was deleted may be listed by a query whose own predicate does not look at
  deletion (`shared-queries.ts:162`). With chains of three and more queries two events
  of one cycle may do the same (`query.ts:584`, `:595`). `NothingStale` says that there
  is no other way.
- `query.ts:479` detaches the wrong callback and `base/emitter.ts:133` does not remove
  one of several: handlers stay, and queries are never suspended.
- `cfds/client/graph/query-storage.ts:81` stops at `results.length - 2` and does not
  compare the last pair.
- `base/coroutine.ts:205` orders coroutines the other way round than its comment says.
  (`CoroutineQueue` is not modelled: queries run on the shared scheduler,
  `query.ts:342`.)
- `base/coroutine-timer.ts:40`: after an exception in a callback the timer counts as
  scheduled for ever and does not run again.
- After `CommitNothing` the vertex takes the head of the repository for what its record
  derives from, while it may still show an older record.
- A tear of exactly one byte leaves a newline. The count of bytes is then one too low;
  after a second tear the repair cuts the newline of a good entry, which is lost at the
  restart that follows. `Torn` therefore starts at two.

## 4. Bounds, symmetry, deadlock, fairness

*Two clients and one or two commits* (SyncProtocol): a client's cycles interact with
another client only through the set the server stores, the view cached for it and the
membership, and all cycles treat the commits one by one except for the emptiness of a
filter, for which two commits are enough: a filter that is not empty may hide one.
With a single commit (`sync_pair`, the combined faults of `sync_recover`) no filter of
the server hides anything, since who lacks it has none; two commits of one client with a
crash or a reload (`sync_recover`), and of two clients without faults (`sync_members`),
are what is about filters. The action constraint of `sync_recover` (`Scenario` in
MCSyncProtocol) is this choice; it keeps back faults, edits of the user and false
positives, and no step that fairness asks for, so that it hides no liveness. A timeout,
a reload and an upgrade together were checked as well. Two clients, two commits and
fairness together are out of reach. `CommitSubmitRetry` is 2 or 3 instead of 10:
`RetryBudget` asserts that the budget is not reached by failures, and `sync_members` lets
it run out. The action constraint of `sync_members` leaves the backups of clients and
server out, the end of `setup()` included: without a reload or a restart nothing reads
them. One fault of each kind per run is enough to place it at any step of any cycle.

*Four edits* (RepoMerge): two concurrent branches, a merge, and an edit concurrent to
the merge. Three merges are more than prompt editors make (`NoMergeStorm`), and let the
late ones merge merges. In `vertex` the number of
edits is limited by the elements, each of which is added once and removed once, so that
the fate of each can be read off the graph; `MaxEdits` and `MaxMerges` are not reached.
False positives are all or nothing (`{{}, 1..9}`): a filter that contains everything
and one that is exact are the extremes the estimate of a leaf depends on. Two editors
have two leaves at most, so that a false positive only keeps them from merging;
the late editors, which are about what a merge loses, do without.

*Bytes* (JSONLog): three bytes for an entry, so that a tear may keep none of an entry's
bytes, some, or all of them without the final newline.

*Two queries, two keys* (Queries): a query whose source is the graph and one whose
source is a query; a scan that visits one key while something happens to the other.
`AllOrMost` gives a vertex all predicates, none, all but the first or all but the last.
One change is enough because a behaviour begins with commits of the last session, each
of which makes a vertex, changes it at a touch, and reaches every query. The properties
were also checked on chains of three with two keys and of four with one.

*Three repositories, batches of two* (SyncScheduler): a batch that is cut, one that is
not, and a client left waiting behind them; two refusals stand for the ten of the code.
The urgent requests are not bounded: two clients that send nothing else fill every batch.

*Two commits, batches of two* (CommitBackup): a full batch and one with a rest, two
transactions that overlap, and two failures, so that what was tried again may fail
again. Three commits with one failure and no reload were checked as well.

*Symmetry*: only over values the code never orders, and only in runs of invariants and
step properties: `Elem`. Clients are not symmetric (`Rank`, `Creator`, `Author`), nor are the commits of RepoMerge
(timestamps).

*Deadlock* is not checked: users may stop editing and faults are bounded, so each system
may come to rest. That nothing waits for ever is what the liveness properties say.

*Fairness*, and what in the code justifies it:

- Loading, receiving, verifying, answering a request nobody waits for, writing to the
  log, finishing `setup`: weak fairness. They are promises and timers of an event loop
  that keeps running.
- `Send(c, {})` and `Reply(c, {})`: strong fairness of the message *without* false
  positives. The seeds of every filter are drawn anew, so that a client that keeps
  polling does not meet a false positive for the same commit for ever.
- `doc_converge`: signatures (promises) and touches (timers) with weak fairness, each
  for the variables it moves, and delivery, which is what `Converges` of SyncProtocol
  establishes.
- Queries: the event loop (`Loop`) and the ends of touches, weakly. Which coroutines a
  tick runs is left open.
- `client_io`: the timers, the interval and the timeouts of the scheduler
  (`Progress`); the functions, writes and completions of the backup, its `NewCommit`
  events and its timer. No fairness of `Fail`, `Close` or the user.
- Nothing is assumed of the user, of the faults, or of `BackupToIDB` (a tab may be
  closed first; that is why `BackedUpIsReplicated` starts from the backup).

## 5. Proofs

TLAPS proves the following, for every value of the constants: any sets of clients and
commits, any authors, any bounds on edits, merges, changes and faults. Each theorem
assumes of the constants what the module declares (`ConstantsOK` of SyncProtocol,
RepoMerge and JSONLog, `QueriesConstantsOK`, `SchedulerConstantsOK`,
`BackupConstantsOK`): bounds that are natural numbers, not zero where the code divides
or cuts by them, and a finite set of commits for the backup, which lists them.

| Module | Theorem | States |
|---|---|---|
| `SyncProtocolProofs` | `TypeCorrect` | `Spec => []TypeOK` |
| | `ProvenanceHolds` | `Spec => []Provenance` |
| | `ReadersAreMembers` | `Spec => []ReadWhileMember` |
| | `Refines` | `Spec => Replicates`: SyncProtocol implements ReplicatedSet |
| `SyncMembersProofs` | `RetryBudgetHolds` | `Steady` implies `Spec => []RetryBudget` |
| | `OpenedCompletely` | `Steady` implies `Spec => OpenedIsComplete` |
| `RepoMergeProofs` | `GraphTypeCorrect` | `Spec => []TypeOK` |
| | `MergesSeeTheirAncestors` | without gaps, `Spec => []MergesSeeAncestors` |
| `RepoHistoryProofs` | `RecordsAreTheirHistory` | `Spec => []RecordIsItsHistory` |
| | `MergesLoseNoAddition` | `Spec => []NoAdditionLost` |
| | `MergesAreNotAnswered` | with two clients, `Spec => []NoMergeStorm` |
| `VertexManagerProofs` | `TypedWillBeCommitted` | `VertexSpec => []TypedIsScheduled` |
| | `TypedStays` | `VertexSpec => TypedIsKept` |
| | `VertexTypeCorrect` | `VertexSpec => []VertexTypeOK` |
| | `VertexMergesSeeAncestors` | without gaps, `VertexSpec => []MergesSeeAncestors` |
| `JSONLogProofs` | `LogTypeCorrect` | `Spec => []TypeOK` |
| | `WrittenIsReadBack` | `Dedup = <<>>` and `1 \notin Torn` imply `Spec => []WrittenIsRead` |
| | `LogIsStable` | under the same hypotheses `Spec => Durable`: JSONLog implements ReplicatedSet |
| `QueriesProofs` | `NoWakeupLost` | `Spec => []WorkIsScheduled` |
| | `QueriesTypeCorrect` | `Spec => []TypeOK` |
| | `NothingIsMissing` | `Spec => []NothingMissing` |
| | `NothingIsStale` | `Spec => []NothingStale` |
| `ClientIOProofs` | `LogoutOnlyAfterRefusals` | `SchedulerSpec => []LogoutAfterRefusals` |
| | `RequestsAreKept` | `SchedulerSpec => []NoRequestForgotten` |
| | `SchedulerTypeCorrect` | `SchedulerSpec => []SchedulerTypeOK` |
| | `MarkedCommitsAreStored` | `BackupSpec => []MarkedIsStored` |
| | `BackupTypeCorrect` | `BackupSpec => []BackupTypeOK` |

Some have a hypothesis more, because without it the code does something else, and the
property is false:

- `Steady` (`RetryBudgetHolds`, `OpenedCompletely`): see below.
- `Dedup = <<>>` and `1 \notin Torn` (`WrittenIsReadBack`, `LogIsStable`): the log was
  written one entry at a time, and a tear leaves no single byte. `scan` miscounts the
  newlines of a batch (run `doc_log_tail`) and of a lone newline (the last of the
  divergences without a run). `LogTypeCorrect` does without.
- Two clients (`MergesAreNotAnswered`): of three, the third may
  merge what two of them merged already, each with what he has: TLC finds three merges
  of three edits.
- No gaps (`MergesSeeTheirAncestors`, `VertexMergesSeeAncestors`): commits arrive after
  their parents. See the divergence at `repo/repo.ts:974`.

*`Provenance`* is not inductive: a commit enters a client from an answer and the server
from a request, so the same has to be said of both. The inductive invariant `IInv` is
`TypeOK`, `Provenance`, `InFlightOK` (what requests, verified requests and answers carry
may be held by whom they are going to), `ViewsOK` (a cached view lists only what
may be held) and `EligibleOK` (what a member has signed is eligible). Members come and
go, but `eligible` and the set of created commits only grow (`HistoryGrows`), which is
why what was verified before an `await` may be stored after it.

*`ReadWhileMember`*: the membership is read when a list is computed, the list is used
until the next store. `ReadersOK` says of the lists, the answers under way, and the
stores and backups of the clients (a reload brings a backup back) that they show a
client only what it was entitled to when they were made; what a client is `entitled` to
grows with every store while it is a member and never shrinks (`ReadersKept`).

*`Replicates`* follows from `IInv` step by step: `CommitLocally` is `Create`,
`BackupToIDB` and `Flush` are `Save`, `LoadRepository`, `Receive` and the two replies are
`Learn`, `Reload`, `Crash` and `Upgrade` are `Crash`, and the others change nothing that
ReplicatedSet sees. `Learn` is why the invariant is needed: what arrives must exist.

*`RetryBudget`* and *`OpenedIsComplete`* are false in general: a non-member and a client
of an old build are answered with nothing, submit in vain and open an empty repository,
and a member whose cached view is from before his membership is treated like a
non-member. `Steady` says that this does not occur: every client belongs to a member
from the start, nobody is removed, and no build is deployed. The inductive invariant
`MInv` says

- a cached view is all that the server has (`ViewsFresh`);
- a client waits for one cycle at most, and what a verified request submitted is stored
  or about to be stored (`CyclesOK`);
- when a commit has been counted once more often than the server crashed, the server has
  the commit, the last filter and the one that is on its way say so, and no request
  under way submits it; when it has been counted as often as that, an answer that counts
  it is an answer of a server that has it (`BudgetOK`). A crash moves a commit from the
  first case to the second;
- the goal of a `sync()` is part of what the server has, and the cycle after the first
  success asks for everything and is answered with it (`OpeningOK`).

*`TypeOK` of RepoMerge* is about more than the shape of values: that the shown commit is
in the repository and a pending one in nobody's. The inductive invariant (`GraphShape`)
adds that a pending commit was constructed by the client it is pending at, so that no
other client can have it pending or receive it, and that it is pending as an edit or as
a merge and not as both (`PendingMoves`, `ShapeKept`). Steps of the graph are described
apart from what is shown after them (`GraphStep`), so that the same lemmas serve
VertexManager. That what a merge constructs is well formed rests on lemmas about the
folds of `findMergeBase` and `commitsWithUniqueRecords` (`FindMergeBaseOf`,
`UniqueRecordsOf`): a fold from the community modules is a function chosen to satisfy
its recursion; `FoldExists` shows that there is one, and `FoldInduction` that what the
base has and every step keeps the fold has, by the least set of steps for which it would
fail.

*`MergesSeeAncestors`* follows from `SeesInv`: a client knows the parents of what it
holds or has pending, at most one commit has no parent, and its creator has it. Of two
leaves one has a parent then, in the same replica, and that is an ancestor.

*`RecordIsItsHistory`* and *`NoAdditionLost`* are about the whole history of a commit,
a merge about three records. The inductive invariant (`HistoryInv`) therefore says what
each commit did when it was constructed, in terms that later commits do not change
(`GraphLaws`): an edit added only what was in no record before it; a merge of two commits
patched the differences of both onto a base that both have in their history, and that is
the newest commit they share if they fork there. For the merge to have such a base the
two must share a commit, which is why the invariant adds that one commit only has no
parents and that its creator knows it (`OneRoot`, `RootKnown`). From these laws the two
properties follow for each state, by induction on the commits (`LawsKeepHistory`): what a
base has and a branch lacks was removed in that branch, what a branch has and the base
lacks was added there, and nothing is added twice.
What the code computes for a merge is a matter of folds: `History` is the least set that
contains a commit and the parents of its members (`HistoryIs`), the search for a base
goes back from both commits in rounds (`ReachedInRounds`) until they meet, and where they
meet first is a commit they share, the newest if they fork (`BaseOfBranches`,
`MergeOfBranches`). The author of a merge held both histories, whether commits arrive in
order or not, because `MergesOfTwo` says so (`SawHistory`).

*`NoMergeStorm`* (`MergerInv`): a merge is of a commit by each of the two, so that while
both look at once only the editor of the lower rank leads, and all merges are his
(`PromptMerge`). The commit by the other that a merge is of is an edit then, and no other
merge is of it: every merge uses up an edit. Two edits are never used up (`Spared`): his
own, and those that something he holds derives from without being a merge of them.

*`TypedIsScheduled`* and *`TypedIsKept`* (`VertexInv`): `headId`, `setting` and `merging`
name constructed commits; the record a commit under way started with is committed; an
editor who has no commit and did not create the record has seen nothing. A rebase
patches the changes of the others onto what is shown, so that what is outside the base
stays, and the base is committed. A commit under way either shows its record or
schedules itself again. Nothing is used of what merges compute.

*`WrittenIsRead`* and *`Durable`* (`LogInv`): the bytes of the file are the frames of a
sequence of commits, followed by nothing while the process runs and perhaps by a torn
frame of two bytes or more after a crash; every append that was resolved is in that
sequence. Two appends that overlap share the offset, which is the end of the file as
long as the process runs (`LogShape`), so that neither overwrites the other. A scan of
such bytes finds the commits of the sequence and nothing in the tail (`ScanOf`), and the
repair cuts the tail and nothing else (`RepairedIs`); both rest on lemmas about the
lines of a flattened sequence of frames.

*`WorkIsScheduled`* is inductive with the types of the queues (`WakeupInv`), for every
length of the chain, graph and number of changes. A step that leaves something to do
either schedules a timer or is taken while the timer that will come to it is still at
the head of the cycle; when that timer is done (`TimerIsDone`) it has nothing left or
schedules itself again. The proof has one lemma for each action; `EmitWakes` and
`VertexChangedWakes` say what an emission leaves.

*`NothingMissing`* and *`NothingStale`* speak of the loop at rest; the invariant
(`ResultsInv`) speaks of every state, one key at a time. A key that a query should show
and does not is fresh in the graph, still to be scanned, or in an event on its way, at
the query or above it, that no later event about the same key takes back; a key whose
source lost it will be told to the query, or is `late`. What decides is the last event
about a key in each queue. At rest no event is on its way and no scan has anything left,
by `WorkIsScheduled`, so the results are what the predicates say.

*`LogoutAfterRefusals`* needs that the counter is the number of refusals at the end of
the answers (`RefusalsCounted`), and that it stands at the limit only when the browser
is logged out.

*`NoRequestForgotten`* speaks of one sequence, all queues and the unanswered rest of the
batch in a row; the inductive invariant (`Placed`) takes it apart: none of them has a
repetition, no two have an element in common, and together they hold `waiting \ dropped`.
What `SendPendingRequests` takes and leaves is a `Split` of each queue; a rejection
settles the rest of the batch, which is why it cannot touch a request that was sent
since. That a batch is shorter than `2 * MaxBatch` (`BatchBounded`) follows from the
order in which the priorities are counted.

*`MarkedIsStored`* is inductive as it stands once the transactions are known to be a
sequence: what the head of them wrote goes to the database or to `undone` when it ends
(`TxnEndsWritten`). *`BackupTypeOK`* needs that whatever a function or a transaction
lists is in the repository (`BackupShape`), and that an order of a finite set is a
sequence without repetitions.

Each invariant was model-checked on the instances of the runs before it was proved.

Only model-checked: the liveness properties (`Converges`, `BackedUpIsReplicated`,
`AppendsFinish`, `ComesToRest`, `EveryRequestSettled`, `BackedUp`), since TLAPS does not
reason about fairness. Every other property of the passing runs is the subject of a
theorem. Of merges of three and more commits nothing is proved but that they see an
ancestor: what they lose is listed above.

## 6. Not modelled

- *Sessions and the trust pool.* Which session is trusted rests on signatures, and
  sessions are commits of another repository: the server drops commits whose session it
  does not know (`repo.ts:1262`), after a crash that lost the session for example, which
  a model of one repository does not show.
- *Several server processes* (`_rendezvousHash`): who logs what, and what another
  process reads. SyncProtocol has one, which is what `server-control` starts
  (`server-control.ts:186`).
- *Three and more editors, delta commits, corruption, scheme upgrades* (RepoMerge): the
  leaves of a third editor multiply the states beyond what an exhaustive search covers,
  and the loss listed above for three branches off the first commit is known.
- *Indexes, undo, adjacency lists, business rules of vertices, rich text, records*:
  sequential code over data, whose correctness is in its cases, not in its order.
- *Server services, command line tools, logging, user interface, vendored code*: I/O and
  presentation without shared state. The map covers a small part of the lines of the
  repository because most of them are of this kind.
