---------------------------- MODULE CommitBackup ----------------------------
(***************************************************************************)
(* The backup of one repository in the browser's database                  *)
(* (repo/idbbackup.ts), which SyncProtocol takes for one step per commit:  *)
(* functions of a SerialScheduler that write commits in transactions, a    *)
(* timer that tries again what failed, and the loading after a reload.     *)
(*                                                                         *)
(* A SerialScheduler starts a function scheduled while another one waits,  *)
(* so that transactions overlap; the database runs those that write to the *)
(* same store one after the other and undoes one that fails.               *)
(***************************************************************************)
EXTENDS Naturals, Sequences, FiniteSets, SequencesExt

CONSTANTS
  Commit,      (* the commits there will be: finitely many                 *)
  SaveBatch,   (* maxBatchSize of the backup timer                         *)
  MaxFailures, (* bound: transactions that fail                            *)
  MaxCloses    (* bound: how often the page is closed                      *)

ASSUME BackupConstantsOK ==
  /\ IsFiniteSet(Commit)
  /\ SaveBatch \in Nat \ {0}
  /\ MaxFailures \in Nat /\ MaxCloses \in Nat

VARIABLES
  loaded,     (* loadCommits is over                                       *)
  commits,    (* repo.commits(), in their order                            *)
  arriving,   (* commits whose NewCommit is yet to be emitted              *)
  persisted,  (* _persistedCommitIds                                       *)
  pending,    (* the scheduler's functions that have not started: the new  *)
              (* commits of a call of persistCommits                       *)
  timer,      (* the scheduler's timer is scheduled                        *)
  txns,       (* transactions under way; the first one runs                *)
  stored,     (* the database                                              *)
  undone,     (* history: written by a transaction that failed             *)
  failed,     (* history: in a transaction that failed                     *)
  failures,   (* counts up to MaxFailures                                  *)
  closes      (* counts up to MaxCloses                                    *)

bvars == <<loaded, commits, arriving, persisted, pending, timer, txns, stored,
           undone, failed, failures, closes>>

Txn == [todo : SUBSET Commit, put : SUBSET Commit]

BackupTypeOK ==
  /\ loaded \in BOOLEAN /\ timer \in BOOLEAN
  /\ IsInjective(commits) /\ ToSet(commits) \subseteq Commit
  /\ arriving \cup persisted \subseteq ToSet(commits)
  /\ \A i \in DOMAIN pending : pending[i] \subseteq ToSet(commits)
  /\ \A i \in DOMAIN txns : txns[i] \in Txn
  /\ stored \subseteq Commit
  /\ undone \subseteq failed /\ failed \subseteq Commit
  /\ failures \in 0..MaxFailures /\ closes \in 0..MaxCloses

BackupInit ==
  /\ loaded = FALSE
  /\ commits = <<>>
  /\ arriving = {} /\ persisted = {} /\ undone = {} /\ failed = {}
  /\ pending = <<>> /\ txns = <<>>
  /\ timer = FALSE
  /\ stored = {}
  /\ failures = 0 /\ closes = 0
------------------------------------------------------------------------------
(* persistCommits.                                                         *)
PersistCommits(S) ==
  LET new == S \ persisted
  IN IF new = {} THEN UNCHANGED <<pending, timer>>
     ELSE pending' = Append(pending, new) /\ timer' = TRUE

(* A commit of the user or the server is in the repository.                *)
NewCommit(c) ==
  /\ c \notin ToSet(commits)
  /\ commits' = Append(commits, c)
  /\ arriving' = arriving \cup {c}
  /\ UNCHANGED <<loaded, persisted, pending, timer, txns, stored, undone,
                 failed, failures, closes>>

(* Its NewCommit event.                                                    *)
EmitNewCommit(c) ==
  /\ c \in arriving
  /\ arriving' = arriving \ {c}
  /\ PersistCommits({c})
  /\ UNCHANGED <<loaded, commits, persisted, txns, stored, undone, failed,
                 failures, closes>>

(* The batches the backup timer saves: full ones only, in the order of the *)
(* repository.                                                             *)
Full == {i \in 1..Len(commits) : i % SaveBatch = 0}
BatchTo(i) == {commits[j] : j \in (i - SaveBatch + 1)..i}
Rest == {commits[j] : j \in {k \in DOMAIN commits : \A i \in Full : i < k}}

(* The definitions named Mut... are bugs this code could have; each breaks *)
(* a property below when it stands in for the definition that follows it.  *)
MutNeverSaves(i) == FALSE /\ UNCHANGED bvars

(* The backup timer, which fires again and again, comes to one of its      *)
(* batches.  It waits for each before it goes on.                          *)
Save(i) ==
  /\ i \in Full
  /\ LET new == BatchTo(i) \ persisted
     IN /\ new # {} /\ ~Contains(pending, new)
        /\ \A t \in DOMAIN txns : ~(new \subseteq txns[t].todo)
  /\ PersistCommits(BatchTo(i))
  /\ UNCHANGED <<loaded, commits, arriving, persisted, txns, stored, undone,
                 failed, failures, closes>>

MutMarksFirst ==
  /\ timer /\ pending # <<>>
  /\ timer' = FALSE
  /\ pending' = Tail(pending)
  /\ txns' = Append(txns, [todo |-> Head(pending) \ persisted, put |-> {}])
  /\ persisted' = persisted \cup Head(pending)
  /\ UNCHANGED <<loaded, commits, arriving, stored, undone, failed, failures,
                 closes>>

(* processPendingFunctions: the next function begins its transaction.      *)
Begin ==
  /\ timer /\ pending # <<>>
  /\ timer' = FALSE
  /\ pending' = Tail(pending)
  /\ txns' = Append(txns, [todo |-> Head(pending) \ persisted, put |-> {}])
  /\ UNCHANGED <<loaded, commits, arriving, persisted, stored, undone, failed,
                 failures, closes>>

(* A commit is written, unless it is there, and counts as persisted.       *)
Put(c) ==
  /\ txns # <<>> /\ c \in Head(txns).todo
  /\ LET new == {c} \ stored
     IN /\ txns' = [txns EXCEPT ![1] = [todo |-> @.todo \ {c}, put |-> @.put \cup new]]
        /\ persisted' = persisted \cup new
  /\ UNCHANGED <<loaded, commits, arriving, pending, timer, stored, undone,
                 failed, failures, closes>>

(* The function is over, and the scheduler's timer is scheduled again.     *)
TxnEnds ==
  /\ txns' = Tail(txns)
  /\ timer' = (timer \/ pending # <<>>)
  /\ UNCHANGED <<loaded, commits, arriving, persisted, pending, closes>>

Complete ==
  /\ txns # <<>> /\ Head(txns).todo = {}
  /\ stored' = stored \cup Head(txns).put
  /\ TxnEnds
  /\ UNCHANGED <<undone, failed, failures>>

(* A request of the transaction fails, or the transaction when it is to    *)
(* complete: nothing of it is stored.                                      *)
Fail ==
  /\ txns # <<>> /\ failures < MaxFailures
  /\ failures' = failures + 1
  /\ undone' = undone \cup Head(txns).put
  /\ failed' = failed \cup Head(txns).put \cup Head(txns).todo
  /\ TxnEnds
  /\ UNCHANGED stored

(* The page is closed or reloaded.                                         *)
Close ==
  /\ closes < MaxCloses
  /\ closes' = closes + 1
  /\ loaded' = FALSE
  /\ commits' = <<>>
  /\ arriving' = {} /\ persisted' = {} /\ undone' = {} /\ failed' = {}
  /\ pending' = <<>> /\ txns' = <<>>
  /\ timer' = FALSE
  /\ UNCHANGED <<stored, failures>>

MutLoadsTwice ==
  /\ ~loaded /\ txns = <<>>
  /\ loaded' = TRUE
  /\ persisted' = persisted \cup stored
  /\ \E order \in SetToSeqs(stored) : commits' = commits \o order
  /\ arriving' = arriving \cup stored
  /\ UNCHANGED <<pending, timer, txns, stored, undone, failed, failures,
                 closes>>

(* loadCommits, which reads after the transactions under way, and what the *)
(* graph does with the commits.                                            *)
Load ==
  /\ ~loaded /\ txns = <<>>
  /\ loaded' = TRUE
  /\ persisted' = persisted \cup stored
  /\ LET new == stored \ ToSet(commits)
     IN /\ \E order \in SetToSeqs(new) : commits' = commits \o order
        /\ arriving' = arriving \cup new
  /\ UNCHANGED <<pending, timer, txns, stored, undone, failed, failures,
                 closes>>

Writes == Begin \/ Complete \/ \E c \in Commit : Put(c)

BackupNext ==
  \/ Writes \/ Fail \/ Close \/ Load
  \/ \E c \in Commit : NewCommit(c) \/ EmitNewCommit(c)
  \/ \E i \in 1..Cardinality(Commit) : Save(i)

BackupSpec == BackupInit /\ [][BackupNext]_bvars
------------------------------------------------------------------------------
(* What counts as persisted, and is not written again before the page is   *)
(* closed, is in the database, or will be when a transaction completes,    *)
(* except for what a transaction wrote that failed afterwards.  Overlapping*)
(* functions, commits that come twice and loading make no difference.      *)
MarkedIsStored ==
  persisted \subseteq stored \cup undone \cup UNION {txns[i].put : i \in DOMAIN txns}

(* Every commit gets to the database, also one whose transaction failed:   *)
(* the backup timer tries again.  Lost, until it comes again, is only what *)
(* is marked although it was undone, and what failed and is not in a full  *)
(* batch of the timer; and what the closed page had not written.           *)
BackedUp ==
  \A c \in Commit :
    c \in ToSet(commits) ~>
      c \in stored \cup undone \cup (failed \cap Rest) \/ c \notin ToSet(commits)
=============================================================================
