----------------------------- MODULE MCClientIO -----------------------------
(* What a browser has under way with the outside: its requests, and the     *)
(* backup of a repository.  The two share no state, so that an instance     *)
(* need not interleave them: one moves only while the other is in its       *)
(* initial state, and each behaves as it does alone.                        *)
EXTENDS SyncScheduler, CommitBackup

Scheduling(action) == action /\ BackupInit /\ UNCHANGED bvars
BackingUp(action) == action /\ SchedulerInit /\ UNCHANGED svars

Init == SchedulerInit /\ BackupInit
Next == Scheduling(SchedulerNext) \/ BackingUp(BackupNext)
vars == <<svars, bvars>>

(* The browser runs its timers, the interval and the timeouts, a fetch does *)
(* not wait for ever, and the database answers.                             *)
Spec ==
  /\ Init /\ [][Next]_vars
  /\ WF_vars(Scheduling(Progress))
  /\ WF_vars(BackingUp(Load)) /\ WF_vars(BackingUp(Writes))
  /\ \A c \in Commit : WF_vars(BackingUp(EmitNewCommit(c)))
  /\ \A i \in 1..Cardinality(Commit) : WF_vars(BackingUp(Save(i)))
=============================================================================
