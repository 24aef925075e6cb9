--------------------------- MODULE MCSyncProtocol ---------------------------
(* Small instances of SyncProtocol: two clients and a commit of each.       *)
EXTENDS SyncProtocol, FiniteSets, TLC

CONSTANTS alice, bob, m1, m2

MCAuthor == m1 :> alice @@ m2 :> bob
MCOneAuthor == m1 :> alice
MCAliceOnly == m1 :> alice @@ m2 :> alice

(* No tab is reloaded and no server started again in sync_members, so that *)
(* nobody reads what is backed up: the steps of the two backups are left   *)
(* out.                                                                    *)
NoBackups == UNCHANGED <<idb, disk, hashReady>>

(* The steps of sync_recover: a crash or a reload among two commits, or    *)
(* one commit that meets two of a lost request, a reload and a new build.  *)
(* Faults, new commits and false positives are kept back, and no step that *)
(* fairness asks for.                                                      *)
OneFault ==
  faults["crash"] + faults["reload"] <= 1 /\ faults["timeout"] + faults["upgrade"] = 0
NothingHidden ==
  /\ \A m \in msgs : m.filter \subseteq created
  /\ \A c \in Client : serverFilter[c] # NoFilter => serverFilter[c] \subseteq created
TwoFaults ==
  faults["timeout"] + faults["reload"] + faults["upgrade"] <= 2 /\ faults["crash"] = 0
Scenario ==
  \/ OneFault
  \/ TwoFaults /\ Cardinality(created) = 1 /\ NothingHidden
StaysInScenario == Scenario'
=============================================================================
