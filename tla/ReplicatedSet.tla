---------------------------- MODULE ReplicatedSet ----------------------------
(***************************************************************************)
(* What the replication of one repository promises, without the protocol:  *)
(* every node keeps a growing set of commits and a part of it on stable    *)
(* storage.  A node creates commits, learns commits that were created      *)
(* elsewhere, saves them, and when it crashes falls back to what it saved. *)
(* No node ever holds a commit nobody created, and what a node saved stays *)
(* with it forever.                                                        *)
(***************************************************************************)
CONSTANTS Node,   (* the clients and the server                            *)
          Commit  (* commit ids                                            *)

VARIABLES created,  (* commits created so far                              *)
          replica,  (* replica[n]: the commits node n holds in memory      *)
          stable    (* stable[n]: the commits node n has on stable storage *)

vars == <<created, replica, stable>>

Init ==
  /\ created = {}
  /\ replica = [n \in Node |-> {}]
  /\ stable = [n \in Node |-> {}]

Create(n, m) ==
  /\ m \notin created
  /\ created' = created \cup {m}
  /\ replica' = [replica EXCEPT ![n] = @ \cup {m}]
  /\ UNCHANGED stable

(* A node learns any commits that exist, from whoever relays them.         *)
Learn(n, S) ==
  /\ replica' = [replica EXCEPT ![n] = @ \cup S]
  /\ UNCHANGED <<created, stable>>

Save(n, m) ==
  /\ m \in replica[n]
  /\ stable' = [stable EXCEPT ![n] = @ \cup {m}]
  /\ UNCHANGED <<created, replica>>

(* A node that crashes starts again with some of what it saved; the rest   *)
(* it learns when it has read it.                                          *)
Crash(n) ==
  /\ \E S \in SUBSET stable[n] : replica' = [replica EXCEPT ![n] = S]
  /\ UNCHANGED <<created, stable>>

Next ==
  \E n \in Node :
    \/ \E m \in Commit : Create(n, m) \/ Save(n, m)
    \/ \E S \in SUBSET created : Learn(n, S)
    \/ Crash(n)

Spec == Init /\ [][Next]_vars
==============================================================================
