---------------------------- MODULE MCRepoMerge ----------------------------
(* Small instances of RepoMerge.                                            *)
EXTENDS RepoMerge, TLC

CONSTANTS alice, bob

MCRank == alice :> 1 @@ bob :> 2
(* Editors who look at once, with exact ancestors filters and with some    *)
(* that answer true to everything, or who look at any later time.          *)
MCConditions ==
  {[pace |-> {"prompt"}, gaps |-> TRUE, falsePositives |-> {{}, 1..9}],
   [pace |-> {"slow", "late", "again"}, gaps |-> TRUE, falsePositives |-> {{}}]}
Ideal == {[pace |-> {"prompt"}, gaps |-> FALSE, falsePositives |-> {{}}]}
ElemSymmetry == Permutations(Elem)
=============================================================================
