-------------------------- MODULE MCVertexManager --------------------------
(* Small instances of VertexManager.                                        *)
EXTENDS VertexManager, TLC

CONSTANTS alice, bob

MCRank == alice :> 1 @@ bob :> 2
Prompt ==
  {[pace |-> {"prompt"}, gaps |-> FALSE, falsePositives |-> {{}, 1..9}]}
Ideal == {[pace |-> {"prompt"}, gaps |-> FALSE, falsePositives |-> {{}}]}
ElemSymmetry == Permutations(Elem)
=============================================================================
