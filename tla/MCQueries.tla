---------------------------- MODULE MCQueries ----------------------------
(* Small instances of Queries.                                              *)
EXTENDS Queries, TLC

(* A vertex satisfies all the queries of the chain, none, all but the first *)
(* or all but the last.                                                     *)
AllOrMost == {{}, Query, 2..Depth, 1..(Depth - 1)}
=============================================================================
