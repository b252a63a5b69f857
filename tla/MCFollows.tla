------------------------------ MODULE MCFollows ------------------------------
(* Instance of Follows for TLC.                                             *)
EXTENDS Follows

\* Every id is a user of its own.
FoldExact == [u \in Ids |-> u]
=============================================================================
