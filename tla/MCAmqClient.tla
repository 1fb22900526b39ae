---------------------------- MODULE MCAmqClient ----------------------------
(* TLC instances of AmqClient. *)
EXTENDS AmqClient, TLC

\* Nothing in the client tells one id from another.
IdSymmetry == Permutations(Ids)
=============================================================================
