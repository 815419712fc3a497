-------------------------- MODULE MCGovernedTools --------------------------
(***************************************************************************)
(* Three requests, of one actor or of two: one asks, two present the same  *)
(* token at the same time, or one presents somebody else's.  Sessions and  *)
(* actors are interchangeable.                                             *)
(***************************************************************************)
EXTENDS GovernedTools, TLC

MCCalls == {"read", "send"}
MCGuarded == {"send"}

MCSymmetry == Permutations(Sessions) \cup Permutations(Actors)

=============================================================================
