---------------------------- MODULE MCManagedBot ----------------------------
(* Instances of ManagedBot for TLC.                                         *)
EXTENDS ManagedBot, TLC

Symmetry == Permutations(Handlers)

(* Once an outdated object was saved, nothing is promised any more.         *)
NoStaleSave == ~ stale
=============================================================================
