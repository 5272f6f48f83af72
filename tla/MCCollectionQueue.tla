-------------------------- MODULE MCCollectionQueue --------------------------
(* Instances of CollectionQueue for TLC.                                    *)
EXTENDS CollectionQueue, TLC

(* One daily job, due at time 1 of a day that ends at 4.                    *)
MCDueAt  == [j \in DailyJobs |-> 1]
MCDayEnd == [j \in DailyJobs |-> 4]

Symmetry == Permutations(Workers)
=============================================================================
