--------------------------- MODULE MCAlertDelivery ---------------------------
(* Instances of AlertDelivery for TLC.                                      *)
EXTENDS AlertDelivery, TLC

CONSTANTS t1, t2

(* Every event of one tenant, or the last one of a second tenant.           *)
OneTenant == [e \in Events |-> t1]
LastIsOther == [e \in Events |-> IF e = LastEvent THEN t2 ELSE t1]

Symmetry == Permutations(Workers)
=============================================================================
