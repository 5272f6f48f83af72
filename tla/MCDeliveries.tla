----------------------------- MODULE MCDeliveries -----------------------------
(* One run over three components that share no state: a behaviour belongs   *)
(* to one of them, chosen in the beginning, so their state spaces add up.   *)
EXTENDS AlertDelivery, UpdateReceipts, LocalRadar, TLC

CONSTANTS
    Parts,           \* the components this instance looks at
    t1, a1           \* a tenant and a product

VARIABLE part

MCTenantOf == [e \in Events |-> t1]
MCWareOf == [s \in Stalls |-> a1]

MCInit == part \in Parts /\ Init /\ ReceiptInit /\ RadarInit

DeliveryPart == part = "delivery" /\ Next /\ UNCHANGED <<part, receiptVars, radarVars>>
ReceiptPart == part = "receipts" /\ ReceiptNext /\ UNCHANGED <<part, vars, radarVars>>
RadarPart == part = "radar" /\ RadarNext /\ UNCHANGED <<part, vars, receiptVars>>

(* The fairness of FairSpec and of the receipts; in a behaviour of another  *)
(* part none of these steps is possible.                                    *)
MCFairness ==
    /\ \A w \in Workers : WF_vars(part = "delivery" /\ DeliverStep(w))
    /\ WF_vars(part = "delivery" /\ Tick)
    /\ ReceiptFairness

MCSpec ==
    /\ MCInit
    /\ [][DeliveryPart \/ ReceiptPart \/ RadarPart]_<<part, vars, receiptVars, radarVars>>
    /\ MCFairness

(* Every variable of the three components holds a value of its type.        *)
DeliveriesTypeOK == TypeOK /\ ReceiptTypeOK /\ RadarTypeOK
=============================================================================
