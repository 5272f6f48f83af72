------------------------------ MODULE MCServices ------------------------------
(* One run over four components that share no state: a behaviour belongs to *)
(* one of them, chosen in the beginning, so their state spaces add up.      *)
EXTENDS ManagedBot, ProductPanel, PersonalAccount, CollectionEngine, TLC

CONSTANTS
    Parts,           \* the components this instance looks at
    o1, i1, s1       \* a tenant, its product and its link

VARIABLE part

MCOwnerOf == [i \in Items |-> o1]
MCItemOf == [s \in Links |-> i1]
MCOfferOf == [s \in Links |-> "offer"]
MCRule == [enabled |-> TRUE, low |-> TRUE, target |-> TRUE, back |-> TRUE,
           increase |-> FALSE, drop |-> 1000, cooldown |-> 1]
MCSymmetry == Permutations(Handlers) \cup Permutations(Products)

(* The panel has several initial states; the other parts begin without it.  *)
MCInit ==
    /\ part \in Parts /\ Init /\ PanelInit /\ AccountInit /\ EngineInit
    /\ part = "panel" \/ \A p \in Products : ~ Exists(p)

MCNext ==
    /\ UNCHANGED part
    /\ \/ /\ part = "bot" /\ Next
          /\ UNCHANGED <<panelVars, accountVars, engineVars>>
       \/ /\ part = "panel" /\ PanelNext
          /\ UNCHANGED <<vars, accountVars, engineVars>>
       \/ /\ part = "account" /\ AccountNext
          /\ UNCHANGED <<vars, panelVars, engineVars>>
       \/ /\ part = "engine" /\ EngineNext
          /\ UNCHANGED <<vars, panelVars, accountVars>>

MCSpec == MCInit /\ [][MCNext]_<<part, vars, panelVars, accountVars, engineVars>>

(* No step and no property of the engine reads the pages of a batch again   *)
(* once its alerts are evaluated.                                           *)
MCView ==
    <<part, vars, panelVars, accountVars,
      clock, batch, run, price, baseline, flagged, alert, losses,
      [b \in Batches |->
          IF batch[b].at \in {"fetching", "baselines"} THEN page[b] ELSE <<>>]>>

(* Once an outdated object was saved, nothing is promised any more.         *)
NothingOutdatedSaved == ~ stale /\ ~ outdated

(* Every variable of the four components holds a value of its type.         *)
ServicesTypeOK == TypeOK /\ PanelTypeOK /\ AccountTypeOK /\ EngineTypeOK
=============================================================================
