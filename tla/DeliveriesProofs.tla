--------------------------- MODULE DeliveriesProofs ---------------------------
(* Proofs about updates and their receipts, for any number of updates and   *)
(* threads, any cooldown and any faults; and about the run over deliveries, *)
(* receipts and radar: it is a behaviour of each of the three, so that what *)
(* is proved of them holds in it.                                           *)
EXTENDS MCDeliveries, AlertDeliveryProofs, LocalRadarProofs, FiniteSetTheorems

AtTask == [at: {"reclaiming", "handling", "asking", "answering"}, update: Updates,
           token: Nat]
Finishing == [at: {"finishing"}, update: Updates, status: {"FAILED"} \cup Final]

(* The reply, with each of its outcomes.                                    *)
AnswerEnds(t) == SendAnswer(t) \/ AnswerRefused(t) \/ AnswerUnreadable(t) \/ AnswerFails(t)

(* A thread that is not idle is at work on an update.                       *)
LEMMA AtWork ==
  ASSUME ReceiptTypeOK, NEW t \in Threads, thread[t].at # "idle"
  PROVE  /\ thread[t] \in AtTask \cup Finishing
         /\ thread[t].update \in Updates
         /\ thread[t].at = "finishing" => thread[t] \in Finishing
         /\ thread[t].at # "finishing" => thread[t] \in AtTask
BY DEF ReceiptTypeOK, ThreadState, IdleThread, AtTask, Finishing

(* A thread moves on to a state of its type.                                *)
LEMMA ThreadMoves ==
  ASSUME ReceiptTypeOK, NEW t \in Threads, NEW state \in ThreadState,
         thread' = [thread EXCEPT ![t] = state]
  PROVE  thread' \in [Threads -> ThreadState]
BY DEF ReceiptTypeOK

(* The types of the states a thread can move on to.                         *)
LEMMA States ==
  /\ IdleThread \in ThreadState /\ IdleThread.at = "idle"
  /\ \A u \in Updates, k \in {"reclaiming", "handling", "asking", "answering"}, n \in Nat :
       [at |-> k, update |-> u, token |-> n] \in ThreadState
  /\ \A u \in Updates, s \in {"FAILED"} \cup Final :
       [at |-> "finishing", update |-> u, status |-> s] \in ThreadState
BY DEF ThreadState, IdleThread, Final

(* Every thread step leaves a thread in a state of its type.                *)
LEMMA ThreadTyped ==
  ASSUME ReceiptTypeOK, NEW t \in Threads, ThreadStep(t) \/ AnswerFails(t) \/ Die(t)
  PROVE  thread' \in [Threads -> ThreadState]
<1>1. CASE Reclaim(t) \/ CheckCooldown(t) \/ CreateRefresh(t) \/ HandleCommand(t)
  <2>1. thread[t] \in AtTask
    BY <1>1, AtWork DEF Reclaim, CheckCooldown, CreateRefresh, HandleCommand
  <2>2. PICK k \in {"reclaiming", "handling", "asking", "answering"} :
          thread' = [thread EXCEPT ![t].at = k]
    BY <1>1 DEF Reclaim, CheckCooldown, CreateRefresh, HandleCommand
  <2>3. [thread[t] EXCEPT !.at = k] \in ThreadState
    BY <2>1 DEF AtTask, ThreadState
  <2>. QED BY <2>2, <2>3 DEF ReceiptTypeOK
<1>2. CASE HandleSilent(t) \/ HandleHopeless(t) \/ AnswerEnds(t)
  <2>1. thread[t].update \in Updates
    BY <1>2, AtWork DEF HandleSilent, HandleHopeless, AnswerEnds, SendAnswer, AnswerRefused,
                AnswerUnreadable, AnswerFails
  <2>2. PICK s \in {"FAILED"} \cup Final :
          thread' = [thread EXCEPT ![t] =
              [at |-> "finishing", update |-> thread[t].update, status |-> s]]
    BY <1>2 DEF HandleSilent, HandleHopeless, AnswerEnds, SendAnswer, AnswerRefused,
                AnswerUnreadable, AnswerFails, Ends, Final, ReceiptTypeOK
  <2>. QED BY <2>1, <2>2, States, ThreadMoves
<1>3. CASE FinishUpdate(t) \/ Die(t)
  <2>1. thread' = [thread EXCEPT ![t] = IdleThread]
    BY <1>3 DEF FinishUpdate, Die
  <2>. QED BY <2>1, States, ThreadMoves
<1>. QED BY <1>1, <1>2, <1>3 DEF ThreadStep, AnswerEnds

(* A row without token and secret is one of its type.                       *)
LEMMA WipedTyped == ASSUME ReceiptTypeOK PROVE Wiped \in Credentials
BY DEF ReceiptTypeOK, Credentials, Wiped, NoToken

(* The other variables keep their types in a thread step.                   *)
LEMMA ThreadRestTyped ==
  ASSUME ReceiptTypeOK, NEW t \in Threads, ThreadStep(t) \/ AnswerFails(t) \/ Die(t)
  PROVE  /\ hour' = hour /\ mishaps' \in 0 .. MaxMishaps /\ doubled' \in BOOLEAN
         /\ telegram' \in [Updates -> Delivery] /\ receipt' \in [Updates -> ReceiptStatus]
         /\ refreshes' \in Seq(0 .. MaxHour) /\ hushed' = hushed
         /\ credentials' \in Credentials
<1> USE DEF ReceiptTypeOK
<1>1. CASE Reclaim(t)
  BY <1>1 DEF Reclaim, ReceiptStatus
<1>2. CASE FinishUpdate(t)
  <2>1. thread[t].status \in {"FAILED"} \cup Final
    BY <1>2, AtWork DEF FinishUpdate, Finishing
  <2>2. receipt' \in [Updates -> ReceiptStatus]
    BY <1>2, <2>1 DEF FinishUpdate, ReceiptStatus
  <2>3. \A d \in Delivery : [d EXCEPT !.state = "answered"] \in Delivery
    BY DEF Delivery
  <2>4. telegram' \in [Updates -> Delivery]
    BY <1>2, <2>3 DEF FinishUpdate
  <2>. QED BY <1>2, <2>2, <2>4, ReceiptAssumption DEF FinishUpdate
<1>3. CASE AnswerFails(t) \/ Die(t)
  BY <1>3, ReceiptAssumption DEF AnswerFails, Die
<1>6. CASE AnswerRefused(t)
  BY <1>6, WipedTyped DEF AnswerRefused
<1>4. CASE CreateRefresh(t)
  BY <1>4 DEF CreateRefresh
<1>5. CASE \/ HandleSilent(t) \/ HandleHopeless(t) \/ CheckCooldown(t)
           \/ HandleCommand(t) \/ SendAnswer(t) \/ AnswerUnreadable(t)
  BY <1>5 DEF HandleSilent, HandleHopeless, CheckCooldown, HandleCommand, SendAnswer,
              AnswerUnreadable
<1>. QED BY <1>1, <1>2, <1>3, <1>4, <1>5, <1>6 DEF ThreadStep

(* A delivery of Telegram keeps the types.                                  *)
LEMMA DeliverTyped ==
  ASSUME ReceiptTypeOK, NEW u \in Updates, DeliverUpdate(u) PROVE ReceiptTypeOK'
<1>1. PICK t \in Threads : ClaimNew(t, u) \/ ClaimFailed(t, u) \/ AnswerDuplicate(t, u)
  BY DEF DeliverUpdate
<1>2. CASE ClaimNew(t, u) \/ ClaimFailed(t, u)
  <2>1. thread' \in [Threads -> ThreadState]
    <3>1. PICK n \in Nat, k \in {"reclaiming", "handling"} :
            thread' = [thread EXCEPT ![t] = [at |-> k, update |-> u, token |-> n]]
      BY <1>2 DEF ClaimNew, ClaimFailed, Working, ReceiptTypeOK, Credentials, NoToken
    <3>. QED BY <3>1, States, ThreadMoves
  <2>2. receipt' \in [Updates -> ReceiptStatus]
    BY <1>2 DEF ClaimNew, ClaimFailed, ReceiptTypeOK, ReceiptStatus
  <2>. QED BY <1>2, <2>1, <2>2 DEF ClaimNew, ClaimFailed, ReceiptTypeOK
<1>3. CASE AnswerDuplicate(t, u)
  <2>1. \A d \in Delivery : [d EXCEPT !.state = "answered"] \in Delivery
    BY DEF Delivery
  <2>2. telegram' \in [Updates -> Delivery] /\ hushed' \subseteq Updates
    BY <1>3, <2>1 DEF AnswerDuplicate, ReceiptTypeOK
  <2>. QED BY <1>3, <2>2 DEF AnswerDuplicate, ReceiptTypeOK
<1>. QED BY <1>1, <1>2, <1>3

(* Every step keeps the types.                                              *)
LEMMA ReceiptStepTyped == ReceiptTypeOK /\ [ReceiptNext]_receiptVars => ReceiptTypeOK'
<1> SUFFICES ASSUME ReceiptTypeOK, [ReceiptNext]_receiptVars PROVE ReceiptTypeOK'
  OBVIOUS
<1>1. CASE UNCHANGED receiptVars
  BY <1>1 DEF receiptVars, ReceiptTypeOK
<1>2. ASSUME NEW u \in Updates, NEW k \in Kinds, SendUpdate(u, k) PROVE ReceiptTypeOK'
  <2>1. telegram' \in [Updates -> Delivery]
    BY <1>2 DEF SendUpdate, ReceiptTypeOK, Delivery
  <2>. QED BY <1>2, <2>1 DEF SendUpdate, ReceiptTypeOK
<1>3. ASSUME PassHour PROVE ReceiptTypeOK'
  BY <1>3, ReceiptAssumption DEF PassHour, ReceiptTypeOK
<1>4. ASSUME NEW t \in Threads, ThreadStep(t) \/ AnswerFails(t) \/ Die(t) PROVE ReceiptTypeOK'
  BY <1>4, ThreadTyped, ThreadRestTyped DEF ReceiptTypeOK
<1>5. ASSUME CredentialStep PROVE ReceiptTypeOK'
  <2>1. credentials' \in Credentials
    <3>1. credentials.valid \in Nat \ {NoToken} /\ credentials.valid + 1 \in Nat \ {NoToken}
      BY DEF ReceiptTypeOK, Credentials, NoToken
    <3>2. CASE Disconnect
      BY <3>2, WipedTyped DEF Disconnect
    <3>3. CASE ReplaceToken
      BY <3>1, <3>3 DEF ReplaceToken, ReceiptTypeOK, Credentials
    <3>4. CASE LoseKey \/ RestoreKey \/ SaveCredentials \/ SetWebhook
      BY <3>1, <3>4 DEF LoseKey, RestoreKey, SaveCredentials, SetWebhook, ReceiptTypeOK,
                        Credentials
    <3>. QED BY <1>5, <3>2, <3>3, <3>4 DEF CredentialStep
  <2>2. mishaps' \in 0 .. MaxMishaps
    BY <1>5, ReceiptAssumption DEF CredentialStep, ReplaceToken, LoseKey, Disconnect, RestoreKey,
       SaveCredentials, SetWebhook, ReceiptTypeOK
  <2>. QED BY <1>5, <2>1, <2>2 DEF CredentialStep, ReplaceToken, LoseKey, Disconnect, RestoreKey,
       SaveCredentials, SetWebhook, ReceiptTypeOK
<1>. QED BY <1>1, <1>2, <1>3, <1>4, <1>5, DeliverTyped DEF ReceiptNext

(* Receipts, threads, updates and refreshes keep their types.               *)
THEOREM ReceiptTyped == ReceiptSpec => []ReceiptTypeOK
<1>1. ReceiptInit => ReceiptTypeOK
  <2> SUFFICES ASSUME ReceiptInit PROVE ReceiptTypeOK
    OBVIOUS
  <2>1. Unsent \in Delivery
    BY DEF Unsent, Delivery, Kinds
  <2>2. hour \in 0 .. MaxHour /\ mishaps \in 0 .. MaxMishaps
    BY ReceiptAssumption DEF ReceiptInit
  <2>3. refreshes \in Seq(0 .. MaxHour)
    BY DEF ReceiptInit
  <2>4. thread \in [Threads -> ThreadState] /\ telegram \in [Updates -> Delivery]
    BY <2>1, States DEF ReceiptInit
  <2>5. receipt \in [Updates -> ReceiptStatus] /\ hushed \subseteq Updates /\ doubled \in BOOLEAN
    BY DEF ReceiptInit, ReceiptStatus
  <2>6. credentials \in Credentials
    BY DEF ReceiptInit, Credentials, NoToken
  <2>. QED BY <2>2, <2>3, <2>4, <2>5, <2>6 DEF ReceiptTypeOK
<1>. QED BY <1>1, ReceiptStepTyped, PTL DEF ReceiptSpec

----------------------------------------------------------------------------
(* Who has claimed an update, and OneHandler without the counting.          *)
Claimed(t) == thread[t].at \in {"handling", "asking", "answering", "finishing"}
ClaimedOnce ==
    doubled \/
    /\ \A t \in Threads : Claimed(t) => receipt[thread[t].update] = "PROCESSING"
    /\ \A t, s \in Threads :
         Claimed(t) /\ Claimed(s) /\ thread[t].update = thread[s].update => t = s

(* A claim, new or again: nobody else has the update, or it was FAILED and  *)
(* no more is when it is saved.                                             *)
LEMMA ClaimOnce ==
  ASSUME ReceiptTypeOK, ClaimedOnce, NEW t \in Threads, NEW u \in Updates,
         \/ ClaimNew(t, u)
         \/ Reclaim(t) /\ thread[t].update = u
  PROVE  ClaimedOnce'
<1> SUFFICES ASSUME ~ doubled' PROVE
      /\ \A s \in Threads : Claimed(s)' => receipt'[thread'[s].update] = "PROCESSING"
      /\ \A q, s \in Threads :
           Claimed(q)' /\ Claimed(s)' /\ thread'[q].update = thread'[s].update => q = s
  BY DEF ClaimedOnce
<1>1. ~ doubled /\ receipt[u] # "PROCESSING"
  BY DEF ClaimNew, Admitted, Reclaim, ReceiptTypeOK
<1>2. receipt' = [receipt EXCEPT ![u] = "PROCESSING"] /\ thread'[t].update = u
  BY AtWork DEF ClaimNew, Working, Reclaim, ReceiptTypeOK, AtTask
<1>3. \A s \in Threads : s # t => thread'[s] = thread[s]
  BY DEF ClaimNew, Reclaim, ReceiptTypeOK
<1>4. \A s \in Threads : Claimed(s) => thread[s].update # u
  BY <1>1 DEF ClaimedOnce
<1>5. \A s \in Threads : Claimed(s) => thread[s].update \in Updates
  BY AtWork DEF Claimed
<1>. QED BY <1>1, <1>2, <1>3, <1>4, <1>5 DEF ClaimedOnce, Claimed, ReceiptTypeOK

(* A thread goes on with its update, or leaves it.                          *)
LEMMA KeepOnce ==
  ASSUME ReceiptTypeOK, ClaimedOnce, NEW t \in Threads,
         receipt' = receipt, doubled' = doubled,
         \A s \in Threads : s # t => thread'[s] = thread[s],
         Claimed(t)' => Claimed(t) /\ thread'[t].update = thread[t].update
  PROVE  ClaimedOnce'
BY DEF ClaimedOnce, Claimed

(* Its only handler finishes an update.                                     *)
LEMMA FinishOnce ==
  ASSUME ReceiptTypeOK, ClaimedOnce, NEW t \in Threads, FinishUpdate(t)
  PROVE  ClaimedOnce'
<1> DEFINE u == thread[t].update
<1>1. Claimed(t) /\ doubled' = doubled /\ ~ Claimed(t)'
  BY States DEF FinishUpdate, Claimed, ReceiptTypeOK
<1>2. \A s \in Threads : s # t => thread'[s] = thread[s]
  BY DEF FinishUpdate, ReceiptTypeOK
<1>3. \A v \in Updates : v # u => receipt'[v] = receipt[v]
  BY DEF FinishUpdate, ReceiptTypeOK
<1>4. \A s \in Threads : Claimed(s) => thread[s].update \in Updates
  BY AtWork DEF Claimed
<1> HIDE DEF u
<1>5. ~ doubled => \A s \in Threads : Claimed(s) /\ s # t => thread[s].update # u
  BY <1>1 DEF ClaimedOnce, u
<1>. QED BY <1>1, <1>2, <1>3, <1>4, <1>5 DEF ClaimedOnce, Claimed

(* Every step keeps updates claimed once, unless a FAILED one is doubled.   *)
LEMMA OnceStep == ReceiptTypeOK /\ ClaimedOnce /\ [ReceiptNext]_receiptVars => ClaimedOnce'
<1> SUFFICES ASSUME ReceiptTypeOK, ClaimedOnce, [ReceiptNext]_receiptVars PROVE ClaimedOnce'
  OBVIOUS
<1>1. ASSUME thread' = thread, receipt' = receipt, doubled' = doubled PROVE ClaimedOnce'
  BY <1>1 DEF ClaimedOnce, Claimed
<1>2. ASSUME NEW u \in Updates, NEW t \in Threads, ClaimFailed(t, u) PROVE ClaimedOnce'
  <2>1. ~ Claimed(t)'
    BY <1>2 DEF ClaimFailed, Working, Claimed, ReceiptTypeOK
  <2>. QED BY <1>2, <2>1, KeepOnce DEF ClaimFailed, ReceiptTypeOK
<1>3. ASSUME NEW t \in Threads, NEW u \in Updates, AnswerDuplicate(t, u) PROVE ClaimedOnce'
  BY <1>3, <1>1 DEF AnswerDuplicate
<1>4. ASSUME NEW t \in Threads,
             \/ CheckCooldown(t) \/ CreateRefresh(t) \/ HandleCommand(t)
             \/ HandleSilent(t) \/ HandleHopeless(t) \/ AnswerEnds(t)
      PROVE  ClaimedOnce'
  <2>1. Claimed(t) /\ receipt' = receipt /\ doubled' = doubled
    BY <1>4 DEF CheckCooldown, CreateRefresh, HandleCommand, HandleSilent, HandleHopeless,
                AnswerEnds, SendAnswer, AnswerRefused,
                AnswerUnreadable, AnswerFails, Claimed
  <2>2. \A s \in Threads : s # t => thread'[s] = thread[s]
    BY <1>4 DEF CheckCooldown, CreateRefresh, HandleCommand, HandleSilent, HandleHopeless,
                AnswerEnds, SendAnswer, AnswerRefused,
                AnswerUnreadable, AnswerFails, Ends, ReceiptTypeOK
  <2>3. thread[t].update = thread'[t].update
    <3>1. CASE CheckCooldown(t) \/ CreateRefresh(t) \/ HandleCommand(t)
      <4>1. thread[t] \in AtTask
        BY <3>1, AtWork DEF CheckCooldown, CreateRefresh, HandleCommand
      <4>2. PICK k \in {"asking", "answering"} : thread' = [thread EXCEPT ![t].at = k]
        BY <3>1 DEF CheckCooldown, CreateRefresh, HandleCommand
      <4>3. [thread[t] EXCEPT !.at = k].update = thread[t].update
        BY <4>1 DEF AtTask
      <4>. QED BY <4>2, <4>3 DEF ReceiptTypeOK
    <3>2. CASE HandleSilent(t) \/ HandleHopeless(t) \/ AnswerEnds(t)
      BY <3>2 DEF HandleSilent, HandleHopeless, AnswerEnds, SendAnswer, AnswerRefused,
                AnswerUnreadable, AnswerFails, Ends, ReceiptTypeOK
    <3>. QED BY <1>4, <3>1, <3>2
  <2>. QED BY <2>1, <2>2, <2>3, KeepOnce
<1>5. ASSUME NEW t \in Threads, Die(t) PROVE ClaimedOnce'
  <2>1. ~ Claimed(t)'
    BY <1>5, States DEF Die, Claimed, ReceiptTypeOK
  <2>. QED BY <1>5, <2>1, KeepOnce DEF Die, ReceiptTypeOK
<1>6. ASSUME \/ \E u \in Updates, k \in Kinds : SendUpdate(u, k)
             \/ CredentialStep \/ PassHour \/ UNCHANGED receiptVars
      PROVE  ClaimedOnce'
  BY <1>6, <1>1 DEF SendUpdate, CredentialStep, ReplaceToken, LoseKey, Disconnect, RestoreKey,
     SaveCredentials, SetWebhook, PassHour, receiptVars
<1>7. ASSUME NEW t \in Threads, Reclaim(t) PROVE ClaimedOnce'
  BY <1>7, ClaimOnce, AtWork DEF Reclaim
<1>. QED BY <1>2, <1>3, <1>4, <1>5, <1>6, <1>7, ClaimOnce, FinishOnce
         DEF ReceiptNext, DeliverUpdate, ThreadStep, AnswerEnds

(* Until a FAILED receipt is claimed twice at once, an update has one       *)
(* handler, and its receipt says PROCESSING meanwhile.                      *)
THEOREM OneHandlerAtATime == ReceiptSpec => []OneHandler
<1>1. ReceiptInit => ClaimedOnce
  BY DEF ReceiptInit, ClaimedOnce, Claimed, IdleThread
<1>2. ClaimedOnce => OneHandler
  <2> SUFFICES ASSUME ClaimedOnce, ~ doubled, NEW u \in Updates
               PROVE  /\ Cardinality(Handling(u)) <= 1
                      /\ Handling(u) # {} => receipt[u] = "PROCESSING"
    BY DEF OneHandler
  <2>1. CASE Handling(u) = {}
    BY <2>1, FS_EmptySet
  <2>2. CASE Handling(u) # {}
    <3>1. PICK t \in Handling(u) : TRUE
      BY <2>2
    <3>2. Handling(u) = {t} /\ receipt[u] = "PROCESSING"
      BY <3>1 DEF Handling, ClaimedOnce, Claimed
    <3>3. Cardinality({t}) = 1
      BY FS_Singleton
    <3>4. Cardinality(Handling(u)) = 1
      BY <3>2, <3>3
    <3>. QED BY <3>2, <3>4
  <2>. QED BY <2>1, <2>2
<1>. QED BY <1>1, <1>2, OnceStep, ReceiptTyped, PTL DEF ReceiptSpec

----------------------------------------------------------------------------
(* The threads that have found no recent refresh, and what they may add.    *)
Asking == {t \in Threads : thread[t].at = "asking"}
RefreshBudget == Cardinality(Recent) + Cardinality(Asking) <= Cardinality(Threads)

(* The sets that are counted are finite, also after a step.                 *)
LEMMA RecentFinite ==
  ASSUME ReceiptTypeOK
  PROVE  /\ IsFiniteSet(Recent) /\ Cardinality(Recent) \in Nat
         /\ IsFiniteSet(Asking) /\ Cardinality(Asking) \in Nat
         /\ Cardinality(Asking) <= Cardinality(Threads) /\ Cardinality(Threads) \in Nat
<1>1. IsFiniteSet(DOMAIN refreshes)
  <2>1. Len(refreshes) \in Nat /\ DOMAIN refreshes = 1 .. Len(refreshes)
    BY DEF ReceiptTypeOK
  <2>. QED BY <2>1, FS_Interval
<1>2. Recent \subseteq DOMAIN refreshes /\ Asking \subseteq Threads
  BY DEF Recent, Asking
<1>. QED BY <1>1, <1>2, FS_Subset, FS_CardinalityType, ReceiptAssumption

(* The same of the next state.                                              *)
LEMMA RecentFiniteNext ==
  ASSUME ReceiptTypeOK'
  PROVE  /\ IsFiniteSet(Recent') /\ Cardinality(Recent') \in Nat
         /\ IsFiniteSet(Asking') /\ Cardinality(Asking') \in Nat
         /\ Cardinality(Asking') <= Cardinality(Threads) /\ Cardinality(Threads) \in Nat
<1>1. IsFiniteSet(DOMAIN refreshes')
  <2>1. Len(refreshes') \in Nat /\ DOMAIN refreshes' = 1 .. Len(refreshes')
    BY DEF ReceiptTypeOK
  <2>. QED BY <2>1, FS_Interval
<1>2. Recent' \subseteq DOMAIN refreshes' /\ Asking' \subseteq Threads
  BY DEF Recent, Asking
<1>. QED BY <1>1, <1>2, FS_Subset, FS_CardinalityType, ReceiptAssumption

(* Nothing new is counted.                                                  *)
LEMMA RefreshShrinks ==
  ASSUME ReceiptTypeOK, ReceiptTypeOK', RefreshBudget,
         Recent' \subseteq Recent, Asking' \subseteq Asking
  PROVE  RefreshBudget'
<1>1. Cardinality(Recent') <= Cardinality(Recent) /\ Cardinality(Asking') <= Cardinality(Asking)
  BY RecentFinite, FS_Subset
<1>2. Cardinality(Recent') + Cardinality(Asking') <= Cardinality(Threads)
  BY <1>1, RecentFinite, RecentFiniteNext DEF RefreshBudget
<1>. QED BY <1>2 DEF RefreshBudget

(* The cooldown lets a thread ask only when nothing is recent.              *)
LEMMA CooldownStep ==
  ASSUME ReceiptTypeOK, ReceiptTypeOK', RefreshBudget, NEW t \in Threads, CheckCooldown(t)
  PROVE  RefreshBudget'
<1>1. Recent' = Recent
  BY DEF CheckCooldown, Recent
<1>2. CASE Recent = {}
  <2>1. Cardinality(Recent') = 0
    BY <1>1, <1>2, FS_EmptySet
  <2>2. Cardinality(Recent') + Cardinality(Asking') <= Cardinality(Threads)
    BY <2>1, RecentFiniteNext
  <2>. QED BY <2>2 DEF RefreshBudget
<1>3. CASE Recent # {}
  <2>1. thread' = [thread EXCEPT ![t].at = "answering"]
    BY <1>3 DEF CheckCooldown
  <2>2. thread[t] \in AtTask
    BY AtWork DEF CheckCooldown
  <2>3. [thread[t] EXCEPT !.at = "answering"].at = "answering"
    BY <2>2 DEF AtTask
  <2>4. Asking' \subseteq Asking
    BY <2>1, <2>3 DEF Asking, ReceiptTypeOK
  <2>. QED BY <1>1, <2>4, RefreshShrinks
<1>. QED BY <1>2, <1>3

(* A thread that asked creates one request.                                 *)
LEMMA CreateStep ==
  ASSUME ReceiptTypeOK, ReceiptTypeOK', RefreshBudget, NEW t \in Threads, CreateRefresh(t)
  PROVE  RefreshBudget'
<1> DEFINE n == Len(refreshes) + 1
<1>1. refreshes' = Append(refreshes, hour) /\ hour' = hour
  BY DEF CreateRefresh
<1>2. /\ DOMAIN refreshes' = DOMAIN refreshes \cup {n}
      /\ \A i \in DOMAIN refreshes : refreshes'[i] = refreshes[i]
  BY <1>1 DEF ReceiptTypeOK
<1> HIDE DEF n
<1>3. Recent' \subseteq Recent \cup {n}
  BY <1>1, <1>2 DEF Recent
<1>4. t \in Asking /\ Asking' = Asking \ {t}
  <2>1. thread' = [thread EXCEPT ![t].at = "answering"] /\ thread[t] \in AtTask
    BY AtWork DEF CreateRefresh
  <2>2. [thread[t] EXCEPT !.at = "answering"].at = "answering"
    BY <2>1 DEF AtTask
  <2>. QED BY <2>1, <2>2 DEF CreateRefresh, Asking, ReceiptTypeOK
<1>5. Cardinality(Recent') <= Cardinality(Recent) + 1
  <2>1. /\ IsFiniteSet(Recent \cup {n})
        /\ Cardinality(Recent \cup {n}) = IF n \in Recent THEN Cardinality(Recent)
                                           ELSE Cardinality(Recent) + 1
    BY RecentFinite, FS_AddElement
  <2>2. Cardinality(Recent') <= Cardinality(Recent \cup {n})
    BY <1>3, <2>1, FS_Subset
  <2>. QED BY <2>1, <2>2, RecentFinite, RecentFiniteNext
<1>6. Cardinality(Asking') = Cardinality(Asking) - 1
  BY <1>4, RecentFinite, FS_RemoveElement
<1>7. Cardinality(Recent') + Cardinality(Asking') <= Cardinality(Threads)
  BY <1>5, <1>6, RecentFinite, RecentFiniteNext DEF RefreshBudget
<1>. QED BY <1>7 DEF RefreshBudget

(* Every step keeps the budget of refreshes.                                *)
LEMMA BudgetStep ==
  ReceiptTypeOK /\ RefreshBudget /\ [ReceiptNext]_receiptVars => RefreshBudget'
<1> SUFFICES ASSUME ReceiptTypeOK, RefreshBudget, [ReceiptNext]_receiptVars PROVE RefreshBudget'
  OBVIOUS
<1>1. ReceiptTypeOK'
  BY ReceiptStepTyped
<1>2. ASSUME refreshes' = refreshes, hour' = hour,
             NEW t \in Threads, \A s \in Threads : s # t => thread'[s] = thread[s],
             thread'[t].at # "asking"
      PROVE  RefreshBudget'
  <2>1. Recent' = Recent /\ Asking' \subseteq Asking
    BY <1>2 DEF Recent, Asking
  <2>. QED BY <1>1, <2>1, RefreshShrinks
<1>3. ASSUME refreshes' = refreshes, hour' = hour, thread' = thread PROVE RefreshBudget'
  <2>1. Recent' = Recent /\ Asking' = Asking
    BY <1>3 DEF Recent, Asking
  <2>. QED BY <1>1, <2>1, RefreshShrinks
<1>4. ASSUME PassHour PROVE RefreshBudget'
  <2>1. hour \in Nat /\ hour' = hour + 1 /\ refreshes' = refreshes /\ thread' = thread
    BY <1>4, ReceiptAssumption DEF PassHour, ReceiptTypeOK
  <2>2. \A i \in DOMAIN refreshes : refreshes[i] \in Nat
    BY ReceiptAssumption DEF ReceiptTypeOK
  <2>3. Recent' \subseteq Recent /\ Asking' = Asking
    BY <2>1, <2>2, ReceiptAssumption DEF Recent, Asking
  <2>. QED BY <1>1, <2>3, RefreshShrinks
<1>5. ASSUME NEW t \in Threads,
             (\E u \in Updates : ClaimNew(t, u) \/ ClaimFailed(t, u)) \/ Die(t)
      PROVE  RefreshBudget'
  BY <1>5, <1>2, States DEF ClaimNew, ClaimFailed, Working, Die, ReceiptTypeOK
<1>6. ASSUME NEW t \in Threads, Reclaim(t) \/ HandleCommand(t) PROVE RefreshBudget'
  <2>1. thread[t] \in AtTask
    BY <1>6, AtWork DEF Reclaim, HandleCommand
  <2>2. PICK k \in {"handling", "answering"} : thread' = [thread EXCEPT ![t].at = k]
    BY <1>6 DEF Reclaim, HandleCommand
  <2>3. [thread[t] EXCEPT !.at = k].at = k
    BY <2>1 DEF AtTask
  <2>4. refreshes' = refreshes /\ hour' = hour
    BY <1>6 DEF Reclaim, HandleCommand
  <2>. QED BY <1>2, <2>2, <2>3, <2>4 DEF ReceiptTypeOK
<1>7. ASSUME NEW t \in Threads,
             HandleSilent(t) \/ HandleHopeless(t) \/ AnswerEnds(t)
      PROVE  RefreshBudget'
  BY <1>7, <1>2 DEF HandleSilent, HandleHopeless, AnswerEnds, SendAnswer, AnswerRefused,
                AnswerUnreadable, AnswerFails, Ends, ReceiptTypeOK
<1>8. ASSUME NEW t \in Threads, FinishUpdate(t) PROVE RefreshBudget'
  BY <1>8, <1>2, States DEF FinishUpdate, ReceiptTypeOK
<1>9. ASSUME \/ \E u \in Updates, k \in Kinds : SendUpdate(u, k)
             \/ \E t \in Threads, u \in Updates : AnswerDuplicate(t, u)
             \/ CredentialStep \/ UNCHANGED receiptVars
      PROVE  RefreshBudget'
  BY <1>9, <1>3 DEF SendUpdate, AnswerDuplicate, CredentialStep, ReplaceToken, LoseKey,
     Disconnect, RestoreKey, SaveCredentials, SetWebhook, receiptVars
<1>10. ASSUME NEW t \in Threads, ThreadStep(t) PROVE RefreshBudget'
  <2>1. CASE CheckCooldown(t)
    BY <1>1, <2>1, CooldownStep
  <2>2. CASE CreateRefresh(t)
    BY <1>1, <2>2, CreateStep
  <2>. QED BY <1>6, <1>7, <1>8, <1>10, <2>1, <2>2 DEF ThreadStep, AnswerEnds
<1>11. ASSUME NEW u \in Updates, DeliverUpdate(u) PROVE RefreshBudget'
  BY <1>5, <1>9, <1>11 DEF DeliverUpdate
<1>. QED BY <1>4, <1>5, <1>7, <1>9, <1>10, <1>11 DEF ReceiptNext, AnswerEnds

(* Parallel /atualizar get past the cooldown, but at most one per thread.   *)
THEOREM CooldownIsHeld == ReceiptSpec => []CooldownHolds
<1>1. ReceiptInit => RefreshBudget
  <2> SUFFICES ASSUME ReceiptInit PROVE RefreshBudget
    OBVIOUS
  <2>1. Recent = {} /\ Asking = {}
    BY DEF ReceiptInit, Recent, Asking, IdleThread
  <2>2. Cardinality(Threads) \in Nat
    BY FS_CardinalityType, ReceiptAssumption
  <2>. QED BY <2>1, <2>2, FS_EmptySet DEF RefreshBudget
<1>2. ReceiptTypeOK /\ RefreshBudget => CooldownHolds
  BY RecentFinite DEF RefreshBudget, CooldownHolds
<1>. QED BY <1>1, <1>2, BudgetStep, ReceiptTyped, PTL DEF ReceiptSpec

----------------------------------------------------------------------------
(* A step of the run is a step of one component and changes no other.       *)
LEMMA DeliveriesAreTheirs == MCSpec => Spec /\ ReceiptSpec /\ RadarSpec
<1>1. MCInit => Init /\ ReceiptInit /\ RadarInit
  BY DEF MCInit
<1> DEFINE step == DeliveryPart \/ ReceiptPart \/ RadarPart
           allVars == <<part, vars, receiptVars, radarVars>>
<1>2. [step]_allVars => [Next]_vars
  BY DEF DeliveryPart, ReceiptPart, RadarPart
<1>3. [step]_allVars => [ReceiptNext]_receiptVars
  BY DEF DeliveryPart, ReceiptPart, RadarPart
<1>4. [step]_allVars => [RadarNext]_radarVars
  BY DEF DeliveryPart, ReceiptPart, RadarPart
<1>. QED BY <1>1, <1>2, <1>3, <1>4, PTL DEF MCSpec, Spec, ReceiptSpec, RadarSpec

(* In the run over messages every variable holds a value of its type:       *)
(* deliveries, receipts and the local radar stay typed side by side.        *)
THEOREM DeliveriesTyped == MCSpec => []DeliveriesTypeOK
<1>1. TypeOK /\ ReceiptTypeOK /\ RadarTypeOK => DeliveriesTypeOK
  BY DEF DeliveriesTypeOK
<1>. QED BY <1>1, DeliveriesAreTheirs, DeliveryTyped, ReceiptTyped, RadarTyped, PTL
=============================================================================
