---------------------------- MODULE ServicesProofs ----------------------------
(* Proofs about what a user does with the radar: the product panel, for any *)
(* number of requests, products, links and previews and any limits; the     *)
(* personal account; and the run over bots, panel, account and engine,      *)
(* which is a behaviour of each of the four, so that what is proved of them *)
(* holds in it.                                                             *)
EXTENDS MCServices, ManagedBotProofs, CollectionEngineProofs, FiniteSetTheorems

-----------------------------------------------------------------------------
(* What a request has read that its next save relies on.                    *)
Prepared(r) ==
    LET task == request[r] IN
    /\ task.at = "counted" => task.url \in Urls
    /\ task.at = "fetching" =>
         task.preview \in Previews /\ preview[task.preview].status \in {"PENDING", "EXPIRED"}
    /\ task.at = "confirming" =>
         /\ task.preview \in Previews /\ preview[task.preview].status = "READY"
    /\ task.at = "editing" =>
         /\ task.product \in Products /\ task.read \in {"ACTIVE", "PAUSED"}
         /\ Exists(task.product)
    /\ task.at = "sourcing" =>
         /\ task.product \in Products /\ task.url \in Urls
         /\ task.read \in {"ACTIVE", "PAUSED"} /\ task.to \in {"ACTIVE", "INACTIVE"}
         /\ source[task.product][task.url] # "NONE"

RequestsPrepared == \A r \in Requests : Prepared(r)

(* A preview is fetched by one request and confirmed by one at a time.      *)
OneRequestPerPreview ==
    \A r, s \in Requests :
        /\ request[r].at \in {"fetching", "confirming"}
        /\ request[s].at \in {"fetching", "confirming"}
        /\ request[r].preview = request[s].preview
        => r = s

RowsFilled == \A v \in Previews : preview[v].status # "NONE" => preview[v].url \in Urls

(* The inductive invariant of the panel.                                    *)
PanelInv == PanelTypeOK /\ RequestsPrepared /\ OneRequestPerPreview /\ RowsFilled

(* A request that is over has a state of its type.                          *)
LEMMA RestingTask == Idle \in Task
BY DEF Idle, Task, ProductStatus

(* A preview is counted: only the request changes.                          *)
LEMMA StartPreviewTyped ==
  ASSUME PanelInv, NEW r \in Requests, NEW t \in Products \cup {Null}, NEW u \in Urls,
         StartPreview(r, t, u)
  PROVE  PanelInv'
<1>1. PanelTypeOK'
  BY DEF PanelInv, PanelTypeOK, StartPreview, Idle, Task, ProductStatus
<1>2. RequestsPrepared'
  BY DEF PanelInv, RequestsPrepared, Prepared, StartPreview, Exists
<1>3. OneRequestPerPreview'
  BY DEF PanelInv, OneRequestPerPreview, StartPreview
<1>4. RowsFilled'
  BY DEF PanelInv, RowsFilled, StartPreview
<1>. QED BY <1>1, <1>2, <1>3, <1>4 DEF PanelInv

(* A new preview, fetched by the request that creates it.                   *)
LEMMA CreatePreviewTyped ==
  ASSUME PanelInv, NEW r \in Requests, NEW v \in Previews, CreatePreview(r, v)
  PROVE  PanelInv'
<1>1. PanelTypeOK'
  <2>1. /\ request[r] \in Task /\ minute \in Nat /\ minute <= MaxMinute
        /\ preview \in [Previews -> PreviewRow] /\ request \in [Requests -> Task]
    BY PanelAssumption DEF PanelInv, PanelTypeOK
  <2>2. request[r].product \in Products \cup {Null} /\ request[r].url \in Urls \cup {Null}
    BY <2>1 DEF Task
  <2> DEFINE end == minute + Ttl
             row == [status |-> "PENDING", target |-> request[r].product, url |-> request[r].url,
                     created |-> minute, expires |-> end, source |-> Null]
             task == [Idle EXCEPT !.at = "fetching", !.preview = v]
  <2>3. minute \in 0 .. MaxMinute /\ end \in 0 .. MaxMinute + Ttl
    BY <2>1, PanelAssumption, PanelSettings
  <2>4. task \in Task
    BY DEF Idle, Task, ProductStatus
  <2>5. preview' = [preview EXCEPT ![v] = row] /\ request' = [request EXCEPT ![r] = task]
    BY DEF CreatePreview
  <2> HIDE DEF end, task
  <2>6. row \in PreviewRow
    BY <2>2, <2>3 DEF PreviewRow
  <2> HIDE DEF row
  <2>7. preview' \in [Previews -> PreviewRow] /\ request' \in [Requests -> Task]
    BY <2>1, <2>4, <2>5, <2>6
  <2>. QED BY <2>7 DEF PanelInv, PanelTypeOK, CreatePreview
<1>2. RequestsPrepared'
  BY DEF PanelInv, PanelTypeOK, RequestsPrepared, Prepared, CreatePreview, Exists
<1>3. OneRequestPerPreview'
  BY DEF PanelInv, RequestsPrepared, Prepared, OneRequestPerPreview, CreatePreview
<1>4. RowsFilled'
  BY DEF PanelInv, RequestsPrepared, Prepared, RowsFilled, CreatePreview
<1>. QED BY <1>1, <1>2, <1>3, <1>4 DEF PanelInv

(* A READY preview that nobody has locked is locked.                        *)
LEMMA LockPreviewTyped ==
  ASSUME PanelInv, NEW r \in Requests, NEW v \in Previews, LockPreview(r, v)
  PROVE  PanelInv'
<1>1. PanelTypeOK'
  BY DEF PanelInv, PanelTypeOK, LockPreview, Idle, Task, PreviewRow, ProductStatus
<1>2. RequestsPrepared'
  BY DEF PanelInv, RequestsPrepared, Prepared, LockPreview, Exists
<1>3. OneRequestPerPreview'
  BY DEF PanelInv, RequestsPrepared, Prepared, OneRequestPerPreview, LockPreview, Locked
<1>4. RowsFilled'
  BY DEF PanelInv, RowsFilled, LockPreview
<1>. QED BY <1>1, <1>2, <1>3, <1>4 DEF PanelInv

(* A confirmation writes product, source and preview.                       *)
LEMMA ConfirmTyped ==
  ASSUME PanelInv, NEW r \in Requests, NEW p \in Products, Confirm(r, p)
  PROVE  PanelInv'
<1>1. PanelTypeOK'
  <2>1. preview' \in [Previews -> PreviewRow]
    BY DEF PanelInv, PanelTypeOK, Confirm, PreviewRow
  <2>2. request' \in [Requests -> Task]
    BY RestingTask DEF PanelInv, PanelTypeOK, Confirm
  <2>3. product' \in [Products -> ProductStatus]
    BY DEF PanelInv, PanelTypeOK, Confirm, ProductStatus
  <2>4. source' \in [Products -> [Urls -> {"NONE", "ACTIVE", "INACTIVE"}]]
    BY DEF PanelInv, PanelTypeOK, Confirm
  <2>. QED BY <2>1, <2>2, <2>3, <2>4 DEF PanelInv, PanelTypeOK, Confirm
<1>2. RequestsPrepared'
  <2> SUFFICES ASSUME NEW s \in Requests PROVE Prepared(s)'
    BY DEF RequestsPrepared
  <2>1. CASE s = r
    BY <2>1 DEF PanelInv, PanelTypeOK, Confirm, Prepared, Idle
  <2>2. CASE s # r
    <3>1. request'[s] = request[s]
      BY <2>2 DEF PanelInv, PanelTypeOK, Confirm
    <3>2. Prepared(s) /\ Prepared(r) /\ request[r].at = "confirming"
      BY DEF PanelInv, RequestsPrepared, Confirm
    <3>3. request[s].at \in {"fetching", "confirming"} => request[s].preview # request[r].preview
      BY <2>2, <3>2 DEF PanelInv, OneRequestPerPreview
    <3>4. request[s].at \in {"fetching", "confirming"} =>
            preview'[request[s].preview] = preview[request[s].preview]
      BY <3>2, <3>3 DEF PanelInv, PanelTypeOK, Confirm, Prepared
    <3>5. \A q \in Products : product[q] # "NONE" => product'[q] # "NONE"
      BY DEF PanelInv, PanelTypeOK, Confirm
    <3>6. \A q \in Products, u \in Urls : source[q][u] # "NONE" => source'[q][u] # "NONE"
      BY DEF PanelInv, PanelTypeOK, Confirm
    <3>. QED BY <3>1, <3>2, <3>4, <3>5, <3>6 DEF Prepared, Exists
  <2>. QED BY <2>1, <2>2
<1>3. OneRequestPerPreview'
  BY DEF PanelInv, OneRequestPerPreview, Confirm, Idle
<1>4. RowsFilled'
  BY DEF PanelInv, PanelTypeOK, RequestsPrepared, Prepared, RowsFilled, Confirm
<1>. QED BY <1>1, <1>2, <1>3, <1>4 DEF PanelInv

(* The edit form reads a product that is shown.                             *)
LEMMA StartEditTyped ==
  ASSUME PanelInv, NEW r \in Requests, NEW p \in Products, StartEdit(r, p)
  PROVE  PanelInv'
<1>1. PanelTypeOK'
  BY DEF PanelInv, PanelTypeOK, StartEdit, Idle, Task
<1>2. RequestsPrepared'
  BY DEF PanelInv, RequestsPrepared, Prepared, StartEdit, Shown, Exists
<1>3. OneRequestPerPreview'
  BY DEF PanelInv, OneRequestPerPreview, StartEdit
<1>4. RowsFilled'
  BY DEF PanelInv, RowsFilled, StartEdit
<1>. QED BY <1>1, <1>2, <1>3, <1>4 DEF PanelInv

(* A source form reads a source of a product that is shown.                 *)
LEMMA StartSourceTyped ==
  ASSUME PanelInv, NEW r \in Requests, NEW p \in Products, NEW u \in Urls, StartSource(r, p, u)
  PROVE  PanelInv'
<1>1. PanelTypeOK'
  <2>1. request' \in [Requests -> Task]
    <3>1. PICK to \in {"ACTIVE", "INACTIVE"} : request' = [request EXCEPT ![r] =
              [Idle EXCEPT !.at = "sourcing", !.product = p, !.url = u,
                           !.read = product[p], !.to = to]]
      BY DEF StartSource
    <3>2. product[p] \in ProductStatus
      BY DEF PanelInv, PanelTypeOK
    <3>3. [Idle EXCEPT !.at = "sourcing", !.product = p, !.url = u,
                       !.read = product[p], !.to = to] \in Task
      BY <3>2 DEF Idle, Task
    <3>. QED BY <3>1, <3>3 DEF PanelInv, PanelTypeOK
  <2>. QED BY <2>1 DEF PanelInv, PanelTypeOK, StartSource
<1>2. RequestsPrepared'
  BY DEF PanelInv, RequestsPrepared, Prepared, StartSource, Shown, Exists
<1>3. OneRequestPerPreview'
  BY DEF PanelInv, OneRequestPerPreview, StartSource
<1>4. RowsFilled'
  BY DEF PanelInv, RowsFilled, StartSource
<1>. QED BY <1>1, <1>2, <1>3, <1>4 DEF PanelInv

(* The end of a fetch saves the status of the preview.                      *)
LEMMA SavePreviewTyped ==
  ASSUME PanelInv, NEW r \in Requests, SavePreview(r)
  PROVE  PanelInv'
<1>1. PanelTypeOK'
  <2>1. preview' \in [Previews -> PreviewRow]
    <3>1. PICK s \in Fetched : preview' = [preview EXCEPT ![request[r].preview].status = s]
      BY DEF SavePreview
    <3>2. \A v \in Previews : [preview[v] EXCEPT !.status = s] \in PreviewRow
      BY DEF PanelInv, PanelTypeOK, PreviewRow, Fetched
    <3>. QED BY <3>1, <3>2 DEF PanelInv, PanelTypeOK
  <2>2. request' \in [Requests -> Task]
    BY RestingTask DEF PanelInv, PanelTypeOK, SavePreview
  <2>. QED BY <2>1, <2>2 DEF PanelInv, PanelTypeOK, SavePreview
<1>2. RequestsPrepared'
  <2> SUFFICES ASSUME NEW s \in Requests PROVE Prepared(s)'
    BY DEF RequestsPrepared
  <2>1. CASE s = r
    BY <2>1 DEF PanelInv, PanelTypeOK, SavePreview, Prepared, Idle
  <2>2. CASE s # r
    <3>1. request'[s] = request[s] /\ product' = product /\ source' = source
      BY <2>2 DEF PanelInv, PanelTypeOK, SavePreview
    <3>2. Prepared(s) /\ Prepared(r) /\ request[r].at = "fetching"
      BY DEF PanelInv, RequestsPrepared, SavePreview
    <3>3. request[s].at \in {"fetching", "confirming"} => request[s].preview # request[r].preview
      BY <2>2, <3>2 DEF PanelInv, OneRequestPerPreview
    <3>4. request[s].at \in {"fetching", "confirming"} =>
            preview'[request[s].preview] = preview[request[s].preview]
      BY <3>2, <3>3 DEF PanelInv, PanelTypeOK, SavePreview, Prepared
    <3>. QED BY <3>1, <3>2, <3>4 DEF Prepared, Exists
  <2>. QED BY <2>1, <2>2
<1>3. OneRequestPerPreview'
  BY DEF PanelInv, OneRequestPerPreview, SavePreview, Idle
<1>4. RowsFilled'
  BY DEF PanelInv, RequestsPrepared, Prepared, RowsFilled, SavePreview
<1>. QED BY <1>1, <1>2, <1>3, <1>4 DEF PanelInv

(* A duplicate link: only the request changes.                              *)
LEMMA RollBackTyped ==
  ASSUME PanelInv, NEW r \in Requests, RollBackDuplicate(r)
  PROVE  PanelInv'
<1>1. PanelTypeOK'
  BY DEF PanelInv, PanelTypeOK, RollBackDuplicate, Idle, Task, ProductStatus
<1>2. RequestsPrepared'
  BY DEF PanelInv, RequestsPrepared, Prepared, RollBackDuplicate, Idle, Exists
<1>3. OneRequestPerPreview'
  BY DEF PanelInv, OneRequestPerPreview, RollBackDuplicate, Idle
<1>4. RowsFilled'
  BY DEF PanelInv, RowsFilled, RollBackDuplicate
<1>. QED BY <1>1, <1>2, <1>3, <1>4 DEF PanelInv

(* The edit form saves the status it read.                                  *)
LEMMA SaveEditTyped ==
  ASSUME PanelInv, NEW r \in Requests, SaveEdit(r)
  PROVE  PanelInv'
<1>1. PanelTypeOK'
  BY DEF PanelInv, PanelTypeOK, SaveEdit, Idle, Task, ProductStatus
<1>2. RequestsPrepared'
  BY DEF PanelInv, RequestsPrepared, Prepared, SaveEdit, Idle, Exists
<1>3. OneRequestPerPreview'
  BY DEF PanelInv, OneRequestPerPreview, SaveEdit, Idle
<1>4. RowsFilled'
  BY DEF PanelInv, RowsFilled, SaveEdit
<1>. QED BY <1>1, <1>2, <1>3, <1>4 DEF PanelInv

(* A source form saves the source.                                          *)
LEMMA SaveSourceTyped ==
  ASSUME PanelInv, NEW r \in Requests, SaveSource(r)
  PROVE  PanelInv'
<1>1. PanelTypeOK'
  <2>1. request' \in [Requests -> Task]
    BY RestingTask DEF PanelInv, PanelTypeOK, SaveSource
  <2>2. request[r].to \in {"NONE", "ACTIVE", "INACTIVE"}
    BY DEF PanelInv, PanelTypeOK, Task
  <2>3. source' \in [Products -> [Urls -> {"NONE", "ACTIVE", "INACTIVE"}]]
    BY <2>2 DEF PanelInv, PanelTypeOK, SaveSource
  <2>4. outdated' \in BOOLEAN
    BY DEF PanelInv, PanelTypeOK, SaveSource
  <2>. QED BY <2>1, <2>3, <2>4 DEF PanelInv, PanelTypeOK, SaveSource
<1>2. RequestsPrepared'
  BY DEF PanelInv, PanelTypeOK, RequestsPrepared, Prepared, SaveSource, Idle, ProductStatus, Exists
<1>3. OneRequestPerPreview'
  BY DEF PanelInv, OneRequestPerPreview, SaveSource, Idle
<1>4. RowsFilled'
  BY DEF PanelInv, RowsFilled, SaveSource
<1>. QED BY <1>1, <1>2, <1>3, <1>4 DEF PanelInv

(* A request that dies: only the request changes.                           *)
LEMMA AbandonTyped ==
  ASSUME PanelInv, NEW r \in Requests, Abandon(r)
  PROVE  PanelInv'
<1>1. PanelTypeOK'
  BY DEF PanelInv, PanelTypeOK, Abandon, Idle, Task, ProductStatus
<1>2. RequestsPrepared'
  BY DEF PanelInv, RequestsPrepared, Prepared, Abandon, Idle, Exists
<1>3. OneRequestPerPreview'
  BY DEF PanelInv, OneRequestPerPreview, Abandon, Idle
<1>4. RowsFilled'
  BY DEF PanelInv, RowsFilled, Abandon
<1>. QED BY <1>1, <1>2, <1>3, <1>4 DEF PanelInv

(* An expired preview is refused.                                           *)
LEMMA RefuseTyped ==
  ASSUME PanelInv, NEW v \in Previews, RefuseExpired(v)
  PROVE  PanelInv'
<1>1. PanelTypeOK'
  <2>1. preview' \in [Previews -> PreviewRow]
    BY DEF PanelInv, PanelTypeOK, RefuseExpired, PreviewRow
  <2>. QED BY <2>1 DEF PanelInv, PanelTypeOK, RefuseExpired
<1>2. RequestsPrepared'
  BY DEF PanelInv, RequestsPrepared, Prepared, RefuseExpired, Exists, Locked
<1>3. OneRequestPerPreview'
  BY DEF PanelInv, OneRequestPerPreview, RefuseExpired
<1>4. RowsFilled'
  BY DEF PanelInv, RowsFilled, RefuseExpired
<1>. QED BY <1>1, <1>2, <1>3, <1>4 DEF PanelInv

(* A product is paused or resumed.                                          *)
LEMMA ToggleTyped ==
  ASSUME PanelInv, NEW p \in Products, TogglePause(p)
  PROVE  PanelInv'
<1>1. PanelTypeOK'
  BY DEF PanelInv, PanelTypeOK, TogglePause, ProductStatus
<1>2. RequestsPrepared'
  BY DEF PanelInv, RequestsPrepared, Prepared, TogglePause, Exists
<1>3. OneRequestPerPreview'
  BY DEF PanelInv, OneRequestPerPreview, TogglePause
<1>4. RowsFilled'
  BY DEF PanelInv, RowsFilled, TogglePause
<1>. QED BY <1>1, <1>2, <1>3, <1>4 DEF PanelInv

(* A product and its sources are archived.                                  *)
LEMMA ArchiveTyped ==
  ASSUME PanelInv, NEW p \in Products, ArchiveProduct(p)
  PROVE  PanelInv'
<1>1. PanelTypeOK'
  BY DEF PanelInv, PanelTypeOK, ArchiveProduct, ProductStatus
<1>2. RequestsPrepared'
  BY DEF PanelInv, RequestsPrepared, Prepared, ArchiveProduct, Exists
<1>3. OneRequestPerPreview'
  BY DEF PanelInv, OneRequestPerPreview, ArchiveProduct
<1>4. RowsFilled'
  BY DEF PanelInv, RowsFilled, ArchiveProduct
<1>. QED BY <1>1, <1>2, <1>3, <1>4 DEF PanelInv

(* Products are paused from the bot.                                        *)
LEMMA PauseTyped ==
  ASSUME PanelInv, NEW ps \in SUBSET Products, PauseFromBot(ps)
  PROVE  PanelInv'
<1>1. PanelTypeOK'
  BY DEF PanelInv, PanelTypeOK, PauseFromBot, ProductStatus
<1>2. RequestsPrepared'
  BY DEF PanelInv, RequestsPrepared, Prepared, PauseFromBot, Exists
<1>3. OneRequestPerPreview'
  BY DEF PanelInv, OneRequestPerPreview, PauseFromBot
<1>4. RowsFilled'
  BY DEF PanelInv, RowsFilled, PauseFromBot
<1>. QED BY <1>1, <1>2, <1>3, <1>4 DEF PanelInv

(* All stale previews expire at once.                                       *)
LEMMA ExpireTyped ==
  ASSUME PanelInv, ExpirePreviews
  PROVE  PanelInv'
<1>1. PanelTypeOK'
  <2>1. \A v \in Previews : [preview[v] EXCEPT !.status = "EXPIRED"] \in PreviewRow
    BY DEF PanelInv, PanelTypeOK, PreviewRow
  <2>2. preview' \in [Previews -> PreviewRow]
    BY <2>1 DEF PanelInv, PanelTypeOK, ExpirePreviews
  <2>. QED BY <2>2 DEF PanelInv, PanelTypeOK, ExpirePreviews
<1>2. RequestsPrepared'
  BY DEF PanelInv, RequestsPrepared, Prepared, ExpirePreviews, Exists, Locked
<1>3. OneRequestPerPreview'
  BY DEF PanelInv, OneRequestPerPreview, ExpirePreviews
<1>4. RowsFilled'
  BY DEF PanelInv, RowsFilled, ExpirePreviews, Stale
<1>. QED BY <1>1, <1>2, <1>3, <1>4 DEF PanelInv

(* Time passes.                                                             *)
LEMMA MinuteTyped ==
  ASSUME PanelInv, PassMinute
  PROVE  PanelInv'
<1>1. PanelTypeOK'
  BY PanelAssumption DEF PanelInv, PanelTypeOK, PassMinute
<1>2. RequestsPrepared'
  BY DEF PanelInv, RequestsPrepared, Prepared, PassMinute, Exists
<1>3. OneRequestPerPreview'
  BY DEF PanelInv, OneRequestPerPreview, PassMinute
<1>4. RowsFilled'
  BY DEF PanelInv, RowsFilled, PassMinute
<1>. QED BY <1>1, <1>2, <1>3, <1>4 DEF PanelInv

----------------------------------------------------------------------------
(* In the beginning no request is at work.                                  *)
LEMMA PanelInitInv == PanelInit => PanelInv
<1> SUFFICES ASSUME PanelInit PROVE PanelInv
  OBVIOUS
<1>1. NoPreview \in PreviewRow
  BY PanelAssumption, PanelSettings DEF NoPreview, PreviewRow
<1>2. PanelTypeOK
  <2>1. product \in [Products -> ProductStatus]
    BY DEF PanelInit, ProductStatus
  <2>2. source \in [Products -> [Urls -> {"NONE", "ACTIVE", "INACTIVE"}]]
    BY DEF PanelInit
  <2>3. minute \in 0 .. MaxMinute
    BY PanelAssumption DEF PanelInit
  <2>. QED BY <1>1, <2>1, <2>2, <2>3, RestingTask DEF PanelInit, PanelTypeOK
<1>3. RequestsPrepared /\ OneRequestPerPreview /\ RowsFilled
  BY DEF PanelInit, RequestsPrepared, Prepared, OneRequestPerPreview, RowsFilled, Idle, NoPreview
<1>. QED BY <1>2, <1>3 DEF PanelInv

(* Every step keeps the invariant.                                          *)
LEMMA PanelStepInv == PanelInv /\ [PanelNext]_panelVars => PanelInv'
<1> SUFFICES ASSUME PanelInv, [PanelNext]_panelVars PROVE PanelInv'
  OBVIOUS
<1>1. CASE UNCHANGED panelVars
  BY <1>1 DEF panelVars, PanelInv, PanelTypeOK, RequestsPrepared, Prepared,
              OneRequestPerPreview, RowsFilled, Exists
<1>2. ASSUME NEW r \in Requests, RequestStep(r) PROVE PanelInv'
  BY <1>2, StartPreviewTyped, CreatePreviewTyped, LockPreviewTyped, ConfirmTyped, StartEditTyped,
     StartSourceTyped, SavePreviewTyped, RollBackTyped, SaveEditTyped, SaveSourceTyped, AbandonTyped
     DEF RequestStep
<1>3. ASSUME NEW v \in Previews, RefuseExpired(v) PROVE PanelInv'
  BY <1>3, RefuseTyped
<1>4. ASSUME NEW p \in Products, TogglePause(p) \/ ArchiveProduct(p) \/ PauseFromBot({p})
      PROVE PanelInv'
  BY <1>4, ToggleTyped, ArchiveTyped, PauseTyped
<1>5. ASSUME PauseFromBot(Products) \/ ExpirePreviews \/ PassMinute PROVE PanelInv'
  BY <1>5, PauseTyped, ExpireTyped, MinuteTyped
<1>. QED BY <1>1, <1>2, <1>3, <1>4, <1>5 DEF PanelNext

(* The inductive invariant of the panel: types, what each request has read, *)
(* and that a preview has one request at a time.                            *)
THEOREM PanelInvariant == PanelSpec => []PanelInv
<1>. QED BY PanelInitInv, PanelStepInv, PTL DEF PanelSpec

(* Products, sources, previews and requests keep their types.               *)
THEOREM PanelTyped == PanelSpec => []PanelTypeOK
<1>1. PanelInv => PanelTypeOK
  BY DEF PanelInv
<1>. QED BY <1>1, PanelInvariant, PTL

----------------------------------------------------------------------------
(* A product has a source from the transaction that creates it on: no       *)
(* confirmation, form or archive separates the two.                         *)
LEMMA NoOrphanStep == PanelInv /\ NoOrphanProduct /\ [PanelNext]_panelVars => NoOrphanProduct'
<1> SUFFICES ASSUME PanelInv, NoOrphanProduct, [PanelNext]_panelVars PROVE NoOrphanProduct'
  OBVIOUS
<1> USE DEF NoOrphanProduct, Exists
<1>1. ASSUME product' = product, source' = source PROVE NoOrphanProduct'
  BY <1>1
<1>2. ASSUME NEW r \in Requests, NEW p \in Products, Confirm(r, p) PROVE NoOrphanProduct'
  BY <1>2 DEF Confirm, PanelInv, PanelTypeOK, RequestsPrepared, Prepared, RowsFilled
<1>3. ASSUME NEW r \in Requests, SaveEdit(r) PROVE NoOrphanProduct'
  BY <1>3 DEF SaveEdit, PanelInv, PanelTypeOK, RequestsPrepared, Prepared
<1>4. ASSUME NEW r \in Requests, SaveSource(r) PROVE NoOrphanProduct'
  BY <1>4 DEF SaveSource, PanelInv, PanelTypeOK, RequestsPrepared, Prepared
<1>5. ASSUME NEW p \in Products, TogglePause(p) PROVE NoOrphanProduct'
  BY <1>5 DEF TogglePause, PanelInv, PanelTypeOK, Shown
<1>6. ASSUME NEW p \in Products, ArchiveProduct(p) PROVE NoOrphanProduct'
  BY <1>6 DEF ArchiveProduct, PanelInv, PanelTypeOK
<1>7. ASSUME NEW ps \in SUBSET Products, PauseFromBot(ps) PROVE NoOrphanProduct'
  BY <1>7 DEF PauseFromBot, PanelInv, PanelTypeOK
<1>8. ASSUME NEW r \in Requests, RequestStep(r) PROVE NoOrphanProduct'
  <2>1. CASE product' = product /\ source' = source
    BY <2>1, <1>1
  <2>2. \/ \E p \in Products : Confirm(r, p)
        \/ SaveEdit(r) \/ SaveSource(r)
        \/ product' = product /\ source' = source
    BY <1>8 DEF RequestStep, StartPreview, CreatePreview, LockPreview, StartEdit, StartSource,
                SavePreview, RollBackDuplicate, Abandon
  <2>. QED BY <2>1, <2>2, <1>2, <1>3, <1>4
<1>9. CASE UNCHANGED panelVars
  BY <1>9, <1>1 DEF panelVars
<1>10. ASSUME \/ \E v \in Previews : RefuseExpired(v)
              \/ ExpirePreviews \/ PassMinute PROVE NoOrphanProduct'
  <2>1. product' = product /\ source' = source
    BY <1>10 DEF RefuseExpired, ExpirePreviews, PassMinute
  <2>. QED BY <2>1, <1>1
<1>. QED BY <1>5, <1>6, <1>7, <1>8, <1>9, <1>10 DEF PanelNext

(* A confirmation that fails leaves nothing behind, and nothing else takes  *)
(* the last source of a product.                                            *)
THEOREM NoOrphans == PanelSpec => []NoOrphanProduct
<1>1. PanelInit => NoOrphanProduct
  BY DEF PanelInit, NoOrphanProduct, Exists
<1>. QED BY <1>1, NoOrphanStep, PanelInvariant, PTL DEF PanelSpec

----------------------------------------------------------------------------
(* Only the save of an outdated product can give an archived product an     *)
(* active source.                                                           *)
LEMMA ArchivedStep ==
  PanelInv /\ ArchivedFreesItsLinks /\ [PanelNext]_panelVars => ArchivedFreesItsLinks'
<1> SUFFICES ASSUME PanelInv, ArchivedFreesItsLinks, [PanelNext]_panelVars
             PROVE  ArchivedFreesItsLinks'
  OBVIOUS
<1> USE DEF ArchivedFreesItsLinks
<1>1. ASSUME product' = product, source' = source, outdated' = outdated
      PROVE  ArchivedFreesItsLinks'
  BY <1>1
<1>2. ASSUME NEW r \in Requests, NEW p \in Products, Confirm(r, p)
      PROVE  ArchivedFreesItsLinks'
  BY <1>2 DEF Confirm, PanelInv, PanelTypeOK
<1>3. ASSUME NEW r \in Requests, SaveEdit(r) PROVE ArchivedFreesItsLinks'
  BY <1>3 DEF SaveEdit, PanelInv, PanelTypeOK
<1>4. ASSUME NEW r \in Requests, SaveSource(r) PROVE ArchivedFreesItsLinks'
  BY <1>4 DEF SaveSource, PanelInv, PanelTypeOK, RequestsPrepared, Prepared
<1>5. ASSUME NEW p \in Products, TogglePause(p) PROVE ArchivedFreesItsLinks'
  BY <1>5 DEF TogglePause, PanelInv, PanelTypeOK
<1>6. ASSUME NEW p \in Products, ArchiveProduct(p) PROVE ArchivedFreesItsLinks'
  BY <1>6 DEF ArchiveProduct, PanelInv, PanelTypeOK
<1>7. ASSUME NEW ps \in SUBSET Products, PauseFromBot(ps) PROVE ArchivedFreesItsLinks'
  BY <1>7 DEF PauseFromBot, PanelInv, PanelTypeOK
<1>8. ASSUME NEW r \in Requests, RequestStep(r) PROVE ArchivedFreesItsLinks'
  <2>1. CASE product' = product /\ source' = source /\ outdated' = outdated
    BY <2>1, <1>1
  <2>2. \/ \E p \in Products : Confirm(r, p)
        \/ SaveEdit(r) \/ SaveSource(r)
        \/ product' = product /\ source' = source /\ outdated' = outdated
    BY <1>8 DEF RequestStep, StartPreview, CreatePreview, LockPreview, StartEdit, StartSource,
                SavePreview, RollBackDuplicate, Abandon
  <2>. QED BY <2>1, <2>2, <1>2, <1>3, <1>4
<1>9. CASE UNCHANGED panelVars
  BY <1>9, <1>1 DEF panelVars
<1>10. ASSUME \/ \E v \in Previews : RefuseExpired(v)
              \/ ExpirePreviews \/ PassMinute PROVE ArchivedFreesItsLinks'
  <2>1. product' = product /\ source' = source /\ outdated' = outdated
    BY <1>10 DEF RefuseExpired, ExpirePreviews, PassMinute
  <2>. QED BY <2>1, <1>1
<1>. QED BY <1>5, <1>6, <1>7, <1>8, <1>9, <1>10 DEF PanelNext

(* As long as no request saved over a product that changed since it was     *)
(* read, archived products have no active source.                           *)
THEOREM ArchivedAreFree == PanelSpec => []ArchivedFreesItsLinks
<1>1. PanelInit => ArchivedFreesItsLinks
  BY DEF PanelInit, ArchivedFreesItsLinks
<1>. QED BY <1>1, ArchivedStep, PanelInvariant, PTL DEF PanelSpec

----------------------------------------------------------------------------
(* A step leaves a confirmed preview alone: nobody fetches or locks it.     *)
LEMMA ConfirmedStep ==
  ASSUME PanelInv, [PanelNext]_panelVars, NEW v \in Previews, preview[v].status = "CONFIRMED"
  PROVE  preview'[v] = preview[v]
<1>1. ASSUME NEW r \in Requests, NEW w \in Previews, CreatePreview(r, w)
      PROVE  preview'[v] = preview[v]
  BY <1>1 DEF CreatePreview, PanelInv, PanelTypeOK
<1>2. ASSUME NEW r \in Requests, NEW p \in Products, Confirm(r, p)
      PROVE  preview'[v] = preview[v]
  <2>1. preview[request[r].preview].status = "READY" /\ request[r].preview \in Previews
    BY <1>2 DEF Confirm, PanelInv, RequestsPrepared, Prepared
  <2>. QED BY <1>2, <2>1 DEF Confirm, PanelInv, PanelTypeOK
<1>3. ASSUME NEW r \in Requests, SavePreview(r) PROVE preview'[v] = preview[v]
  <2>1. /\ request[r].preview \in Previews
        /\ preview[request[r].preview].status \in {"PENDING", "EXPIRED"}
    BY <1>3 DEF SavePreview, PanelInv, RequestsPrepared, Prepared
  <2>2. v # request[r].preview
    BY <2>1
  <2>. QED BY <1>3, <2>2 DEF SavePreview, PanelInv, PanelTypeOK
<1>4. ASSUME NEW w \in Previews, RefuseExpired(w) PROVE preview'[v] = preview[v]
  BY <1>4 DEF RefuseExpired, PanelInv, PanelTypeOK
<1>5. ASSUME ExpirePreviews PROVE preview'[v] = preview[v]
  BY <1>5 DEF ExpirePreviews, Stale
<1>6. ASSUME NEW r \in Requests, RequestStep(r) PROVE preview'[v] = preview[v]
  <2>1. \/ \E w \in Previews : CreatePreview(r, w)
        \/ \E p \in Products : Confirm(r, p)
        \/ SavePreview(r) \/ preview' = preview
    BY <1>6 DEF RequestStep, StartPreview, LockPreview, StartEdit, StartSource,
                RollBackDuplicate, SaveEdit, SaveSource, Abandon
  <2>. QED BY <2>1, <1>1, <1>2, <1>3
<1>7. ASSUME \/ \E p \in Products : TogglePause(p) \/ ArchiveProduct(p) \/ PauseFromBot({p})
             \/ PauseFromBot(Products) \/ PassMinute \/ UNCHANGED panelVars
      PROVE  preview'[v] = preview[v]
  BY <1>7 DEF TogglePause, ArchiveProduct, PauseFromBot, PassMinute, panelVars
<1>. QED BY <1>4, <1>5, <1>6, <1>7 DEF PanelNext

(* A confirmed preview stays as it is.                                      *)
THEOREM ConfirmedForGood == PanelSpec => ConfirmationIsFinal
<1>1. PanelInv /\ [PanelNext]_panelVars =>
        [\A v \in Previews : preview[v].status = "CONFIRMED" => preview'[v] = preview[v]]_panelVars
  BY ConfirmedStep
<1>. QED BY <1>1, PanelInvariant, PTL DEF PanelSpec, ConfirmationIsFinal

----------------------------------------------------------------------------
(* The previews counted and not yet created share what the limit leaves.    *)
Counted == {r \in Requests : request[r].at = "counted"}
LimitBudget ==
    Cardinality(InWindow) + Cardinality(Counted) <= RateLimit - 1 + Cardinality(Requests)

(* The sets that are counted are finite.                                    *)
LEMMA CountedFinite ==
  /\ IsFiniteSet(InWindow) /\ Cardinality(InWindow) \in Nat
  /\ IsFiniteSet(Counted) /\ Cardinality(Counted) \in Nat
  /\ Cardinality(Counted) <= Cardinality(Requests) /\ Cardinality(Requests) \in Nat
<1>1. IsFiniteSet(Previews)
  BY FS_Interval, PanelAssumption DEF Previews
<1>2. InWindow \subseteq Previews /\ Counted \subseteq Requests
  BY DEF InWindow, Counted
<1>. QED BY <1>1, <1>2, FS_Subset, FS_CardinalityType, PanelAssumption

(* The same of the next state.                                              *)
LEMMA CountedFiniteNext ==
  /\ IsFiniteSet(InWindow') /\ Cardinality(InWindow') \in Nat
  /\ IsFiniteSet(Counted') /\ Cardinality(Counted') \in Nat
  /\ Cardinality(Counted') <= Cardinality(Requests) /\ Cardinality(Requests) \in Nat
<1>1. IsFiniteSet(Previews)
  BY FS_Interval, PanelAssumption DEF Previews
<1>2. InWindow' \subseteq Previews /\ Counted' \subseteq Requests
  BY DEF InWindow, Counted
<1>. QED BY <1>1, <1>2, FS_Subset, FS_CardinalityType, PanelAssumption

(* Fewer counted previews keep the budget.                                  *)
LEMMA BudgetShrinks ==
  ASSUME LimitBudget, InWindow' \subseteq InWindow, Counted' \subseteq Counted
  PROVE  LimitBudget'
<1>1. /\ Cardinality(InWindow') <= Cardinality(InWindow)
      /\ Cardinality(Counted') <= Cardinality(Counted)
  BY CountedFinite, FS_Subset
<1>2. Cardinality(InWindow') + Cardinality(Counted') <= RateLimit - 1 + Cardinality(Requests)
  BY <1>1, CountedFinite, CountedFiniteNext, PanelSettings DEF LimitBudget
<1>. QED BY <1>2 DEF LimitBudget

(* One more is counted only while the limit is not reached.                 *)
LEMMA BudgetStart ==
  ASSUME PanelInv, LimitBudget, NEW r \in Requests, NEW t \in Products \cup {Null}, NEW u \in Urls,
         StartPreview(r, t, u)
  PROVE  LimitBudget'
<1>1. InWindow' = InWindow
  BY DEF StartPreview, InWindow
<1>2. Cardinality(InWindow) < RateLimit
  BY DEF StartPreview
<1>3. Cardinality(InWindow') + Cardinality(Counted') <= RateLimit - 1 + Cardinality(Requests)
  BY <1>1, <1>2, CountedFinite, CountedFiniteNext, PanelSettings
<1>. QED BY <1>3 DEF LimitBudget

(* A counted preview becomes a row.                                         *)
LEMMA BudgetCreate ==
  ASSUME PanelInv, LimitBudget, NEW r \in Requests, NEW v \in Previews, CreatePreview(r, v)
  PROVE  LimitBudget'
<1>1. v \notin InWindow /\ InWindow' \subseteq InWindow \cup {v}
  BY DEF CreatePreview, InWindow, PanelInv, PanelTypeOK
<1>2. r \in Counted /\ Counted' = Counted \ {r}
  BY DEF CreatePreview, Counted, PanelInv, PanelTypeOK, Idle
<1>3. Cardinality(InWindow') <= Cardinality(InWindow) + 1
  <2>1. IsFiniteSet(InWindow \cup {v}) /\ Cardinality(InWindow \cup {v}) = Cardinality(InWindow) + 1
    BY <1>1, CountedFinite, FS_AddElement
  <2>2. Cardinality(InWindow') <= Cardinality(InWindow \cup {v})
    BY <1>1, <2>1, FS_Subset
  <2>. QED BY <2>1, <2>2
<1>4. Cardinality(Counted') = Cardinality(Counted) - 1
  BY <1>2, CountedFinite, FS_RemoveElement
<1>5. Cardinality(InWindow') + Cardinality(Counted') <= RateLimit - 1 + Cardinality(Requests)
  BY <1>3, <1>4, CountedFinite, CountedFiniteNext, PanelSettings DEF LimitBudget
<1>. QED BY <1>5 DEF LimitBudget

(* Every step keeps the budget; all other steps count nothing new.          *)
LEMMA BudgetStep == PanelInv /\ LimitBudget /\ [PanelNext]_panelVars => LimitBudget'
<1> SUFFICES ASSUME PanelInv, LimitBudget, [PanelNext]_panelVars PROVE LimitBudget'
  OBVIOUS
<1>1. ASSUME NEW r \in Requests,
             \/ \E v \in Previews : LockPreview(r, v)
             \/ \E p \in Products : StartEdit(r, p)
             \/ \E p \in Products, u \in Urls : StartSource(r, p, u)
             \/ RollBackDuplicate(r) \/ SaveEdit(r) \/ SaveSource(r) \/ Abandon(r)
      PROVE  LimitBudget'
  <2>1. InWindow' = InWindow
    BY <1>1 DEF LockPreview, StartEdit, StartSource, RollBackDuplicate, SaveEdit, SaveSource,
                Abandon, InWindow
  <2>2. \E task : task.at # "counted" /\ request' = [request EXCEPT ![r] = task]
    BY <1>1 DEF LockPreview, StartEdit, StartSource, RollBackDuplicate, SaveEdit, SaveSource,
                Abandon, Idle
  <2>3. Counted' \subseteq Counted
    BY <2>2 DEF Counted, PanelInv, PanelTypeOK
  <2>. QED BY <2>1, <2>3, BudgetShrinks
<1>2. ASSUME NEW r \in Requests, NEW p \in Products, Confirm(r, p) PROVE LimitBudget'
  <2>1. request[r].preview \in Previews /\ preview[request[r].preview].status = "READY"
    BY <1>2 DEF Confirm, PanelInv, RequestsPrepared, Prepared
  <2>2. InWindow' \subseteq InWindow
    BY <1>2, <2>1 DEF Confirm, InWindow, PanelInv, PanelTypeOK, PreviewRow
  <2>3. Counted' \subseteq Counted
    BY <1>2 DEF Confirm, Counted, Idle, PanelInv, PanelTypeOK
  <2>. QED BY <2>2, <2>3, BudgetShrinks
<1>3. ASSUME NEW r \in Requests, SavePreview(r) PROVE LimitBudget'
  <2>1. /\ request[r].preview \in Previews
        /\ preview[request[r].preview].status \in {"PENDING", "EXPIRED"}
    BY <1>3 DEF SavePreview, PanelInv, RequestsPrepared, Prepared
  <2>2. InWindow' \subseteq InWindow
    BY <1>3, <2>1 DEF SavePreview, Fetched, InWindow, PanelInv, PanelTypeOK, PreviewRow
  <2>3. Counted' \subseteq Counted
    BY <1>3 DEF SavePreview, Counted, Idle, PanelInv, PanelTypeOK
  <2>. QED BY <2>2, <2>3, BudgetShrinks
<1>4. ASSUME (\E v \in Previews : RefuseExpired(v)) \/ ExpirePreviews PROVE LimitBudget'
  <2>1. InWindow' \subseteq InWindow
    BY <1>4 DEF RefuseExpired, ExpirePreviews, Stale, InWindow, PanelInv, PanelTypeOK, PreviewRow
  <2>2. Counted' = Counted
    BY <1>4 DEF RefuseExpired, ExpirePreviews, Counted
  <2>. QED BY <2>1, <2>2, BudgetShrinks
<1>5. ASSUME PassMinute PROVE LimitBudget'
  <2>1. \A v \in Previews : preview[v].created \in Nat
    BY PanelAssumption DEF PanelInv, PanelTypeOK, PreviewRow
  <2>2. InWindow' \subseteq InWindow
    BY <1>5, <2>1, PanelSettings DEF PassMinute, InWindow, PanelInv, PanelTypeOK
  <2>3. Counted' = Counted
    BY <1>5 DEF PassMinute, Counted
  <2>. QED BY <2>2, <2>3, BudgetShrinks
<1>6. ASSUME \/ \E p \in Products : TogglePause(p) \/ ArchiveProduct(p) \/ PauseFromBot({p})
             \/ PauseFromBot(Products) \/ UNCHANGED panelVars
      PROVE  LimitBudget'
  <2>1. InWindow' = InWindow /\ Counted' = Counted
    BY <1>6 DEF TogglePause, ArchiveProduct, PauseFromBot, panelVars, InWindow, Counted
  <2>. QED BY <2>1, BudgetShrinks
<1>. QED BY <1>1, <1>2, <1>3, <1>4, <1>5, <1>6, BudgetStart, BudgetCreate DEF PanelNext, RequestStep

(* The limit of previews is exceeded by no more than the parallel requests. *)
THEOREM LimitIsHeld == PanelSpec => []LimitHolds
<1>1. PanelInit => LimitBudget
  <2> SUFFICES ASSUME PanelInit PROVE LimitBudget
    OBVIOUS
  <2>1. InWindow = {} /\ Counted = {}
    BY DEF PanelInit, InWindow, Counted, NoPreview, Idle
  <2>2. Cardinality(Requests) \in Nat
    BY CountedFinite
  <2>. QED BY <2>1, <2>2, FS_EmptySet, PanelSettings DEF LimitBudget
<1>2. LimitBudget => LimitHolds
  BY CountedFinite, PanelSettings DEF LimitBudget, LimitHolds
<1>. QED BY <1>1, <1>2, BudgetStep, PanelInvariant, PTL DEF PanelSpec

-----------------------------------------------------------------------------
VisitStages == {"away", "creating", "unhooking", "looking", "erasing"}

(* Ids are given in order, and only the last account given one can exist.   *)
LastOneLives == account \in {0, created}

(* No bot and no history outlives the account, and no redemption either:    *)
(* the grant names the account that exists, or none.                        *)
NothingLeftBehind ==
    /\ account = 0 => ownBot = "none" /\ ~ hasHistory
    /\ grant.redeemer \in {0, account}

AccountInv == AccountTypeOK /\ LastOneLives /\ NothingLeftBehind

(* Every step keeps the invariant.                                          *)
LEMMA AccountStep == AccountInv /\ [AccountNext]_accountVars => AccountInv'
<1> SUFFICES ASSUME AccountInv, [AccountNext]_accountVars PROVE AccountInv'
  OBVIOUS
<1> USE AccountAssumption DEF AccountInv, AccountTypeOK, LastOneLives, NothingLeftBehind,
            VisitStages
<1>1. CASE UNCHANGED accountVars
  BY <1>1 DEF accountVars
<1>2. CASE RegisterBeta
  <2>1. PICK s \in {"active", "disabled"} : grant' = [grant EXCEPT !.state = s]
    BY <1>2 DEF RegisterBeta
  <2>2. UNCHANGED <<account, created, hasHistory, ownBot, visit>>
    BY <1>2 DEF RegisterBeta
  <2>3. /\ grant' \in [state: {"none", "active", "disabled"}, redeemer: 0 .. created]
        /\ grant'.redeemer = grant.redeemer
    BY <2>1
  <2>. QED BY <2>2, <2>3
<1>3. CASE ConnectAccountBot \/ Observe
  BY <1>3 DEF ConnectAccountBot, Observe
<1>4. ASSUME NEW v \in Visits, LogInAgain(v) PROVE AccountInv'
  <2>1. /\ Redeemed(account) \in [state: {"none", "active", "disabled"}, redeemer: 0 .. created]
        /\ Redeemed(account).redeemer \in {0, account}
    BY DEF Redeemed
  <2>. QED BY <1>4, <2>1 DEF LogInAgain
<1>5. ASSUME NEW v \in Visits, FirstLogin(v) PROVE AccountInv'
  BY <1>5 DEF FirstLogin
<1>6. ASSUME NEW v \in Visits, CreateAccount(v) PROVE AccountInv'
  <2> DEFINE next == created + 1
  <2>1. next \in 1 .. MaxAccounts /\ 0 .. created \subseteq 0 .. next
    BY <1>6 DEF CreateAccount
  <2>2. visit' = [visit EXCEPT ![v] = Away] /\ ownBot' = ownBot
    BY <1>6 DEF CreateAccount
  <2>3. visit' \in [Visits -> [at: VisitStages, id: 0 .. created]]
    BY <2>2 DEF Away
  <2>4. CASE account # 0
    BY <1>6, <2>2, <2>3, <2>4 DEF CreateAccount
  <2>5. CASE account = 0
    <3>1. /\ account' = next /\ created' = next /\ grant' = Redeemed(next)
          /\ hasHistory' = FALSE
      BY <1>6, <2>5 DEF CreateAccount
    <3>2. /\ Redeemed(next) \in [state: {"none", "active", "disabled"}, redeemer: 0 .. next]
          /\ Redeemed(next).redeemer \in {0, next}
      BY <2>1, <2>5 DEF Redeemed
    <3>3. visit' \in [Visits -> [at: VisitStages, id: 0 .. next]]
      BY <2>1, <2>3
    <3>4. next \in Nat \ {0} /\ next \in 0 .. MaxAccounts /\ next \in 0 .. next
      BY <2>1
    <3> HIDE DEF next
    <3>5. AccountTypeOK' /\ LastOneLives'
      BY <2>2, <3>1, <3>2, <3>3, <3>4
    <3>6. NothingLeftBehind'
      BY <3>1, <3>2, <3>4
    <3>. QED BY <3>5, <3>6
  <2>. QED BY <2>4, <2>5
<1>7. ASSUME NEW v \in Visits, StartErasure(v) PROVE AccountInv'
  <2> DEFINE row == [at |-> IF ownBot = "none" THEN "looking" ELSE "unhooking", id |-> account]
  <2>1. row \in [at: VisitStages, id: 0 .. created] /\ visit' = [visit EXCEPT ![v] = row]
    BY <1>7 DEF StartErasure
  <2> HIDE DEF row
  <2>2. visit' \in [Visits -> [at: VisitStages, id: 0 .. created]]
    BY <2>1
  <2>. QED BY <1>7, <2>2 DEF StartErasure
<1>8. ASSUME NEW v \in Visits, RemoveWebhook(v) PROVE AccountInv'
  <2>1. /\ visit' = [visit EXCEPT ![v].at = "looking"]
        /\ UNCHANGED <<account, created, grant, hasHistory>>
    BY <1>8 DEF RemoveWebhook
  <2>2. visit' \in [Visits -> [at: VisitStages, id: 0 .. created]]
    BY <2>1
  <2>3. /\ ownBot' \in {"none", "connected", "deaf"}
        /\ ownBot = "none" => ownBot' = "none"
    BY <1>8 DEF RemoveWebhook
  <2>. QED BY <2>1, <2>2, <2>3
<1>9. ASSUME NEW v \in Visits, ReadIdentity(v) PROVE AccountInv'
  <2>1. /\ \/ visit' = [visit EXCEPT ![v].at = "erasing"]
           \/ visit' = [visit EXCEPT ![v] = Away]
        /\ UNCHANGED <<account, created, grant, hasHistory, ownBot>>
    BY <1>9 DEF ReadIdentity
  <2>2. visit' \in [Visits -> [at: VisitStages, id: 0 .. created]]
    BY <2>1 DEF Away
  <2>. QED BY <2>1, <2>2
<1>10. ASSUME NEW v \in Visits, Erase(v) PROVE AccountInv'
  <2>1. visit' = [visit EXCEPT ![v] = Away] /\ created' = created
    BY <1>10 DEF Erase
  <2>2. visit' \in [Visits -> [at: VisitStages, id: 0 .. created]]
    BY <2>1 DEF Away
  <2>3. CASE UNCHANGED <<account, grant, ownBot, hasHistory>>
    BY <2>1, <2>2, <2>3
  <2>4. CASE /\ grant' = [state |-> "none", redeemer |-> 0]
             /\ \/ account' = 0 /\ ownBot' = "none" /\ hasHistory' = FALSE
                \/ UNCHANGED <<account, ownBot, hasHistory>>
    <3>1. 0 \in 0 .. created /\ 0 \in 0 .. created'
      BY <2>1
    <3>2. /\ grant'.redeemer = 0
          /\ grant' \in [state: {"none", "active", "disabled"}, redeemer: 0 .. created]
      BY <2>4, <3>1
    <3>3. NothingLeftBehind'
      BY <2>4, <3>2
    <3>. QED BY <2>1, <2>2, <2>4, <3>1, <3>2, <3>3
  <2>. QED BY <1>10, <2>3, <2>4 DEF Erase
<1>. QED BY <1>1, <1>2, <1>3, <1>4, <1>5, <1>6, <1>7, <1>8, <1>9, <1>10 DEF AccountNext

(* The inductive invariant of the account.                                  *)
THEOREM AccountInvariant == AccountSpec => []AccountInv
<1>1. AccountInit => AccountInv
  <2> SUFFICES ASSUME AccountInit PROVE AccountInv
    OBVIOUS
  <2>1. AccountTypeOK
    <3>1. 0 \in 0 .. created /\ account \in 0 .. created /\ created \in 0 .. MaxAccounts
      BY AccountAssumption DEF AccountInit
    <3>2. grant \in [state: {"none", "active", "disabled"}, redeemer: 0 .. created]
      BY <3>1 DEF AccountInit
    <3>3. visit \in [Visits -> [at: VisitStages, id: 0 .. created]]
      BY <3>1 DEF AccountInit, Away, VisitStages
    <3>. QED BY <3>1, <3>2, <3>3 DEF AccountInit, AccountTypeOK, VisitStages
  <2>2. LastOneLives /\ NothingLeftBehind
    BY DEF AccountInit, LastOneLives, NothingLeftBehind
  <2>. QED BY <2>1, <2>2 DEF AccountInv
<1>. QED BY <1>1, AccountStep, PTL DEF AccountSpec

(* Every variable of the account holds a value of its type.                 *)
THEOREM AccountTyped == AccountSpec => []AccountTypeOK
<1>1. AccountInv => AccountTypeOK
  BY DEF AccountInv
<1>. QED BY <1>1, AccountInvariant, PTL

(* The grant an account redeemed is lost to it in two ways only: by its own *)
(* erasure, which the account does not survive, or by one of an account     *)
(* before it whose identity was read before that account went.              *)
GrantIsLostToErasures ==
    [][account # 0 /\ grant.redeemer = account /\ grant'.redeemer # account =>
          \E v \in Visits :
              /\ visit[v].at = "erasing" /\ visit'[v] = Away
              /\ \/ visit[v].id = account /\ account' = 0
                 \/ visit[v].id < account /\ account' = account]_accountVars

(* Logins, registrations and first logins racing an erasure leave a         *)
(* redeemed grant alone.                                                    *)
THEOREM GrantLost == AccountSpec => GrantIsLostToErasures
<1> DEFINE Lost == account # 0 /\ grant.redeemer = account /\ grant'.redeemer # account
           Loss(v) == /\ visit[v].at = "erasing" /\ visit'[v] = Away
                      /\ \/ visit[v].id = account /\ account' = 0
                         \/ visit[v].id < account /\ account' = account
<1>1. AccountInv /\ [AccountNext]_accountVars => [Lost => \E v \in Visits : Loss(v)]_accountVars
  <2> SUFFICES ASSUME AccountInv, AccountNext, Lost PROVE \E v \in Visits : Loss(v)
    BY DEF accountVars
  <2>1. ~ RegisterBeta
    <3> SUFFICES ASSUME RegisterBeta PROVE FALSE
      OBVIOUS
    <3>1. PICK s \in {"active", "disabled"} : grant' = [grant EXCEPT !.state = s]
      BY DEF RegisterBeta
    <3>. QED BY <3>1 DEF AccountInv, AccountTypeOK
  <2>2. ASSUME NEW v \in Visits PROVE ~ LogInAgain(v)
    BY DEF LogInAgain, Redeemed, AccountInv, AccountTypeOK
  <2>3. PICK v \in Visits : Erase(v)
    BY <2>1, <2>2 DEF AccountNext, FirstLogin, CreateAccount, StartErasure, RemoveWebhook,
           ReadIdentity, ConnectAccountBot, Observe
  <2>4. visit[v].at = "erasing" /\ visit'[v] = Away
    BY <2>3 DEF Erase, AccountInv, AccountTypeOK
  <2>5. account = created /\ created \in Nat /\ visit[v].id \in 0 .. created
    BY AccountAssumption DEF AccountInv, AccountTypeOK, LastOneLives
  <2>6. \/ visit[v].id = account /\ account' = 0
        \/ visit[v].id # account /\ account' = account
    BY <2>3 DEF Erase
  <2>7. visit[v].id # account => visit[v].id < account
    BY <2>5
  <2>. QED BY <2>4, <2>6, <2>7
<1>. QED BY <1>1, AccountInvariant, PTL DEF AccountSpec, GrantIsLostToErasures

(* An account goes only by a request made for it, and is never replaced.    *)
THEOREM ErasedOnRequest == AccountSpec => ErasedByItsOwner
<1> DEFINE Erased ==
      account' # account /\ account # 0 =>
          /\ account' = 0
          /\ \E v \in Visits : visit[v].at = "erasing" /\ visit[v].id = account
<1>1. [AccountNext]_accountVars => [Erased]_accountVars
  <2> SUFFICES ASSUME AccountNext, account' # account, account # 0
               PROVE  /\ account' = 0
                      /\ \E v \in Visits : visit[v].at = "erasing" /\ visit[v].id = account
    BY DEF accountVars
  <2>1. PICK v \in Visits : Erase(v)
    BY DEF AccountNext, LogInAgain, FirstLogin, CreateAccount, StartErasure, RemoveWebhook,
           ReadIdentity, RegisterBeta, ConnectAccountBot, Observe
  <2>. QED BY <2>1 DEF Erase
<1>. QED BY <1>1, PTL DEF AccountSpec, ErasedByItsOwner

----------------------------------------------------------------------------
(* A step of the run is a step of one component and changes no other.       *)
LEMMA ServicesAreTheirs ==
  MCSpec => Spec /\ PanelSpec /\ AccountSpec /\ EngineSpec
<1>1. MCInit => Init /\ PanelInit /\ AccountInit /\ EngineInit
  BY DEF MCInit
<1> DEFINE allVars == <<part, vars, panelVars, accountVars, engineVars>>
<1>2. [MCNext]_allVars => [Next]_vars
  BY DEF MCNext
<1>3. [MCNext]_allVars => [PanelNext]_panelVars
  BY DEF MCNext
<1>4. [MCNext]_allVars => [AccountNext]_accountVars
  BY DEF MCNext
<1>5. [MCNext]_allVars => [EngineNext]_engineVars
  BY DEF MCNext
<1>6. MCSpec => Spec
  BY <1>1, <1>2, PTL DEF MCSpec, Spec
<1>7. MCSpec => PanelSpec
  BY <1>1, <1>3, PTL DEF MCSpec, PanelSpec
<1>8. MCSpec => AccountSpec
  BY <1>1, <1>4, PTL DEF MCSpec, AccountSpec
<1>9. MCSpec => EngineSpec
  BY <1>1, <1>5, PTL DEF MCSpec, EngineSpec
<1>. QED BY <1>6, <1>7, <1>8, <1>9, PTL

(* In the run over the services every variable holds a value of its type:   *)
(* bots, panel, account and engine stay typed side by side.                 *)
THEOREM ServicesTyped == MCSpec => []ServicesTypeOK
<1>1. BotInv => TypeOK
  BY DEF BotInv
<1>2. TypeOK /\ PanelTypeOK /\ AccountTypeOK /\ EngineTypeOK => ServicesTypeOK
  BY DEF ServicesTypeOK
<1>. QED BY <1>1, <1>2, ServicesAreTheirs, BotInvariant, PanelTyped, AccountTyped, EngineTyped, PTL
=============================================================================
