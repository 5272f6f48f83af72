---------------------------- MODULE ProductPanel ----------------------------
(* The product panel of one tenant: link previews and their confirmation,   *)
(* products, their sources, and the requests that change them in parallel.  *)
(* A transaction is one action unless it reads a row that it does not lock. *)
EXTENDS Integers, FiniteSets

CONSTANTS
    Null,        \* a null reference
    Products, Urls,
    MaxPreviews, \* bound: rows 1..MaxPreviews, in order of creation
    Requests,    \* threads of the web processes
    Ttl,         \* PRODUCT_PREVIEW_TTL_MINUTES
    Window,      \* PRODUCT_PREVIEW_WINDOW_MINUTES
    RateLimit,   \* PRODUCT_PREVIEW_RATE_LIMIT
    MaxMinute    \* bound of the clock

Previews == 1 .. MaxPreviews

ASSUME PanelAssumption ==
    /\ Null \notin Products \cup Urls \cup Previews
    /\ IsFiniteSet(Requests) /\ Requests # {}
    /\ MaxPreviews \in Nat /\ MaxMinute \in Nat

(* What settings.py accepts.                                                *)
ASSUME PanelSettings == Ttl \in Nat \ {0} /\ Window \in Nat \ {0} /\ RateLimit \in Nat \ {0}

VARIABLES
    minute,      \* the clock
    product,     \* MonitoredProduct rows
    source,      \* OfferSource rows, by product and link
    preview,     \* ProductLinkPreview rows
    request,     \* what each request has read and is about to save
    outdated     \* history: a request has saved over a product that changed since it read it

panelVars == <<minute, product, source, preview, request, outdated>>

ProductStatus == {"NONE", "ACTIVE", "PAUSED", "ARCHIVED"}
PreviewRow == [status: {"NONE", "PENDING", "READY", "FAILED", "CONFIRMED", "EXPIRED"},
               target: Products \cup {Null}, url: Urls \cup {Null},
               created: 0 .. MaxMinute, expires: 0 .. MaxMinute + Ttl,
               source: Products \cup {Null}]
Task == [at: {"idle", "counted", "fetching", "confirming", "editing", "sourcing"},
         preview: Previews \cup {Null}, product: Products \cup {Null},
         url: Urls \cup {Null}, read: ProductStatus, to: {"NONE", "ACTIVE", "INACTIVE"}]

NoPreview == [status |-> "NONE", target |-> Null, url |-> Null,
              created |-> 0, expires |-> 0, source |-> Null]
Idle == [at |-> "idle", preview |-> Null, product |-> Null, url |-> Null,
         read |-> "NONE", to |-> "NONE"]

Exists(p) == product[p] # "NONE"
Shown(p) == product[p] \in {"ACTIVE", "PAUSED"}
InUse(u) == \E p \in Products : source[p][u] = "ACTIVE"
InWindow == {v \in Previews : /\ preview[v].status # "NONE"
                              /\ preview[v].created >= minute - Window}
Locked(v) == \E r \in Requests : request[r].at = "confirming" /\ request[r].preview = v

(* A tenant begins with no product, or with one taken over by the import.   *)
PanelInit ==
    /\ minute = 0
    /\ \E old \in SUBSET Products : \E u \in Urls :
         /\ Cardinality(old) <= 1
         /\ product = [p \in Products |->
                IF p \in old THEN "ACTIVE" ELSE "NONE"]
         /\ source = [p \in Products |-> [link \in Urls |->
                IF p \in old /\ link = u THEN "ACTIVE" ELSE "NONE"]]
    /\ preview = [v \in Previews |-> NoPreview]
    /\ request = [r \in Requests |-> Idle]
    /\ outdated = FALSE

----------------------------------------------------------------------------
(* Previews.                                                                *)

(* Wrong one: the limit allows one more.                                    *)
StartPreviewOverLimit(r, t, u) ==
    /\ request[r].at = "idle"
    /\ t = Null \/ (t \in Products /\ Shown(t))
    /\ ~ InUse(u)
    /\ Cardinality(InWindow) <= RateLimit
    /\ request' = [request EXCEPT ![r] = [Idle EXCEPT !.at = "counted", !.product = t, !.url = u]]
    /\ UNCHANGED <<minute, product, source, preview, outdated>>

(* The reads of create_product_link_preview before it creates the row.      *)
StartPreview(r, t, u) ==
    /\ request[r].at = "idle"
    /\ t = Null \/ (t \in Products /\ Shown(t))
    /\ ~ InUse(u)
    /\ Cardinality(InWindow) < RateLimit
    /\ request' = [request EXCEPT ![r] = [Idle EXCEPT !.at = "counted", !.product = t, !.url = u]]
    /\ UNCHANGED <<minute, product, source, preview, outdated>>

CreatePreview(r, v) ==
    /\ request[r].at = "counted" /\ preview[v].status = "NONE"
    /\ \A w \in Previews : w < v => preview[w].status # "NONE"
    /\ preview' = [preview EXCEPT ![v] =
           [status |-> "PENDING", target |-> request[r].product, url |-> request[r].url,
            created |-> minute, expires |-> minute + Ttl, source |-> Null]]
    /\ request' = [request EXCEPT ![r] = [Idle EXCEPT !.at = "fetching", !.preview = v]]
    /\ UNCHANGED <<minute, product, source, outdated>>

(* fetch_preview_html and the parser: a page with an offer, or an error of  *)
(* the network, a redirect, the size or the format.                         *)
Fetched == {"READY", "FAILED"}

(* The status is saved over whatever the row says by now.                   *)
SavePreview(r) ==
    /\ request[r].at = "fetching" /\ ~ Locked(request[r].preview)
    /\ \E s \in Fetched :
         preview' = [preview EXCEPT ![request[r].preview].status = s]
    /\ request' = [request EXCEPT ![r] = Idle]
    /\ UNCHANGED <<minute, product, source, outdated>>

(* expire_stale_product_previews: one UPDATE.                               *)
Stale(v) == preview[v].status \in {"PENDING", "READY"} /\ preview[v].expires <= minute
ExpirePreviews ==
    /\ \E v \in Previews : Stale(v)
    /\ \A v \in Previews : Stale(v) => ~ Locked(v)
    /\ preview' = [v \in Previews |->
           IF Stale(v) THEN [preview[v] EXCEPT !.status = "EXPIRED"] ELSE preview[v]]
    /\ UNCHANGED <<minute, product, source, request, outdated>>

(* Wrong one: the update of an expired preview forgets its exclude().       *)
RefuseAnyExpired(v) ==
    /\ preview[v].status # "NONE" /\ preview[v].expires <= minute /\ ~ Locked(v)
    /\ preview' = [preview EXCEPT ![v].status = "EXPIRED"]
    /\ UNCHANGED <<minute, product, source, request, outdated>>

(* confirm_product_link_preview of an expired preview.                      *)
RefuseExpired(v) ==
    /\ preview[v].status \notin {"NONE", "CONFIRMED"} /\ preview[v].expires <= minute
    /\ ~ Locked(v)
    /\ preview' = [preview EXCEPT ![v].status = "EXPIRED"]
    /\ UNCHANGED <<minute, product, source, request, outdated>>

(* The transaction of a confirmation locks the preview and reads the target *)
(* product without a lock. A preview confirmed before changes nothing.      *)
LockPreview(r, v) ==
    /\ request[r].at = "idle"
    /\ preview[v].status = "READY" /\ preview[v].expires > minute /\ ~ Locked(v)
    /\ LET t == preview[v].target IN
       request' = [request EXCEPT ![r] =
           [Idle EXCEPT !.at = "confirming", !.preview = v, !.product = t,
                        !.read = IF t = Null THEN "NONE" ELSE product[t]]]
    /\ UNCHANGED <<minute, product, source, preview, outdated>>

(* Its writes: the product's status as it was read (an archived one is      *)
(* brought back), the source created or reactivated, the preview.           *)
Confirm(r, p) ==
    LET v == request[r].preview
        read == request[r].read
        u == preview[v].url IN
    /\ request[r].at = "confirming"
    /\ IF request[r].product = Null THEN ~ Exists(p) ELSE p = request[r].product
    /\ ~ InUse(u)
    /\ product' = [product EXCEPT ![p] = IF read = "PAUSED" THEN "PAUSED" ELSE "ACTIVE"]
    /\ source' = [source EXCEPT ![p][u] = "ACTIVE"]
    /\ preview' = [preview EXCEPT ![v].status = "CONFIRMED", ![v].source = p]
    /\ request' = [request EXCEPT ![r] = Idle]
    /\ UNCHANGED <<minute, outdated>>

(* Wrong one: no transaction, so a duplicate link leaves the new product.   *)
KeepProductOfDuplicate(r) ==
    /\ request[r].at = "confirming" /\ InUse(preview[request[r].preview].url)
    /\ request[r].product = Null
    /\ \E p \in Products : ~ Exists(p) /\ product' = [product EXCEPT ![p] = "ACTIVE"]
    /\ request' = [request EXCEPT ![r] = Idle]
    /\ UNCHANGED <<minute, source, preview, outdated>>

(* The unique constraints refuse a link in use: everything is rolled back.  *)
RollBackDuplicate(r) ==
    /\ request[r].at = "confirming" /\ InUse(preview[request[r].preview].url)
    /\ request' = [request EXCEPT ![r] = Idle]
    /\ UNCHANGED <<minute, product, source, preview, outdated>>

----------------------------------------------------------------------------
(* Products.                                                                *)

(* toggle_product_pause, with the product locked.                           *)
TogglePause(p) ==
    /\ Shown(p)
    /\ product' = [product EXCEPT ![p] = IF @ = "PAUSED" THEN "ACTIVE" ELSE "PAUSED"]
    /\ UNCHANGED <<minute, source, preview, request, outdated>>

(* /pausar of the bot pauses all, the button of an alert its product.       *)
PauseFromBot(ps) ==
    /\ \E p \in ps : product[p] = "ACTIVE"
    /\ product' = [p \in Products |->
           IF p \in ps /\ product[p] = "ACTIVE"
           THEN "PAUSED" ELSE product[p]]
    /\ UNCHANGED <<minute, source, preview, request, outdated>>

(* Wrong one: the sources stay as they are.                                 *)
ArchiveProductOnly(p) ==
    /\ Exists(p)
    /\ product' = [product EXCEPT ![p] = "ARCHIVED"]
    /\ UNCHANGED <<minute, source, preview, request, outdated>>

ArchiveProduct(p) ==
    /\ Exists(p)
    /\ product' = [product EXCEPT ![p] = "ARCHIVED"]
    /\ source' = [source EXCEPT ![p] = [u \in Urls |->
           IF source[p][u] = "ACTIVE" THEN "INACTIVE" ELSE source[p][u]]]
    /\ UNCHANGED <<minute, preview, request, outdated>>

(* product_edit reads the product and saves every column of it.             *)
StartEdit(r, p) ==
    /\ request[r].at = "idle" /\ Shown(p)
    /\ request' = [request EXCEPT ![r] =
           [Idle EXCEPT !.at = "editing", !.product = p, !.read = product[p]]]
    /\ UNCHANGED <<minute, product, source, preview, outdated>>

SaveEdit(r) ==
    LET p == request[r].product IN
    /\ request[r].at = "editing"
    /\ product' = [product EXCEPT ![p] = request[r].read]
    /\ outdated' = (outdated \/ product[p] # request[r].read)
    /\ request' = [request EXCEPT ![r] = Idle]
    /\ UNCHANGED <<minute, source, preview>>

(* source_toggle (other) and source_edit (the same state again).            *)
StartSource(r, p, u) ==
    /\ request[r].at = "idle" /\ Shown(p) /\ source[p][u] # "NONE"
    /\ \E s \in {"ACTIVE", "INACTIVE"} :
         request' = [request EXCEPT ![r] =
             [Idle EXCEPT !.at = "sourcing", !.product = p, !.url = u,
                          !.read = product[p], !.to = s]]
    /\ UNCHANGED <<minute, product, source, preview, outdated>>

SaveSource(r) ==
    LET p == request[r].product
        u == request[r].url IN
    /\ request[r].at = "sourcing"
    /\ IF request[r].to = "ACTIVE" /\ source[p][u] # "ACTIVE" /\ InUse(u)
       THEN UNCHANGED <<source, outdated>>
       ELSE /\ source' = [source EXCEPT ![p][u] = request[r].to]
            /\ outdated' = (outdated \/ product[p] # request[r].read)
    /\ request' = [request EXCEPT ![r] = Idle]
    /\ UNCHANGED <<minute, product, preview>>

(* A process dies; what its transaction wrote is rolled back.               *)
Abandon(r) ==
    /\ request[r].at # "idle"
    /\ request' = [request EXCEPT ![r] = Idle]
    /\ UNCHANGED <<minute, product, source, preview, outdated>>

PassMinute ==
    /\ minute < MaxMinute
    /\ minute' = minute + 1
    /\ UNCHANGED <<product, source, preview, request, outdated>>

RequestStep(r) ==
    \/ \E t \in Products \cup {Null}, u \in Urls : StartPreview(r, t, u)
    \/ \E v \in Previews : CreatePreview(r, v) \/ LockPreview(r, v)
    \/ \E p \in Products : Confirm(r, p) \/ StartEdit(r, p)
    \/ \E p \in Products, u \in Urls : StartSource(r, p, u)
    \/ SavePreview(r) \/ RollBackDuplicate(r) \/ SaveEdit(r) \/ SaveSource(r) \/ Abandon(r)

PanelNext ==
    \/ \E r \in Requests : RequestStep(r)
    \/ \E v \in Previews : RefuseExpired(v)
    \/ \E p \in Products : TogglePause(p) \/ ArchiveProduct(p) \/ PauseFromBot({p})
    \/ PauseFromBot(Products) \/ ExpirePreviews \/ PassMinute

PanelSpec == PanelInit /\ [][PanelNext]_panelVars

----------------------------------------------------------------------------
(* Every variable holds a value of its type.                                *)
PanelTypeOK ==
    /\ minute \in 0 .. MaxMinute
    /\ product \in [Products -> ProductStatus]
    /\ source \in [Products -> [Urls -> {"NONE", "ACTIVE", "INACTIVE"}]]
    /\ preview \in [Previews -> PreviewRow]
    /\ request \in [Requests -> Task]
    /\ outdated \in BOOLEAN

(* As long as no request saved over a product that changed since it was     *)
(* read: an archived product has no active source, which would keep its     *)
(* link from being used again (confirmation, toggle and edit race archive). *)
ArchivedFreesItsLinks ==
    outdated \/ \A p \in Products : \A u \in Urls :
        product[p] = "ARCHIVED" => source[p][u] # "ACTIVE"

(* Counting and creating previews are two statements, so the limit can be   *)
(* exceeded, but by no more than the requests running at the same time.     *)
LimitHolds == Cardinality(InWindow) <= RateLimit - 1 + Cardinality(Requests)

(* Sources belong to products, and no product is without a source: a        *)
(* confirmation that fails leaves nothing behind.                           *)
NoOrphanProduct ==
    \A p \in Products : Exists(p) <=> \E u \in Urls : source[p][u] # "NONE"

(* A confirmed preview stays confirmed, for the same product: neither its   *)
(* expiry nor a second click nor the end of its own fetch takes it back.    *)
ConfirmationIsFinal ==
    [][\A v \in Previews : preview[v].status = "CONFIRMED" => preview'[v] = preview[v]]_panelVars
=============================================================================
