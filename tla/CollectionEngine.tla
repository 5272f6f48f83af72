-------------------------- MODULE CollectionEngine --------------------------
(* Shared collections and the alert events they give rise to,               *)
(* src/monitoring/collection_engine.py and alerts.py: each batch fetches    *)
(* every offer once, stores an observation per source, then sets baselines, *)
(* evaluates alerts, and only in the end marks its runs as successful.      *)
(* Batches overlap when a collection outlives its lease.                    *)
(*                                                                          *)
(* An action is one autocommitted statement or transaction; the rows that   *)
(* one phase creates for no other reader than the batch are one action.     *)
EXTENDS Integers, Sequences, FiniteSets, FiniteSetsExt

CONSTANTS
    LastBatch,     \* bound: batches 1..LastBatch, by started_at
    Collectors,    \* bound: collections at the same time
    MaxLosses,     \* bound: exceptions and deaths of collections
    LastClock,     \* bound: the clock
    Owners,        \* tenants
    Items,         \* monitored products
    OwnerOf,       \* [Items -> Owners]
    Links,         \* offer sources
    ItemOf,        \* [Links -> Items]
    OfferOf,       \* [Links -> shared offer the link's canonical URL leads to]
    Unroutable,    \* links refused by validate_exact_product_url or of another store
    Prices,        \* prices a page may show, in cents
    Freight,       \* prices of shipping, in cents
    Rule,          \* AlertRule of every product
    Target         \* target_price_cents, 0 for none

Batches == 1 .. LastBatch
Offers == {OfferOf[s] : s \in Links}
Totals == {p + f : p \in Prices, f \in Freight}

ASSUME EngineAssumption ==
    /\ {LastBatch, Collectors, MaxLosses, LastClock, Target} \subseteq Nat
    /\ Prices \subseteq Nat \ {0} /\ Freight \subseteq Nat
    /\ OwnerOf \in [Items -> Owners] /\ ItemOf \in [Links -> Items] /\ IsFiniteSet(Items)
    /\ Rule \in [enabled: BOOLEAN, low: BOOLEAN, target: BOOLEAN, back: BOOLEAN,
                 increase: BOOLEAN, drop: Nat, cooldown: Nat]

VARIABLES
    clock,
    batch,         \* CollectionBatch rows, and how far the process is
    run,           \* status of the MonitoringRun rows, by batch and tenant
    page,          \* SharedOfferObservation rows
    price,         \* PriceObservation rows, by batch and source
    baseline,      \* baseline_total_cents of the products, 0 for null
    flagged,       \* the observations with is_baseline
    alert,         \* AlertEvent rows in order of creation
    losses

engineVars == <<clock, batch, run, page, price, baseline, flagged, alert, losses>>

RunStatus == {"NONE", "RUNNING", "SUCCESS", "FAILED"}
BatchStatus == {"NONE", "RUNNING", "SUCCESS", "PARTIAL", "FAILED"}
Stage == {"new", "fetching", "baselines", "closing", "failing", "over"}
Kinds == {"NEW_HISTORICAL_LOW", "TARGET_REACHED", "BACK_IN_STOCK", "PRICE_DROP", "PRICE_INCREASE"}

BatchRow == [status: BatchStatus, at: Stage, links: SUBSET Links, left: SUBSET Items,
             fresh: SUBSET Items]
NoBatch == [status |-> "NONE", at |-> "new", links |-> {}, left |-> {}, fresh |-> {}]
PageRow == [status: {"NONE", "ERROR", "OUT", "OK"}, price: Prices \cup {0}, at: 0 .. LastClock]
NoPage == [status |-> "NONE", price |-> 0, at |-> 0]
PriceRow == [status: {"NONE", "ERROR", "OUT_OF_STOCK", "OK"}, total: Totals \cup {0}]
NoPrice == [status |-> "NONE", total |-> 0]
EventRow == [item: Items, batch: Batches, kinds: SUBSET Kinds, price: Totals,
             occurred_at: 0 .. LastClock, settled: SUBSET Batches]

LinksOf(b, i) == {s \in batch[b].links : ItemOf[s] = i}
ItemsOf(b) == {ItemOf[s] : s \in batch[b].links}
OwnersOf(b) == {OwnerOf[i] : i \in ItemsOf(b)}
Routed(b) == batch[b].links \ Unroutable
Valid(b, i) == {s \in LinksOf(b, i) : price[b][s].status = "OK"}
Best(b, i) == Min({price[b][s].total : s \in Valid(b, i)})
AtWork == {b \in Batches : batch[b].at \notin {"new", "over"}}

EngineInit ==
    /\ clock = 0 /\ losses = 0 /\ alert = <<>> /\ flagged = {}
    /\ batch = [b \in Batches |-> NoBatch]
    /\ run = [b \in Batches |-> [o \in Owners |-> "NONE"]]
    /\ page = [b \in Batches |-> [o \in Offers |-> NoPage]]
    /\ price = [b \in Batches |-> [s \in Links |-> NoPrice]]
    /\ baseline = [i \in Items |-> 0]

----------------------------------------------------------------------------
(* The sources active at this time (whatever the panel made of them), the   *)
(* batch, and a run for each of their tenants.                              *)
OpenBatch(b, links) ==
    /\ batch[b].at = "new" /\ \A a \in 1 .. b - 1 : batch[a].at # "new"
    /\ Cardinality(AtWork) < Collectors
    /\ batch' = [batch EXCEPT ![b] = [NoBatch EXCEPT !.status = "RUNNING", !.at = "fetching",
                                                     !.links = links]]
    /\ run' = [run EXCEPT ![b] = [o \in Owners |->
           IF o \in {OwnerOf[ItemOf[s]] : s \in links} THEN "RUNNING" ELSE "NONE"]]
    /\ UNCHANGED <<clock, page, price, baseline, flagged, alert, losses>>

(* _collect_base_offer, one fetch for all sources of an offer: an error, a  *)
(* page out of stock, or a price, of which alone the time matters later.    *)
Unfetched(b) == {o \in {OfferOf[s] : s \in Routed(b)} : page[b][o].status = "NONE"}
FetchOffer(b, o) ==
    /\ batch[b].at = "fetching" /\ o \in Unfetched(b)
    /\ \E status \in {"ERROR", "OUT", "OK"}, p \in Prices \cup {0} :
         /\ status = "OK" <=> p # 0
         /\ page' = [page EXCEPT ![b][o] =
                [status |-> status, price |-> p, at |-> IF status = "OK" THEN clock ELSE 0]]
    /\ UNCHANGED <<clock, batch, run, price, baseline, flagged, alert, losses>>

(* _create_tenant_observation: the page must match the source's model,      *)
(* variant, seller and payment, the tenant needs a profile and a quote of   *)
(* the shipping. A source that is not routed has no page and is an error.   *)
Observation(b, s) ==
    {[status |-> "ERROR", total |-> 0]} \cup
    (IF s \in Unroutable THEN {} ELSE
     CASE page[b][OfferOf[s]].status = "OUT" -> {[status |-> "OUT_OF_STOCK", total |-> 0]}
       [] page[b][OfferOf[s]].status = "OK" ->
              {[status |-> "OK", total |-> page[b][OfferOf[s]].price + f] : f \in Freight}
       [] OTHER -> {})

(* Nothing reads the observations of a batch before its baselines.          *)
ObserveSources(b) ==
    /\ batch[b].at = "fetching" /\ Unfetched(b) = {}
    /\ \E seen \in [batch[b].links -> UNION {Observation(b, s) : s \in batch[b].links}] :
         /\ \A s \in batch[b].links : seen[s] \in Observation(b, s)
         /\ price' = [price EXCEPT ![b] = [s \in Links |->
                IF s \in batch[b].links THEN seen[s] ELSE NoPrice]]
    /\ batch' = [batch EXCEPT ![b].at = "baselines", ![b].left = ItemsOf(b)]
    /\ UNCHANGED <<clock, run, page, baseline, flagged, alert, losses>>

----------------------------------------------------------------------------
(* Wrong one: the product is not looked at again once it is locked.         *)
EstablishAnyway(b, i) ==
    /\ batch[b].at = "baselines" /\ i \in batch[b].left
    /\ batch' = [batch EXCEPT ![b].left = @ \ {i},
                              ![b].fresh = IF Valid(b, i) = {} THEN @ ELSE @ \cup {i}]
    /\ IF Valid(b, i) = {} THEN UNCHANGED <<baseline, flagged>>
       ELSE \E s \in Valid(b, i) :
              /\ price[b][s].total = Best(b, i)
              /\ baseline' = [baseline EXCEPT ![i] = Best(b, i)]
              /\ flagged' = flagged \cup {<<b, s>>}
    /\ UNCHANGED <<clock, run, page, price, alert, losses>>

(* _establish_baseline, a transaction that locks the product.               *)
Establish(b, i) ==
    /\ batch[b].at = "baselines" /\ i \in batch[b].left
    /\ IF Valid(b, i) = {} \/ baseline[i] # 0
       THEN /\ batch' = [batch EXCEPT ![b].left = @ \ {i}]
            /\ UNCHANGED <<baseline, flagged>>
       ELSE /\ batch' = [batch EXCEPT ![b].left = @ \ {i}, ![b].fresh = @ \cup {i}]
            /\ \E s \in Valid(b, i) :
                 /\ price[b][s].total = Best(b, i)
                 /\ baseline' = [baseline EXCEPT ![i] = Best(b, i)]
                 /\ flagged' = flagged \cup {<<b, s>>}
    /\ UNCHANGED <<clock, run, page, price, alert, losses>>

----------------------------------------------------------------------------
(* The alert rules. Settled: the successful runs with observations of the   *)
(* product, without this batch.                                             *)
SettledRuns(b, i) == {a \in Batches \ {b} : run[a][OwnerOf[i]] = "SUCCESS" /\ i \in ItemsOf(a)}

(* The previous run: the latest one. Wrong one: the order is turned round.  *)
FirstSettled(b, i) == IF SettledRuns(b, i) = {} THEN {} ELSE {Min(SettledRuns(b, i))}
Previous(b, i) == IF SettledRuns(b, i) = {} THEN {} ELSE {Max(SettledRuns(b, i))}

(* Prices to compare with, as sets of at most one.                          *)
PreviousBest(b, i) == {Best(a, i) : a \in {a \in Previous(b, i) : Valid(a, i) # {}}}
HistoricalLow(b, i) ==
    LET lows == {Best(a, i) : a \in {a \in SettledRuns(b, i) : Valid(a, i) # {}}}
    IN  IF lows = {} THEN {} ELSE {Min(lows)}
WasOutOfStock(b, i) ==
    \E a \in Previous(b, i) :
        /\ Valid(a, i) = {}
        /\ \E s \in LinksOf(a, i) : price[a][s].status = "OUT_OF_STOCK"

(* The variation in thousandths of a percent, halves rounded up.            *)
Percent(part, whole) == (200000 * part + whole) \div (2 * whole)
FallsBy(current, old) == IF current <= old THEN Percent(old - current, old) ELSE -1
RisesBy(current, old) == IF current >= old THEN Percent(current - old, old) ELSE -1
SignificantIncrease == 5000

Triggered(b, i) ==
    LET current == Best(b, i) IN
    {k \in Kinds :
        CASE k = "NEW_HISTORICAL_LOW" ->
               Rule.low /\ \E low \in HistoricalLow(b, i) : FallsBy(current, low) >= Rule.drop
          [] k = "TARGET_REACHED" ->
               /\ Rule.target /\ current <= Target
               /\ \A old \in PreviousBest(b, i) : old > Target
          [] k = "BACK_IN_STOCK" -> Rule.back /\ WasOutOfStock(b, i)
          [] k = "PRICE_DROP" ->
               \E old \in PreviousBest(b, i) : FallsBy(current, old) >= Rule.drop
          [] k = "PRICE_INCREASE" ->
               /\ Rule.increase
               /\ \E old \in PreviousBest(b, i) : RisesBy(current, old) >= SignificantIncrease}

CoolingDown(i) ==
    /\ Rule.cooldown # 0
    /\ \E n \in DOMAIN alert : /\ alert[n].item = i
                               /\ alert[n].occurred_at >= clock - Rule.cooldown

Alerted(b) ==
    {i \in ItemsOf(b) \ batch[b].fresh :
        Rule.enabled /\ Valid(b, i) # {} /\ Triggered(b, i) # {} /\ ~ CoolingDown(i)}

(* The event is dated by the observation, the best one of the product.      *)
NewEvent(b, i) ==
    LET best == {s \in Valid(b, i) : price[b][s].total = Best(b, i)}
    IN  [item |-> i, batch |-> b, kinds |-> Triggered(b, i), price |-> Best(b, i),
         occurred_at |-> Min({page[b][OfferOf[s]].at : s \in best}),
         settled |-> SettledRuns(b, i)]

(* evaluate_collection_alerts: all products in one transaction.             *)
EvaluateAlerts(b) ==
    /\ batch[b].at = "baselines" /\ batch[b].left = {}
    /\ \E order \in [1 .. Cardinality(Alerted(b)) -> Alerted(b)] :
         /\ \A i \in Alerted(b) : \E n \in DOMAIN order : order[n] = i
         /\ alert' = alert \o [n \in DOMAIN order |-> NewEvent(b, order[n])]
    /\ batch' = [batch EXCEPT ![b].at = "closing"]
    /\ UNCHANGED <<clock, run, page, price, baseline, flagged, losses>>

----------------------------------------------------------------------------
(* The runs are saved as SUCCESS one by one, then the batch.                *)
Unclosed(b) == {o \in OwnersOf(b) : run[b][o] = "RUNNING"}

(* Wrong one: before the baselines of all products.                         *)
CloseRunEarly(b, o) ==
    /\ batch[b].at \in {"baselines", "closing"} /\ o \in Unclosed(b)
    /\ run' = [run EXCEPT ![b][o] = "SUCCESS"]
    /\ UNCHANGED <<clock, batch, page, price, baseline, flagged, alert, losses>>

CloseRun(b, o) ==
    /\ batch[b].at = "closing" /\ o \in Unclosed(b)
    /\ run' = [run EXCEPT ![b][o] = "SUCCESS"]
    /\ UNCHANGED <<clock, batch, page, price, baseline, flagged, alert, losses>>

CloseBatch(b) ==
    /\ batch[b].at = "closing" /\ Unclosed(b) = {}
    /\ batch' = [batch EXCEPT ![b].at = "over", ![b].status =
           IF \E s \in batch[b].links : price[b][s].status = "ERROR" THEN "PARTIAL" ELSE "SUCCESS"]
    /\ UNCHANGED <<clock, run, page, price, baseline, flagged, alert, losses>>

(* An exception: the batch is marked FAILED, then its runs that still run.  *)
FailBatch(b) ==
    /\ b \in AtWork /\ batch[b].at # "failing" /\ losses < MaxLosses
    /\ batch' = [batch EXCEPT ![b].at = "failing", ![b].status = "FAILED"]
    /\ losses' = losses + 1
    /\ UNCHANGED <<clock, run, page, price, baseline, flagged, alert>>

(* Wrong one: every run of the batch.                                       *)
FailAllRuns(b) ==
    /\ batch[b].at = "failing"
    /\ batch' = [batch EXCEPT ![b].at = "over"]
    /\ run' = [run EXCEPT ![b] = [o \in Owners |->
           IF run[b][o] # "NONE" THEN "FAILED" ELSE "NONE"]]
    /\ UNCHANGED <<clock, page, price, baseline, flagged, alert, losses>>

FailRuns(b) ==
    /\ batch[b].at = "failing"
    /\ batch' = [batch EXCEPT ![b].at = "over"]
    /\ run' = [run EXCEPT ![b] = [o \in Owners |->
           IF run[b][o] = "RUNNING" THEN "FAILED" ELSE run[b][o]]]
    /\ UNCHANGED <<clock, page, price, baseline, flagged, alert, losses>>

(* The process dies, and everything stays as it is.                         *)
DieCollecting(b) ==
    /\ b \in AtWork /\ losses < MaxLosses
    /\ batch' = [batch EXCEPT ![b].at = "over"]
    /\ losses' = losses + 1
    /\ UNCHANGED <<clock, run, page, price, baseline, flagged, alert>>

AdvanceClock ==
    /\ clock < LastClock
    /\ clock' = clock + 1
    /\ UNCHANGED <<batch, run, page, price, baseline, flagged, alert, losses>>

BatchStep(b) ==
    \/ \E links \in SUBSET Links : OpenBatch(b, links)
    \/ \E o \in Offers : FetchOffer(b, o)
    \/ \E i \in Items : Establish(b, i)
    \/ \E o \in Owners : CloseRun(b, o)
    \/ ObserveSources(b) \/ EvaluateAlerts(b) \/ CloseBatch(b)
    \/ FailBatch(b) \/ FailRuns(b) \/ DieCollecting(b)

EngineNext == AdvanceClock \/ \E b \in Batches : BatchStep(b)

EngineSpec == EngineInit /\ [][EngineNext]_engineVars

----------------------------------------------------------------------------
(* Every variable holds a value of its type.                                *)
EngineTypeOK ==
    /\ clock \in 0 .. LastClock /\ losses \in 0 .. MaxLosses
    /\ batch \in [Batches -> BatchRow]
    /\ run \in [Batches -> [Owners -> RunStatus]]
    /\ page \in [Batches -> [Offers -> PageRow]]
    /\ price \in [Batches -> [Links -> PriceRow]]
    /\ baseline \in [Items -> Totals \cup {0}]
    /\ flagged \subseteq Batches \X Links
    /\ alert \in Seq(EventRow)

(* A product has one baseline for good: at most one of its observations is  *)
(* flagged, and the product keeps its total, although two collections can   *)
(* bring the first valid observations at the same time.                     *)
OneBaseline ==
    \A i \in Items :
        LET mine == {x \in flagged : ItemOf[x[2]] = i} IN
        /\ Cardinality(mine) <= 1
        /\ baseline[i] # 0 <=> mine # {}
        /\ \A x \in mine : price[x[1]][x[2]].total = baseline[i]

(* A run counts as history once it is SUCCESS: then all its observations    *)
(* are there, and the products with a valid one have their baseline.        *)
SuccessIsComplete ==
    \A b \in Batches, i \in Items :
        run[b][OwnerOf[i]] = "SUCCESS" /\ i \in ItemsOf(b) =>
            /\ \A s \in LinksOf(b, i) : price[b][s].status # "NONE"
            /\ Valid(b, i) # {} => baseline[i] # 0

(* A failure or a second collection does not change a run or a batch that   *)
(* has ended: successful runs of a failed batch stay in the history.        *)
EndedStaysEnded ==
    [][\A b \in Batches :
          /\ batch[b].status \in {"SUCCESS", "PARTIAL", "FAILED"} =>
                batch'[b].status = batch[b].status
          /\ \A o \in Owners : run[b][o] \in {"SUCCESS", "FAILED"} =>
                run'[b][o] = run[b][o]]_engineVars

(* A price drop is told once: a second alert at the same or a higher price  *)
(* than an earlier one says PRICE_DROP only if a successful run in between  *)
(* saw a higher price, or the run of the earlier alert did not succeed by   *)
(* then, because its batch failed after its alerts were committed.          *)
DropIsNews ==
    \A m \in DOMAIN alert, n \in DOMAIN alert :
        LET old == alert[m]
            new == alert[n] IN
        /\ m < n /\ old.item = new.item /\ old.price <= new.price
        /\ "PRICE_DROP" \in new.kinds /\ old.batch \in new.settled
        => \E b \in new.settled : b > old.batch /\ Best(b, new.item) > new.price

(* The target is reached when the price passes from above it: between two   *)
(* alerts that say so, the first of a run that succeeded, a successful run  *)
(* saw a price above the target.                                            *)
TargetIsCrossed ==
    \A m \in DOMAIN alert, n \in DOMAIN alert :
        LET old == alert[m]
            new == alert[n] IN
        /\ m < n /\ old.item = new.item
        /\ "TARGET_REACHED" \in old.kinds \cap new.kinds /\ old.batch \in new.settled
        => \E b \in new.settled : /\ b > old.batch /\ Valid(b, new.item) # {}
                                  /\ Best(b, new.item) > Target
=============================================================================
