------------------------------ MODULE LocalRadar ------------------------------
(* The single-user radar of src/app: a scheduled or manual process takes a  *)
(* lock, collects the offers of its spreadsheet, compares them with the     *)
(* successful runs before, sends alerts and retries those that failed.      *)
(* Only runs with shipping and notifications are modelled: simulations and  *)
(* runs without shipping keep a history of their own (mode) and are silent. *)
EXTENDS Integers, Sequences, FiniteSets, FiniteSetsExt

CONSTANTS
    Radars,        \* processes
    LastRun,       \* bound: runs
    MaxTrouble,    \* bound: failed messages, exceptions and deaths
    Wares,         \* products of the spreadsheet
    Stalls,        \* links of the spreadsheet
    WareOf,        \* [Stalls -> Wares]
    Quotes,        \* totals a link may show, in cents
    Goal,          \* target_price
    AlertIncrease  \* TELEGRAM_ALERT_PRICE_INCREASE

ASSUME RadarAssumption ==
    /\ LastRun \in Nat /\ MaxTrouble \in Nat /\ Goal \in Nat
    /\ Quotes \subseteq Nat \ {0} /\ WareOf \in [Stalls -> Wares]
    /\ AlertIncrease \in BOOLEAN

VARIABLES
    radar,         \* local state of the processes; the lock is held unless "off"
    ran,           \* rows of runs, with their observations
    attempt,       \* rows of notification_attempts
    trouble

radarVars == <<radar, ran, attempt, trouble>>

RadarKinds == {"NEW_HISTORICAL_LOW", "TARGET_REACHED", "BACK_IN_STOCK", "PRICE_DROP",
               "PRICE_INCREASE"}
Offer == [status: {"ERROR", "OUT_OF_STOCK"}, total: {0}] \cup [status: {"OK"}, total: Quotes]
Run == [status: {"RUNNING", "SUCCESS", "FAILED"}, offers: [Stalls -> Offer] \cup {<<>>}]
Attempt == [run: 1 .. LastRun, ware: Wares, price: Quotes, kinds: SUBSET RadarKinds,
            fresh: BOOLEAN, status: {"SENT", "FAILED"}]
Off == [at |-> "off"]
RadarState == {Off}
    \cup [at: {"collecting"}, run: 1 .. LastRun]
    \cup [at: {"notifying"}, run: 1 .. LastRun, left: SUBSET Wares]
    \cup [at: {"recording"}, run: 1 .. LastRun, left: SUBSET Wares, row: Attempt]

RadarInit ==
    /\ radar = [r \in Radars |-> Off]
    /\ ran = <<>> /\ attempt = <<>> /\ trouble = 0

----------------------------------------------------------------------------
(* What the database tells of run n and the successful ones before it.      *)
TotalsOf(n, w) == {ran[n].offers[s].total : s \in {s \in Stalls :
                     WareOf[s] = w /\ ran[n].offers[s].status = "OK"}}
Priced(n, w) == TotalsOf(n, w) # {}
BestTotal(n, w) == Min(TotalsOf(n, w))
AllOut(n, w) ==
    LET mine == {s \in Stalls : WareOf[s] = w}
    IN  mine # {} /\ \A s \in mine : ran[n].offers[s].status = "OUT_OF_STOCK"
Before(n) == {m \in 1 .. n - 1 : ran[m].status = "SUCCESS"}

(* Wrong one: the run before, with a price or not.                          *)
PreviousRunTotal(n, w) ==
    {BestTotal(m, w) : m \in {m \in Before(n) : Priced(m, w) /\ \A k \in Before(n) : k <= m}}

(* previous_best_total: of the latest run with a price.                     *)
PreviousTotal(n, w) ==
    {BestTotal(m, w) : m \in {m \in Before(n) :
        Priced(m, w) /\ \A k \in Before(n) : Priced(k, w) => k <= m}}

(* historical_low.                                                          *)
LowestTotal(n, w) ==
    LET all == {BestTotal(m, w) : m \in {m \in Before(n) : Priced(m, w)}}
    IN  IF all = {} THEN {} ELSE {Min(all)}

(* previous_product_stock_state: back to the latest run that is definite.   *)
InStockBefore(n, w) ==
    {Priced(m, w) : m \in {m \in Before(n) :
        /\ Priced(m, w) \/ AllOut(m, w)
        /\ \A k \in Before(n) : Priced(k, w) \/ AllOut(k, w) => k <= m}}

(* evaluate_alert.                                                          *)
Decision(n, w) ==
    LET current == BestTotal(n, w)
        previous == PreviousTotal(n, w)
        low == LowestTotal(n, w)
        stock == InStockBefore(n, w) IN
    IF previous = {} /\ low = {} /\ stock = {} THEN {}
    ELSE {k \in RadarKinds :
        CASE k = "NEW_HISTORICAL_LOW" -> \E l \in low : current < l
          [] k = "TARGET_REACHED" -> current <= Goal /\ \A p \in previous : p > Goal
          [] k = "BACK_IN_STOCK" -> FALSE \in stock
          [] k = "PRICE_DROP" -> \E p \in previous : 100 * (p - current) >= p
          [] k = "PRICE_INCREASE" ->
                 AlertIncrease /\ \E p \in previous : 100 * (current - p) >= 5 * p}

Told(w, price) == {i \in DOMAIN attempt : /\ attempt[i].ware = w /\ attempt[i].price = price
                                          /\ attempt[i].status = "SENT"}

(* pending_failed_notification: the latest failure at this price, as long   *)
(* as nothing was sent at it. Wrong one: only those of the run before.      *)
FailedLastTime(n, w) ==
    {i \in DOMAIN attempt : /\ attempt[i].ware = w /\ attempt[i].price = BestTotal(n, w)
                            /\ attempt[i].status = "FAILED" /\ attempt[i].run = n - 1
                            /\ Told(w, BestTotal(n, w)) = {}}

PendingFailed(n, w) ==
    {i \in DOMAIN attempt : /\ attempt[i].ware = w /\ attempt[i].price = BestTotal(n, w)
                            /\ attempt[i].status = "FAILED"
                            /\ Told(w, BestTotal(n, w)) = {}}

(* What to send for a product: at most one row, without its outcome.        *)
ToSend(n, w) ==
    LET row(kinds, fresh) == [run |-> n, ware |-> w, price |-> BestTotal(n, w),
                              kinds |-> kinds, fresh |-> fresh, status |-> "SENT"] IN
    IF ~ Priced(n, w) THEN {}
    ELSE IF Decision(n, w) # {}
    THEN IF \E i \in Told(w, BestTotal(n, w)) : attempt[i].kinds = Decision(n, w)
         THEN {} ELSE {row(Decision(n, w), TRUE)}
    ELSE IF PendingFailed(n, w) = {} THEN {}
    ELSE {row(attempt[Max(PendingFailed(n, w))].kinds, FALSE)}

----------------------------------------------------------------------------
(* main: SingleInstanceLock, refused while another process holds it, and    *)
(* start_run.                                                               *)
StartRadar(r) ==
    /\ \A q \in Radars : radar[q].at = "off"
    /\ Len(ran) < LastRun
    /\ ran' = Append(ran, [status |-> "RUNNING", offers |-> <<>>])
    /\ radar' = [radar EXCEPT ![r] = [at |-> "collecting", run |-> Len(ran) + 1]]
    /\ UNCHANGED <<attempt, trouble>>

(* collect_real_observations, one observation per link: an error unless the *)
(* page, the model, the variant, the seller, the payment and the shipping   *)
(* are right; save_observations stores all of them in one transaction.      *)
CollectLinks(r) ==
    /\ radar[r].at = "collecting"
    /\ \E offers \in [Stalls -> Offer] : ran' = [ran EXCEPT ![radar[r].run].offers = offers]
    /\ radar' = [radar EXCEPT ![r] =
           [at |-> "notifying", run |-> radar[r].run, left |-> Wares]]
    /\ UNCHANGED <<attempt, trouble>>

(* _notify_relevant_changes, for one product: nothing to say ...            *)
SkipWare(r, w) ==
    /\ radar[r].at = "notifying" /\ w \in radar[r].left
    /\ ToSend(radar[r].run, w) = {}
    /\ radar' = [radar EXCEPT ![r].left = @ \ {w}]
    /\ UNCHANGED <<ran, attempt, trouble>>

(* ... or a message, accepted or not (an answer that is lost counts as not  *)
(* accepted), and the row that records it.                                  *)
SendWare(r, w) ==
    /\ radar[r].at = "notifying" /\ w \in radar[r].left
    /\ \E row \in ToSend(radar[r].run, w), status \in {"SENT", "FAILED"} :
         /\ status = "FAILED" => trouble < MaxTrouble
         /\ trouble' = IF status = "FAILED" THEN trouble + 1 ELSE trouble
         /\ radar' = [radar EXCEPT ![r] =
                [at |-> "recording", run |-> @.run, left |-> @.left \ {w},
                 row |-> [row EXCEPT !.status = status]]]
    /\ UNCHANGED <<ran, attempt>>

RecordAttempt(r) ==
    /\ radar[r].at = "recording"
    /\ attempt' = Append(attempt, radar[r].row)
    /\ radar' = [radar EXCEPT ![r] =
           [at |-> "notifying", run |-> @.run, left |-> @.left]]
    /\ UNCHANGED <<ran, trouble>>

FinishRun(r) ==
    /\ radar[r].at = "notifying" /\ radar[r].left = {}
    /\ ran' = [ran EXCEPT ![radar[r].run].status = "SUCCESS"]
    /\ radar' = [radar EXCEPT ![r] = Off]
    /\ UNCHANGED <<attempt, trouble>>

(* An exception fails the run (its observations stay); a death leaves it    *)
(* RUNNING for ever, and the system gives the lock back.                    *)
FailRun(r) ==
    /\ radar[r].at # "off" /\ trouble < MaxTrouble
    /\ ran' = [ran EXCEPT ![radar[r].run].status = "FAILED"]
    /\ radar' = [radar EXCEPT ![r] = Off]
    /\ trouble' = trouble + 1
    /\ UNCHANGED attempt

KillRadar(r) ==
    /\ radar[r].at # "off" /\ trouble < MaxTrouble
    /\ radar' = [radar EXCEPT ![r] = Off]
    /\ trouble' = trouble + 1
    /\ UNCHANGED <<ran, attempt>>

RadarNext ==
    \E r \in Radars :
        \/ StartRadar(r) \/ CollectLinks(r) \/ RecordAttempt(r) \/ FinishRun(r)
        \/ FailRun(r) \/ KillRadar(r)
        \/ \E w \in Wares : SkipWare(r, w) \/ SendWare(r, w)

RadarSpec == RadarInit /\ [][RadarNext]_radarVars

----------------------------------------------------------------------------
(* Every variable holds a value of its type.                                *)
RadarTypeOK ==
    /\ radar \in [Radars -> RadarState]
    /\ ran \in Seq(Run)
    /\ attempt \in Seq(Attempt)
    /\ trouble \in 0 .. MaxTrouble

(* A message that failed is tried again: a run that succeeds and sees the   *)
(* price of an earlier failure makes an attempt, unless something was sent  *)
(* at this price before.                                                    *)
FailureIsRetried ==
    \A n \in DOMAIN ran, i \in DOMAIN attempt :
        LET a == attempt[i] IN
        /\ ran[n].status = "SUCCESS" /\ a.run < n /\ a.status = "FAILED"
        /\ Priced(n, a.ware) /\ BestTotal(n, a.ware) = a.price
        => \E j \in DOMAIN attempt :
              /\ attempt[j].ware = a.ware /\ attempt[j].price = a.price
              /\ attempt[j].run = n \/ (attempt[j].run < n /\ attempt[j].status = "SENT")

(* The target is reached when the price passes from above it, whatever      *)
(* failed in between: two alerts that say so have a successful run with a   *)
(* price above the target between them.                                     *)
GoalIsCrossed ==
    \A i \in DOMAIN attempt, j \in DOMAIN attempt :
        LET a == attempt[i]
            b == attempt[j] IN
        /\ a.ware = b.ware /\ a.run < b.run /\ b.fresh
        /\ "TARGET_REACHED" \in a.kinds \cap b.kinds /\ ran[a.run].status = "SUCCESS"
        => \E n \in a.run + 1 .. b.run - 1 :
              /\ ran[n].status = "SUCCESS" /\ Priced(n, a.ware) /\ BestTotal(n, a.ware) > Goal
=============================================================================
