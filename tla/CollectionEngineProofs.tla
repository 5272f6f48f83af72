----------------------- MODULE CollectionEngineProofs -----------------------
(* Proofs about shared collections, for any number of batches, collectors,  *)
(* tenants, products and sources, any prices and any losses.                *)
EXTENDS CollectionEngine, FiniteSetTheorems, SequenceTheorems, WellFoundedInduction, TLAPS

(* The types of the rows but the alert events, whose fields are minima.     *)
RowsTyped ==
    /\ clock \in 0 .. LastClock
    /\ batch \in [Batches -> BatchRow]
    /\ run \in [Batches -> [Owners -> RunStatus]]
    /\ page \in [Batches -> [Offers -> PageRow]]
    /\ price \in [Batches -> [Links -> PriceRow]]
    /\ baseline \in [Items -> Totals \cup {0}]
    /\ flagged \subseteq Batches \X Links

(* A page and an observation that are OK have a price.                      *)
Priced ==
    /\ \A b \in Batches, o \in Offers : page[b][o].status = "OK" => page[b][o].price \in Prices
    /\ \A b \in Batches, s \in Links : price[b][s].status = "OK" => price[b][s].total \in Totals

(* What the stage of a batch says of its row and of its runs.               *)
Staged ==
    \A b \in Batches :
        /\ batch[b].at = "new" => batch[b].status = "NONE"
        /\ batch[b].at \in {"fetching", "baselines", "closing"} => batch[b].status = "RUNNING"
        /\ batch[b].at = "closing" => batch[b].left = {}
        /\ \A o \in Owners :
             /\ batch[b].at = "new" => run[b][o] = "NONE"
             /\ batch[b].at \in {"fetching", "baselines"} => run[b][o] # "SUCCESS"

(* Observations are there before baselines, and are not rewritten later.    *)
Observed ==
    \A b \in Batches : batch[b].at \in {"baselines", "closing"} =>
        \A s \in batch[b].links : price[b][s].status # "NONE"

(* A product that is not left has its baseline.                             *)
Established ==
    \A b \in Batches : batch[b].at \in {"baselines", "closing"} =>
        \A i \in ItemsOf(b) \ batch[b].left : Valid(b, i) # {} => baseline[i] # 0

(* OneBaseline without the counting.                                        *)
Flagged(i) == {x \in flagged : ItemOf[x[2]] = i}
Unique ==
    /\ \A x \in flagged : batch[x[1]].at \notin {"new", "fetching"}
    /\ \A x, y \in flagged : ItemOf[x[2]] = ItemOf[y[2]] => x = y
    /\ \A i \in Items : baseline[i] # 0 => \E x \in flagged : ItemOf[x[2]] = i
    /\ \A x \in flagged : /\ baseline[ItemOf[x[2]]] # 0
                          /\ price[x[1]][x[2]].total = baseline[ItemOf[x[2]]]

EngineInv ==
    RowsTyped /\ Priced /\ Staged /\ Observed /\ Established /\ Unique /\ SuccessIsComplete

(* Every total is a number of cents above zero.                             *)
LEMMA TotalsPositive == Totals \subseteq Nat \ {0}
BY EngineAssumption DEF Totals

(* A source of a batch belongs to an item of the batch.                     *)
LEMMA ItemsTyped ==
  ASSUME RowsTyped, NEW b \in Batches
  PROVE  /\ batch[b].links \subseteq Links /\ ItemsOf(b) \subseteq Items
         /\ \A i : LinksOf(b, i) \subseteq Links /\ Valid(b, i) \subseteq LinksOf(b, i)
BY EngineAssumption DEF RowsTyped, BatchRow, ItemsOf, LinksOf, Valid

(* A batch is opened: it was new, its runs start, nothing refers to it.     *)
LEMMA OpenKeeps ==
  ASSUME EngineInv, NEW b \in Batches, NEW links \in SUBSET Links, OpenBatch(b, links)
  PROVE  EngineInv'
<1> DEFINE row == [NoBatch EXCEPT !.status = "RUNNING", !.at = "fetching", !.links = links]
<1>1. /\ row \in BatchRow /\ row.at = "fetching" /\ row.status = "RUNNING"
      /\ row.links = links
  BY DEF NoBatch, BatchRow, BatchStatus, Stage
<1>2. batch' = [batch EXCEPT ![b] = row] /\ batch[b].at = "new"
  BY DEF OpenBatch
<1> HIDE DEF row
<1>3. RowsTyped'
  <2>1. run' \in [Batches -> [Owners -> RunStatus]]
    BY DEF EngineInv, RowsTyped, OpenBatch, RunStatus
  <2>. QED BY <1>1, <1>2, <2>1 DEF EngineInv, RowsTyped, OpenBatch
<1>4. Priced'
  BY DEF EngineInv, Priced, OpenBatch
<1>5. /\ \A a \in Batches : a # b => batch'[a] = batch[a] /\ run'[a] = run[a]
      /\ batch'[b] = row /\ \A o \in Owners : run'[b][o] \in {"RUNNING", "NONE"}
  BY <1>2 DEF EngineInv, RowsTyped, OpenBatch
<1>6. Staged'
  BY <1>1, <1>5 DEF EngineInv, Staged
<1>7. UNCHANGED <<price, baseline, flagged>>
  BY DEF OpenBatch
<1>8. Observed'
  BY <1>1, <1>5, <1>7 DEF EngineInv, Observed
<1>9. Established'
  BY <1>1, <1>5, <1>7 DEF EngineInv, Established, ItemsOf, Valid, LinksOf
<1>10. Unique'
  <2>1. \A x \in flagged : x[1] \in Batches
    BY DEF EngineInv, RowsTyped
  <2>. QED BY <1>1, <1>2, <1>5, <1>7, <2>1 DEF EngineInv, Unique
<1>11. SuccessIsComplete'
  <2> SUFFICES ASSUME NEW a \in Batches, NEW i \in Items, run'[a][OwnerOf[i]] = "SUCCESS",
                      i \in ItemsOf(a)'
               PROVE  /\ \A s \in LinksOf(a, i)' : price'[a][s].status # "NONE"
                      /\ Valid(a, i)' # {} => baseline'[i] # 0
    BY DEF SuccessIsComplete
  <2>1. OwnerOf[i] \in Owners
    BY EngineAssumption
  <2>2. a # b
    BY <1>5, <2>1
  <2>. QED BY <1>5, <1>7, <2>2 DEF EngineInv, SuccessIsComplete, ItemsOf, Valid, LinksOf
<1>. QED BY <1>3, <1>4, <1>6, <1>8, <1>9, <1>10, <1>11 DEF EngineInv

(* A page is fetched: only the pages change.                                *)
LEMMA FetchKeeps ==
  ASSUME EngineInv, NEW b \in Batches, NEW o \in Offers, FetchOffer(b, o)
  PROVE  EngineInv'
<1>1. PICK status \in {"ERROR", "OUT", "OK"}, p \in Prices \cup {0} :
        /\ status = "OK" <=> p # 0
        /\ page' = [page EXCEPT ![b][o] =
               [status |-> status, price |-> p, at |-> IF status = "OK" THEN clock ELSE 0]]
  BY DEF FetchOffer
<1>2. [status |-> status, price |-> p, at |-> IF status = "OK" THEN clock ELSE 0] \in PageRow
  BY EngineAssumption DEF PageRow, EngineInv, RowsTyped
<1>3. UNCHANGED <<clock, batch, run, price, baseline, flagged>>
  BY DEF FetchOffer
<1>4. RowsTyped'
  BY <1>1, <1>2, <1>3 DEF EngineInv, RowsTyped
<1>5. Priced'
  BY <1>1, <1>3 DEF EngineInv, RowsTyped, Priced
<1>. QED BY <1>3, <1>4, <1>5 DEF EngineInv, Staged, Observed, Established, Unique,
         SuccessIsComplete, ItemsOf, Valid, LinksOf

(* The observations of a batch are stored: nothing is flagged in it yet.    *)
LEMMA ObserveKeeps ==
  ASSUME EngineInv, NEW b \in Batches, ObserveSources(b)
  PROVE  EngineInv'
<1>0. PICK seen \in [batch[b].links -> UNION {Observation(b, s) : s \in batch[b].links}] :
        /\ \A s \in batch[b].links : seen[s] \in Observation(b, s)
        /\ price' = [price EXCEPT ![b] = [s \in Links |->
               IF s \in batch[b].links THEN seen[s] ELSE NoPrice]]
  BY DEF ObserveSources
<1>1. \A s \in batch[b].links : /\ seen[s] \in PriceRow /\ seen[s].status # "NONE"
                                /\ seen[s].status = "OK" => seen[s].total \in Totals
  <2> SUFFICES ASSUME NEW s \in batch[b].links, NEW x \in Observation(b, s)
               PROVE  /\ x \in PriceRow /\ x.status # "NONE"
                      /\ x.status = "OK" => x.total \in Totals
    BY <1>0
  <2>1. OfferOf[s] \in Offers
    BY ItemsTyped DEF EngineInv, Offers
  <2>2. CASE x.status # "OK"
    BY <2>2 DEF Observation, PriceRow
  <2>3. CASE x.status = "OK"
    <3>1. page[b][OfferOf[s]].status = "OK"
      BY <2>3 DEF Observation
    <3>2. \E f \in Freight : x = [status |-> "OK", total |-> page[b][OfferOf[s]].price + f]
      BY <2>3, <3>1 DEF Observation
    <3>3. page[b][OfferOf[s]].price \in Prices
      BY <2>1, <3>1 DEF EngineInv, Priced
    <3>. QED BY <3>2, <3>3 DEF PriceRow, Totals
  <2>. QED BY <2>2, <2>3
<1>2. /\ batch' = [batch EXCEPT ![b].at = "baselines", ![b].left = ItemsOf(b)]
      /\ batch[b].at = "fetching" /\ UNCHANGED <<clock, run, page, baseline, flagged>>
  BY DEF ObserveSources
<1>3. /\ \A a \in Batches : a # b => batch'[a] = batch[a] /\ price'[a] = price[a]
      /\ batch'[b].at = "baselines" /\ batch'[b].left = ItemsOf(b)
      /\ batch'[b].links = batch[b].links /\ batch'[b].status = batch[b].status
  BY <1>0, <1>2 DEF EngineInv, RowsTyped, BatchRow
<1>4. RowsTyped'
  <2>1. price' \in [Batches -> [Links -> PriceRow]]
    <3>1. NoPrice \in PriceRow
      BY DEF NoPrice, PriceRow
    <3>. QED BY <1>0, <1>1, <3>1 DEF EngineInv, RowsTyped
  <2>2. [batch[b] EXCEPT !.at = "baselines", !.left = ItemsOf(b)] \in BatchRow
    <3>1. batch[b] \in BatchRow /\ ItemsOf(b) \in SUBSET Items
      BY ItemsTyped DEF EngineInv, RowsTyped
    <3>. QED BY <3>1 DEF BatchRow, Stage
  <2>. QED BY <1>2, <2>1, <2>2 DEF EngineInv, RowsTyped
<1>5. Priced'
  BY <1>0, <1>1, <1>2, <1>3 DEF EngineInv, RowsTyped, Priced, NoPrice
<1>6. Staged'
  <2>1. \A o \in Owners : run'[b][o] # "SUCCESS"
    BY <1>2 DEF EngineInv, Staged
  <2>2. batch'[b].status = "RUNNING"
    BY <1>2, <1>3 DEF EngineInv, Staged
  <2>3. UNCHANGED run
    BY <1>2
  <2>. QED BY <1>3, <2>1, <2>2, <2>3 DEF EngineInv, Staged
<1>7. Observed'
  BY <1>0, <1>1, <1>3, ItemsTyped DEF EngineInv, RowsTyped, Observed
<1>8. ItemsOf(b)' = ItemsOf(b)
  BY <1>3 DEF ItemsOf
<1>9. \A a \in Batches : a # b =>
        /\ ItemsOf(a)' = ItemsOf(a)
        /\ \A i : LinksOf(a, i)' = LinksOf(a, i) /\ Valid(a, i)' = Valid(a, i)
  BY <1>3 DEF ItemsOf, LinksOf, Valid
<1>10. Established'
  BY <1>2, <1>3, <1>8, <1>9 DEF EngineInv, Established
<1>11. Unique'
  <2>1. \A x \in flagged : x[1] \in Batches /\ x[1] # b
    BY <1>2 DEF EngineInv, RowsTyped, Unique
  <2>. QED BY <1>2, <1>3, <2>1 DEF EngineInv, Unique
<1>12. SuccessIsComplete'
  <2> SUFFICES ASSUME NEW a \in Batches, NEW i \in Items, run[a][OwnerOf[i]] = "SUCCESS",
                      i \in ItemsOf(a)'
               PROVE  /\ \A s \in LinksOf(a, i)' : price'[a][s].status # "NONE"
                      /\ Valid(a, i)' # {} => baseline'[i] # 0
    BY <1>2 DEF SuccessIsComplete
  <2>1. OwnerOf[i] \in Owners
    BY EngineAssumption
  <2>2. a # b
    BY <1>2, <2>1 DEF EngineInv, Staged
  <2>3. /\ \A s \in LinksOf(a, i) : price[a][s].status # "NONE"
        /\ Valid(a, i) # {} => baseline[i] # 0
    BY <1>9, <2>2 DEF EngineInv, SuccessIsComplete
  <2>. QED BY <1>2, <1>3, <1>9, <2>2, <2>3
<1>. QED BY <1>4, <1>5, <1>6, <1>7, <1>11, <1>12, <1>10 DEF EngineInv

(* Nothing but the row of a batch changes, and its stage moves on.          *)
LEMMA RowKeeps ==
  ASSUME EngineInv, NEW b \in Batches, NEW row \in BatchRow,
         batch' = [batch EXCEPT ![b] = row], row.links = batch[b].links,
         UNCHANGED <<clock, page, price, flagged, baseline, run>>,
         row.at \notin {"new", "fetching"}, batch[b].at # "new",
         row.at \in {"baselines", "closing"} =>
             /\ batch[b].at = "baselines" /\ row.status = "RUNNING"
             /\ \A i \in batch[b].left \ row.left : Valid(b, i) # {} => baseline[i] # 0,
         row.at = "closing" => row.left = {}
  PROVE  EngineInv'
<1>1. \A a \in Batches : a # b => batch'[a] = batch[a]
  BY DEF EngineInv, RowsTyped
<1>2. batch'[b] = row
  BY DEF EngineInv, RowsTyped
<1>3. \A a \in Batches : batch'[a].links = batch[a].links
  BY <1>1, <1>2
<1>4. RowsTyped' /\ Priced'
  BY DEF EngineInv, RowsTyped, Priced
<1>5. Staged'
  BY <1>1, <1>2 DEF EngineInv, Staged
<1>6. \A a \in Batches : /\ ItemsOf(a)' = ItemsOf(a)
                         /\ \A i : LinksOf(a, i)' = LinksOf(a, i) /\ Valid(a, i)' = Valid(a, i)
  BY <1>3 DEF ItemsOf, LinksOf, Valid
<1>7. Observed'
  BY <1>1, <1>2, <1>3 DEF EngineInv, Observed
<1>8. Established'
  BY <1>1, <1>2, <1>6 DEF EngineInv, Established
<1>9. Unique'
  <2>1. \A x \in flagged : x[1] \in Batches
    BY DEF EngineInv, RowsTyped
  <2>. QED BY <1>1, <1>2, <2>1 DEF EngineInv, Unique
<1>10. SuccessIsComplete'
  BY <1>6 DEF EngineInv, SuccessIsComplete
<1>. QED BY <1>4, <1>5, <1>7, <1>8, <1>9, <1>10 DEF EngineInv

(* A product gets its baseline, or keeps the one it has.                    *)
LEMMA EstablishKeeps ==
  ASSUME EngineInv, NEW b \in Batches, NEW i \in Items, Establish(b, i)
  PROVE  EngineInv'
<1>1. CASE Valid(b, i) = {} \/ baseline[i] # 0
  <2> DEFINE row == [batch[b] EXCEPT !.left = @ \ {i}]
  <2>1. /\ row \in BatchRow /\ row.links = batch[b].links /\ row.at = batch[b].at
        /\ row.status = batch[b].status /\ row.left = batch[b].left \ {i}
    BY DEF EngineInv, RowsTyped, BatchRow
  <2>2. /\ batch' = [batch EXCEPT ![b] = row] /\ batch[b].at = "baselines"
        /\ UNCHANGED <<clock, page, price, flagged, baseline, run>>
    BY <1>1 DEF Establish
  <2>3. batch[b].status = "RUNNING"
    BY <2>2 DEF EngineInv, Staged
  <2> HIDE DEF row
  <2>. QED BY <1>1, <2>1, <2>2, <2>3, RowKeeps
<1>2. CASE ~ (Valid(b, i) = {} \/ baseline[i] # 0)
  <2> DEFINE row == [batch[b] EXCEPT !.left = @ \ {i}, !.fresh = @ \cup {i}]
  <2>1. /\ row \in BatchRow /\ row.links = batch[b].links /\ row.at = batch[b].at
        /\ row.status = batch[b].status /\ row.left = batch[b].left \ {i}
    BY DEF EngineInv, RowsTyped, BatchRow
  <2>2. /\ batch' = [batch EXCEPT ![b] = row] /\ batch[b].at = "baselines"
        /\ UNCHANGED <<clock, page, price, run>>
    BY <1>2 DEF Establish
  <2>3. PICK s \in Valid(b, i) :
          /\ price[b][s].total = Best(b, i)
          /\ baseline' = [baseline EXCEPT ![i] = Best(b, i)]
          /\ flagged' = flagged \cup {<<b, s>>}
    BY <1>2 DEF Establish
  <2>4. s \in Links /\ ItemOf[s] = i /\ Best(b, i) \in Totals /\ Best(b, i) # 0
    BY <2>3, TotalsPositive, ItemsTyped DEF EngineInv, Priced, Valid, LinksOf
  <2> HIDE DEF row
  <2>5. /\ batch'[b] = row /\ \A a \in Batches : a # b => batch'[a] = batch[a]
        /\ \A a \in Batches : /\ batch'[a].links = batch[a].links /\ batch'[a].at = batch[a].at
                              /\ batch'[a].status = batch[a].status
    BY <2>1, <2>2 DEF EngineInv, RowsTyped
  <2>6. RowsTyped' /\ Priced'
    BY <2>1, <2>2, <2>3, <2>4 DEF EngineInv, RowsTyped, Priced
  <2>7. \A a \in Batches : /\ ItemsOf(a)' = ItemsOf(a)
                           /\ \A j : LinksOf(a, j)' = LinksOf(a, j) /\ Valid(a, j)' = Valid(a, j)
    BY <2>2, <2>5 DEF ItemsOf, LinksOf, Valid
  <2>8. \A j \in Items : baseline[j] # 0 \/ j = i => baseline'[j] # 0
    BY <2>3, <2>4 DEF EngineInv, RowsTyped
  <2>9. Staged' /\ Observed'
    BY <2>1, <2>2, <2>5 DEF EngineInv, Staged, Observed
  <2>10. Established'
    <3>1. \A a \in Batches : ItemsOf(a) \subseteq Items
      BY ItemsTyped DEF EngineInv
    <3>. QED BY <2>1, <2>5, <2>7, <2>8, <3>1 DEF EngineInv, Established
  <2>11. SuccessIsComplete'
    BY <2>2, <2>7, <2>8 DEF EngineInv, SuccessIsComplete
  <2>12. Unique'
    <3>1. \A x \in flagged : /\ x[1] \in Batches /\ x[2] \in Links
                             /\ ItemOf[x[2]] \in Items /\ ItemOf[x[2]] # i
      BY <1>2, EngineAssumption DEF EngineInv, RowsTyped, Unique
    <3>2. \A x \in flagged' : x[1] \in Batches /\ batch'[x[1]].at \notin {"new", "fetching"}
      BY <2>2, <2>3, <2>5, <3>1 DEF EngineInv, Unique
    <3>3. \A x, y \in flagged' : ItemOf[x[2]] = ItemOf[y[2]] => x = y
      BY <2>3, <2>4, <3>1 DEF EngineInv, Unique
    <3>4. \A j \in Items : baseline'[j] # 0 => \E x \in flagged' : ItemOf[x[2]] = j
      <4>1. \A j \in Items : j # i => baseline'[j] = baseline[j]
        BY <2>3 DEF EngineInv, RowsTyped
      <4>2. <<b, s>> \in flagged' /\ ItemOf[<<b, s>>[2]] = i
        BY <2>3, <2>4
      <4>. QED BY <2>3, <4>1, <4>2 DEF EngineInv, Unique
    <3>5. \A x \in flagged' : /\ baseline'[ItemOf[x[2]]] # 0
                              /\ price'[x[1]][x[2]].total = baseline'[ItemOf[x[2]]]
      <4>1. \A x \in flagged : baseline'[ItemOf[x[2]]] = baseline[ItemOf[x[2]]]
        BY <2>3, <3>1 DEF EngineInv, RowsTyped
      <4>2. baseline'[i] = Best(b, i)
        BY <2>3 DEF EngineInv, RowsTyped
      <4>. QED BY <2>2, <2>3, <2>4, <4>1, <4>2 DEF EngineInv, Unique
    <3>. QED BY <3>2, <3>3, <3>4, <3>5 DEF Unique
  <2>. QED BY <2>6, <2>9, <2>10, <2>11, <2>12 DEF EngineInv
<1>. QED BY <1>1, <1>2

(* The alerts are evaluated when no product is left.                        *)
LEMMA EvaluateKeeps ==
  ASSUME EngineInv, NEW b \in Batches, EvaluateAlerts(b) PROVE EngineInv'
<1> DEFINE row == [batch[b] EXCEPT !.at = "closing"]
<1>1. /\ row \in BatchRow /\ row.links = batch[b].links /\ row.at = "closing"
      /\ row.status = batch[b].status /\ row.left = batch[b].left
  BY DEF EngineInv, RowsTyped, BatchRow, Stage
<1>2. /\ batch' = [batch EXCEPT ![b] = row] /\ batch[b].at = "baselines" /\ batch[b].left = {}
      /\ UNCHANGED <<clock, page, price, flagged, baseline, run>>
  BY DEF EvaluateAlerts
<1>3. batch[b].status = "RUNNING"
  BY <1>2 DEF EngineInv, Staged
<1> HIDE DEF row
<1>. QED BY <1>1, <1>2, <1>3, RowKeeps

(* The batch ends, in whatever way.                                         *)
LEMMA EndKeeps ==
  ASSUME EngineInv, NEW b \in Batches, CloseBatch(b) \/ FailBatch(b) \/ DieCollecting(b)
  PROVE  EngineInv'
<1>1. PICK at \in {"failing", "over"}, status \in BatchStatus :
        batch' = [batch EXCEPT ![b].at = at, ![b].status = status]
  <2>1. CASE CloseBatch(b)
    BY <2>1 DEF CloseBatch, BatchStatus
  <2>2. CASE FailBatch(b)
    BY <2>2 DEF FailBatch, BatchStatus
  <2>3. CASE DieCollecting(b)
    <3>1. batch[b].status \in BatchStatus
      BY DEF EngineInv, RowsTyped, BatchRow
    <3>2. batch' = [batch EXCEPT ![b].at = "over", ![b].status = batch[b].status]
      BY <2>3 DEF DieCollecting, EngineInv, RowsTyped, BatchRow
    <3>. QED BY <3>1, <3>2
  <2>. QED BY <2>1, <2>2, <2>3
<1> DEFINE row == [batch[b] EXCEPT !.at = at, !.status = status]
<1>2. row \in BatchRow /\ row.links = batch[b].links /\ row.at = at
  BY DEF EngineInv, RowsTyped, BatchRow, Stage
<1>3. /\ batch' = [batch EXCEPT ![b] = row] /\ batch[b].at # "new"
      /\ UNCHANGED <<clock, page, price, flagged, baseline, run>>
  BY <1>1 DEF CloseBatch, FailBatch, DieCollecting, AtWork
<1> HIDE DEF row
<1>. QED BY <1>2, <1>3, RowKeeps

(* A run succeeds once the batch is closing: nothing is left then.          *)
LEMMA CloseRunKeeps ==
  ASSUME EngineInv, NEW b \in Batches, NEW o \in Owners, CloseRun(b, o) PROVE EngineInv'
<1>1. /\ run' = [run EXCEPT ![b][o] = "SUCCESS"] /\ batch[b].at = "closing"
      /\ UNCHANGED <<clock, batch, page, price, baseline, flagged>>
  BY DEF CloseRun
<1>2. RowsTyped' /\ Priced'
  BY <1>1 DEF EngineInv, RowsTyped, Priced, RunStatus
<1>3. \A a \in Batches, n \in Owners : run'[a][n] = run[a][n] \/ (a = b /\ n = o)
  BY <1>1 DEF EngineInv, RowsTyped
<1>4. Staged'
  BY <1>1, <1>3 DEF EngineInv, Staged
<1>5. Observed' /\ Established' /\ Unique'
  BY <1>1 DEF EngineInv, Observed, Established, Unique, ItemsOf, Valid, LinksOf
<1>6. \A a \in Batches : /\ ItemsOf(a)' = ItemsOf(a)
                         /\ \A i : LinksOf(a, i)' = LinksOf(a, i) /\ Valid(a, i)' = Valid(a, i)
  BY <1>1 DEF ItemsOf, LinksOf, Valid
<1>7. SuccessIsComplete'
  <2> SUFFICES ASSUME NEW a \in Batches, NEW i \in Items, run'[a][OwnerOf[i]] = "SUCCESS",
                      i \in ItemsOf(a)
               PROVE  /\ \A s \in LinksOf(a, i) : price[a][s].status # "NONE"
                      /\ Valid(a, i) # {} => baseline[i] # 0
    BY <1>1, <1>6 DEF SuccessIsComplete
  <2>1. CASE run[a][OwnerOf[i]] = "SUCCESS"
    BY <2>1 DEF EngineInv, SuccessIsComplete
  <2>2. CASE run[a][OwnerOf[i]] # "SUCCESS"
    <3>1. a = b
      BY <1>3, <2>2, EngineAssumption
    <3>2. batch[b].left = {}
      BY <1>1 DEF EngineInv, Staged
    <3>. QED BY <1>1, <3>1, <3>2 DEF EngineInv, Observed, Established, LinksOf
  <2>. QED BY <2>1, <2>2
<1>. QED BY <1>2, <1>4, <1>5, <1>7 DEF EngineInv

(* After a failure runs that still run fail: no run becomes a success.      *)
LEMMA FailRunsKeeps ==
  ASSUME EngineInv, NEW b \in Batches, FailRuns(b) PROVE EngineInv'
<1> DEFINE row == [batch[b] EXCEPT !.at = "over"]
<1>1. row \in BatchRow /\ row.links = batch[b].links /\ row.at = "over"
  BY DEF EngineInv, RowsTyped, BatchRow, Stage
<1>2. /\ batch' = [batch EXCEPT ![b] = row] /\ batch[b].at = "failing"
      /\ UNCHANGED <<clock, page, price, baseline, flagged>>
  BY DEF FailRuns
<1> HIDE DEF row
<1>3. /\ run' \in [Batches -> [Owners -> RunStatus]]
      /\ \A a \in Batches, n \in Owners :
           /\ run'[a][n] = "SUCCESS" => run[a][n] = "SUCCESS"
           /\ a # b => run'[a][n] = run[a][n]
  BY DEF EngineInv, RowsTyped, FailRuns, RunStatus
<1>4. /\ batch'[b] = row /\ \A a \in Batches : a # b => batch'[a] = batch[a]
  BY <1>2 DEF EngineInv, RowsTyped
<1>5. RowsTyped' /\ Priced'
  BY <1>1, <1>2, <1>3 DEF EngineInv, RowsTyped, Priced
<1>6. Staged'
  BY <1>1, <1>3, <1>4 DEF EngineInv, Staged
<1>7. \A a \in Batches : /\ ItemsOf(a)' = ItemsOf(a)
                         /\ \A i : LinksOf(a, i)' = LinksOf(a, i) /\ Valid(a, i)' = Valid(a, i)
  BY <1>1, <1>2, <1>4 DEF ItemsOf, LinksOf, Valid
<1>8. Observed' /\ Established'
  BY <1>1, <1>2, <1>4, <1>7 DEF EngineInv, Observed, Established
<1>9. Unique'
  <2>1. \A x \in flagged : x[1] \in Batches
    BY DEF EngineInv, RowsTyped
  <2>. QED BY <1>1, <1>2, <1>4, <2>1 DEF EngineInv, Unique
<1>10. SuccessIsComplete'
  BY <1>2, <1>3, <1>7, EngineAssumption DEF EngineInv, SuccessIsComplete
<1>. QED BY <1>5, <1>6, <1>8, <1>9, <1>10 DEF EngineInv

(* Every step keeps the invariant.                                          *)
LEMMA EngineStep == EngineInv /\ [EngineNext]_engineVars => EngineInv'
<1> SUFFICES ASSUME EngineInv, [EngineNext]_engineVars PROVE EngineInv'
  OBVIOUS
<1>1. ASSUME UNCHANGED <<batch, run, page, price, baseline, flagged>>, clock' \in 0 .. LastClock
      PROVE  EngineInv'
  <2>1. RowsTyped' /\ Priced' /\ Staged' /\ Observed' /\ Unique'
    BY <1>1 DEF EngineInv, RowsTyped, Priced, Staged, Observed, Unique
  <2>2. /\ \A b : ItemsOf(b)' = ItemsOf(b)
        /\ \A b, i : LinksOf(b, i)' = LinksOf(b, i) /\ Valid(b, i)' = Valid(b, i)
    BY <1>1 DEF ItemsOf, LinksOf, Valid
  <2>3. Established' /\ SuccessIsComplete'
    BY <1>1, <2>2 DEF EngineInv, Established, SuccessIsComplete
  <2>. QED BY <2>1, <2>3 DEF EngineInv
<1>2. CASE UNCHANGED engineVars \/ AdvanceClock
  <2>1. clock' \in 0 .. LastClock
    BY <1>2, EngineAssumption DEF engineVars, AdvanceClock, EngineInv, RowsTyped
  <2>2. UNCHANGED <<batch, run, page, price, baseline, flagged>>
    BY <1>2 DEF engineVars, AdvanceClock
  <2>. QED BY <1>1, <2>1, <2>2
<1>3. ASSUME NEW b \in Batches, BatchStep(b) PROVE EngineInv'
  BY <1>3, OpenKeeps, FetchKeeps, ObserveKeeps, EstablishKeeps, EvaluateKeeps, EndKeeps,
     CloseRunKeeps, FailRunsKeeps DEF BatchStep
<1>. QED BY <1>2, <1>3 DEF EngineNext

(* It holds in the beginning.                                               *)
LEMMA EngineStarts == EngineInit => EngineInv
<1> SUFFICES ASSUME EngineInit PROVE EngineInv
  OBVIOUS
<1>1. NoBatch \in BatchRow /\ NoPage \in PageRow /\ NoPrice \in PriceRow
  BY EngineAssumption
     DEF NoBatch, BatchRow, BatchStatus, Stage, NoPage, PageRow, NoPrice, PriceRow
<1>2. RowsTyped
  BY <1>1, EngineAssumption DEF EngineInit, RowsTyped, RunStatus
<1>3. Priced /\ Staged /\ Observed /\ Established /\ Unique
  BY DEF EngineInit, Priced, Staged, Observed, Established, Unique, NoBatch, NoPage, NoPrice
<1>4. SuccessIsComplete
  BY EngineAssumption DEF EngineInit, SuccessIsComplete
<1>. QED BY <1>2, <1>3, <1>4 DEF EngineInv

(* The inductive invariant: stages, observations and baselines agree.       *)
THEOREM EngineInvariant == EngineSpec => []EngineInv
BY EngineStarts, EngineStep, PTL DEF EngineSpec

----------------------------------------------------------------------------
(* Only runs with all their observations and baselines count as history.    *)
THEOREM HistoryIsComplete == EngineSpec => []SuccessIsComplete
<1>1. EngineInv => SuccessIsComplete
  BY DEF EngineInv
<1>. QED BY <1>1, EngineInvariant, PTL

(* A product has one baseline for good, whatever collections overlap.       *)
THEOREM BaselineForGood == EngineSpec => []OneBaseline
<1>1. EngineInv => OneBaseline
  <2> SUFFICES ASSUME EngineInv, NEW i \in Items
               PROVE  /\ Cardinality(Flagged(i)) <= 1
                      /\ baseline[i] # 0 <=> Flagged(i) # {}
                      /\ \A x \in Flagged(i) : price[x[1]][x[2]].total = baseline[i]
    BY DEF OneBaseline, Flagged
  <2>1. Cardinality(Flagged(i)) <= 1
    <3>1. CASE Flagged(i) = {}
        BY <3>1, FS_EmptySet
    <3>2. CASE Flagged(i) # {}
      <4>1. PICK x \in Flagged(i) : TRUE
        BY <3>2
      <4>2. \A y \in Flagged(i) : y = x
        BY <4>1 DEF EngineInv, Unique, Flagged
      <4>3. Flagged(i) = {x}
        BY <4>1, <4>2
      <4>4. Cardinality({x}) = 1
        BY FS_Singleton
      <4>. QED BY <4>3, <4>4
    <3>. QED BY <3>1, <3>2
  <2>2. baseline[i] # 0 <=> Flagged(i) # {}
    BY DEF EngineInv, Unique, Flagged
  <2>3. \A x \in Flagged(i) : price[x[1]][x[2]].total = baseline[i]
    BY DEF EngineInv, Unique, Flagged
  <2>. QED BY <2>1, <2>2, <2>3
<1>. QED BY <1>1, EngineInvariant, PTL

(* The status of a batch or run that has ended is not overwritten.          *)
LEMMA EndedIsKept ==
  ASSUME EngineInv, [EngineNext]_engineVars, NEW b \in Batches
  PROVE  /\ batch[b].status \in {"SUCCESS", "PARTIAL", "FAILED"} =>
               batch'[b].status = batch[b].status
         /\ \A o \in Owners : run[b][o] \in {"SUCCESS", "FAILED"} => run'[b][o] = run[b][o]
<1>1. CASE UNCHANGED engineVars \/ AdvanceClock
  BY <1>1 DEF engineVars, AdvanceClock
<1>2. ASSUME NEW c \in Batches, BatchStep(c)
      PROVE  /\ batch[b].status \in {"SUCCESS", "PARTIAL", "FAILED"} =>
                   batch'[b].status = batch[b].status
             /\ \A o \in Owners : run[b][o] \in {"SUCCESS", "FAILED"} => run'[b][o] = run[b][o]
  <2> USE DEF EngineInv, RowsTyped, BatchRow
  <2>1. CASE \E links \in SUBSET Links : OpenBatch(c, links)
    <3>1. (batch[c].at = "new" /\ batch'[b] = batch[b] /\ run'[b] = run[b]) \/ b = c
      BY <2>1 DEF OpenBatch
    <3>2. batch[c].status = "NONE" /\ \A o \in Owners : run[c][o] = "NONE"
      BY <2>1 DEF OpenBatch, Staged
    <3>. QED BY <3>1, <3>2
  <2>2. CASE (\E o \in Offers : FetchOffer(c, o)) \/ ObserveSources(c) \/ EvaluateAlerts(c)
    <3>1. run' = run /\ batch'[b].status = batch[b].status
      BY <2>2 DEF FetchOffer, ObserveSources, EvaluateAlerts
    <3>. QED BY <3>1
  <2>3. CASE \E i \in Items : Establish(c, i)
    <3>1. PICK i \in Items : Establish(c, i)
      BY <2>3
    <3>2. PICK fresh \in SUBSET Items :
            batch' = [batch EXCEPT ![c].left = @ \ {i}, ![c].fresh = fresh]
      <4>1. batch[c].fresh \in SUBSET Items /\ batch[c].fresh \cup {i} \in SUBSET Items
        OBVIOUS
      <4>2. batch' \in {[batch EXCEPT ![c].left = @ \ {i}],
                       [batch EXCEPT ![c].left = @ \ {i}, ![c].fresh = @ \cup {i}]}
        BY <3>1 DEF Establish
      <4>3. [batch EXCEPT ![c].left = @ \ {i}] =
              [batch EXCEPT ![c].left = @ \ {i}, ![c].fresh = batch[c].fresh]
        OBVIOUS
      <4>. QED BY <4>1, <4>2, <4>3
    <3>3. run' = run
      BY <3>1 DEF Establish
    <3>4. batch'[b].status = batch[b].status
      BY <3>2
    <3>. QED BY <3>3, <3>4
  <2>4. CASE \E o \in Owners : CloseRun(c, o)
    <3>1. PICK o \in Owners : CloseRun(c, o)
      BY <2>4
    <3>2. run[c][o] = "RUNNING" /\ run' = [run EXCEPT ![c][o] = "SUCCESS"] /\ batch' = batch
      BY <3>1 DEF CloseRun, Unclosed
    <3>3. \A n \in Owners : run'[b][n] = run[b][n] \/ (b = c /\ n = o)
      BY <3>2
    <3>. QED BY <3>2, <3>3
  <2>5. CASE CloseBatch(c)
    BY <2>5 DEF CloseBatch, Staged
  <2>6. CASE FailBatch(c)
    <3>1. batch[c].at \in {"fetching", "baselines", "closing"}
      BY <2>6 DEF FailBatch, AtWork, Stage
    <3>. QED BY <2>6, <3>1 DEF FailBatch, Staged
  <2>7. CASE FailRuns(c)
    BY <2>7 DEF FailRuns
  <2>8. CASE DieCollecting(c)
    BY <2>8 DEF DieCollecting
  <2>. QED BY <1>2, <2>1, <2>2, <2>3, <2>4, <2>5, <2>6, <2>7, <2>8 DEF BatchStep
<1>. QED BY <1>1, <1>2 DEF EngineNext

(* Failures and overlapping collections never reopen what has ended.        *)
THEOREM EndedForGood == EngineSpec => EndedStaysEnded
<1>1. EngineInv /\ [EngineNext]_engineVars =>
        [\A b \in Batches :
            /\ batch[b].status \in {"SUCCESS", "PARTIAL", "FAILED"} =>
                  batch'[b].status = batch[b].status
            /\ \A o \in Owners : run[b][o] \in {"SUCCESS", "FAILED"} =>
                  run'[b][o] = run[b][o]]_engineVars
  BY EndedIsKept
<1>. QED BY <1>1, EngineInvariant, PTL DEF EngineSpec, EndedStaysEnded
----------------------------------------------------------------------------
(* The alerts. The latest of a set of batches.                              *)
Latest(S) == {a \in S : \A c \in S : c <= a}

(* What stays true of an alert event: the prices it compared are there for  *)
(* good, and the runs that were its history stay in it.                     *)
Told(e) ==
    /\ batch[e.batch].at \notin {"new", "fetching", "baselines"}
    /\ Valid(e.batch, e.item) # {} /\ e.price = Best(e.batch, e.item)
    /\ \A a \in e.settled : run[a][OwnerOf[e.item]] = "SUCCESS"
    /\ Rule.drop # 0 /\ "PRICE_DROP" \in e.kinds =>
          \E a \in Latest(e.settled) : Valid(a, e.item) # {} /\ Best(a, e.item) > e.price
    /\ "TARGET_REACHED" \in e.kinds =>
          /\ e.price <= Target
          /\ \A a \in Latest(e.settled) : Valid(a, e.item) = {} \/ Best(a, e.item) > Target

AlertsInv ==
    /\ EngineInv /\ losses \in 0 .. MaxLosses /\ alert \in Seq(EventRow)
    /\ \A n \in DOMAIN alert : Told(alert[n])

(* A set of natural numbers has a least element, and Min is it.             *)
LEMMA MinIsLeast ==
  ASSUME NEW S \in SUBSET Nat, S # {} PROVE Min(S) \in S /\ \A y \in S : Min(S) <= y
<1>1. \E x \in S : \A y \in S : <<y, x>> \notin OpToRel(<, Nat)
  BY NatLessThanWellFounded, WFMin
<1>2. PICK x \in S : \A y \in S : <<y, x>> \notin OpToRel(<, Nat)
  BY <1>1
<1>3. \A y \in S : ~ (y < x)
  <2>1. \A y \in S : y < x => <<y, x>> \in OpToRel(<, Nat)
    BY DEF OpToRel
  <2>. QED BY <1>2, <2>1, Zenon
<1>4. \A y \in S : x <= y
  BY <1>3
<1>. QED BY <1>4 DEF Min

(* The latest of some batches exists, and Max is it.                        *)
LEMMA MaxIsLatest ==
  ASSUME NEW S \in SUBSET Batches, S # {} PROVE Latest(S) = {Max(S)}
<1>0. LastBatch \in Nat
  BY EngineAssumption
<1> DEFINE T == {LastBatch - a : a \in S}
<1>1. T \in SUBSET Nat /\ T # {}
  <2>1. \A a \in S : LastBatch - a \in Nat
    BY <1>0 DEF Batches
  <2>. QED BY <2>1
<1>2. PICK a \in S : \A c \in S : LastBatch - a <= LastBatch - c
  <2>1. PICK t \in T : \A u \in T : t <= u
    BY <1>1, MinIsLeast
  <2>. QED BY <2>1
<1>3. \A c \in S : c <= a
  BY <1>0, <1>2 DEF Batches
<1>4. Max(S) \in S /\ \A c \in S : Max(S) >= c
  <2>1. \E z \in S : \A c \in S : z >= c
    BY <1>3 DEF Batches
  <2>. QED BY <2>1 DEF Max
<1>5. S \subseteq Int
  BY <1>0 DEF Batches
<1>6. \A d \in S : (\A c \in S : c <= d) <=> d = Max(S)
  <2>1. ASSUME NEW m \in S, \A c \in S : m >= c, NEW d \in S
        PROVE  (\A c \in S : c <= d) <=> d = m
    BY <1>5, <2>1
  <2>. QED BY <1>4, <2>1
<1>. QED BY <1>4, <1>6 DEF Latest

(* The best price of a product with a valid observation is one of them.     *)
LEMMA BestIsTotal ==
  ASSUME EngineInv, NEW b \in Batches, NEW i, Valid(b, i) # {} PROVE Best(b, i) \in Totals
<1> DEFINE totals == {price[b][s].total : s \in Valid(b, i)}
<1>1. totals \subseteq Totals /\ totals # {}
  BY ItemsTyped DEF EngineInv, Priced, Valid
<1>2. totals \in SUBSET Nat
  BY <1>1, TotalsPositive
<1>3. Min(totals) \in totals
  BY <1>1, <1>2, MinIsLeast
<1>. QED BY <1>1, <1>3 DEF Best
(* Links and observations of a batch are there for good once it is past     *)
(* fetching: later steps only move it on.                                   *)
LEMMA ObservedForGood ==
  ASSUME EngineInv, [EngineNext]_engineVars, NEW b \in Batches,
         batch[b].at \notin {"new", "fetching"}
  PROVE  /\ batch'[b].links = batch[b].links /\ price'[b] = price[b]
         /\ batch'[b].at \notin {"new", "fetching"}
         /\ batch[b].at # "baselines" => batch'[b].at # "baselines"
<1> USE DEF EngineInv, RowsTyped, BatchRow
<1>1. CASE UNCHANGED engineVars \/ AdvanceClock
  BY <1>1 DEF engineVars, AdvanceClock
<1>2. ASSUME NEW c \in Batches, BatchStep(c)
      PROVE  /\ batch'[b].links = batch[b].links /\ price'[b] = price[b]
             /\ batch'[b].at \notin {"new", "fetching"}
             /\ batch[b].at # "baselines" => batch'[b].at # "baselines"
  <2>1. CASE \E links \in SUBSET Links : OpenBatch(c, links)
    <3>1. batch[c].at = "new" /\ batch'[b] = batch[b] /\ price' = price
      BY <2>1 DEF OpenBatch
    <3>. QED BY <3>1
  <2>2. CASE ObserveSources(c)
    <3>1. batch[c].at = "fetching" /\ b # c
      BY <2>2 DEF ObserveSources
    <3>2. batch'[b] = batch[b] /\ price'[b] = price[b]
      BY <2>2, <3>1 DEF ObserveSources
    <3>. QED BY <3>2
  <2>3. CASE \/ \E o \in Offers : FetchOffer(c, o)
             \/ \E o \in Owners : CloseRun(c, o)
    BY <2>3 DEF FetchOffer, CloseRun
  <2>4. CASE \E i \in Items : Establish(c, i)
    <3>1. PICK i \in Items : Establish(c, i)
      BY <2>4
    <3>2. CASE batch' = [batch EXCEPT ![c].left = @ \ {i}]
      BY <3>1, <3>2 DEF Establish
    <3>3. CASE batch' = [batch EXCEPT ![c].left = @ \ {i}, ![c].fresh = @ \cup {i}]
      BY <3>1, <3>3 DEF Establish
    <3>. QED BY <3>1, <3>2, <3>3 DEF Establish
  <2>5. CASE \/ EvaluateAlerts(c) \/ CloseBatch(c) \/ FailBatch(c)
             \/ FailRuns(c) \/ DieCollecting(c)
    <3>1. PICK at \in {"closing", "failing", "over"}, status \in BatchStatus :
            /\ batch' = [batch EXCEPT ![c].at = at, ![c].status = status]
            /\ price' = price
      <4>1. CASE EvaluateAlerts(c) \/ FailRuns(c) \/ DieCollecting(c)
        <5>1. \A at : [batch EXCEPT ![c].at = at] =
                        [batch EXCEPT ![c].at = at, ![c].status = batch[c].status]
          OBVIOUS
        <5>. QED BY <4>1, <5>1 DEF EvaluateAlerts, FailRuns, DieCollecting
      <4>2. CASE CloseBatch(c) \/ FailBatch(c)
        BY <4>2 DEF CloseBatch, FailBatch, BatchStatus
      <4>. QED BY <2>5, <4>1, <4>2
    <3>. QED BY <3>1
  <2>. QED BY <1>2, <2>1, <2>2, <2>3, <2>4, <2>5 DEF BatchStep
<1>. QED BY <1>1, <1>2 DEF EngineNext

(* So are the best prices that the alerts compare.                          *)
LEMMA BestForGood ==
  ASSUME EngineInv, [EngineNext]_engineVars, NEW b \in Batches,
         batch[b].at \notin {"new", "fetching"}, NEW i
  PROVE  ItemsOf(b)' = ItemsOf(b) /\ Valid(b, i)' = Valid(b, i) /\ Best(b, i)' = Best(b, i)
<1>1. batch'[b].links = batch[b].links /\ price'[b] = price[b]
  BY ObservedForGood
<1>2. ItemsOf(b)' = ItemsOf(b) /\ Valid(b, i)' = Valid(b, i)
  BY <1>1 DEF ItemsOf, Valid, LinksOf
<1>. QED BY <1>1, <1>2 DEF Best

(* What an alert event says stays true.                                     *)
LEMMA ToldStays ==
  ASSUME EngineInv, [EngineNext]_engineVars, NEW e \in EventRow, Told(e) PROVE Told(e)'
<1>0. /\ e.batch \in Batches /\ e.item \in Items /\ e.settled \subseteq Batches
      /\ OwnerOf[e.item] \in Owners
  BY EngineAssumption DEF EventRow
<1>1. batch'[e.batch].at \notin {"new", "fetching", "baselines"}
  BY <1>0, ObservedForGood DEF Told
<1>2. /\ Valid(e.batch, e.item)' = Valid(e.batch, e.item)
      /\ Best(e.batch, e.item)' = Best(e.batch, e.item)
  BY <1>0, BestForGood DEF Told
<1>3. \A a \in e.settled : run[a][OwnerOf[e.item]] = "SUCCESS"
  BY DEF Told
<1>4. \A a \in e.settled : run'[a][OwnerOf[e.item]] = "SUCCESS"
  BY <1>0, <1>3, EndedIsKept
<1>5. \A a \in e.settled : batch[a].at \notin {"new", "fetching"}
  BY <1>0, <1>3 DEF EngineInv, Staged
<1>6. \A a \in e.settled :
        Valid(a, e.item)' = Valid(a, e.item) /\ Best(a, e.item)' = Best(a, e.item)
  BY <1>0, <1>5, BestForGood
<1>. QED BY <1>1, <1>2, <1>4, <1>6 DEF Told, Latest

(* A fall by a percentage above zero is a fall.                             *)
LEMMA FallsAreFalls ==
  ASSUME NEW current \in Totals, NEW old \in Totals, Rule.drop # 0,
         FallsBy(current, old) >= Rule.drop
  PROVE  current < old
<1>1. current \in Nat \ {0} /\ old \in Nat \ {0} /\ Rule.drop \in Nat
  BY TotalsPositive, EngineAssumption
<1>2. CASE current > old
  BY <1>1, <1>2 DEF FallsBy
<1>3. CASE current = old
  <2>1. FallsBy(current, old) = (200000 * 0 + old) \div (2 * old)
    BY <1>1, <1>3 DEF FallsBy, Percent
  <2>2. (200000 * 0 + old) \div (2 * old) = 0
    BY <1>1
  <2>. QED BY <1>1, <2>1, <2>2
<1>. QED BY <1>1, <1>2, <1>3
(* The prices compared by an evaluation are in the history.                 *)
LEMMA ComparesHistory ==
  ASSUME EngineInv, NEW b \in Batches, NEW i \in Items
  PROVE  /\ SettledRuns(b, i) \subseteq Batches
         /\ Previous(b, i) = Latest(SettledRuns(b, i))
         /\ \A old \in PreviousBest(b, i) :
               \E a \in Previous(b, i) : Valid(a, i) # {} /\ old = Best(a, i) /\ old \in Totals
<1>1. SettledRuns(b, i) \subseteq Batches
  BY DEF SettledRuns
<1>2. Previous(b, i) = Latest(SettledRuns(b, i))
  BY <1>1, MaxIsLatest DEF Previous, Latest
<1>3. Previous(b, i) \subseteq Batches
  BY <1>1, <1>2 DEF Latest
<1>. QED BY <1>1, <1>2, <1>3, BestIsTotal DEF PreviousBest

(* A new event is typed, and what it says is true.                          *)
LEMMA NewEventTold ==
  ASSUME EngineInv, NEW b \in Batches, EvaluateAlerts(b), NEW i \in Alerted(b),
         NEW e, e = NewEvent(b, i)
  PROVE  e \in EventRow /\ Told(e)'
<1> DEFINE best == {s \in Valid(b, i) : price[b][s].total = Best(b, i)}
           times == {page[b][OfferOf[s]].at : s \in best}
<1>1. /\ i \in Items /\ OwnerOf[i] \in Owners /\ Valid(b, i) # {}
      /\ Best(b, i) \in Totals
  BY ItemsTyped, BestIsTotal, EngineAssumption DEF EngineInv, Alerted
<1>2. SettledRuns(b, i) \subseteq Batches /\ Triggered(b, i) \subseteq Kinds
  BY ComparesHistory, <1>1 DEF Triggered
<1>3. Min(times) \in 0 .. LastClock
  <2>1. times \subseteq 0 .. LastClock
    <3>1. \A s \in best : OfferOf[s] \in Offers
      BY ItemsTyped DEF EngineInv, Offers
    <3>. QED BY <3>1 DEF EngineInv, RowsTyped, PageRow
  <2>2. best # {}
    <3> DEFINE totals == {price[b][s].total : s \in Valid(b, i)}
    <3>1. totals \subseteq Totals /\ totals # {}
      BY <1>1, ItemsTyped DEF EngineInv, Priced, Valid
    <3>2. Best(b, i) \in totals
      BY <3>1, MinIsLeast, TotalsPositive DEF Best
    <3>. QED BY <3>2
  <2>3. times # {} /\ times \in SUBSET Nat
    BY <2>1, <2>2
  <2>. QED BY <2>1, <2>3, MinIsLeast
<1>4. /\ e.item = i /\ e.batch = b /\ e.kinds = Triggered(b, i) /\ e.price = Best(b, i)
      /\ e.settled = SettledRuns(b, i) /\ e \in EventRow
  BY <1>1, <1>2, <1>3 DEF NewEvent, EventRow
<1>5. UNCHANGED <<run, price>> /\ \A a \in Batches : batch'[a].links = batch[a].links
  BY DEF EvaluateAlerts, EngineInv, RowsTyped, BatchRow
<1>6. \A a \in Batches : Valid(a, i)' = Valid(a, i)
  BY <1>5 DEF Valid, LinksOf
<1>7. \A a \in Batches : Best(a, i)' = Best(a, i)
  BY <1>5, <1>6 DEF Best
<1>8. batch'[b].at = "closing"
  BY DEF EvaluateAlerts, EngineInv, RowsTyped, BatchRow
<1>9. \A a \in SettledRuns(b, i) : run'[a][OwnerOf[i]] = "SUCCESS"
  BY <1>5 DEF SettledRuns
<1>10. ASSUME Rule.drop # 0, "PRICE_DROP" \in Triggered(b, i)
       PROVE  \E a \in Latest(SettledRuns(b, i)) :
                 Valid(a, i)' # {} /\ Best(a, i)' > Best(b, i)
  <2>1. PICK old \in PreviousBest(b, i) : FallsBy(Best(b, i), old) >= Rule.drop
    BY <1>10 DEF Triggered
  <2>2. PICK a \in Previous(b, i) : Valid(a, i) # {} /\ old = Best(a, i) /\ old \in Totals
    BY <1>1, <2>1, ComparesHistory
  <2>3. Best(b, i) < Best(a, i) /\ Best(a, i) \in Nat /\ Best(b, i) \in Nat
    BY <1>1, <1>10, <2>1, <2>2, FallsAreFalls, TotalsPositive
  <2>4. a \in Latest(SettledRuns(b, i)) /\ a \in Batches
    BY <1>1, <2>2, ComparesHistory DEF Latest
  <2>. QED BY <1>6, <1>7, <2>2, <2>3, <2>4
<1>11. ASSUME "TARGET_REACHED" \in Triggered(b, i)
       PROVE  /\ Best(b, i) <= Target
              /\ \A a \in Latest(SettledRuns(b, i)) : Valid(a, i)' = {} \/ Best(a, i)' > Target
  <2>1. Best(b, i) <= Target /\ \A old \in PreviousBest(b, i) : old > Target
    BY <1>11 DEF Triggered
  <2>2. \A a \in Latest(SettledRuns(b, i)) : a \in Batches /\ a \in Previous(b, i)
    BY <1>1, ComparesHistory DEF Latest
  <2>3. \A a \in Previous(b, i) : Valid(a, i) # {} => Best(a, i) \in PreviousBest(b, i)
    BY DEF PreviousBest
  <2>. QED BY <1>6, <1>7, <2>1, <2>2, <2>3
<1>12. Latest(SettledRuns(b, i)) \subseteq Batches
  BY <1>2 DEF Latest
<1>13. Told(e)'
  BY <1>1, <1>4, <1>6, <1>7, <1>8, <1>9, <1>10, <1>11, <1>12 DEF Told
<1>. QED BY <1>4, <1>13
(* An evaluation appends true events.                                       *)
LEMMA EvaluateTells ==
  ASSUME AlertsInv, NEW b \in Batches, EvaluateAlerts(b)
  PROVE  alert' \in Seq(EventRow) /\ \A n \in DOMAIN alert' : Told(alert[n])'
<1>0. EngineInv /\ EngineNext
  BY DEF AlertsInv, EngineNext, BatchStep
<1>1. PICK order \in [1 .. Cardinality(Alerted(b)) -> Alerted(b)] :
        alert' = alert \o [n \in DOMAIN order |-> NewEvent(b, order[n])]
  BY DEF EvaluateAlerts
<1> DEFINE k == Cardinality(Alerted(b))
           more == [n \in DOMAIN order |-> NewEvent(b, order[n])]
<1>2. k \in Nat
  <2>1. Alerted(b) \subseteq Items
    BY <1>0, ItemsTyped DEF EngineInv, Alerted
  <2>. QED BY <2>1, EngineAssumption, FS_Subset, FS_CardinalityType
<1>3. \A n \in 1 .. k : more[n] \in EventRow /\ more[n] = NewEvent(b, order[n])
  BY <1>0, <1>1, NewEventTold
<1>4. more \in [1 .. k -> EventRow]
  BY <1>1, <1>3
<1>5. more \in Seq(EventRow) /\ Len(more) = k
  BY <1>2, <1>4
<1> HIDE DEF more, k
<1>6. /\ alert' \in Seq(EventRow) /\ Len(alert') = Len(alert) + k /\ Len(alert) \in Nat
      /\ \A n \in 1 .. Len(alert) + k :
           alert'[n] = IF n <= Len(alert) THEN alert[n] ELSE more[n - Len(alert)]
  BY <1>1, <1>5, ConcatProperties, LenProperties DEF AlertsInv, more
<1>7. ASSUME NEW n \in DOMAIN alert', NEW e, e = alert'[n] PROVE Told(e)'
  <2>1. n \in 1 .. Len(alert) + k
    BY <1>6, LenProperties
  <2>2. CASE n <= Len(alert)
    <3>1. n \in DOMAIN alert /\ e = alert[n]
      BY <1>6, <1>7, <2>1, <2>2 DEF AlertsInv
    <3>2. Told(alert[n]) /\ alert[n] \in EventRow
      BY <3>1 DEF AlertsInv
    <3>3. e \in EventRow /\ Told(e)
      BY <3>1, <3>2
    <3>. QED BY <1>0, <3>3, ToldStays
  <2>3. CASE n > Len(alert)
    <3>1. n - Len(alert) \in 1 .. k /\ e = more[n - Len(alert)]
      BY <1>2, <1>6, <1>7, <2>1, <2>3
    <3>2. order[n - Len(alert)] \in Alerted(b) /\ e = NewEvent(b, order[n - Len(alert)])
      BY <1>1, <1>3, <3>1 DEF k
    <3>. QED BY <1>0, <3>2, NewEventTold
  <2>. QED BY <1>2, <1>6, <2>1, <2>2, <2>3
<1>. QED BY <1>6, <1>7 DEF Told

(* Every step keeps the alerts true.                                        *)
LEMMA AlertsStep == AlertsInv /\ [EngineNext]_engineVars => AlertsInv'
<1> SUFFICES ASSUME AlertsInv, [EngineNext]_engineVars PROVE AlertsInv'
  OBVIOUS
<1>0. EngineInv /\ EngineInv'
  BY EngineStep DEF AlertsInv
<1>1. losses' \in 0 .. MaxLosses
  <2>1. losses' = losses \/ (losses < MaxLosses /\ losses' = losses + 1)
    BY DEF EngineNext, BatchStep, engineVars, AdvanceClock, OpenBatch, FetchOffer, ObserveSources,
           Establish, EvaluateAlerts, CloseRun, CloseBatch, FailBatch, FailRuns, DieCollecting
  <2>. QED BY <2>1, EngineAssumption DEF AlertsInv
<1>2. alert' = alert \/ \E b \in Batches : EvaluateAlerts(b)
  BY DEF EngineNext, BatchStep, engineVars, AdvanceClock, OpenBatch, FetchOffer, ObserveSources,
         Establish, CloseRun, CloseBatch, FailBatch, FailRuns, DieCollecting
<1>3. CASE alert' = alert
  <2>1. ASSUME NEW n \in DOMAIN alert, NEW e, e = alert[n] PROVE Told(e)'
    <3>1. Told(alert[n]) /\ alert[n] \in EventRow
      BY ElementOfSeq, LenProperties DEF AlertsInv
    <3>2. e \in EventRow /\ Told(e)
      BY <2>1, <3>1
    <3>. QED BY <1>0, <3>2, ToldStays
  <2>2. \A n \in DOMAIN alert' : Told(alert[n])'
    BY <1>3, <2>1 DEF Told
  <2>. QED BY <1>0, <1>1, <1>3, <2>2 DEF AlertsInv
<1>4. CASE \E b \in Batches : EvaluateAlerts(b)
  BY <1>0, <1>1, <1>4, EvaluateTells DEF AlertsInv
<1>. QED BY <1>2, <1>3, <1>4

(* The alerts of the past stay true of the observations they compared.      *)
THEOREM AlertsStayTrue == EngineSpec => []AlertsInv
<1>1. EngineInit => AlertsInv
  <2> SUFFICES ASSUME EngineInit PROVE AlertsInv
    OBVIOUS
  <2>1. EngineInv
    BY EngineStarts
  <2>2. losses \in 0 .. MaxLosses /\ alert = << >>
    BY EngineAssumption DEF EngineInit
  <2>3. alert \in Seq(EventRow) /\ DOMAIN alert = {}
    BY <2>2
  <2>. QED BY <2>1, <2>2, <2>3 DEF AlertsInv
<1>. QED BY <1>1, AlertsStep, PTL DEF EngineSpec

(* Every row of the engine has its type, the alert events too.              *)
THEOREM EngineTyped == EngineSpec => []EngineTypeOK
<1>1. AlertsInv => EngineTypeOK
  BY DEF AlertsInv, EngineInv, RowsTyped, EngineTypeOK
<1>. QED BY <1>1, AlertsStayTrue, PTL

(* The batch that a later alert was compared with last came after the one   *)
(* of an earlier alert, or was that one.                                    *)
LEMMA ComparedLater ==
  ASSUME AlertsInv, NEW m \in DOMAIN alert, NEW n \in DOMAIN alert,
         alert[m].batch \in alert[n].settled, NEW a \in Latest(alert[n].settled)
  PROVE  /\ alert[m] \in EventRow /\ alert[n] \in EventRow /\ a \in alert[n].settled
         /\ a > alert[m].batch \/ a = alert[m].batch
<1>1. alert[m] \in EventRow /\ alert[n] \in EventRow
  BY ElementOfSeq, LenProperties DEF AlertsInv
<1>2. a \in Batches /\ alert[m].batch \in Batches /\ alert[m].batch <= a
  BY <1>1 DEF Latest, EventRow
<1>. QED BY <1>1, <1>2, EngineAssumption DEF Batches, Latest

(* A price drop is told once. It takes a threshold above zero, which the    *)
(* form of the panel demands (0.10 to 100 percent): with 0 the price that   *)
(* did not move is a drop.                                                  *)
THEOREM DropsAreNews ==
  ASSUME Rule.drop # 0 PROVE EngineSpec => []DropIsNews
<1>1. AlertsInv => DropIsNews
  <2> SUFFICES ASSUME AlertsInv, NEW m \in DOMAIN alert, NEW n \in DOMAIN alert, m < n,
                      alert[m].item = alert[n].item, alert[m].price <= alert[n].price,
                      "PRICE_DROP" \in alert[n].kinds, alert[m].batch \in alert[n].settled
               PROVE  \E b \in alert[n].settled :
                         b > alert[m].batch /\ Best(b, alert[n].item) > alert[n].price
    BY DEF DropIsNews
  <2>1. Told(alert[m]) /\ Told(alert[n])
    BY DEF AlertsInv
  <2>2. PICK a \in Latest(alert[n].settled) : Best(a, alert[n].item) > alert[n].price
    BY <2>1 DEF Told
  <2>3. /\ alert[m] \in EventRow /\ alert[n] \in EventRow /\ a \in alert[n].settled
        /\ a > alert[m].batch \/ a = alert[m].batch
    BY ComparedLater
  <2>4. a # alert[m].batch
    <3>1. alert[m].price \in Nat /\ alert[n].price \in Nat
      BY <2>3, TotalsPositive DEF EventRow
    <3>2. alert[m].price = Best(alert[m].batch, alert[n].item)
      BY <2>1 DEF Told
    <3>. QED BY <2>2, <3>1, <3>2
  <2>. QED BY <2>2, <2>3, <2>4
<1>. QED BY <1>1, AlertsStayTrue, PTL

(* Between two alerts of the target a successful run saw a price above it,  *)
(* or saw no valid offer at all: nothing else makes the alert come again.   *)
CrossedOrUnseen ==
    \A m \in DOMAIN alert, n \in DOMAIN alert :
        LET old == alert[m]
            new == alert[n] IN
        /\ old.item = new.item
        /\ "TARGET_REACHED" \in old.kinds \cap new.kinds /\ old.batch \in new.settled
        => \E b \in new.settled :
              /\ b > old.batch
              /\ Valid(b, new.item) = {} \/ Best(b, new.item) > Target

(* What is left of TargetIsCrossed: a successful run without a valid offer  *)
(* is the one way in which the same target is announced again.              *)
THEOREM TargetCrossedOrUnseen == EngineSpec => []CrossedOrUnseen
<1>1. AlertsInv => CrossedOrUnseen
  <2> SUFFICES ASSUME AlertsInv, NEW m \in DOMAIN alert, NEW n \in DOMAIN alert,
                      alert[m].item = alert[n].item,
                      "TARGET_REACHED" \in alert[m].kinds, "TARGET_REACHED" \in alert[n].kinds,
                      alert[m].batch \in alert[n].settled
               PROVE  \E b \in alert[n].settled :
                         /\ b > alert[m].batch
                         /\ Valid(b, alert[n].item) = {} \/ Best(b, alert[n].item) > Target
    BY DEF CrossedOrUnseen
  <2>1. Told(alert[m]) /\ Told(alert[n])
    BY DEF AlertsInv
  <2>2. PICK a : a \in Latest(alert[n].settled)
    <3>1. alert[n] \in EventRow
      BY ElementOfSeq, LenProperties DEF AlertsInv
    <3>2. Latest(alert[n].settled) = {Max(alert[n].settled)}
      BY <3>1, MaxIsLatest DEF EventRow
    <3>. QED BY <3>2
  <2>3. /\ alert[m] \in EventRow /\ a \in alert[n].settled
        /\ a > alert[m].batch \/ a = alert[m].batch
    BY <2>2, ComparedLater
  <2>4. Valid(a, alert[n].item) = {} \/ Best(a, alert[n].item) > Target
    BY <2>1, <2>2 DEF Told
  <2>5. a # alert[m].batch
    <3>1. /\ alert[m].price \in Nat /\ Target \in Nat /\ alert[m].price <= Target
          /\ Valid(alert[m].batch, alert[n].item) # {}
          /\ alert[m].price = Best(alert[m].batch, alert[n].item)
      BY <2>1, <2>3, TotalsPositive, EngineAssumption DEF EventRow, Told
    <3>. QED BY <2>4, <3>1
  <2>. QED BY <2>3, <2>4, <2>5
<1>. QED BY <1>1, AlertsStayTrue, PTL
=============================================================================
