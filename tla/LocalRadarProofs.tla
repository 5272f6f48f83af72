--------------------------- MODULE LocalRadarProofs ---------------------------
(* Proofs about the local radar, for any number of processes, runs, links   *)
(* and products, any prices, and any failures, exceptions and deaths.       *)
EXTENDS LocalRadar, SequenceTheorems, WellFoundedInduction, TLAPS

(* A set of natural numbers has a least element, which Min returns.         *)
LEMMA LeastIsIn ==
  ASSUME NEW S \in SUBSET Nat, S # {} PROVE Min(S) \in S /\ \A y \in S : Min(S) <= y
<1>1. \E x \in S : \A y \in S : <<y, x>> \notin OpToRel(<, Nat)
  BY NatLessThanWellFounded, WFMin
<1>2. \A x, y \in Nat : y < x => <<y, x>> \in OpToRel(<, Nat)
  BY DEF OpToRel
<1>3. \E x \in S : \A y \in S : x <= y
  <2>1. PICK x \in S : \A y \in S : <<y, x>> \notin OpToRel(<, Nat)
    BY <1>1
  <2>2. \A y \in S : ~ (y < x)
    BY <1>2, <2>1, Zenon
  <2>3. \A y \in S : x <= y
    BY <2>2
  <2>. QED BY <2>3
<1>. QED BY <1>3 DEF Min

(* A set of natural numbers below a bound has a largest element: Max's.     *)
LEMMA LargestIsIn ==
  ASSUME NEW n \in Nat, NEW S \in SUBSET (0 .. n), S # {}
  PROVE  Max(S) \in S /\ \A y \in S : y <= Max(S)
<1> DEFINE T == {n - x : x \in S}
<1>1. T \in SUBSET Nat /\ T # {}
  <2>1. \A x \in S : n - x \in Nat
    OBVIOUS
  <2>2. T \subseteq Nat
    BY <2>1
  <2>3. PICK x \in S : TRUE
    OBVIOUS
  <2>4. n - x \in T
    BY <2>3
  <2>. QED BY <2>2, <2>4
<1>2. PICK t \in T : \A u \in T : t <= u
  BY <1>1, LeastIsIn
<1>3. PICK x \in S : t = n - x
  BY <1>2
<1>4. \A y \in S : x >= y
  <2> SUFFICES ASSUME NEW y \in S PROVE x >= y
    OBVIOUS
  <2>1. n - x <= n - y
    BY <1>2, <1>3
  <2>. QED BY <2>1
<1>5. \E z \in S : \A y \in S : z >= y
  BY <1>4
<1>6. Max(S) \in S /\ \A y \in S : Max(S) >= y
  BY <1>5 DEF Max
<1>. QED BY <1>6

(* The states of a process by their stage.                                  *)
LEMMA Shapes ==
  ASSUME RadarTypeOK, NEW r \in Radars
  PROVE  /\ radar[r].at \in {"off", "collecting", "notifying", "recording"}
         /\ radar[r].at = "off" => radar[r] = Off
         /\ radar[r].at = "collecting" => radar[r] \in [at: {"collecting"}, run: 1 .. LastRun]
         /\ radar[r].at = "notifying" =>
              radar[r] \in [at: {"notifying"}, run: 1 .. LastRun, left: SUBSET Wares]
         /\ radar[r].at = "recording" =>
              radar[r] \in [at: {"recording"}, run: 1 .. LastRun, left: SUBSET Wares, row: Attempt]
         /\ radar[r].at # "off" => radar[r].run \in 1 .. LastRun
BY DEF RadarTypeOK, RadarState, Off

(* A run that has its observations, and no process collects for.            *)
Collected(n) == n \in DOMAIN ran /\ ran[n].offers \in [Stalls -> Offer]
Known(n) ==
    /\ Collected(n)
    /\ n = Len(ran) => \A r \in Radars : radar[r].at # "collecting"

(* One process at a time holds the lock, and it works on the latest run.    *)
LockHeld ==
    /\ \A r, q \in Radars : radar[r].at # "off" /\ radar[q].at # "off" => r = q
    /\ \A r \in Radars : radar[r].at # "off" =>
         /\ radar[r].run = Len(ran) /\ Len(ran) \in DOMAIN ran
         /\ ran[Len(ran)].status = "RUNNING"
    /\ \A r \in Radars : radar[r].at \in {"notifying", "recording"} => Collected(Len(ran))

(* What an attempt, recorded or about to be, tells of its run.              *)
Made == {attempt[i] : i \in DOMAIN attempt} \cup
        {radar[r].row : r \in {r \in Radars : radar[r].at = "recording"}}
AttemptTrue(a) ==
    /\ Known(a.run)
    /\ Priced(a.run, a.ware) /\ a.price = BestTotal(a.run, a.ware)
    /\ "TARGET_REACHED" \in a.kinds => a.price <= Goal
    /\ a.fresh /\ "TARGET_REACHED" \in a.kinds =>
         \A p \in PreviousTotal(a.run, a.ware) : p > Goal
AttemptsTrue ==
    /\ \A a \in Made : AttemptTrue(a)
    /\ \A r \in Radars : radar[r].at = "recording" => radar[r].row.run = Len(ran)

(* An attempt of run n, or a message before it, at a price of a product;    *)
(* what the current run owes to earlier failures.                           *)
Answered(n, w, p) ==
    \E j \in DOMAIN attempt :
        /\ attempt[j].ware = w /\ attempt[j].price = p
        /\ attempt[j].run = n \/ (attempt[j].run < n /\ attempt[j].status = "SENT")
Owed(n, i) ==
    /\ i \in DOMAIN attempt /\ attempt[i].run < n /\ attempt[i].status = "FAILED"
    /\ Priced(n, attempt[i].ware) /\ BestTotal(n, attempt[i].ware) = attempt[i].price
Retries ==
    \A r \in Radars : radar[r].at \in {"notifying", "recording"} =>
        \A i \in DOMAIN attempt :
            Owed(Len(ran), i) /\ attempt[i].ware \notin radar[r].left =>
                \/ Answered(Len(ran), attempt[i].ware, attempt[i].price)
                \/ /\ radar[r].at = "recording" /\ radar[r].row.ware = attempt[i].ware
                   /\ radar[r].row.price = attempt[i].price

RadarInv == RadarTypeOK /\ LockHeld /\ AttemptsTrue /\ Retries /\ FailureIsRetried

----------------------------------------------------------------------------
(* The best total of a run with a price is one of the totals of its links.  *)
LEMMA BestIsQuoted ==
  ASSUME RadarTypeOK, NEW n, Collected(n), NEW w, Priced(n, w)
  PROVE  BestTotal(n, w) \in Quotes /\ BestTotal(n, w) \in Nat
<1>1. \A s \in Stalls : ran[n].offers[s].status = "OK" => ran[n].offers[s].total \in Quotes
  BY DEF Collected, Offer
<1>2. TotalsOf(n, w) \subseteq Quotes /\ TotalsOf(n, w) # {}
  BY <1>1 DEF TotalsOf, Priced
<1>3. TotalsOf(n, w) \in SUBSET Nat
  BY <1>2, RadarAssumption
<1>4. BestTotal(n, w) \in TotalsOf(n, w)
  BY <1>2, <1>3, LeastIsIn DEF BestTotal
<1>. QED BY <1>2, <1>3, <1>4

(* An attempt of the type Attempt.                                          *)
LEMMA AttemptRow ==
  ASSUME NEW n \in 1 .. LastRun, NEW w \in Wares, NEW p \in Quotes, NEW k \in SUBSET RadarKinds,
         NEW f \in BOOLEAN, NEW s \in {"SENT", "FAILED"}
  PROVE  [run |-> n, ware |-> w, price |-> p, kinds |-> k, fresh |-> f, status |-> s] \in Attempt
BY DEF Attempt

(* A row to send once its outcome is known.                                 *)
Settled(row, status) == [row EXCEPT !.status = status]

(* A message to send: its row has its type and tells the truth of its run.  *)
LEMMA RowIsTrue ==
  ASSUME RadarTypeOK, AttemptsTrue, NEW w \in Wares, NEW n \in 1 .. LastRun, Known(n),
         NEW row \in ToSend(n, w), NEW status \in {"SENT", "FAILED"},
         NEW a, a = Settled(row, status)
  PROVE  /\ a \in Attempt /\ AttemptTrue(a)
         /\ a.run = n /\ a.ware = w /\ a.price = BestTotal(n, w)
<1>1. Priced(n, w)
  BY DEF ToSend
<1>2. BestTotal(n, w) \in Quotes /\ BestTotal(n, w) \in Nat
  BY <1>1, BestIsQuoted DEF Known
<1>3. CASE Decision(n, w) # {}
  <2>1. row = [run |-> n, ware |-> w, price |-> BestTotal(n, w), kinds |-> Decision(n, w),
               fresh |-> TRUE, status |-> "SENT"]
    BY <1>1, <1>3 DEF ToSend
  <2>2. Decision(n, w) \in SUBSET RadarKinds
    BY DEF Decision
  <2>3. a = [run |-> n, ware |-> w, price |-> BestTotal(n, w), kinds |-> Decision(n, w),
             fresh |-> TRUE, status |-> status]
    BY <2>1 DEF Settled
  <2>4. "TARGET_REACHED" \in Decision(n, w) =>
          BestTotal(n, w) <= Goal /\ \A p \in PreviousTotal(n, w) : p > Goal
    BY DEF Decision, RadarKinds
  <2>5. a \in Attempt
    <3>1. [run |-> n, ware |-> w, price |-> BestTotal(n, w), kinds |-> Decision(n, w),
           fresh |-> TRUE, status |-> status] \in Attempt
      BY <1>2, <2>2, AttemptRow, Zenon
    <3>. QED BY <2>3, <3>1, Zenon
  <2>. QED BY <1>1, <2>3, <2>4, <2>5 DEF AttemptTrue
<1>4. CASE Decision(n, w) = {}
  <2> DEFINE k == Max(PendingFailed(n, w))
  <2>1. /\ PendingFailed(n, w) # {}
        /\ row = [run |-> n, ware |-> w, price |-> BestTotal(n, w), kinds |-> attempt[k].kinds,
                  fresh |-> FALSE, status |-> "SENT"]
    BY <1>1, <1>4 DEF ToSend
  <2>2. PendingFailed(n, w) \in SUBSET (0 .. Len(attempt)) /\ Len(attempt) \in Nat
    BY DEF PendingFailed, RadarTypeOK
  <2>3. k \in PendingFailed(n, w)
    BY <2>1, <2>2, LargestIsIn
  <2> HIDE DEF k
  <2>4. /\ k \in DOMAIN attempt /\ attempt[k] \in Attempt /\ attempt[k].price = BestTotal(n, w)
        /\ attempt[k] \in Made
    BY <2>3 DEF PendingFailed, RadarTypeOK, Made
  <2>5. "TARGET_REACHED" \in attempt[k].kinds => BestTotal(n, w) <= Goal
    BY <2>4 DEF AttemptsTrue, AttemptTrue
  <2>6. a = [run |-> n, ware |-> w, price |-> BestTotal(n, w), kinds |-> attempt[k].kinds,
             fresh |-> FALSE, status |-> status]
    BY <2>1 DEF Settled
  <2>7. a \in Attempt
    <3>1. attempt[k].kinds \in SUBSET RadarKinds
      BY <2>4 DEF Attempt
    <3>2. [run |-> n, ware |-> w, price |-> BestTotal(n, w), kinds |-> attempt[k].kinds,
           fresh |-> FALSE, status |-> status] \in Attempt
      BY <1>2, <3>1, AttemptRow, Zenon
    <3>. QED BY <2>6, <3>2, Zenon
  <2>. QED BY <1>1, <2>5, <2>6, <2>7 DEF AttemptTrue
<1>. QED BY <1>3, <1>4

(* With nothing to send, what is owed to an earlier failure was sent before.*)
LEMMA NothingOwed ==
  ASSUME RadarTypeOK, AttemptsTrue, NEW w \in Wares, ToSend(Len(ran), w) = {},
         NEW i, Owed(Len(ran), i), attempt[i].ware = w
  PROVE  Answered(Len(ran), w, attempt[i].price)
<1>1. Told(w, attempt[i].price) # {}
  <2>1. Priced(Len(ran), w) /\ BestTotal(Len(ran), w) = attempt[i].price
    BY DEF Owed
  <2>2. CASE Decision(Len(ran), w) # {}
    BY <2>1, <2>2 DEF ToSend
  <2>3. CASE Decision(Len(ran), w) = {}
    <3>1. PendingFailed(Len(ran), w) = {}
      BY <2>1, <2>3 DEF ToSend
    <3>2. i \notin PendingFailed(Len(ran), w)
      BY <3>1
    <3>. QED BY <2>1, <3>2 DEF PendingFailed, Owed
  <2>. QED BY <2>2, <2>3
<1>2. PICK j \in Told(w, attempt[i].price) : TRUE
  BY <1>1
<1>3. /\ j \in DOMAIN attempt /\ attempt[j].ware = w /\ attempt[j].price = attempt[i].price
      /\ attempt[j].status = "SENT"
  BY <1>2 DEF Told
<1>4. attempt[j].run \in 1 .. Len(ran)
  <2>1. attempt[j] \in Made
    BY <1>3 DEF Made
  <2>2. attempt[j].run \in DOMAIN ran
    BY <2>1 DEF AttemptsTrue, AttemptTrue, Known, Collected
  <2>. QED BY <2>2 DEF RadarTypeOK
<1>5. attempt[j].run = Len(ran) \/ attempt[j].run < Len(ran)
  BY <1>4 DEF RadarTypeOK
<1>. QED BY <1>3, <1>5 DEF Answered

----------------------------------------------------------------------------
(* A process that is off takes the lock and starts a run.                   *)
LEMMA StartTyped ==
  ASSUME RadarTypeOK, NEW r \in Radars, StartRadar(r)
  PROVE  /\ RadarTypeOK' /\ Len(ran') = Len(ran) + 1 /\ DOMAIN ran = 1 .. Len(ran)
         /\ \A n \in DOMAIN ran : n \in DOMAIN ran' /\ ran'[n] = ran[n]
         /\ DOMAIN ran' = 1 .. Len(ran) + 1 /\ ran'[Len(ran) + 1].status = "RUNNING"
<1> DEFINE new == [status |-> "RUNNING", offers |-> <<>>]
<1>1. new \in Run /\ new.status = "RUNNING"
  BY DEF Run
<1>2. ran' = Append(ran, new) /\ ran \in Seq(Run)
  BY DEF StartRadar, RadarTypeOK
<1> HIDE DEF new
<1>3. /\ ran' \in Seq(Run) /\ Len(ran') = Len(ran) + 1 /\ DOMAIN ran = 1 .. Len(ran)
      /\ \A n \in 1 .. Len(ran) : ran'[n] = ran[n]
      /\ ran'[Len(ran) + 1] = new /\ Len(ran) \in Nat
  BY <1>1, <1>2, AppendProperties, LenProperties
<1>4. Len(ran) + 1 \in 1 .. LastRun
  BY <1>3, RadarAssumption DEF StartRadar
<1>5. radar' \in [Radars -> RadarState]
  BY <1>4 DEF StartRadar, RadarTypeOK, RadarState
<1>6. DOMAIN ran' = 1 .. Len(ran) + 1
  BY <1>3, LenProperties
<1>7. RadarTypeOK'
  BY <1>3, <1>5 DEF StartRadar, RadarTypeOK
<1>. QED BY <1>1, <1>3, <1>6, <1>7

(* A run is changed in place: it is the latest one, and its length stays.   *)
LEMMA RunChanges ==
  ASSUME RadarTypeOK, NEW n \in DOMAIN ran, NEW row \in Run, ran' = [ran EXCEPT ![n] = row]
  PROVE  /\ ran' \in Seq(Run) /\ Len(ran') = Len(ran) /\ DOMAIN ran' = DOMAIN ran
         /\ DOMAIN ran = 1 .. Len(ran) /\ ran'[n] = row
         /\ \A m \in DOMAIN ran : m # n => ran'[m] = ran[m]
<1>1. ran \in Seq(Run) /\ DOMAIN ran = 1 .. Len(ran)
  BY LenProperties DEF RadarTypeOK
<1>2. ran' \in Seq(Run) /\ Len(ran') = Len(ran)
  BY <1>1, ExceptSeq
<1>3. DOMAIN ran' = 1 .. Len(ran)
  BY <1>2, LenProperties
<1>. QED BY <1>1, <1>2, <1>3

(* Every step keeps the types.                                              *)
LEMMA RadarStepTyped ==
  ASSUME RadarTypeOK, LockHeld, AttemptsTrue, NEW r \in Radars,
         \/ StartRadar(r) \/ CollectLinks(r) \/ RecordAttempt(r) \/ FinishRun(r)
         \/ FailRun(r) \/ KillRadar(r) \/ \E w \in Wares : SkipWare(r, w) \/ SendWare(r, w)
  PROVE  RadarTypeOK'
<1>1. CASE StartRadar(r)
  BY <1>1, StartTyped
<1>2. CASE CollectLinks(r)
  <2>1. PICK offers \in [Stalls -> Offer] :
          ran' = [ran EXCEPT ![radar[r].run] = [ran[radar[r].run] EXCEPT !.offers = offers]]
    BY <1>2 DEF CollectLinks
  <2>2. radar[r].run \in DOMAIN ran /\ ran[radar[r].run] \in Run
    BY <1>2, LenProperties DEF CollectLinks, LockHeld, RadarTypeOK
  <2>3. [ran[radar[r].run] EXCEPT !.offers = offers] \in Run
    BY <2>2 DEF Run
  <2>4. ran' \in Seq(Run)
    BY <2>1, <2>2, <2>3, RunChanges
  <2>5. radar' \in [Radars -> RadarState]
    <3>1. [at |-> "notifying", run |-> radar[r].run, left |-> Wares] \in RadarState
      BY <1>2, Shapes DEF CollectLinks, RadarState
    <3>. QED BY <1>2, <3>1 DEF CollectLinks, RadarTypeOK
  <2>. QED BY <1>2, <2>4, <2>5 DEF CollectLinks, RadarTypeOK
<1>3. CASE RecordAttempt(r)
  <2>1. radar[r].row \in Attempt /\ radar[r].left \in SUBSET Wares /\ radar[r].run \in 1 .. LastRun
    BY <1>3, Shapes DEF RecordAttempt
  <2>2. attempt' \in Seq(Attempt)
    BY <1>3, <2>1, AppendProperties DEF RecordAttempt, RadarTypeOK
  <2>3. [at |-> "notifying", run |-> radar[r].run, left |-> radar[r].left] \in RadarState
    BY <2>1 DEF RadarState
  <2>. QED BY <1>3, <2>2, <2>3 DEF RecordAttempt, RadarTypeOK
<1>4. CASE FinishRun(r) \/ FailRun(r)
  <2>1. PICK status \in {"SUCCESS", "FAILED"} :
          ran' = [ran EXCEPT ![radar[r].run] = [ran[radar[r].run] EXCEPT !.status = status]]
    BY <1>4 DEF FinishRun, FailRun
  <2>2. radar[r].run \in DOMAIN ran /\ ran[radar[r].run] \in Run
    BY <1>4, LenProperties DEF FinishRun, FailRun, LockHeld, RadarTypeOK
  <2>3. [ran[radar[r].run] EXCEPT !.status = status] \in Run
    BY <2>2 DEF Run
  <2>4. ran' \in Seq(Run)
    BY <2>1, <2>2, <2>3, RunChanges
  <2>5. radar' \in [Radars -> RadarState] /\ trouble' \in 0 .. MaxTrouble /\ attempt' = attempt
    BY <1>4, RadarAssumption DEF FinishRun, FailRun, RadarTypeOK, RadarState
  <2>. QED BY <2>4, <2>5 DEF RadarTypeOK
<1>5. CASE KillRadar(r)
  BY <1>5, RadarAssumption DEF KillRadar, RadarTypeOK, RadarState
<1>6. ASSUME NEW w \in Wares, SkipWare(r, w) PROVE RadarTypeOK'
  <2>1. [radar[r] EXCEPT !.left = @ \ {w}] \in RadarState
    BY <1>6, Shapes DEF SkipWare, RadarState
  <2>. QED BY <1>6, <2>1 DEF SkipWare, RadarTypeOK
<1>7. ASSUME NEW w \in Wares, SendWare(r, w) PROVE RadarTypeOK'
  <2>1. radar[r].at = "notifying" /\ radar[r].run \in 1 .. LastRun /\ radar[r].left \in SUBSET Wares
    BY <1>7, Shapes DEF SendWare
  <2>2. Known(radar[r].run)
    BY <2>1 DEF LockHeld, Known
  <2>3. PICK row \in ToSend(radar[r].run, w), status \in {"SENT", "FAILED"} :
          /\ status = "FAILED" => trouble < MaxTrouble
          /\ trouble' = IF status = "FAILED" THEN trouble + 1 ELSE trouble
          /\ radar' = [radar EXCEPT ![r] =
                 [at |-> "recording", run |-> radar[r].run, left |-> radar[r].left \ {w},
                  row |-> [row EXCEPT !.status = status]]]
    BY <1>7 DEF SendWare
  <2>4. [row EXCEPT !.status = status] \in Attempt
    BY <2>1, <2>2, RowIsTrue DEF Settled
  <2>5. [at |-> "recording", run |-> radar[r].run, left |-> radar[r].left \ {w},
         row |-> [row EXCEPT !.status = status]] \in RadarState
    BY <2>1, <2>4 DEF RadarState
  <2>6. radar' \in [Radars -> RadarState] /\ trouble' \in 0 .. MaxTrouble
    BY <2>3, <2>5, RadarAssumption DEF RadarTypeOK
  <2>. QED BY <1>7, <2>6 DEF SendWare, RadarTypeOK
<1>. QED BY <1>1, <1>2, <1>3, <1>4, <1>5, <1>6, <1>7

(* The lock stays held, and what is known of a run and the runs before it   *)
(* is not changed by any step.                                              *)
Frame(n) ==
    Known(n) => /\ Known(n)' /\ ran'[n].offers = ran[n].offers
                /\ \A m \in 1 .. n - 1 : ran'[m] = ran[m]

LEMMA StartFrame ==
  ASSUME RadarTypeOK, LockHeld, NEW r \in Radars, StartRadar(r)
  PROVE  LockHeld' /\ \A n : Frame(n)
<1>1. /\ Len(ran') = Len(ran) + 1 /\ DOMAIN ran = 1 .. Len(ran) /\ Len(ran) \in Nat
      /\ \A n \in DOMAIN ran : n \in DOMAIN ran' /\ ran'[n] = ran[n]
      /\ DOMAIN ran' = 1 .. Len(ran) + 1 /\ ran'[Len(ran) + 1].status = "RUNNING"
  BY StartTyped, LenProperties DEF RadarTypeOK
<1>2. /\ \A q \in Radars : radar[q].at = "off"
      /\ radar' = [radar EXCEPT ![r] = [at |-> "collecting", run |-> Len(ran) + 1]]
  BY DEF StartRadar
<1>3. LockHeld'
  BY <1>1, <1>2 DEF LockHeld, RadarTypeOK
<1>4. \A n : Frame(n)
  BY <1>1 DEF Frame, Known, Collected
<1>. QED BY <1>3, <1>4

(* The run of a process at work is changed in place, or not at all.         *)
LEMMA WorkFrame ==
  ASSUME RadarTypeOK, LockHeld, NEW r \in Radars,
         \/ CollectLinks(r) \/ RecordAttempt(r) \/ FinishRun(r)
         \/ FailRun(r) \/ KillRadar(r) \/ \E w \in Wares : SkipWare(r, w) \/ SendWare(r, w)
  PROVE  LockHeld' /\ \A n : Frame(n)
<1>1. /\ radar[r].at # "off" /\ radar[r].run = Len(ran) /\ Len(ran) \in DOMAIN ran
      /\ \A q \in Radars : q # r => radar[q].at = "off"
      /\ Len(ran) \in Nat /\ DOMAIN ran = 1 .. Len(ran) /\ ran[Len(ran)].status = "RUNNING"
  <2>1. radar[r].at # "off"
    BY DEF CollectLinks, RecordAttempt, FinishRun, FailRun, KillRadar, SkipWare, SendWare
  <2>. QED BY <2>1, LenProperties DEF LockHeld, RadarTypeOK
<1>2. CASE CollectLinks(r)
  <2>1. PICK offers \in [Stalls -> Offer] : ran' = [ran EXCEPT ![Len(ran)].offers = offers]
    BY <1>1, <1>2 DEF CollectLinks
  <2> DEFINE row == [ran[Len(ran)] EXCEPT !.offers = offers]
  <2>2. /\ row \in Run /\ row.status = "RUNNING" /\ row.offers = offers
        /\ ran' = [ran EXCEPT ![Len(ran)] = row]
    <3>1. ran[Len(ran)] \in Run
      BY <1>1 DEF RadarTypeOK
    <3>2. row \in Run /\ row.status = "RUNNING" /\ row.offers = offers
      BY <1>1, <3>1 DEF Run
    <3>3. ran' = [ran EXCEPT ![Len(ran)] = row]
      BY <2>1
    <3>. QED BY <3>2, <3>3
  <2> HIDE DEF row
  <2>3. /\ Len(ran') = Len(ran) /\ DOMAIN ran' = DOMAIN ran /\ ran'[Len(ran)] = row
        /\ \A m \in DOMAIN ran : m # Len(ran) => ran'[m] = ran[m]
    BY <1>1, <2>2, RunChanges
  <2>4. radar' = [radar EXCEPT ![r] = [at |-> "notifying", run |-> Len(ran), left |-> Wares]]
    BY <1>1, <1>2 DEF CollectLinks
  <2>5. LockHeld'
    BY <1>1, <2>2, <2>3, <2>4 DEF LockHeld, Collected, RadarTypeOK
  <2>6. \A n : Known(n) => n # Len(ran)
    BY <1>2 DEF Known, CollectLinks
  <2>7. \A n : Frame(n)
    BY <1>1, <2>3, <2>6 DEF Frame, Known, Collected
  <2>. QED BY <2>5, <2>7
<1>3. CASE FinishRun(r) \/ FailRun(r)
  <2>1. PICK status \in {"SUCCESS", "FAILED"} : ran' = [ran EXCEPT ![Len(ran)].status = status]
    BY <1>1, <1>3 DEF FinishRun, FailRun
  <2> DEFINE row == [ran[Len(ran)] EXCEPT !.status = status]
  <2>2. /\ row \in Run /\ row.offers = ran[Len(ran)].offers
        /\ ran' = [ran EXCEPT ![Len(ran)] = row]
    <3>1. ran[Len(ran)] \in Run
      BY <1>1 DEF RadarTypeOK
    <3>2. row \in Run /\ row.offers = ran[Len(ran)].offers
      BY <3>1 DEF Run
    <3>3. ran' = [ran EXCEPT ![Len(ran)] = row]
      BY <2>1
    <3>. QED BY <3>2, <3>3
  <2> HIDE DEF row
  <2>3. /\ Len(ran') = Len(ran) /\ DOMAIN ran' = DOMAIN ran /\ ran'[Len(ran)] = row
        /\ \A m \in DOMAIN ran : m # Len(ran) => ran'[m] = ran[m]
    BY <1>1, <2>2, RunChanges
  <2>4. \A q \in Radars : radar'[q].at = "off"
    BY <1>1, <1>3 DEF FinishRun, FailRun, RadarTypeOK, Off
  <2>5. LockHeld'
    BY <2>4 DEF LockHeld
  <2>6. \A n : Frame(n)
    <3> SUFFICES ASSUME NEW n, Known(n)
                 PROVE  /\ Known(n)' /\ ran'[n].offers = ran[n].offers
                        /\ \A m \in 1 .. n - 1 : ran'[m] = ran[m]
      BY DEF Frame
    <3>1. n \in 1 .. Len(ran) /\ ran[n].offers \in [Stalls -> Offer]
      BY <1>1 DEF Known, Collected
    <3>2. ran'[n].offers = ran[n].offers
      BY <1>1, <2>2, <2>3, <3>1
    <3>3. Known(n)'
      BY <1>1, <2>3, <2>4, <3>1, <3>2 DEF Known, Collected
    <3>4. \A m \in 1 .. n - 1 : m \in 1 .. Len(ran) /\ m # Len(ran)
      <4>1. \A k \in Nat : n \in 1 .. k => \A m \in 1 .. n - 1 : m \in 1 .. k /\ m # k
        OBVIOUS
      <4>. QED BY <1>1, <3>1, <4>1
    <3>. QED BY <1>1, <2>3, <3>2, <3>3, <3>4
  <2>. QED BY <2>5, <2>6
<1>4. CASE KillRadar(r)
  <2>1. \A q \in Radars : radar'[q].at = "off"
    BY <1>1, <1>4 DEF KillRadar, RadarTypeOK, Off
  <2>. QED BY <1>4, <2>1 DEF KillRadar, LockHeld, Frame, Known, Collected
<1>5. CASE RecordAttempt(r) \/ \E w \in Wares : SkipWare(r, w) \/ SendWare(r, w)
  <2>1. /\ ran' = ran /\ radar[r].at \in {"notifying", "recording"}
        /\ radar'[r].at \in {"notifying", "recording"} /\ radar'[r].run = radar[r].run
        /\ \A q \in Radars : q # r => radar'[q] = radar[q]
    BY <1>5, Shapes DEF RecordAttempt, SkipWare, SendWare, RadarTypeOK
  <2>2. Collected(Len(ran))
    BY <2>1 DEF LockHeld
  <2>3. LockHeld'
    BY <1>1, <2>1, <2>2 DEF LockHeld, Collected
  <2>4. \A n : Frame(n)
    BY <1>1, <2>1 DEF Frame, Known, Collected
  <2>. QED BY <2>3, <2>4
<1>. QED BY <1>2, <1>3, <1>4, <1>5

(* What is known of a run decides its totals and what came before them.     *)
LEMMA SameHistory ==
  ASSUME RadarTypeOK, NEW n, Known(n), Frame(n), NEW w
  PROVE  /\ Known(n)' /\ Priced(n, w)' = Priced(n, w) /\ BestTotal(n, w)' = BestTotal(n, w)
         /\ PreviousTotal(n, w)' = PreviousTotal(n, w)
<1>1. Known(n)' /\ TotalsOf(n, w)' = TotalsOf(n, w)
  BY DEF Frame, TotalsOf
<1>2. \A m \in 1 .. n - 1 : /\ TotalsOf(m, w)' = TotalsOf(m, w)
                            /\ ran'[m].status = ran[m].status
  BY DEF Frame, TotalsOf
<1>3. \A m \in 1 .. n - 1 : /\ Priced(m, w)' = Priced(m, w)
                            /\ BestTotal(m, w)' = BestTotal(m, w)
  BY <1>2 DEF Priced, BestTotal
<1>4. Before(n)' = Before(n) /\ Before(n) \subseteq 1 .. n - 1
  BY <1>2 DEF Before
<1>5. PreviousTotal(n, w)' = PreviousTotal(n, w)
  BY <1>3, <1>4 DEF PreviousTotal
<1>. QED BY <1>1, <1>5 DEF Priced, BestTotal

(* The rows of the attempts stay, and a new one is the row of its process.  *)
LEMMA AttemptsGrow ==
  ASSUME RadarTypeOK, NEW r \in Radars,
         \/ StartRadar(r) \/ CollectLinks(r) \/ RecordAttempt(r) \/ FinishRun(r)
         \/ FailRun(r) \/ KillRadar(r) \/ \E w \in Wares : SkipWare(r, w) \/ SendWare(r, w)
  PROVE  /\ \A i \in DOMAIN attempt : i \in DOMAIN attempt' /\ attempt'[i] = attempt[i]
         /\ \A i \in DOMAIN attempt' : i \in DOMAIN attempt \/
              /\ RecordAttempt(r) /\ attempt'[i] = radar[r].row
         /\ RecordAttempt(r) => \E i \in DOMAIN attempt' : attempt'[i] = radar[r].row
<1>1. CASE RecordAttempt(r)
  <2>1. /\ radar[r].row \in Attempt /\ attempt \in Seq(Attempt)
        /\ attempt' = Append(attempt, radar[r].row)
    BY <1>1, Shapes DEF RecordAttempt, RadarTypeOK
  <2>2. /\ attempt' \in Seq(Attempt) /\ Len(attempt') = Len(attempt) + 1 /\ Len(attempt) \in Nat
        /\ DOMAIN attempt = 1 .. Len(attempt) /\ attempt'[Len(attempt) + 1] = radar[r].row
        /\ \A i \in 1 .. Len(attempt) : attempt'[i] = attempt[i]
    BY <2>1, AppendProperties, LenProperties
  <2>3. DOMAIN attempt' = 1 .. Len(attempt) + 1
    BY <2>2, LenProperties
  <2>. QED BY <1>1, <2>2, <2>3
<1>2. CASE ~ RecordAttempt(r)
  <2>1. attempt' = attempt
    BY <1>2 DEF StartRadar, CollectLinks, FinishRun, FailRun, KillRadar, SkipWare, SendWare
  <2>. QED BY <1>2, <2>1
<1>. QED BY <1>1, <1>2

(* Every attempt, old or new, still tells the truth.                        *)
LEMMA TruthKept ==
  ASSUME RadarTypeOK, LockHeld, AttemptsTrue, NEW r \in Radars,
         \/ StartRadar(r) \/ CollectLinks(r) \/ RecordAttempt(r) \/ FinishRun(r)
         \/ FailRun(r) \/ KillRadar(r) \/ \E w \in Wares : SkipWare(r, w) \/ SendWare(r, w)
  PROVE  AttemptsTrue'
<1>1. \A n : Frame(n)
  BY StartFrame, WorkFrame
<1>2. ASSUME NEW a, AttemptTrue(a) PROVE AttemptTrue(a)'
  BY <1>1, <1>2, SameHistory DEF AttemptTrue
<1>3. ASSUME NEW w \in Wares, SendWare(r, w)
      PROVE  /\ AttemptTrue(radar'[r].row) /\ radar'[r].row.run = Len(ran)
  <2>1. /\ radar[r].at = "notifying" /\ radar[r].run \in 1 .. LastRun /\ radar[r].run = Len(ran)
    BY <1>3, Shapes DEF SendWare, LockHeld
  <2>2. Known(Len(ran))
    BY <2>1 DEF LockHeld, Known
  <2>3. PICK row \in ToSend(Len(ran), w), status \in {"SENT", "FAILED"} :
          radar' = [radar EXCEPT ![r] =
              [at |-> "recording", run |-> radar[r].run, left |-> radar[r].left \ {w},
               row |-> [row EXCEPT !.status = status]]]
    BY <1>3, <2>1 DEF SendWare
  <2>4. radar'[r].row = Settled(row, status)
    BY <2>3 DEF RadarTypeOK, Settled
  <2>5. Len(ran) \in 1 .. LastRun
    BY <2>1
  <2>6. PICK a : a = Settled(row, status)
    OBVIOUS
  <2>7. AttemptTrue(a) /\ a.run = Len(ran)
    BY <2>2, <2>5, <2>6, RowIsTrue
  <2>. QED BY <2>4, <2>6, <2>7
<1>4. ASSUME NEW q \in Radars, radar'[q].at = "recording"
      PROVE  /\ ran' = ran
             /\ \/ radar[q].at = "recording" /\ radar'[q] = radar[q]
                \/ q = r /\ \E w \in Wares : SendWare(r, w)
  BY <1>4, Shapes
     DEF StartRadar, CollectLinks, RecordAttempt, FinishRun, FailRun, KillRadar, SkipWare,
              SendWare, RadarTypeOK, Off, LockHeld
<1>5. \A q \in Radars : radar'[q].at = "recording" =>
        AttemptTrue(radar'[q].row) /\ radar'[q].row.run = Len(ran) /\ ran' = ran
  BY <1>3, <1>4 DEF AttemptsTrue, Made
<1>6. ASSUME NEW a \in Made' PROVE AttemptTrue(a)
  <2>1. CASE \E i \in DOMAIN attempt' : a = attempt'[i]
    <3>1. PICK i \in DOMAIN attempt' : a = attempt'[i]
      BY <2>1
    <3>2. i \in DOMAIN attempt \/ (radar[r].at = "recording" /\ a = radar[r].row)
      BY <3>1, AttemptsGrow DEF RecordAttempt
    <3>3. a \in Made
      BY <3>1, <3>2, AttemptsGrow DEF Made
    <3>. QED BY <3>3 DEF AttemptsTrue
  <2>2. CASE \E q \in Radars : radar'[q].at = "recording" /\ a = radar'[q].row
    BY <1>5, <2>2
  <2>. QED BY <1>6, <2>1, <2>2 DEF Made
<1>7. \A a \in Made' : AttemptTrue(a)'
  BY <1>2, <1>6
<1>. QED BY <1>5, <1>7 DEF AttemptsTrue

(* An answer stays, and what a known run owes is what it owed before.       *)
LEMMA AnswersStay ==
  ASSUME RadarTypeOK, NEW r \in Radars,
         \/ StartRadar(r) \/ CollectLinks(r) \/ RecordAttempt(r) \/ FinishRun(r)
         \/ FailRun(r) \/ KillRadar(r) \/ \E w \in Wares : SkipWare(r, w) \/ SendWare(r, w),
         NEW n, NEW w, NEW p, Answered(n, w, p)
  PROVE  Answered(n, w, p)'
<1>1. PICK j \in DOMAIN attempt :
        /\ attempt[j].ware = w /\ attempt[j].price = p
        /\ attempt[j].run = n \/ (attempt[j].run < n /\ attempt[j].status = "SENT")
  BY DEF Answered
<1>2. j \in DOMAIN attempt' /\ attempt'[j] = attempt[j]
  BY AttemptsGrow
<1>. QED BY <1>1, <1>2 DEF Answered

(* The failures owed to run n after a step were owed before: only attempts  *)
(* of the latest run are new.                                               *)
LEMMA OwedBefore ==
  ASSUME RadarTypeOK, LockHeld, AttemptsTrue, NEW r \in Radars,
         \/ StartRadar(r) \/ CollectLinks(r) \/ RecordAttempt(r) \/ FinishRun(r)
         \/ FailRun(r) \/ KillRadar(r) \/ \E w \in Wares : SkipWare(r, w) \/ SendWare(r, w),
         NEW n \in DOMAIN ran, Known(n), NEW i, Owed(n, i)'
  PROVE  Owed(n, i) /\ attempt'[i] = attempt[i]
<1>1. i \in DOMAIN attempt' /\ attempt'[i].run < n
  BY DEF Owed
<1>2. i \in DOMAIN attempt
  <2> SUFFICES ASSUME i \notin DOMAIN attempt PROVE FALSE
    OBVIOUS
  <2>1. radar[r].at = "recording" /\ attempt'[i] = radar[r].row
    BY <1>1, AttemptsGrow DEF RecordAttempt
  <2>2. attempt'[i].run = Len(ran)
    BY <2>1 DEF AttemptsTrue
  <2>3. n \in 1 .. Len(ran) /\ Len(ran) \in Nat
    BY LenProperties DEF RadarTypeOK
  <2>. QED BY <1>1, <2>2, <2>3
<1>3. attempt'[i] = attempt[i]
  BY <1>2, AttemptsGrow
<1>4. \A w : Priced(n, w)' = Priced(n, w) /\ BestTotal(n, w)' = BestTotal(n, w)
  BY StartFrame, WorkFrame, SameHistory
<1>5. PICK w, p : w = attempt[i].ware /\ p = attempt[i].price
  OBVIOUS
<1>6. Priced(n, w)' /\ BestTotal(n, w)' = p
  BY <1>3, <1>5 DEF Owed
<1>7. Priced(n, w) /\ BestTotal(n, w) = p
  BY <1>4, <1>6
<1>. QED BY <1>2, <1>3, <1>5, <1>7 DEF Owed

(* The current run keeps its account of what it has tried again.            *)
LEMMA RetriesKept ==
  ASSUME RadarTypeOK, LockHeld, AttemptsTrue, Retries, NEW r \in Radars,
         \/ StartRadar(r) \/ CollectLinks(r) \/ RecordAttempt(r) \/ FinishRun(r)
         \/ FailRun(r) \/ KillRadar(r) \/ \E w \in Wares : SkipWare(r, w) \/ SendWare(r, w)
  PROVE  Retries'
<1>1. CASE StartRadar(r) \/ FinishRun(r) \/ FailRun(r) \/ KillRadar(r)
  <2>1. \A q \in Radars : radar'[q].at \notin {"notifying", "recording"}
    BY <1>1 DEF StartRadar, FinishRun, FailRun, KillRadar, LockHeld, RadarTypeOK, Off
  <2>. QED BY <2>1 DEF Retries
<1>2. CASE CollectLinks(r)
  <2>1. /\ radar'[r].left = Wares /\ attempt' = attempt
        /\ \A q \in Radars : q # r => radar'[q].at = "off"
    BY <1>2 DEF CollectLinks, LockHeld, RadarTypeOK
  <2>2. \A i \in DOMAIN attempt : attempt[i].ware \in Wares
    <3>1. \A i \in DOMAIN attempt : attempt[i] \in Attempt
      BY DEF RadarTypeOK
    <3>. QED BY <3>1 DEF Attempt
  <2>. QED BY <2>1, <2>2 DEF Retries
<1>3. CASE RecordAttempt(r) \/ \E w \in Wares : SkipWare(r, w) \/ SendWare(r, w)
  <2>1. /\ ran' = ran /\ radar[r].at \in {"notifying", "recording"}
        /\ \A q \in Radars : q # r => radar'[q].at = "off"
    BY <1>3 DEF RecordAttempt, SkipWare, SendWare, LockHeld, RadarTypeOK
  <2>2. PICK n : n = Len(ran)
    OBVIOUS
  <2>3. n \in DOMAIN ran /\ Known(n) /\ n = radar[r].run /\ n \in 1 .. LastRun
    BY <2>1, <2>2, Shapes DEF LockHeld, Known
  <2>4. SUFFICES ASSUME NEW i, NEW w, NEW p, Owed(n, i)', attempt'[i].ware = w,
                        attempt'[i].price = p, w \notin radar'[r].left
                 PROVE  \/ Answered(n, w, p)'
                        \/ /\ radar'[r].at = "recording" /\ radar'[r].row.ware = w
                           /\ radar'[r].row.price = p
    BY <2>1, <2>2 DEF Retries
  <2>5. /\ Owed(n, i) /\ attempt[i].ware = w /\ attempt[i].price = p
        /\ BestTotal(n, w) = p
    BY <2>3, <2>4, OwedBefore DEF Owed
  <2>6. w \notin radar[r].left =>
          \/ Answered(n, w, p)
          \/ /\ radar[r].at = "recording" /\ radar[r].row.ware = w /\ radar[r].row.price = p
    BY <2>1, <2>2, <2>5 DEF Retries, Owed
  <2>7. Answered(n, w, p) => Answered(n, w, p)'
    BY AnswersStay
  <2>8. CASE RecordAttempt(r)
    <3>1. radar'[r].left = radar[r].left /\ radar[r].at = "recording"
      BY <2>8 DEF RecordAttempt, RadarTypeOK
    <3>2. \E j \in DOMAIN attempt' : attempt'[j] = radar[r].row
      BY <2>8, AttemptsGrow
    <3>3. radar[r].row.run = n
      BY <2>2, <3>1 DEF AttemptsTrue
    <3>4. radar[r].row.ware = w /\ radar[r].row.price = p => Answered(n, w, p)'
      BY <3>2, <3>3 DEF Answered
    <3>. QED BY <2>4, <2>6, <2>7, <3>1, <3>4
  <2>9. ASSUME NEW v \in Wares, SkipWare(r, v) PROVE Answered(n, w, p)'
    <3>1. /\ radar[r].at = "notifying" /\ radar'[r].left = radar[r].left \ {v}
          /\ ToSend(n, v) = {}
      BY <2>3, <2>9, Shapes DEF SkipWare, RadarTypeOK
    <3>2. CASE w = v
      <4>1. Answered(n, w, p)
        BY <2>2, <2>5, <3>1, <3>2, NothingOwed
      <4>. QED BY <2>7, <4>1
    <3>3. CASE w # v
      BY <2>4, <2>6, <2>7, <3>1, <3>3
    <3>. QED BY <3>2, <3>3
  <2>10. ASSUME NEW v \in Wares, SendWare(r, v)
         PROVE  \/ Answered(n, w, p)'
                \/ /\ radar'[r].at = "recording" /\ radar'[r].row.ware = w
                   /\ radar'[r].row.price = p
    <3>1. radar[r].at = "notifying"
      BY <2>10 DEF SendWare
    <3>2. PICK row \in ToSend(n, v), status \in {"SENT", "FAILED"} :
            radar' = [radar EXCEPT ![r] =
                [at |-> "recording", run |-> radar[r].run, left |-> radar[r].left \ {v},
                 row |-> [row EXCEPT !.status = status]]]
      BY <2>3, <2>10 DEF SendWare
    <3>3. /\ radar'[r].at = "recording" /\ radar'[r].left = radar[r].left \ {v}
          /\ radar'[r].row = Settled(row, status)
      BY <3>2 DEF RadarTypeOK, Settled
    <3>4. CASE w = v
      <4>1. PICK a : a = Settled(row, status)
        OBVIOUS
      <4>2. a.ware = v /\ a.price = BestTotal(n, v)
        BY <2>3, <4>1, RowIsTrue
      <4>. QED BY <2>5, <3>3, <3>4, <4>1, <4>2
    <3>5. CASE w # v
      BY <2>4, <2>6, <2>7, <3>1, <3>3, <3>5
    <3>. QED BY <3>4, <3>5
  <2>. QED BY <1>3, <2>8, <2>9, <2>10
<1>. QED BY <1>1, <1>2, <1>3

(* A run that is a success, before or now, has been answered for.           *)
LEMMA RetryKept ==
  ASSUME RadarInv, NEW r \in Radars,
         \/ StartRadar(r) \/ CollectLinks(r) \/ RecordAttempt(r) \/ FinishRun(r)
         \/ FailRun(r) \/ KillRadar(r) \/ \E w \in Wares : SkipWare(r, w) \/ SendWare(r, w)
  PROVE  FailureIsRetried'
<1> USE DEF RadarInv
<1>1. SUFFICES ASSUME NEW n \in DOMAIN ran', NEW i, NEW w, NEW p,
                      ran'[n].status = "SUCCESS", Owed(n, i)', attempt'[i].ware = w,
                      attempt'[i].price = p
               PROVE  Answered(n, w, p)'
  BY DEF FailureIsRetried, Owed, Answered
<1>2. n \in 1 .. Len(ran) /\ n \in DOMAIN ran /\ Len(ran) \in Nat
  <2>1. CASE StartRadar(r)
    BY <1>1, <2>1, StartTyped, LenProperties DEF RadarTypeOK
  <2>2. CASE CollectLinks(r) \/ FinishRun(r) \/ FailRun(r)
    <3>1. DOMAIN ran' = DOMAIN ran
      BY <2>2 DEF CollectLinks, FinishRun, FailRun
    <3>. QED BY <1>1, <3>1, LenProperties DEF RadarTypeOK
  <2>3. CASE ran' = ran
    BY <1>1, <2>3, LenProperties DEF RadarTypeOK
  <2>. QED BY <2>1, <2>2, <2>3 DEF RecordAttempt, KillRadar, SkipWare, SendWare
<1>3. CASE FinishRun(r) /\ n = Len(ran)
  <2>1. radar[r].at = "notifying" /\ radar[r].left = {}
    BY <1>3 DEF FinishRun
  <2>2. Known(n)
    BY <1>3, <2>1 DEF LockHeld, Known
  <2>3. Owed(n, i) /\ attempt[i].ware = w /\ attempt[i].price = p
    BY <1>1, <1>2, <2>2, OwedBefore
  <2>4. Answered(n, w, p)
    BY <1>3, <2>1, <2>3 DEF Retries, Owed
  <2>. QED BY <2>4, AnswersStay
<1>4. CASE ~ (FinishRun(r) /\ n = Len(ran))
  <2>1. /\ ran[n].status = "SUCCESS" /\ ran'[n].offers = ran[n].offers
        /\ (RecordAttempt(r) => n < Len(ran))
    <3>1. CASE StartRadar(r)
      BY <1>1, <1>2, <3>1, StartTyped DEF StartRadar, RecordAttempt
    <3>2. CASE ~ StartRadar(r)
      <4>1. radar[r].at # "off" /\ radar[r].run = Len(ran) /\ ran[Len(ran)].status = "RUNNING"
        BY <3>2 DEF CollectLinks, RecordAttempt, FinishRun, FailRun, KillRadar, SkipWare,
                    SendWare, LockHeld
      <4>2. n # Len(ran) => ran'[n] = ran[n]
        BY <1>1, <1>2, <3>2, <4>1 DEF CollectLinks, RecordAttempt, FinishRun, FailRun,
           KillRadar, SkipWare, SendWare, RadarTypeOK
      <4>3. n # Len(ran)
        <5> SUFFICES ASSUME n = Len(ran) PROVE FALSE
          OBVIOUS
        <5>1. ran'[n].status # "SUCCESS"
          <6>1. CASE FailRun(r)
            <7>1. ran' = [ran EXCEPT ![n].status = "FAILED"]
              BY <4>1, <6>1 DEF FailRun
            <7>2. ran[n] \in Run
              BY <1>2 DEF RadarTypeOK
            <7>3. ran'[n].status = "FAILED"
              BY <1>2, <7>1, <7>2 DEF Run
            <7>. QED BY <7>3
          <6>2. CASE CollectLinks(r)
            <7>1. PICK offers : ran' = [ran EXCEPT ![n].offers = offers]
              BY <4>1, <6>2 DEF CollectLinks
            <7>2. ran[n] \in Run
              BY <1>2 DEF RadarTypeOK
            <7>3. ran'[n].status = ran[n].status
              BY <1>2, <7>1, <7>2 DEF Run
            <7>. QED BY <4>1, <7>3
          <6>3. CASE ran' = ran
            BY <4>1, <6>3
          <6>. QED BY <1>4, <3>2, <6>1, <6>2, <6>3
                   DEF RecordAttempt, KillRadar, SkipWare, SendWare
        <5>. QED BY <1>1, <5>1
      <4>. QED BY <1>1, <1>2, <4>2, <4>3
    <3>. QED BY <3>1, <3>2
  <2>2. TotalsOf(n, w)' = TotalsOf(n, w)
    BY <2>1 DEF TotalsOf
  <2>3. Priced(n, w)' = Priced(n, w) /\ BestTotal(n, w)' = BestTotal(n, w)
    BY <2>2 DEF Priced, BestTotal
  <2>4. i \in DOMAIN attempt
    <3> SUFFICES ASSUME i \notin DOMAIN attempt PROVE FALSE
      OBVIOUS
    <3>1. i \in DOMAIN attempt' /\ attempt'[i].run < n
      BY <1>1 DEF Owed
    <3>2. RecordAttempt(r) /\ attempt'[i].run = Len(ran)
      BY <3>1, AttemptsGrow DEF RecordAttempt, AttemptsTrue
    <3>. QED BY <1>2, <2>1, <3>1, <3>2
  <2>5. attempt'[i] = attempt[i]
    BY <2>4, AttemptsGrow
  <2>6. attempt[i].ware = w /\ attempt[i].price = p /\ Priced(n, w) /\ BestTotal(n, w) = p
    <3>1. Priced(n, w)' /\ BestTotal(n, w)' = p
      BY <1>1 DEF Owed
    <3>. QED BY <1>1, <2>3, <2>5, <3>1
  <2>7. Answered(n, w, p)
    BY <1>1, <1>2, <2>1, <2>4, <2>5, <2>6 DEF FailureIsRetried, Answered, Owed
  <2>. QED BY <2>7, AnswersStay
<1>. QED BY <1>3, <1>4

(* The inductive invariant of the radar.                                    *)
THEOREM RadarInvariant == RadarSpec => []RadarInv
<1>1. RadarInit => RadarInv
  <2> SUFFICES ASSUME RadarInit PROVE RadarInv
    OBVIOUS
  <2>1. ran \in Seq(Run) /\ attempt \in Seq(Attempt) /\ DOMAIN ran = {} /\ DOMAIN attempt = {}
    BY EmptySeq DEF RadarInit
  <2>2. RadarTypeOK
    BY <2>1, RadarAssumption DEF RadarInit, RadarTypeOK, RadarState
  <2>3. \A r \in Radars : radar[r].at = "off"
    BY DEF RadarInit, Off
  <2>4. Made = {}
    BY <2>1, <2>3 DEF Made
  <2>. QED BY <2>1, <2>2, <2>3, <2>4
           DEF RadarInv, LockHeld, AttemptsTrue, Retries, FailureIsRetried
<1>2. RadarInv /\ [RadarNext]_radarVars => RadarInv'
  <2> SUFFICES ASSUME RadarInv, [RadarNext]_radarVars PROVE RadarInv'
    OBVIOUS
  <2>1. CASE UNCHANGED radarVars
    <3> USE <2>1 DEF radarVars
    <3>1. RadarTypeOK' /\ LockHeld'
      BY DEF RadarInv, RadarTypeOK, LockHeld, Collected
    <3>2. /\ \A n, w : Priced(n, w)' = Priced(n, w) /\ BestTotal(n, w)' = BestTotal(n, w)
          /\ \A n, w : PreviousTotal(n, w)' = PreviousTotal(n, w)
      BY DEF Priced, BestTotal, TotalsOf, PreviousTotal, Before
    <3>3. \A n : Known(n)' = Known(n)
      BY DEF Known, Collected
    <3>4. Made' = Made /\ \A a : AttemptTrue(a)' = AttemptTrue(a)
      BY <3>2, <3>3 DEF Made, AttemptTrue
    <3>5. AttemptsTrue'
      BY <3>4 DEF RadarInv, AttemptsTrue
    <3>6. /\ \A n, w, p : Answered(n, w, p)' = Answered(n, w, p)
          /\ \A n, i : Owed(n, i)' = Owed(n, i)
      BY <3>2 DEF Answered, Owed
    <3>7. Retries'
      BY <3>6 DEF RadarInv, Retries
    <3>8. FailureIsRetried'
      BY <3>2 DEF RadarInv, FailureIsRetried
    <3>. QED BY <3>1, <3>5, <3>7, <3>8 DEF RadarInv
  <2>2. CASE RadarNext
    <3>1. PICK r \in Radars :
            \/ StartRadar(r) \/ CollectLinks(r) \/ RecordAttempt(r) \/ FinishRun(r)
            \/ FailRun(r) \/ KillRadar(r) \/ \E w \in Wares : SkipWare(r, w) \/ SendWare(r, w)
      BY <2>2 DEF RadarNext
    <3>2. RadarTypeOK' /\ AttemptsTrue' /\ Retries'
      BY <3>1, RadarStepTyped, TruthKept, RetriesKept DEF RadarInv
    <3>3. LockHeld'
      BY <3>1, StartFrame, WorkFrame DEF RadarInv
    <3>4. FailureIsRetried'
      BY <3>1, RetryKept
    <3>. QED BY <3>2, <3>3, <3>4 DEF RadarInv
  <2>. QED BY <2>1, <2>2
<1>. QED BY <1>1, <1>2, PTL DEF RadarSpec

(* Every variable of the radar holds a value of its type.                   *)
THEOREM RadarTyped == RadarSpec => []RadarTypeOK
<1>1. RadarInv => RadarTypeOK
  BY DEF RadarInv
<1>. QED BY <1>1, RadarInvariant, PTL

(* No message that failed is forgotten by a run that succeeds.              *)
THEOREM FailuresAreRetried == RadarSpec => []FailureIsRetried
<1>1. RadarInv => FailureIsRetried
  BY DEF RadarInv
<1>. QED BY <1>1, RadarInvariant, PTL

(* Two messages that the target is reached have a price above it between    *)
(* them: the previous price is the latest one of a successful run, and the  *)
(* run of the first message is one of those.                                *)
THEOREM TargetIsPassed == RadarSpec => []GoalIsCrossed
<1>1. RadarInv => GoalIsCrossed
  <2>1. SUFFICES ASSUME RadarInv, NEW a \in Made, NEW b \in Made,
                        a.ware = b.ware, a.run < b.run, b.fresh,
                        "TARGET_REACHED" \in a.kinds \cap b.kinds, ran[a.run].status = "SUCCESS"
                 PROVE  \E n \in a.run + 1 .. b.run - 1 :
                          /\ ran[n].status = "SUCCESS" /\ Priced(n, a.ware)
                          /\ BestTotal(n, a.ware) > Goal
    BY DEF GoalIsCrossed, Made
  <2>2. AttemptTrue(a) /\ AttemptTrue(b)
    BY <2>1 DEF RadarInv, AttemptsTrue
  <2>3. /\ a.run \in Nat \ {0} /\ b.run \in Nat \ {0} /\ Priced(a.run, a.ware)
        /\ a.price = BestTotal(a.run, a.ware) /\ a.price <= Goal
        /\ \A p \in PreviousTotal(b.run, a.ware) : p > Goal
    BY <2>1, <2>2, LenProperties DEF AttemptTrue, Known, Collected, RadarInv, RadarTypeOK
  <2>4. BestTotal(a.run, a.ware) \in Nat
    BY <2>1, <2>2, BestIsQuoted DEF AttemptTrue, Known, RadarInv
  <2> DEFINE priced == {m \in Before(b.run) : Priced(m, a.ware)}
             k == Max(priced)
  <2>5. a.run \in priced /\ priced \in SUBSET (0 .. b.run)
    BY <2>1, <2>3 DEF Before
  <2>6. k \in priced /\ \A m \in priced : m <= k
    BY <2>3, <2>5, LargestIsIn
  <2> HIDE DEF k
  <2>7. BestTotal(k, a.ware) \in PreviousTotal(b.run, a.ware)
    BY <2>6 DEF PreviousTotal
  <2>8. BestTotal(k, a.ware) > Goal
    BY <2>3, <2>7
  <2>9. k # a.run
    BY <2>3, <2>4, <2>8, RadarAssumption
  <2>10. k \in a.run + 1 .. b.run - 1 /\ ran[k].status = "SUCCESS" /\ Priced(k, a.ware)
    BY <2>3, <2>5, <2>6, <2>9 DEF Before
  <2>. QED BY <2>8, <2>10
<1>. QED BY <1>1, RadarInvariant, PTL
=============================================================================
