------------------------- MODULE AlertDeliveryProofs -------------------------
(***************************************************************************)
(* Proofs about AlertDelivery for every value of its constants.            *)
(***************************************************************************)
EXTENDS AlertDelivery, FiniteSetTheorems, TLAPS

(* w has reserved an event and not yet saved the outcome.                  *)
Sender(w) == worker[w].pc \in Reserved

-----------------------------------------------------------------------------
(* Who reserves an event meets nobody sending it: the row of a live sender *)
(* is SENDING and its lease has not run out.                               *)
LEMMA NobodyElseSends ==
  ASSUME SenderInv, NEW w \in Workers, NEW u \in Workers,
         worker[w].pc = "reserving",
         ~ Skips(worker[w].event, worker[w].read),
         Sender(u)
  PROVE  worker[u].event # worker[w].event
<1> SUFFICES ASSUME worker[u].event = worker[w].event PROVE FALSE
  OBVIOUS
<1>1. delivery[worker[w].event] = SendingRow(worker[u].read)
  BY DEF SenderInv, HoldsReservation, Sender
<1>2. /\ worker[w].read <= now
      /\ now <= worker[u].read + LeaseTime
  BY DEF SenderInv, WithinLease, Sender
<1>3. worker[w].read \in Nat /\ worker[u].read \in Nat /\ now \in Nat /\ LeaseTime \in Nat
  BY DeliverySettings DEF SenderInv, TypeOK, WorkerState
<1>. QED BY <1>1, <1>2, <1>3 DEF Skips, Busy, SendingRow

(* Only the sender of an event can have an answer to save for it.          *)
LEMMA OneSaves ==
  ASSUME SenderInv, NEW w \in Workers, Sender(w), worker[w].result # "ok"
  PROVE  ~ Saving(worker[w].event)
<1> SUFFICES ASSUME NEW u \in Workers, worker[u].result = "ok",
                    worker[u].event = worker[w].event
             PROVE  FALSE
  BY DEF Saving
<1>1. Sender(u)
  BY DEF SenderInv, OkIsBeingSaved, Sender, Reserved
<1>2. u = w
  BY <1>1 DEF SenderInv, OneSender, Sender
<1>. QED BY <1>2

-----------------------------------------------------------------------------
(* A worker changes its own state without touching a row or a message, and *)
(* is not a sender afterwards.                                             *)
LEMMA LocalStep ==
  ASSUME SenderInv, NEW w \in Workers, NEW rec \in WorkerState,
         worker' = [worker EXCEPT ![w] = rec],
         rec.pc \notin Reserved,
         rec.pc = "reserving" => rec.event \in Events /\ rec.read = now,
         rec.result # "ok", worker[w].result # "ok",
         bot' = bot, created' = created, faults' \in Nat,
         UNCHANGED <<now, delivery, sent, unrecorded>>
  PROVE  SenderInv'
<1>1. /\ worker' \in [Workers -> WorkerState]
      /\ worker'[w] = rec
      /\ \A u \in Workers : u # w => worker'[u] = worker[u]
  BY DEF SenderInv, TypeOK
<1>2. now \in Nat /\ LeaseTime \in Nat /\ now <= now + LeaseTime
  BY DeliverySettings DEF SenderInv, TypeOK
<1>3. TypeOK'
  BY <1>1 DEF SenderInv, TypeOK
<1>4. WithinLease'
  BY <1>1, <1>2 DEF SenderInv, WithinLease
<1>5. HoldsReservation'
  BY <1>1 DEF SenderInv, HoldsReservation
<1>6. OneSender'
  BY <1>1 DEF SenderInv, OneSender
<1>7. OkIsBeingSaved'
  BY <1>1 DEF SenderInv, OkIsBeingSaved
<1>8. \A e \in Events : Saving(e)' <=> Saving(e)
  BY <1>1 DEF Saving
<1>9. AcceptedAccountedFor'
  BY <1>8 DEF SenderInv, AcceptedAccountedFor, Counted
<1>. QED BY <1>3, <1>4, <1>5, <1>6, <1>7, <1>9 DEF SenderInv

(* The selection and the walk over the selected events.                    *)
LEMMA SelectBatchStep ==
  ASSUME SenderInv, NEW w \in Workers, SelectBatch(w) PROVE SenderInv'
<1> DEFINE rec == [worker[w] EXCEPT !.pc = "choosing", !.left = Oldest(Pending)]
<1>1. worker[w] \in WorkerState /\ created \subseteq Events
  BY DEF SenderInv, TypeOK
<1>2. Oldest(Pending) \subseteq Events
  BY <1>1 DEF Oldest, Pending
<1>3. rec \in WorkerState /\ rec.pc = "choosing" /\ rec.result = worker[w].result
  BY <1>1, <1>2 DEF WorkerState
<1>4. worker[w].result # "ok"
  BY DEF SenderInv, OkIsBeingSaved, SelectBatch
<1>5. worker' = [worker EXCEPT ![w] = rec] /\ faults' \in Nat
  BY DEF SelectBatch, SenderInv, TypeOK
<1> HIDE DEF rec
<1>. QED BY <1>3, <1>4, <1>5, LocalStep DEF SelectBatch, Reserved

LEMMA NextEventStep ==
  ASSUME SenderInv, NEW w \in Workers, NEW e \in Events, NextEvent(w, e)
  PROVE  SenderInv'
<1> DEFINE rec == [worker[w] EXCEPT !.pc = "reserving", !.event = e,
                                    !.left = @ \ {e}, !.read = now]
<1>1. worker[w] \in WorkerState /\ now \in Nat
  BY DEF SenderInv, TypeOK
<1>2. /\ rec \in WorkerState
      /\ rec.pc = "reserving" /\ rec.event = e /\ rec.read = now
      /\ rec.result = worker[w].result
  BY <1>1 DEF WorkerState
<1>3. worker[w].result # "ok"
  BY DEF SenderInv, OkIsBeingSaved, NextEvent
<1>4. worker' = [worker EXCEPT ![w] = rec] /\ faults' \in Nat
  BY DEF NextEvent, SenderInv, TypeOK
<1> HIDE DEF rec
<1>. QED BY <1>2, <1>3, <1>4, LocalStep DEF NextEvent, Reserved

LEMMA RestingTyped == Resting \in WorkerState
BY DEF Resting, WorkerState, Result, NoEvent

LEMMA EndBatchStep ==
  ASSUME SenderInv, NEW w \in Workers, EndBatch(w) PROVE SenderInv'
<1>1. worker[w].result # "ok"
  BY DEF SenderInv, OkIsBeingSaved, EndBatch
<1>2. Resting.pc = "idle" /\ Resting.result = "none"
  BY DEF Resting
<1>3. faults' \in Nat
  BY DEF EndBatch, SenderInv, TypeOK
<1>. QED BY <1>1, <1>2, <1>3, RestingTyped, LocalStep DEF EndBatch, Reserved

LEMMA ReserveSkipsStep ==
  ASSUME SenderInv, NEW w \in Workers, ReserveSkips(w) PROVE SenderInv'
<1> DEFINE rec == [worker[w] EXCEPT !.pc = "choosing"]
<1>1. worker[w] \in WorkerState
  BY DEF SenderInv, TypeOK
<1>2. rec \in WorkerState /\ rec.pc = "choosing" /\ rec.result = worker[w].result
  BY <1>1 DEF WorkerState
<1>3. worker[w].result # "ok"
  BY DEF SenderInv, OkIsBeingSaved, ReserveSkips
<1>4. worker' = [worker EXCEPT ![w] = rec] /\ faults' \in Nat
  BY DEF ReserveSkips, SenderInv, TypeOK
<1> HIDE DEF rec
<1>. QED BY <1>2, <1>3, <1>4, LocalStep DEF ReserveSkips, Reserved

-----------------------------------------------------------------------------
(* The two outcomes of a reservation. No other worker sends the event, so  *)
(* writing its row takes it from nobody.                                   *)
LEMMA ReservationStep ==
  ASSUME SenderInv, NEW w \in Workers,
         worker[w].pc = "reserving",
         ~ Skips(worker[w].event, worker[w].read),
         NEW row \in DeliveryRow, row.status # "SENT",
         NEW rec \in WorkerState,
         rec.event = worker[w].event, rec.read = worker[w].read,
         rec.result = worker[w].result,
         rec.pc \in {"choosing", "sending"},
         rec.pc = "sending" => row = SendingRow(worker[w].read),
         worker' = [worker EXCEPT ![w] = rec],
         delivery' = [delivery EXCEPT ![worker[w].event] = row],
         UNCHANGED <<now, created, bot, sent, unrecorded, faults>>
  PROVE  SenderInv'
<1> DEFINE ev == worker[w].event
<1>1. ev \in Events /\ worker[w].result # "ok"
  BY DEF SenderInv, WithinLease, OkIsBeingSaved
<1>2. /\ worker' \in [Workers -> WorkerState]
      /\ worker'[w] = rec
      /\ \A u \in Workers : u # w => worker'[u] = worker[u]
  BY DEF SenderInv, TypeOK
<1>3. /\ delivery' \in [Events -> DeliveryRow]
      /\ delivery'[ev] = row
      /\ \A e \in Events : e # ev => delivery'[e] = delivery[e]
  BY <1>1 DEF SenderInv, TypeOK
<1>4. \A u \in Workers : Sender(u) => worker[u].event # ev
  BY NobodyElseSends
<1>5. TypeOK'
  BY <1>2, <1>3 DEF SenderInv, TypeOK
<1>6. WithinLease'
  BY <1>2, <1>1 DEF SenderInv, WithinLease, Reserved
<1>7. HoldsReservation'
  <2>1. SUFFICES ASSUME NEW u \in Workers, worker'[u].pc \in Reserved
                 PROVE  delivery'[worker'[u].event] = SendingRow(worker'[u].read)
    BY DEF HoldsReservation, SendingRow
  <2>2. CASE u = w
    BY <2>1, <2>2, <1>2, <1>3 DEF Reserved
  <2>3. CASE u # w
    <3>1. worker[u].event \in Events /\ worker[u].event # ev
      BY <2>1, <2>3, <1>2, <1>4 DEF Sender, SenderInv, WithinLease
    <3>. QED BY <3>1, <2>1, <2>3, <1>2, <1>3 DEF SenderInv, HoldsReservation
  <2>. QED BY <2>2, <2>3
<1>8. OneSender'
  <2>1. \A u \in Workers : worker'[u].pc \in Reserved =>
          worker'[u].event = worker[u].event /\ (u # w => Sender(u))
    BY <1>2 DEF Sender
  <2>. QED BY <2>1, <1>4, <1>2 DEF SenderInv, OneSender, Sender
<1>9. OkIsBeingSaved'
  BY <1>1, <1>2 DEF SenderInv, OkIsBeingSaved
<1>10. AcceptedAccountedFor'
  <2>1. \A e \in Events : Saving(e)' <=> Saving(e)
    BY <1>1, <1>2 DEF Saving
  <2>2. ~ Saving(ev)
    BY <1>4 DEF Saving, SenderInv, OkIsBeingSaved, Sender, Reserved
  <2>3. delivery[ev].status # "SENT"
    BY DEF Skips
  <2>4. \A e \in Events : Counted(e)' = Counted(e)
    BY <2>1, <2>2, <2>3, <1>3 DEF Counted
  <2>. QED BY <2>4 DEF SenderInv, AcceptedAccountedFor
<1>. QED BY <1>5, <1>6, <1>7, <1>8, <1>9, <1>10 DEF SenderInv

LEMMA ReserveBlockedStep ==
  ASSUME SenderInv, NEW w \in Workers, ReserveBlocked(w) PROVE SenderInv'
<1> DEFINE rec == [worker[w] EXCEPT !.pc = "choosing"]
           row == BlockedRow(worker[w].read)
<1>1. worker[w] \in WorkerState /\ worker[w].read \in Nat
  BY DEF SenderInv, TypeOK, WorkerState
<1>2. /\ rec \in WorkerState /\ rec.pc = "choosing"
      /\ rec.event = worker[w].event /\ rec.read = worker[w].read
      /\ rec.result = worker[w].result
  BY <1>1 DEF WorkerState
<1>3. row \in DeliveryRow /\ row.status # "SENT"
  BY <1>1 DEF BlockedRow, DeliveryRow, DeliveryStatus
<1>4. /\ worker' = [worker EXCEPT ![w] = rec]
      /\ delivery' = [delivery EXCEPT ![worker[w].event] = row]
  BY DEF ReserveBlocked
<1>5. /\ worker[w].pc = "reserving" /\ ~ Skips(worker[w].event, worker[w].read)
      /\ UNCHANGED <<now, created, bot, sent, unrecorded, faults>>
  BY DEF ReserveBlocked
<1> HIDE DEF rec, row
<1>. QED BY <1>2, <1>3, <1>4, <1>5, ReservationStep

LEMMA ReserveStep ==
  ASSUME SenderInv, NEW w \in Workers, Reserve(w) PROVE SenderInv'
<1> DEFINE rec == [worker[w] EXCEPT !.pc = "sending"]
           row == SendingRow(worker[w].read)
<1>1. worker[w] \in WorkerState /\ worker[w].read \in Nat
  BY DEF SenderInv, TypeOK, WorkerState
<1>2. /\ rec \in WorkerState /\ rec.pc = "sending"
      /\ rec.event = worker[w].event /\ rec.read = worker[w].read
      /\ rec.result = worker[w].result
  BY <1>1 DEF WorkerState, Reserved
<1>3. row \in DeliveryRow /\ row.status # "SENT"
  BY <1>1 DEF SendingRow, DeliveryRow, DeliveryStatus
<1>4. /\ worker' = [worker EXCEPT ![w] = rec]
      /\ delivery' = [delivery EXCEPT ![worker[w].event] = row]
      /\ row = SendingRow(worker[w].read)
  BY DEF Reserve
<1>5. /\ worker[w].pc = "reserving" /\ ~ Skips(worker[w].event, worker[w].read)
      /\ UNCHANGED <<now, created, bot, sent, unrecorded, faults>>
  BY DEF Reserve
<1> HIDE DEF rec, row
<1>. QED BY <1>2, <1>3, <1>4, <1>5, ReservationStep

-----------------------------------------------------------------------------
(* Nothing added to a counter leaves it as it was.                         *)
LEMMA AddZero ==
  ASSUME NEW f \in [Events -> Nat], NEW e \in Events
  PROVE  f = [f EXCEPT ![e] = @ + 0]
<1>1. f[e] = f[e] + 0
  OBVIOUS
<1>. QED BY <1>1

LEMMA Counters ==
  ASSUME SenderInv, NEW w \in Workers, Sender(w)
  PROVE  /\ sent = [sent EXCEPT ![worker[w].event] = @ + 0]
         /\ unrecorded = [unrecorded EXCEPT ![worker[w].event] = @ + 0]
<1>1. worker[w].event \in Events
  BY DEF Sender, SenderInv, WithinLease
<1>2. sent \in [Events -> Nat] /\ unrecorded \in [Events -> Nat]
  BY DEF SenderInv, TypeOK
<1>. QED BY <1>1, <1>2, AddZero

(* The counters of event e, its accepted and its unrecorded messages, grow *)
(* by s and x; those of other events stay.                                 *)
Grow(e, s, x) ==
    /\ sent' = [sent EXCEPT ![e] = @ + s]
    /\ unrecorded' = [unrecorded EXCEPT ![e] = @ + x]

(* A sender goes on with the same reservation; s messages are accepted and *)
(* x of them are lost to it.                                               *)
LEMMA SenderGoesOn ==
  ASSUME SenderInv, NEW w \in Workers, Sender(w), worker[w].result # "ok",
         NEW rec \in WorkerState, rec.pc \in Reserved,
         rec.event = worker[w].event, rec.read = worker[w].read,
         rec.result = "ok" => rec.pc = "saving",
         worker' = [worker EXCEPT ![w] = rec],
         NEW s \in Nat, NEW x \in Nat,
         s = x + (IF rec.result = "ok" THEN 1 ELSE 0),
         Grow(worker[w].event, s, x),
         bot' \in [Tenants -> BotRow], faults' \in Nat,
         UNCHANGED <<now, created, delivery>>
  PROVE  SenderInv'
<1>0. worker[w].event \in Events
  BY DEF SenderInv, WithinLease, Sender
<1>1. PICK ev \in Events : ev = worker[w].event
  BY <1>0
<1>2. /\ worker' \in [Workers -> WorkerState]
      /\ worker'[w] = rec
      /\ \A u \in Workers : u # w => worker'[u] = worker[u]
      /\ \A u \in Workers : /\ worker'[u].pc \in Reserved <=> Sender(u)
                           /\ worker'[u].event = worker[u].event
                           /\ worker'[u].read = worker[u].read
  BY DEF SenderInv, TypeOK, Sender
<1>3. /\ sent \in [Events -> Nat] /\ unrecorded \in [Events -> Nat]
      /\ sent' \in [Events -> Nat] /\ unrecorded' \in [Events -> Nat]
      /\ sent'[ev] = sent[ev] + s /\ unrecorded'[ev] = unrecorded[ev] + x
      /\ \A e \in Events : e # ev =>
            sent'[e] = sent[e] /\ unrecorded'[e] = unrecorded[e]
  BY <1>1 DEF SenderInv, TypeOK, Grow
<1>4. TypeOK'
  BY <1>2, <1>3 DEF SenderInv, TypeOK
<1>5. WithinLease'
  <2>1. \A u \in Workers :
          worker'[u].pc \in Reserved \union {"reserving"} =>
          worker[u].pc \in Reserved \union {"reserving"}
    BY <1>2 DEF Sender
  <2>. QED BY <2>1, <1>2 DEF SenderInv, WithinLease
<1>6. HoldsReservation'
  BY <1>2 DEF SenderInv, HoldsReservation, Sender, SendingRow
<1>7. OneSender'
  BY <1>2 DEF SenderInv, OneSender, Sender
<1>8. OkIsBeingSaved'
  BY <1>2 DEF SenderInv, OkIsBeingSaved
<1>9. AcceptedAccountedFor'
  <2>1. \A e \in Events : e # ev => (Saving(e)' <=> Saving(e))
    BY <1>1, <1>2 DEF Saving
  <2>2. ~ Saving(ev) /\ delivery[ev].status = "SENDING"
    <3>1. delivery[ev] = SendingRow(worker[w].read)
      BY <1>1 DEF SenderInv, HoldsReservation, Sender
    <3>. QED BY <3>1, <1>1, OneSaves DEF SendingRow
  <2>3. Saving(ev)' <=> rec.result = "ok"
    BY <2>2, <1>1, <1>2 DEF Saving
  <2>4. sent[ev] = unrecorded[ev]
    BY <1>1, <1>3, <2>2 DEF SenderInv, AcceptedAccountedFor, Counted
  <2>5. sent'[ev] = unrecorded'[ev] + Counted(ev)'
    <3>1. Counted(ev)' = IF rec.result = "ok" THEN 1 ELSE 0
      BY <2>2, <2>3 DEF Counted
    <3>2. sent[ev] \in Nat /\ unrecorded[ev] \in Nat
      BY <1>1, <1>3
    <3>. QED BY <3>1, <3>2, <2>4, <1>3
  <2>6. \A e \in Events : e # ev => Counted(e)' = Counted(e)
    BY <2>1 DEF Counted
  <2>. QED BY <2>5, <2>6, <1>3 DEF SenderInv, AcceptedAccountedFor
<1>. QED BY <1>4, <1>5, <1>6, <1>7, <1>8, <1>9 DEF SenderInv

(* A sender is done: it saves its outcome, or it is gone.                  *)
LEMMA SenderIsDone ==
  ASSUME SenderInv, NEW w \in Workers, Sender(w),
         NEW rec \in WorkerState, rec.pc \in {"idle", "choosing"},
         rec.result # "ok",
         worker' = [worker EXCEPT ![w] = rec],
         NEW row \in DeliveryRow,
         delivery' = [delivery EXCEPT ![worker[w].event] = row],
         NEW x \in Nat,
         Grow(worker[w].event, 0, x),
         x + (IF row.status = "SENT" THEN 1 ELSE 0) =
             IF worker[w].result = "ok" THEN 1 ELSE 0,
         faults' \in Nat,
         UNCHANGED <<now, created, bot>>
  PROVE  SenderInv'
<1>0. worker[w].event \in Events
  BY DEF SenderInv, WithinLease, Sender
<1>1. PICK ev \in Events : ev = worker[w].event
  BY <1>0
<1>2. /\ worker' \in [Workers -> WorkerState]
      /\ worker'[w] = rec
      /\ \A u \in Workers : u # w => worker'[u] = worker[u]
      /\ \A u \in Workers : worker'[u].pc \in Reserved => Sender(u) /\ u # w
  BY DEF SenderInv, TypeOK, Sender, Reserved
<1>3. /\ delivery' \in [Events -> DeliveryRow]
      /\ delivery'[ev] = row
      /\ \A e \in Events : e # ev => delivery'[e] = delivery[e]
      /\ unrecorded' \in [Events -> Nat]
      /\ unrecorded'[ev] = unrecorded[ev] + x
      /\ \A e \in Events : e # ev => unrecorded'[e] = unrecorded[e]
      /\ sent' = sent
  BY <1>1, Counters DEF SenderInv, TypeOK, Grow
<1>4. \A u \in Workers : Sender(u) /\ u # w => worker[u].event # ev
  BY <1>1 DEF SenderInv, OneSender, Sender
<1>5. TypeOK'
  BY <1>2, <1>3 DEF SenderInv, TypeOK
<1>6. WithinLease'
  BY <1>2 DEF SenderInv, WithinLease, Reserved
<1>7. HoldsReservation'
  <2>1. SUFFICES ASSUME NEW u \in Workers, worker'[u].pc \in Reserved
                 PROVE  delivery'[worker'[u].event] = SendingRow(worker'[u].read)
    BY DEF HoldsReservation, SendingRow
  <2>2. Sender(u) /\ u # w /\ worker'[u] = worker[u] /\ worker[u].event # ev
    BY <2>1, <1>2, <1>4
  <2>3. worker[u].event \in Events
    BY <2>2 DEF Sender, SenderInv, WithinLease
  <2>. QED BY <2>2, <2>3, <1>3 DEF SenderInv, HoldsReservation, Sender
<1>8. OneSender'
  BY <1>2 DEF SenderInv, OneSender, Sender
<1>9. OkIsBeingSaved'
  BY <1>2 DEF SenderInv, OkIsBeingSaved
<1>10. AcceptedAccountedFor'
  <2>1. \A e \in Events : e # ev => (Saving(e)' <=> Saving(e))
    BY <1>1, <1>2 DEF Saving
  <2>2. ~ Saving(ev)'
    <3>1. \A u \in Workers :
            worker'[u].result = "ok" => u # w /\ Sender(u) /\ worker'[u] = worker[u]
      BY <1>2 DEF SenderInv, OkIsBeingSaved, Sender, Reserved
    <3>. QED BY <3>1, <1>4 DEF Saving
  <2>3. Saving(ev) <=> worker[w].result = "ok"
    BY <1>1, OneSaves DEF Saving
  <2>4. delivery[ev].status = "SENDING"
    <3>1. delivery[ev] = SendingRow(worker[w].read)
      BY <1>1 DEF SenderInv, HoldsReservation, Sender
    <3>. QED BY <3>1 DEF SendingRow
  <2>5. /\ Counted(ev) = IF worker[w].result = "ok" THEN 1 ELSE 0
        /\ Counted(ev)' = IF row.status = "SENT" THEN 1 ELSE 0
    BY <2>2, <2>3, <2>4, <1>3 DEF Counted
  <2>6. sent'[ev] = unrecorded'[ev] + Counted(ev)'
    <3>1. sent[ev] = unrecorded[ev] + Counted(ev)
      BY <1>1 DEF SenderInv, AcceptedAccountedFor
    <3>2. unrecorded[ev] \in Nat
      BY <1>1 DEF SenderInv, TypeOK
    <3>. QED BY <3>1, <3>2, <2>5, <1>3
  <2>7. \A e \in Events : e # ev => Counted(e)' = Counted(e)
    BY <2>1, <1>3 DEF Counted
  <2>. QED BY <2>6, <2>7, <1>3 DEF SenderInv, AcceptedAccountedFor
<1>. QED BY <1>5, <1>6, <1>7, <1>8, <1>9, <1>10 DEF SenderInv

-----------------------------------------------------------------------------
(* The call of the Telegram API and its outcomes.                          *)
LEMMA SendAcceptedStep ==
  ASSUME SenderInv, NEW w \in Workers, SendAccepted(w) PROVE SenderInv'
<1> DEFINE rec == [worker[w] EXCEPT !.pc = "saving", !.result = "ok"]
<1>1. worker[w] \in WorkerState
  BY DEF SenderInv, TypeOK
<1>2. /\ rec \in WorkerState /\ rec.pc \in Reserved /\ rec.pc = "saving"
      /\ rec.event = worker[w].event /\ rec.read = worker[w].read
      /\ rec.result = "ok"
  BY <1>1 DEF WorkerState, Reserved, Result
<1>3. Sender(w) /\ worker[w].result # "ok"
  BY DEF SendAccepted, Sender, Reserved, SenderInv, OkIsBeingSaved
<1>4. worker' = [worker EXCEPT ![w] = rec]
  BY DEF SendAccepted
<1>5. sent' = [sent EXCEPT ![worker[w].event] = @ + 1]
  BY DEF SendAccepted
<1>6. unrecorded' = [unrecorded EXCEPT ![worker[w].event] = @ + 0]
  BY <1>3, Counters DEF SendAccepted
<1>7. bot' \in [Tenants -> BotRow] /\ faults' \in Nat
  BY DEF SendAccepted, SenderInv, TypeOK
<1>8. /\ 1 \in Nat /\ 0 \in Nat
      /\ 1 = 0 + (IF rec.result = "ok" THEN 1 ELSE 0)
  BY <1>2
<1>9. Grow(worker[w].event, 1, 0)
  BY <1>5, <1>6 DEF Grow
<1> HIDE DEF rec
<1>. QED BY <1>2, <1>3, <1>4, <1>7, <1>8, <1>9,
            SenderGoesOn DEF SendAccepted

LEMMA SendRefusedStep ==
  ASSUME SenderInv, NEW w \in Workers, NEW result \in Result \ {"ok"},
         SendRefused(w, result)
  PROVE  SenderInv'
<1> DEFINE rec == [worker[w] EXCEPT !.pc = "recording", !.result = result]
<1>1. worker[w] \in WorkerState
  BY DEF SenderInv, TypeOK
<1>2. /\ rec \in WorkerState /\ rec.pc \in Reserved
      /\ rec.event = worker[w].event /\ rec.read = worker[w].read
      /\ rec.result # "ok"
  BY <1>1 DEF WorkerState, Reserved
<1>3. Sender(w) /\ worker[w].result # "ok"
  BY DEF SendRefused, Sender, Reserved, SenderInv, OkIsBeingSaved
<1>4. worker' = [worker EXCEPT ![w] = rec]
  BY DEF SendRefused
<1>5. sent' = [sent EXCEPT ![worker[w].event] = @ + 0]
  BY <1>3, Counters DEF SendRefused
<1>6. unrecorded' = [unrecorded EXCEPT ![worker[w].event] = @ + 0]
  BY <1>3, Counters DEF SendRefused
<1>7. bot' \in [Tenants -> BotRow] /\ faults' \in Nat
  BY DEF SendRefused, SenderInv, TypeOK
<1>8. /\ 0 \in Nat /\ 0 \in Nat
      /\ 0 = 0 + (IF rec.result = "ok" THEN 1 ELSE 0)
  BY <1>2
<1>9. Grow(worker[w].event, 0, 0)
  BY <1>5, <1>6 DEF Grow
<1> HIDE DEF rec
<1>. QED BY <1>2, <1>3, <1>4, <1>7, <1>8, <1>9,
            SenderGoesOn DEF SendRefused

LEMMA ResponseLostStep ==
  ASSUME SenderInv, NEW w \in Workers, ResponseLost(w) PROVE SenderInv'
<1> DEFINE rec == [worker[w] EXCEPT !.pc = "recording", !.result = "failed"]
<1>1. worker[w] \in WorkerState
  BY DEF SenderInv, TypeOK
<1>2. /\ rec \in WorkerState /\ rec.pc \in Reserved
      /\ rec.event = worker[w].event /\ rec.read = worker[w].read
      /\ rec.result # "ok"
  BY <1>1 DEF WorkerState, Reserved, Result
<1>3. Sender(w) /\ worker[w].result # "ok"
  BY DEF ResponseLost, Sender, Reserved, SenderInv, OkIsBeingSaved
<1>4. worker' = [worker EXCEPT ![w] = rec]
  BY DEF ResponseLost
<1>5. sent' = [sent EXCEPT ![worker[w].event] = @ + 1]
  BY DEF ResponseLost
<1>6. unrecorded' = [unrecorded EXCEPT ![worker[w].event] = @ + 1]
  BY DEF ResponseLost
<1>7. bot' \in [Tenants -> BotRow] /\ faults' \in Nat
  BY DEF ResponseLost, SenderInv, TypeOK
<1>8. /\ 1 \in Nat /\ 1 \in Nat
      /\ 1 = 1 + (IF rec.result = "ok" THEN 1 ELSE 0)
  BY <1>2
<1>9. Grow(worker[w].event, 1, 1)
  BY <1>5, <1>6 DEF Grow
<1> HIDE DEF rec
<1>. QED BY <1>2, <1>3, <1>4, <1>7, <1>8, <1>9,
            SenderGoesOn DEF ResponseLost

LEMMA RecordFailureStep ==
  ASSUME SenderInv, NEW w \in Workers, RecordFailure(w) PROVE SenderInv'
<1> DEFINE rec == [worker[w] EXCEPT !.pc = "saving"]
           tenant == TenantOf[worker[w].event]
           row == BotAfter(bot[tenant], worker[w].result)
<1>1. worker[w] \in WorkerState
  BY DEF SenderInv, TypeOK
<1>2. Sender(w) /\ worker[w].result # "ok"
  BY DEF RecordFailure, Sender, Reserved, SenderInv, OkIsBeingSaved
<1>3. /\ rec \in WorkerState /\ rec.pc \in Reserved
      /\ rec.event = worker[w].event /\ rec.read = worker[w].read
      /\ rec.result # "ok"
  BY <1>1, <1>2 DEF WorkerState, Reserved
<1>4. bot' \in [Tenants -> BotRow]
  <2>1. tenant \in Tenants
    BY <1>2, DeliveryAssumption DEF Sender, SenderInv, WithinLease
  <2>2. bot[tenant] \in BotRow
    BY <2>1 DEF SenderInv, TypeOK
  <2>3. row \in BotRow
    BY <2>2 DEF BotAfter, BotRow, BotStatus
  <2>4. bot' = [bot EXCEPT ![tenant] = row]
    BY DEF RecordFailure
  <2> HIDE DEF row, tenant
  <2>. QED BY <2>3, <2>4 DEF SenderInv, TypeOK
<1>5. worker' = [worker EXCEPT ![w] = rec]
  BY DEF RecordFailure
<1>6. sent' = [sent EXCEPT ![worker[w].event] = @ + 0]
  BY <1>2, Counters DEF RecordFailure
<1>7. unrecorded' = [unrecorded EXCEPT ![worker[w].event] = @ + 0]
  BY <1>2, Counters DEF RecordFailure
<1>8. faults' \in Nat
  BY DEF RecordFailure, SenderInv, TypeOK
<1>9. /\ 0 \in Nat /\ 0 \in Nat
      /\ 0 = 0 + (IF rec.result = "ok" THEN 1 ELSE 0)
  BY <1>3
<1>10. Grow(worker[w].event, 0, 0)
  BY <1>6, <1>7 DEF Grow
<1> HIDE DEF rec
<1>. QED BY <1>2, <1>3, <1>4, <1>5, <1>8, <1>9, <1>10,
            SenderGoesOn DEF RecordFailure

LEMMA SaveDeliveryStep ==
  ASSUME SenderInv, NEW w \in Workers, SaveDelivery(w) PROVE SenderInv'
<1> DEFINE rec == [worker[w] EXCEPT !.pc = "choosing", !.result = "none"]
           status == Outcome(worker[w].result)
           row == [delivery[worker[w].event] EXCEPT !.status = status]
<1>1. worker[w] \in WorkerState
  BY DEF SenderInv, TypeOK
<1>2. Sender(w) /\ worker[w].event \in Events
  BY DEF SaveDelivery, Sender, Reserved, SenderInv, WithinLease
<1>3. rec \in WorkerState /\ rec.pc = "choosing" /\ rec.result = "none"
  BY <1>1 DEF WorkerState, Result
<1>4. /\ status \in DeliveryStatus
      /\ 0 + (IF status = "SENT" THEN 1 ELSE 0) =
            IF worker[w].result = "ok" THEN 1 ELSE 0
  BY DEF Outcome, DeliveryStatus
<1> HIDE DEF status
<1>5. delivery[worker[w].event] \in DeliveryRow
  BY <1>2 DEF SenderInv, TypeOK
<1>6. row \in DeliveryRow /\ row.status = status
  BY <1>4, <1>5 DEF DeliveryRow
<1>7. /\ worker' = [worker EXCEPT ![w] = rec]
      /\ delivery' = [delivery EXCEPT ![worker[w].event] = row]
  BY DEF SaveDelivery, status
<1>8. Grow(worker[w].event, 0, 0) /\ faults' \in Nat
  BY <1>2, Counters DEF SaveDelivery, SenderInv, TypeOK, Grow
<1> HIDE DEF rec, row
<1>. QED BY <1>2, <1>3, <1>4, <1>6, <1>7, <1>8, SenderIsDone DEF SaveDelivery

LEMMA AbortStep ==
  ASSUME SenderInv, NEW w \in Workers, Abort(w) PROVE SenderInv'
<1>1. /\ Resting.pc = "idle" /\ Resting.result = "none"
      /\ Resting \in WorkerState
      /\ faults' \in Nat
  BY RestingTyped DEF Resting, Abort, SenderInv, TypeOK
<1>2. ASSUME ~ Sender(w) PROVE SenderInv'
  <2>1. worker[w].result # "ok"
    BY <1>2 DEF SenderInv, OkIsBeingSaved, Sender, Reserved
  <2>. QED BY <1>1, <2>1, LocalStep DEF Abort, Reserved
<1>3. ASSUME Sender(w) PROVE SenderInv'
  <2> DEFINE x == IF worker[w].result = "ok" THEN 1 ELSE 0
             row == delivery[worker[w].event]
  <2>1. worker[w].event \in Events
    BY <1>3 DEF Sender, SenderInv, WithinLease
  <2>2. row = SendingRow(worker[w].read)
    BY <1>3 DEF Sender, SenderInv, HoldsReservation
  <2>3. row.status = "SENDING"
    BY <2>2 DEF SendingRow
  <2>4. /\ row \in DeliveryRow
        /\ delivery' = [delivery EXCEPT ![worker[w].event] = row]
    BY <2>1 DEF Abort, SenderInv, TypeOK
  <2>5. Grow(worker[w].event, 0, x)
    <3>1. CASE worker[w].result = "ok"
      BY <3>1, <1>3, Counters DEF Abort, Grow
    <3>2. CASE worker[w].result # "ok"
      BY <3>2, <1>3, Counters DEF Abort, Grow
    <3>. QED BY <3>1, <3>2
  <2>6. x \in Nat /\ x + (IF row.status = "SENT" THEN 1 ELSE 0) =
                       IF worker[w].result = "ok" THEN 1 ELSE 0
    BY <2>3
  <2> HIDE DEF x, row
  <2>. QED BY <1>1, <1>3, <2>4, <2>5, <2>6, SenderIsDone DEF Abort
<1>. QED BY <1>2, <1>3

-----------------------------------------------------------------------------
(* The clock, the alert engine, the owner and stuttering leave workers,    *)
(* deliveries and messages alone.                                          *)
LEMMA UntouchedStep ==
  ASSUME SenderInv, TypeOK', WithinLease',
         UNCHANGED <<delivery, worker, sent, unrecorded>>
  PROVE  SenderInv'
<1>1. \A e \in Events : Counted(e)' = Counted(e)
  BY DEF Counted, Saving
<1>2. AcceptedAccountedFor'
  BY <1>1 DEF SenderInv, AcceptedAccountedFor
<1>3. HoldsReservation' /\ OneSender' /\ OkIsBeingSaved'
  BY DEF SenderInv, HoldsReservation, OneSender, OkIsBeingSaved, SendingRow
<1>. QED BY <1>2, <1>3 DEF SenderInv

LEMMA EnvironmentStep ==
  ASSUME SenderInv,
         \/ \E e \in Events : CreateEvent(e)
         \/ \E t \in Tenants : ConnectBot(t) \/ DisconnectBot(t)
  PROVE  SenderInv'
<1>1. UNCHANGED <<now, delivery, worker, sent, unrecorded, faults>>
  BY DEF CreateEvent, ConnectBot, DisconnectBot
<1>2. WithinLease'
  BY <1>1 DEF SenderInv, WithinLease
<1>3. ASSUME NEW e \in Events, CreateEvent(e) PROVE TypeOK'
  BY <1>1, <1>3 DEF CreateEvent, SenderInv, TypeOK
<1>4. ASSUME NEW t \in Tenants, ConnectBot(t) \/ DisconnectBot(t) PROVE TypeOK'
  <2>1. PICK row \in BotRow : bot' = [bot EXCEPT ![t] = row] /\ created' = created
    BY <1>4 DEF ConnectBot, DisconnectBot, BotRow, BotStatus
  <2>. QED BY <2>1, <1>1 DEF SenderInv, TypeOK
<1>. QED BY <1>1, <1>2, <1>3, <1>4, UntouchedStep

LEMMA TickStep == ASSUME SenderInv, Tick PROVE SenderInv'
<1>1. now \in Nat /\ now' = now + 1 /\ LeaseTime \in Nat
  BY DeliverySettings DEF Tick, SenderInv, TypeOK
<1>2. TypeOK'
  BY <1>1 DEF Tick, SenderInv, TypeOK
<1>3. WithinLease'
  <2>1. SUFFICES ASSUME NEW u \in Workers,
                        worker[u].pc \in Reserved \union {"reserving"}
                 PROVE  /\ worker[u].event \in Events
                        /\ worker[u].read <= now'
                        /\ now' <= worker[u].read + LeaseTime
    BY DEF WithinLease, Tick
  <2>2. /\ worker[u].event \in Events
        /\ worker[u].read <= now
        /\ now < worker[u].read + LeaseTime
    BY <2>1 DEF SenderInv, WithinLease, Tick
  <2>3. worker[u].read \in Nat
    BY DEF SenderInv, TypeOK, WorkerState
  <2>. QED BY <1>1, <2>2, <2>3
<1>. QED BY <1>2, <1>3, UntouchedStep DEF Tick

LEMMA StutterStep == ASSUME SenderInv, UNCHANGED vars PROVE SenderInv'
<1>1. TypeOK' /\ WithinLease'
  BY DEF SenderInv, TypeOK, WithinLease, vars
<1>. QED BY <1>1, UntouchedStep DEF vars

(* Every step of Next, one action at a time.                               *)
LEMMA SenderStep == ASSUME SenderInv, [Next]_vars PROVE SenderInv'
<1>1. CASE (\E e \in Events : CreateEvent(e)) \/ (\E t \in Tenants : ConnectBot(t) \/ DisconnectBot(t))
  BY <1>1, EnvironmentStep
<1>2. ASSUME NEW w \in Workers, DeliverStep(w) PROVE SenderInv'
  <2>1. CASE SelectBatch(w)
    BY <2>1, SelectBatchStep
  <2>2. CASE EndBatch(w)
    BY <2>2, EndBatchStep
  <2>3. CASE \E e \in Events : NextEvent(w, e)
    BY <2>3, NextEventStep
  <2>4. CASE ReserveSkips(w)
    BY <2>4, ReserveSkipsStep
  <2>5. CASE ReserveBlocked(w)
    BY <2>5, ReserveBlockedStep
  <2>6. CASE Reserve(w)
    BY <2>6, ReserveStep
  <2>7. CASE SendAccepted(w)
    BY <2>7, SendAcceptedStep
  <2>8. CASE \E result \in {"revoked", "forbidden", "undecryptable", "failed"} :
               SendRefused(w, result)
    <3>1. PICK result \in Result \ {"ok"} : SendRefused(w, result)
      BY <2>8 DEF Result
    <3>. QED BY <3>1, SendRefusedStep
  <2>9. CASE RecordFailure(w)
    BY <2>9, RecordFailureStep
  <2>10. CASE SaveDelivery(w)
    BY <2>10, SaveDeliveryStep
  <2>. QED BY <1>2, <2>1, <2>2, <2>3, <2>4, <2>5, <2>6, <2>7, <2>8, <2>9, <2>10
           DEF DeliverStep
<1>3. ASSUME NEW w \in Workers, ResponseLost(w) PROVE SenderInv'
  BY <1>3, ResponseLostStep
<1>4. ASSUME NEW w \in Workers, Abort(w) PROVE SenderInv'
  BY <1>4, AbortStep
<1>5. CASE Tick
  BY <1>5, TickStep
<1>6. CASE UNCHANGED vars
  BY <1>6, StutterStep
<1>. QED BY <1>1, <1>2, <1>3, <1>4, <1>5, <1>6 DEF Next

LEMMA SenderInit == ASSUME Init PROVE SenderInv
<1>1. TypeOK
  BY RestingTyped, DeliveryAssumption
     DEF Init, TypeOK, DeliveryRow, DeliveryStatus, BotRow, BotStatus
<1>2. \A w \in Workers : worker[w].pc = "idle" /\ worker[w].result = "none"
  BY DEF Init, Resting
<1>3. /\ WithinLease /\ HoldsReservation /\ OneSender /\ OkIsBeingSaved
  BY <1>2 DEF WithinLease, HoldsReservation, OneSender, OkIsBeingSaved, Reserved
<1>4. \A e \in Events : Counted(e) = 0 /\ sent[e] = 0 /\ unrecorded[e] = 0
  BY <1>2 DEF Counted, Saving, Init
<1>. QED BY <1>1, <1>3, <1>4 DEF SenderInv, AcceptedAccountedFor

-----------------------------------------------------------------------------
(* The inductive invariant holds in every behaviour, for any number of     *)
(* workers, tenants and events, any limit and any lease.                   *)
THEOREM SenderInvariant == Spec => []SenderInv
<1>1. Init => SenderInv
  BY SenderInit
<1>2. SenderInv /\ [Next]_vars => SenderInv'
  BY SenderStep
<1>. QED BY <1>1, <1>2, PTL DEF Spec

(* The tables and the workers keep the values the models declare.          *)
THEOREM DeliveryTyped == Spec => []TypeOK
<1>1. SenderInv => TypeOK
  BY DEF SenderInv
<1>. QED BY <1>1, SenderInvariant, PTL

(* Two workers never send the same event at the same time.                 *)
THEOREM OneSenderPerEvent == Spec => []OneSender
<1>1. SenderInv => OneSender
  BY DEF SenderInv
<1>. QED BY <1>1, SenderInvariant, PTL

(* Telegram accepts one message per SENT delivery, plus one for each       *)
(* acceptance the system never learned of.                                 *)
THEOREM NoUnexplainedMessage == Spec => []AcceptedAccountedFor
<1>1. SenderInv => AcceptedAccountedFor
  BY DEF SenderInv
<1>. QED BY <1>1, SenderInvariant, PTL

(* No step writes a row that says SENT: a reservation skips it, and a save *)
(* finds the row SENDING.                                                  *)
LEMMA SentStays ==
  ASSUME SenderInv, [Next]_vars, NEW e \in Events, delivery[e].status = "SENT"
  PROVE  delivery'[e] = delivery[e]
<1>1. ASSUME NEW w \in Workers, ReserveBlocked(w) \/ Reserve(w)
      PROVE  delivery'[e] = delivery[e]
  <2>1. delivery[worker[w].event].status # "SENT"
    BY <1>1 DEF ReserveBlocked, Reserve, Skips
  <2>2. PICK row : delivery' = [delivery EXCEPT ![worker[w].event] = row]
    BY <1>1 DEF ReserveBlocked, Reserve
  <2>. QED BY <2>1, <2>2 DEF SenderInv, TypeOK
<1>2. ASSUME NEW w \in Workers, SaveDelivery(w) PROVE delivery'[e] = delivery[e]
  <2>1. delivery[worker[w].event] = SendingRow(worker[w].read)
    BY <1>2 DEF SaveDelivery, SenderInv, HoldsReservation, Reserved
  <2>2. worker[w].event # e
    BY <2>1 DEF SendingRow
  <2>3. PICK row : delivery' = [delivery EXCEPT ![worker[w].event] = row]
    BY <1>2 DEF SaveDelivery
  <2>. QED BY <2>2, <2>3 DEF SenderInv, TypeOK
<1>3. ASSUME delivery' = delivery PROVE delivery'[e] = delivery[e]
  BY <1>3
<1>4. \/ delivery' = delivery
      \/ \E w \in Workers : ReserveBlocked(w) \/ Reserve(w) \/ SaveDelivery(w)
  <2>1. CASE \E w \in Workers : DeliverStep(w)
    BY <2>1 DEF DeliverStep, SelectBatch, EndBatch, NextEvent, ReserveSkips,
                SendAccepted, SendRefused, RecordFailure
  <2>2. CASE ~ \E w \in Workers : DeliverStep(w)
    BY <2>2 DEF Next, vars, CreateEvent, ConnectBot, DisconnectBot, ResponseLost,
                Abort, Tick
  <2>. QED BY <2>1, <2>2
<1>. QED BY <1>1, <1>2, <1>3, <1>4

(* A delivery once SENT is never written again, whatever the worker that   *)
(* chose its event earlier does.                                           *)
THEOREM SentForGood == Spec => SentIsFinal
<1>1. SenderInv /\ [Next]_vars =>
        [\A e \in Events : delivery[e].status = "SENT" => delivery'[e] = delivery[e]]_vars
  BY SentStays
<1>. QED BY <1>1, SenderInvariant, PTL DEF Spec, SentIsFinal
-----------------------------------------------------------------------------
(* How far a worker is with the event it holds.                            *)
Call(w) ==
    IF worker[w].pc \notin Reserved THEN "nobody"
    ELSE IF worker[w].result = "ok" THEN "answered"
    ELSE IF worker[w].pc = "sending" THEN "sending" ELSE "refused"

Holds(w, e) == worker[w].pc \in Reserved /\ worker[w].event = e

SenderIsHolder ==
    \A e \in Events :
        /\ \A w \in Workers : Holds(w, e) => SenderOf(e) = Call(w)
        /\ (\A w \in Workers : ~ Holds(w, e)) => SenderOf(e) = "nobody"

(* The sender of an event is the one worker that holds it.                 *)
LEMMA SenderIs == SenderInv => SenderIsHolder
<1> SUFFICES ASSUME SenderInv, NEW e \in Events
             PROVE  /\ \A w \in Workers : Holds(w, e) => SenderOf(e) = Call(w)
                    /\ (\A w \in Workers : ~ Holds(w, e)) => SenderOf(e) = "nobody"
  BY DEF SenderIsHolder
<1>1. \A u, w \in Workers : Holds(u, e) /\ Holds(w, e) => u = w
  BY DEF SenderInv, OneSender, Holds
<1>2. Saving(e) => \E w \in Workers : Holds(w, e) /\ worker[w].result = "ok"
  BY DEF SenderInv, OkIsBeingSaved, Saving, Holds, Reserved
<1>3. ASSUME NEW w \in Workers, Holds(w, e) PROVE SenderOf(e) = Call(w)
  <2>1. CASE worker[w].result = "ok"
    <3>1. Saving(e)
      BY <1>3, <2>1 DEF Saving, Holds
    <3>2. SenderOf(e) = "answered"
      BY <3>1 DEF SenderOf
    <3>3. Call(w) = "answered"
      BY <1>3, <2>1 DEF Call, Holds
    <3>. QED BY <3>2, <3>3
  <2>2. CASE worker[w].result # "ok"
    <3>1. ~ Saving(e)
      BY <1>1, <1>2, <1>3, <2>2
    <3>2. \A pcs \in SUBSET Reserved : At(e, pcs) <=> worker[w].pc \in pcs
      BY <1>1, <1>3 DEF At, Holds
    <3>3. {"sending"} \in SUBSET Reserved /\ {"recording", "saving"} \in SUBSET Reserved
      BY DEF Reserved
    <3>. QED BY <1>3, <2>2, <3>1, <3>2, <3>3 DEF SenderOf, Call, Holds, Reserved
  <2>. QED BY <2>1, <2>2
<1>4. ASSUME \A w \in Workers : ~ Holds(w, e) PROVE SenderOf(e) = "nobody"
  BY <1>2, <1>4 DEF SenderOf, At, Holds, Reserved
<1>. QED BY <1>3, <1>4

(* A worker that changes its state changes the sender of no other event.   *)
LEMMA OthersKeepSender ==
  ASSUME SenderInv, SenderInv', NEW w \in Workers, NEW e \in Events,
         \A u \in Workers : u # w => worker'[u] = worker[u],
         ~ Holds(w, e), ~ Holds(w, e)'
  PROVE  SenderOf(e)' = SenderOf(e)
<1>1. \A u \in Workers : /\ Holds(u, e)' <=> Holds(u, e)
                         /\ Holds(u, e) => Call(u)' = Call(u)
  BY DEF Holds, Call
<1>2. SenderIsHolder /\ SenderIsHolder'
  BY SenderIs, PTL
<1>. QED BY <1>1, <1>2 DEF SenderIsHolder
Statuses == [e \in Events |-> delivery[e].status]
Senders  == [e \in Events |-> SenderOf(e)]

(* A step of a worker that holds an event, or reserves one that nobody     *)
(* holds, moves the sender of that event and of no other.                  *)
LEMMA HolderMoves ==
  ASSUME SenderInv, SenderInv', NEW w \in Workers, NEW e \in Events, worker[w].event = e,
         \A u \in Workers : u # w => worker'[u] = worker[u],
         Sender(w) \/ \A u \in Workers : Sender(u) => worker[u].event # e,
         worker'[w].pc \in Reserved => worker'[w].event = e
  PROVE  /\ Senders[e] = Call(w)
         /\ Senders' = [Senders EXCEPT ![e] = Call(w)']
<1>1. SenderIsHolder /\ SenderIsHolder'
  BY SenderIs, PTL
<1>2. \A u \in Workers : Holds(u, e) => u = w
  BY DEF SenderInv, OneSender, Holds, Sender
<1>3. SenderOf(e) = Call(w)
  <2>1. CASE Sender(w)
    BY <1>1, <2>1 DEF SenderIsHolder, Holds, Sender
  <2>2. CASE ~ Sender(w)
    <3>1. \A u \in Workers : ~ Holds(u, e)
      BY <1>2, <2>2 DEF Holds, Sender
    <3>2. Call(w) = "nobody"
      BY <2>2 DEF Call, Sender
    <3>. QED BY <1>1, <3>1, <3>2 DEF SenderIsHolder
  <2>. QED BY <2>1, <2>2
<1>4. SenderOf(e)' = Call(w)'
  <2>1. CASE Holds(w, e)'
    BY <1>1, <2>1 DEF SenderIsHolder
  <2>2. CASE ~ Holds(w, e)'
    <3>1. worker'[w].pc \notin Reserved
      BY <2>2 DEF Holds
    <3>2. \A u \in Workers : ~ Holds(u, e)'
      BY <1>2, <2>2 DEF Holds
    <3>3. Call(w)' = "nobody"
      BY <3>1 DEF Call
    <3>. QED BY <1>1, <3>2, <3>3 DEF SenderIsHolder
  <2>. QED BY <2>1, <2>2
<1>5. \A a \in Events : a # e => SenderOf(a)' = SenderOf(a)
  <2> SUFFICES ASSUME NEW a \in Events, a # e PROVE SenderOf(a)' = SenderOf(a)
    OBVIOUS
  <2>1. ~ Holds(w, a) /\ ~ Holds(w, a)'
    BY DEF Holds
  <2>. QED BY <2>1, OthersKeepSender
<1>. QED BY <1>3, <1>4, <1>5 DEF Senders

(* A step in which no worker takes or leaves an event moves no sender.     *)
LEMMA SendersStay ==
  ASSUME SenderInv, SenderInv',
         \A u \in Workers : worker[u].pc \in Reserved =>
             Call(u)' = Call(u) /\ worker'[u].event = worker[u].event,
         \A u \in Workers : worker'[u].pc \in Reserved <=> worker[u].pc \in Reserved
  PROVE  Senders' = Senders
<1> SUFFICES ASSUME NEW e \in Events PROVE SenderOf(e)' = SenderOf(e)
  BY DEF Senders
<1>1. \A u \in Workers : /\ Holds(u, e)' <=> Holds(u, e)
                         /\ Holds(u, e) => Call(u)' = Call(u)
  BY DEF Holds
<1>2. SenderIsHolder /\ SenderIsHolder'
  BY SenderIs, PTL
<1>. QED BY <1>1, <1>2 DEF SenderIsHolder
(* The steps of the lifecycle, in the words of this module.                *)
LEMMA LifecycleMoves ==
  ASSUME NEW e \in Events,
         \/ /\ Statuses[e] # "SENT" /\ Senders[e] = "nobody"
            /\ \/ /\ Statuses' = [Statuses EXCEPT ![e] = "BLOCKED"]
                  /\ Senders' = [Senders EXCEPT ![e] = "nobody"]
               \/ /\ Statuses' = [Statuses EXCEPT ![e] = "SENDING"]
                  /\ Senders' = [Senders EXCEPT ![e] = "sending"]
            /\ UNCHANGED <<sent, unrecorded>>
         \/ /\ Senders[e] = "sending" /\ Statuses' = Statuses
            /\ \/ /\ Senders' = [Senders EXCEPT ![e] = "answered"]
                  /\ sent' = [sent EXCEPT ![e] = @ + 1] /\ unrecorded' = unrecorded
               \/ /\ Senders' = [Senders EXCEPT ![e] = "refused"]
                  /\ UNCHANGED <<sent, unrecorded>>
               \/ /\ Senders' = [Senders EXCEPT ![e] = "refused"]
                  /\ sent' = [sent EXCEPT ![e] = @ + 1]
                  /\ unrecorded' = [unrecorded EXCEPT ![e] = @ + 1]
         \/ /\ Senders' = [Senders EXCEPT ![e] = "nobody"] /\ sent' = sent
            /\ \/ /\ Senders[e] = "answered" /\ unrecorded' = unrecorded
                  /\ Statuses' = [Statuses EXCEPT ![e] = "SENT"]
               \/ /\ Senders[e] = "refused" /\ unrecorded' = unrecorded
                  /\ Statuses' = [Statuses EXCEPT ![e] = "FAILED"]
               \/ /\ Senders[e] # "nobody" /\ Statuses' = Statuses
                  /\ unrecorded' = IF Senders[e] = "answered"
                                   THEN [unrecorded EXCEPT ![e] = @ + 1] ELSE unrecorded
  PROVE  Lifecycle!Next
<1>1. Lifecycle!AlertStep(e)
  BY DEF Statuses, Senders, Lifecycle!AlertStep, Lifecycle!Block, Lifecycle!Hold,
         Lifecycle!Accept, Lifecycle!Refuse, Lifecycle!AcceptUnheard, Lifecycle!Record,
         Lifecycle!Fail, Lifecycle!Vanish, Lifecycle!Moves, Lifecycle!Becomes
<1>. QED BY <1>1 DEF Lifecycle!Next
Lives == Lifecycle!Next \/ UNCHANGED <<Statuses, Senders, sent, unrecorded>>

(* A step of a worker that reserves, calls Telegram, saves or vanishes is a *)
(* step of the life of the event it holds.                                 *)
LEMMA HolderLives ==
  ASSUME SenderInv, SenderInv', NEW w \in Workers,
         \/ ReserveBlocked(w) \/ Reserve(w) \/ SendAccepted(w) \/ ResponseLost(w)
         \/ (\E result \in {"revoked", "forbidden", "undecryptable", "failed"} :
               SendRefused(w, result))
         \/ SaveDelivery(w) \/ (Abort(w) /\ Sender(w))
  PROVE  Lives
<1>1. PICK e \in Events : e = worker[w].event
  <2>1. worker[w].pc \in Reserved \union {"reserving"}
    BY DEF ReserveBlocked, Reserve, SendAccepted, ResponseLost, SendRefused, SaveDelivery,
           Sender, Reserved
  <2>. QED BY <2>1 DEF SenderInv, WithinLease
<1>2. \A u \in Workers : u # w => worker'[u] = worker[u]
  BY DEF ReserveBlocked, Reserve, SendAccepted, ResponseLost, SendRefused, SaveDelivery, Abort,
         SenderInv, TypeOK
<1>3. Sender(w) \/ \A u \in Workers : Sender(u) => worker[u].event # e
  <2>1. CASE ReserveBlocked(w) \/ Reserve(w)
    BY <1>1, <2>1, NobodyElseSends DEF ReserveBlocked, Reserve
  <2>2. CASE ~ (ReserveBlocked(w) \/ Reserve(w))
    BY <2>2 DEF SendAccepted, ResponseLost, SendRefused, SaveDelivery, Sender, Reserved
  <2>. QED BY <2>1, <2>2
<1>4. worker'[w].pc \in Reserved => worker'[w].event = e
  BY <1>1 DEF ReserveBlocked, Reserve, SendAccepted, ResponseLost, SendRefused, SaveDelivery,
              Abort, Resting, Reserved, SenderInv, TypeOK, WorkerState
<1>5. Senders[e] = Call(w) /\ Senders' = [Senders EXCEPT ![e] = Call(w)']
  BY <1>1, <1>2, <1>3, <1>4, HolderMoves
<1>6. worker[w].result = "ok" => worker[w].pc = "saving"
  BY DEF SenderInv, OkIsBeingSaved
<1>7. CASE ReserveBlocked(w)
  <2>1. Statuses[e] # "SENT" /\ Call(w) = "nobody" /\ Call(w)' = "nobody"
    BY <1>1, <1>7
       DEF ReserveBlocked, Skips, Statuses, Call, Reserved, SenderInv, TypeOK, WorkerState
  <2>2. Statuses' = [Statuses EXCEPT ![e] = "BLOCKED"]
    BY <1>1, <1>7 DEF ReserveBlocked, BlockedRow, Statuses, SenderInv, TypeOK, DeliveryRow
  <2>. QED BY <1>5, <1>7, <2>1, <2>2, LifecycleMoves DEF ReserveBlocked, Lives
<1>8. CASE Reserve(w)
  <2>1. Statuses[e] # "SENT" /\ Call(w) = "nobody" /\ Call(w)' = "sending"
    BY <1>1, <1>6, <1>8
       DEF Reserve, Skips, Statuses, Call, Reserved, SenderInv, TypeOK, WorkerState
  <2>2. Statuses' = [Statuses EXCEPT ![e] = "SENDING"]
    BY <1>1, <1>8 DEF Reserve, SendingRow, Statuses, SenderInv, TypeOK, DeliveryRow
  <2>. QED BY <1>5, <1>8, <2>1, <2>2, LifecycleMoves DEF Reserve, Lives
<1>9. CASE SendAccepted(w)
  <2>1. Call(w) = "sending" /\ Call(w)' = "answered" /\ Statuses' = Statuses
    BY <1>6, <1>9 DEF SendAccepted, Statuses, Call, Reserved, SenderInv, TypeOK, WorkerState
  <2>. QED BY <1>1, <1>5, <1>9, <2>1, LifecycleMoves DEF SendAccepted, Lives
<1>10. CASE \E result \in {"revoked", "forbidden", "undecryptable", "failed"} :
              SendRefused(w, result)
  <2>1. Call(w) = "sending" /\ Call(w)' = "refused" /\ Statuses' = Statuses
    BY <1>6, <1>10 DEF SendRefused, Statuses, Call, Reserved, SenderInv, TypeOK, WorkerState
  <2>. QED BY <1>5, <1>10, <2>1, LifecycleMoves DEF SendRefused, Lives
<1>11. CASE ResponseLost(w)
  <2>1. Call(w) = "sending" /\ Call(w)' = "refused" /\ Statuses' = Statuses
    BY <1>6, <1>11 DEF ResponseLost, Statuses, Call, Reserved, SenderInv, TypeOK, WorkerState
  <2>. QED BY <1>1, <1>5, <1>11, <2>1, LifecycleMoves DEF ResponseLost, Lives
<1>12. CASE SaveDelivery(w)
  <2>1. /\ Call(w) = IF worker[w].result = "ok" THEN "answered" ELSE "refused"
        /\ Call(w)' = "nobody"
    BY <1>12 DEF SaveDelivery, Call, Reserved, SenderInv, TypeOK, WorkerState
  <2>2. Statuses' = [Statuses EXCEPT ![e] = Outcome(worker[w].result)]
    BY <1>1, <1>12 DEF SaveDelivery, Statuses, SenderInv, TypeOK, DeliveryRow
  <2>. QED BY <1>5, <1>12, <2>1, <2>2, LifecycleMoves DEF SaveDelivery, Outcome, Lives
<1>13. CASE Abort(w) /\ Sender(w)
  <2>1. /\ Call(w) # "nobody" /\ Call(w)' = "nobody" /\ Statuses' = Statuses
        /\ Call(w) = "answered" <=> worker[w].result = "ok"
    BY <1>13 DEF Abort, Sender, Statuses, Call, Resting, Reserved, SenderInv, TypeOK
  <2>. QED BY <1>1, <1>5, <1>13, <2>1, LifecycleMoves DEF Abort, Lives
<1>. QED BY <1>7, <1>8, <1>9, <1>10, <1>11, <1>12, <1>13

(* No other step shows in the life of an event.                            *)
LEMMA OthersLive ==
  ASSUME SenderInv, SenderInv', UNCHANGED <<Statuses, sent, unrecorded>>,
         \A u \in Workers :
             /\ worker'[u].pc \in Reserved <=> worker[u].pc \in Reserved
             /\ worker[u].pc \in Reserved =>
                   Call(u)' = Call(u) /\ worker'[u].event = worker[u].event
  PROVE  Lives
BY SendersStay DEF Lives

(* Every step of the deliveries is a step of the life of one event, or none.*)
LEMMA DeliveryLives ==
  ASSUME SenderInv, SenderInv', [Next]_vars PROVE Lives
<1>1. ASSUME NEW w \in Workers,
             \/ SelectBatch(w) \/ EndBatch(w) \/ ReserveSkips(w) \/ (Abort(w) /\ ~ Sender(w))
             \/ \E e \in Events : NextEvent(w, e)
      PROVE  Lives
  <2>1. worker[w].pc \notin Reserved
    BY <1>1 DEF SelectBatch, EndBatch, ReserveSkips, NextEvent, Reserved, Sender
  <2>2. /\ \A u \in Workers : u # w => worker'[u] = worker[u]
        /\ worker'[w].pc \notin Reserved
    <3>1. CASE EndBatch(w) \/ Abort(w)
      BY <3>1 DEF EndBatch, Abort, Resting, Reserved, SenderInv, TypeOK
    <3>2. CASE SelectBatch(w)
      BY <3>2 DEF SelectBatch, Reserved, SenderInv, TypeOK, WorkerState
    <3>3. CASE ReserveSkips(w)
      BY <3>3 DEF ReserveSkips, Reserved, SenderInv, TypeOK, WorkerState
    <3>4. CASE \E e \in Events : NextEvent(w, e)
      BY <3>4 DEF NextEvent, Reserved, SenderInv, TypeOK, WorkerState
    <3>. QED BY <1>1, <3>1, <3>2, <3>3, <3>4
  <2>3. UNCHANGED <<Statuses, sent, unrecorded>>
    BY <1>1 DEF SelectBatch, EndBatch, ReserveSkips, NextEvent, Abort, Statuses, Sender,
                SenderInv, OkIsBeingSaved, Reserved
  <2>. QED BY <2>1, <2>2, <2>3, OthersLive DEF Call
<1>2. ASSUME NEW w \in Workers, RecordFailure(w) PROVE Lives
  <2>1. /\ \A u \in Workers : u # w => worker'[u] = worker[u]
        /\ worker'[w].pc = "saving" /\ worker[w].pc = "recording"
        /\ worker'[w].event = worker[w].event /\ worker'[w].result = worker[w].result
    BY <1>2 DEF RecordFailure, SenderInv, TypeOK, WorkerState
  <2>2. UNCHANGED <<Statuses, sent, unrecorded>>
    BY <1>2 DEF RecordFailure, Statuses
  <2>. QED BY <2>1, <2>2, OthersLive DEF Call, Reserved
<1>3. CASE UNCHANGED <<delivery, worker, sent, unrecorded>>
  BY <1>3, OthersLive DEF Statuses, Call
<1>4. CASE \/ (\E d \in Events : CreateEvent(d)) \/ Tick \/ UNCHANGED vars
           \/ \E t \in Tenants : ConnectBot(t) \/ DisconnectBot(t)
  BY <1>3, <1>4 DEF CreateEvent, Tick, vars, ConnectBot, DisconnectBot
<1>. QED BY <1>1, <1>2, <1>4, HolderLives DEF Next, DeliverStep

(* Senders, batches and leases implement the life of a delivery, in which   *)
(* an event has one sender, one call per reservation, and its own answer.  *)
THEOREM DeliveryImplementsLifecycle == Spec => AlertLifecycleSpec
<1>1. Init => Lifecycle!Init
  BY SenderInit DEF Init, Lifecycle!Init, Resting, SenderOf, Saving, At
<1>2. SenderInv /\ SenderInv' /\ [Next]_vars => [Lifecycle!Next]_Lifecycle!lifecycleVars
  BY DeliveryLives DEF Lives, Statuses, Senders, Lifecycle!lifecycleVars
<1>. QED BY <1>1, <1>2, SenderInvariant, PTL DEF Spec, AlertLifecycleSpec, Lifecycle!Spec

(* A lost acceptance takes a fault.                                        *)
LostByFaults == \A e \in Events : unrecorded[e] <= faults

(* An alert reaches its owner once, and once more per lost answer or death. *)
RepeatsAreFaults == \A e \in Events : sent[e] <= faults + 1

(* Without faults no alert is sent twice.                                  *)
THEOREM RepeatsTakeFaults == Spec => []RepeatsAreFaults
<1>1. Init => LostByFaults
  BY DEF Init, LostByFaults
<1>2. SenderInv /\ LostByFaults /\ [Next]_vars => LostByFaults'
  <2> SUFFICES ASSUME SenderInv, LostByFaults, [Next]_vars, NEW e \in Events
               PROVE  unrecorded'[e] <= faults'
    BY DEF LostByFaults
  <2>1. unrecorded[e] \in Nat /\ faults \in Nat /\ unrecorded[e] <= faults
    BY DEF SenderInv, TypeOK, LostByFaults
  <2>2. CASE UNCHANGED <<unrecorded, faults>>
    BY <2>1, <2>2
  <2>3. ASSUME NEW w \in Workers, ResponseLost(w) \/ Abort(w)
        PROVE  unrecorded'[e] <= faults'
    <3>1. /\ faults' = faults + 1
          /\ unrecorded'[e] \in {unrecorded[e], unrecorded[e] + 1}
      BY <2>3 DEF ResponseLost, Abort, SenderInv, TypeOK
    <3>. QED BY <2>1, <3>1
  <2>. QED BY <2>2, <2>3 DEF Next, vars, CreateEvent, ConnectBot, DisconnectBot, DeliverStep,
           SelectBatch, EndBatch, NextEvent, ReserveSkips, ReserveBlocked, Reserve, SendAccepted,
           SendRefused, RecordFailure, SaveDelivery, Tick
<1>3. SenderInv /\ LostByFaults => RepeatsAreFaults
  <2> SUFFICES ASSUME SenderInv, LostByFaults, NEW e \in Events PROVE sent[e] <= faults + 1
    BY DEF RepeatsAreFaults
  <2>1. Counted(e) \in {0, 1}
    BY DEF Counted
  <2>2. unrecorded[e] \in Nat /\ faults \in Nat /\ unrecorded[e] <= faults
    BY DEF SenderInv, TypeOK, LostByFaults
  <2>3. sent[e] = unrecorded[e] + Counted(e)
    BY DEF SenderInv, AcceptedAccountedFor
  <2>. QED BY <2>1, <2>2, <2>3
<1>. QED BY <1>1, <1>2, <1>3, SenderInvariant, PTL DEF Spec

-----------------------------------------------------------------------------
(* The queue of an alert: the older ones that a batch takes before it.     *)
Ahead(e) == {d \in Pending : d < e}

(* What the limit promises to an alert: only an event committed late, with *)
(* an older date, joins the queue before it; and an alert of the next      *)
(* batch is in all batches to come until it is SENT, unless such an event  *)
(* is committed before it. No batch, failure or blocked bot costs an alert *)
(* its turn.                                                               *)
Late(e) == {d \in created' \ created : d < e}

TurnsAreKept ==
    [][\A e \in created :
         /\ Ahead(e)' \subseteq Ahead(e) \union Late(e)
         /\ e \in Oldest(Pending) /\ Late(e) = {}
              => e \in Oldest(Pending)' \/ delivery'[e].status = "SENT"]_vars

(* A SENT alert never comes back into the queue.                           *)
LEMMA QueueShrinks ==
  ASSUME SenderInv, SenderInv', [Next]_vars, NEW e \in created
  PROVE  /\ Ahead(e)' \subseteq Ahead(e) \union Late(e)
         /\ IsFiniteSet(Ahead(e)) /\ e \in Events /\ e \in created'
<1>1. created \subseteq Events /\ created' \subseteq Events
  BY DEF SenderInv, TypeOK
<1>2. created \subseteq created'
  BY <1>1 DEF Next, vars, CreateEvent, ConnectBot, DisconnectBot, DeliverStep, SelectBatch,
     EndBatch, NextEvent, ReserveSkips, ReserveBlocked, Reserve, SendAccepted, SendRefused,
     ResponseLost, Abort, RecordFailure, SaveDelivery, Tick
<1>3. e \in Events /\ e \in created'
  BY <1>1, <1>2
<1>4. ASSUME NEW d \in Ahead(e)', d \in created PROVE d \in Ahead(e)
  <2>1. d < e /\ delivery'[d].status # "SENT"
    BY <1>4 DEF Ahead, Pending
  <2>2. delivery[d].status # "SENT"
    BY <1>1, <1>4, <2>1, SentStays DEF vars
  <2>. QED BY <1>4, <2>1, <2>2 DEF Ahead, Pending
<1>5. ASSUME NEW d \in Ahead(e)', d \notin created PROVE d \in Late(e)
  BY <1>5 DEF Ahead, Pending, Late
<1>6. IsFiniteSet(Ahead(e))
  <2>1. IsFiniteSet(Events)
    BY DeliveryAssumption, FS_Interval DEF Events
  <2>2. Ahead(e) \in SUBSET Events
    BY <1>1 DEF Ahead, Pending
  <2>. QED BY <2>1, <2>2, FS_Subset
<1>. QED BY <1>3, <1>4, <1>5, <1>6

(* Batches keep the order of the alerts, whatever fails or is blocked.     *)
THEOREM TurnsKept == Spec => TurnsAreKept
<1>1. ASSUME SenderInv, SenderInv', [Next]_vars, NEW e \in created
      PROVE  /\ Ahead(e)' \subseteq Ahead(e) \union Late(e)
             /\ e \in Oldest(Pending) /\ Late(e) = {}
                  => e \in Oldest(Pending)' \/ delivery'[e].status = "SENT"
  <2>1. /\ Ahead(e)' \subseteq Ahead(e) \union Late(e) /\ IsFiniteSet(Ahead(e))
        /\ e \in Events /\ e \in created'
    BY <1>1, QueueShrinks
  <2>2. ASSUME e \in Oldest(Pending), Late(e) = {}, delivery'[e].status # "SENT"
        PROVE  e \in Oldest(Pending)'
    <3>1. Cardinality(Ahead(e)) < Limit
      BY <2>2 DEF Oldest, Ahead
    <3>2. Ahead(e)' \subseteq Ahead(e)
      BY <2>1, <2>2
    <3>3. /\ Cardinality(Ahead(e)') <= Cardinality(Ahead(e))
          /\ Cardinality(Ahead(e)) \in Nat
          /\ Cardinality(Ahead(e)') \in Nat
      BY <2>1, <3>2, FS_Subset, FS_CardinalityType
    <3>4. Cardinality(Ahead(e)') < Limit
      BY <3>1, <3>3, DeliverySettings
    <3>5. e \in Pending'
      BY <2>1, <2>2 DEF Pending
    <3>. QED BY <3>4, <3>5 DEF Oldest, Ahead
  <2>. QED BY <2>1, <2>2
<1>2. SenderInv /\ SenderInv' /\ [Next]_vars =>
        [\A e \in created :
           /\ Ahead(e)' \subseteq Ahead(e) \union Late(e)
           /\ e \in Oldest(Pending) /\ Late(e) = {}
                => e \in Oldest(Pending)' \/ delivery'[e].status = "SENT"]_vars
  BY <1>1
<1>. QED BY <1>2, SenderInvariant, PTL DEF Spec, TurnsAreKept
=============================================================================
