---------------------------- MODULE AlertDelivery ----------------------------
(***************************************************************************)
(* Delivery of alert events through the personal bots,                     *)
(* src/telegram_bots/delivery.py: deliver_pending_alerts, run by workers   *)
(* after each collection and by the command of the same name, with the     *)
(* reservation that lets only one of them send a message.                  *)
(*                                                                         *)
(* An action is one transaction, one autocommitted save, or the call of    *)
(* the Telegram API between them. attempt_count, error codes and           *)
(* last_seen_at are left out: no step reads them.                          *)
(***************************************************************************)
EXTENDS Integers, FiniteSets

CONSTANTS
    Workers,      \* processes that deliver
    Tenants,      \* each with one personal bot
    LastEvent,    \* alert events 1..LastEvent, ordered by (occurred_at, id)
    TenantOf,     \* [1..LastEvent -> Tenants]
    Limit,        \* deliver_pending_alerts(limit=...)
    LeaseTime,    \* TELEGRAM_DELIVERY_LEASE_SECONDS
    MaxFaults,    \* bound: lost responses and aborted deliveries
    LastFault,    \* bound: faults come up to this time
    MaxTime       \* bound: the clock

Events == 1..LastEvent

ASSUME DeliveryAssumption ==
    /\ {LastEvent, MaxFaults, LastFault, MaxTime} \subseteq Nat
    /\ TenantOf \in [Events -> Tenants]

(* deliver_pending_alerts refuses other limits. The lease comes unchecked  *)
(* from the environment; less than 0 would reserve nothing.                *)
ASSUME DeliverySettings == Limit \in Nat \ {0} /\ LeaseTime \in Nat

VARIABLES
    now,       \* the wall clock
    created,   \* alert events the alert engine has committed, in any order
    delivery,  \* [Events -> NotificationDelivery row, channel TELEGRAM_PERSONAL]
    bot,       \* [Tenants -> ManagedBot row]
    worker,    \* [Workers -> local state of deliver_pending_alerts]
    sent,      \* [Events -> messages Telegram accepted]
    unrecorded, \* [Events -> accepted messages whose acceptance was not saved]
    faults

vars == <<now, created, delivery, bot, worker, sent, unrecorded, faults>>

-----------------------------------------------------------------------------
(* PENDING exists inside the reserving transaction only.                   *)
DeliveryStatus == {"NONE", "SENDING", "SENT", "FAILED", "BLOCKED"}
BotStatus == {"ACTIVE", "BLOCKED", "REVOKED", "ERROR", "DISCONNECTED"}
Result    == {"none", "ok", "revoked", "forbidden", "undecryptable", "failed"}

NoEvent == 0
Resting == [pc |-> "idle", left |-> {}, event |-> NoEvent, read |-> 0,
            result |-> "none"]
Reserved == {"sending", "recording", "saving"}

DeliveryRow == [status : DeliveryStatus, attempted_at : Nat]
BotRow      == [status : BotStatus, linked : BOOLEAN]
WorkerState == [pc : {"idle", "choosing", "reserving"} \union Reserved,
                left : SUBSET Events, event : Events \union {NoEvent},
                read : Nat, result : Result]

TypeOK ==
    /\ now \in Nat
    /\ created \subseteq Events
    /\ delivery \in [Events -> DeliveryRow]
    /\ bot \in [Tenants -> BotRow]
    /\ worker \in [Workers -> WorkerState]
    /\ sent \in [Events -> Nat] /\ unrecorded \in [Events -> Nat]
    /\ faults \in Nat

Init ==
    /\ now = 0 /\ created = {} /\ faults = 0
    /\ delivery = [e \in Events |-> [status |-> "NONE", attempted_at |-> 0]]
    /\ bot = [t \in Tenants |-> [status |-> "DISCONNECTED", linked |-> FALSE]]
    /\ worker = [w \in Workers |-> Resting]
    /\ sent = [e \in Events |-> 0] /\ unrecorded = [e \in Events |-> 0]

-----------------------------------------------------------------------------
(* What the rest of the system does to these tables.                       *)

(* evaluate_collection_alerts commits an event dated by its observation:   *)
(* an event of an overlapping collection, or of the same batch, may be     *)
(* committed after one with a later date.                                  *)
CreateEvent(e) ==
    /\ e \notin created
    /\ created' = created \union {e}
    /\ UNCHANGED <<now, delivery, bot, worker, sent, unrecorded, faults>>

(* The owner connects a bot and sends /start, or disconnects it.           *)
ConnectBot(t) ==
    /\ bot' = [bot EXCEPT ![t] = [status |-> "ACTIVE", linked |-> TRUE]]
    /\ UNCHANGED <<now, created, delivery, worker, sent, unrecorded, faults>>

DisconnectBot(t) ==
    /\ bot' = [bot EXCEPT ![t] = [status |-> "DISCONNECTED", linked |-> FALSE]]
    /\ UNCHANGED <<now, created, delivery, worker, sent, unrecorded, faults>>

-----------------------------------------------------------------------------
(* The query of deliver_pending_alerts: the oldest events not yet SENT.    *)
(* Mutant: deliveries that failed or were blocked are over.                *)
PendingUnfinished ==
    {e \in created : delivery[e].status \in {"NONE", "SENDING"}}

Pending == {e \in created : delivery[e].status # "SENT"}

Oldest(S) == {e \in S : Cardinality({d \in S : d < e}) < Limit}

SelectBatch(w) ==
    /\ worker[w].pc = "idle"
    /\ Pending # {}
    /\ worker' = [worker EXCEPT ![w].pc = "choosing", ![w].left = Oldest(Pending)]
    /\ UNCHANGED <<now, created, delivery, bot, sent, unrecorded, faults>>

(* The loop: the next event of the list, with the clock read at the start  *)
(* of deliver_alert_event, or the end.                                     *)
NextEvent(w, e) ==
    /\ worker[w].pc = "choosing"
    /\ e \in worker[w].left
    /\ \A d \in worker[w].left : e <= d
    /\ worker' = [worker EXCEPT ![w].pc = "reserving", ![w].event = e,
                                ![w].left = @ \ {e}, ![w].read = now]
    /\ UNCHANGED <<now, created, delivery, bot, sent, unrecorded, faults>>

EndBatch(w) ==
    /\ worker[w].pc = "choosing"
    /\ worker[w].left = {}
    /\ worker' = [worker EXCEPT ![w] = Resting]
    /\ UNCHANGED <<now, created, delivery, bot, sent, unrecorded, faults>>

(* _reserve_delivery, on the locked row: a sender keeps the event for      *)
(* LeaseTime.                                                              *)
(* Mutants: the boundary belongs to the next sender; the lease never ends. *)
BusyUntilLease(e, t) ==
    /\ delivery[e].status = "SENDING"
    /\ delivery[e].attempted_at > t - LeaseTime
BusyForever(e, t) == delivery[e].status = "SENDING"

Busy(e, t) ==
    /\ delivery[e].status = "SENDING"
    /\ delivery[e].attempted_at >= t - LeaseTime

(* Mutant: the query of SelectBatch is trusted to exclude what was sent.   *)
SkipsBusy(e, t) == Busy(e, t)

Skips(e, t) == delivery[e].status = "SENT" \/ Busy(e, t)

Usable(t) == bot[t].status = "ACTIVE" /\ bot[t].linked

(* Mutant: the row is saved with the status it was created with.           *)
BlockedAsCreated(t) == [status |-> "PENDING", attempted_at |-> t]

BlockedRow(t) == [status |-> "BLOCKED", attempted_at |-> t]

SendingRow(t) == [status |-> "SENDING", attempted_at |-> t]

ReserveSkips(w) ==
    /\ worker[w].pc = "reserving"
    /\ Skips(worker[w].event, worker[w].read)
    /\ worker' = [worker EXCEPT ![w].pc = "choosing"]
    /\ UNCHANGED <<now, created, delivery, bot, sent, unrecorded, faults>>

ReserveBlocked(w) ==
    LET e == worker[w].event IN
    /\ worker[w].pc = "reserving"
    /\ ~ Skips(e, worker[w].read)
    /\ ~ Usable(TenantOf[e])
    /\ delivery' = [delivery EXCEPT ![e] = BlockedRow(worker[w].read)]
    /\ worker' = [worker EXCEPT ![w].pc = "choosing"]
    /\ UNCHANGED <<now, created, bot, sent, unrecorded, faults>>

Reserve(w) ==
    LET e == worker[w].event IN
    /\ worker[w].pc = "reserving"
    /\ ~ Skips(e, worker[w].read)
    /\ Usable(TenantOf[e])
    /\ delivery' = [delivery EXCEPT ![e] = SendingRow(worker[w].read)]
    /\ worker' = [worker EXCEPT ![w].pc = "sending"]
    /\ UNCHANGED <<now, created, bot, sent, unrecorded, faults>>

FaultPossible == faults < MaxFaults /\ now <= LastFault

(* sendMessage with the token read at the reservation. Telegram accepts    *)
(* the message or answers 401, 403 or another error, or nothing arrives.   *)
SendAccepted(w) ==
    /\ worker[w].pc = "sending"
    /\ sent' = [sent EXCEPT ![worker[w].event] = @ + 1]
    /\ worker' = [worker EXCEPT ![w].pc = "saving", ![w].result = "ok"]
    /\ UNCHANGED <<now, created, delivery, bot, unrecorded, faults>>

SendRefused(w, result) ==
    /\ worker[w].pc = "sending"
    /\ worker' = [worker EXCEPT ![w].pc = "recording", ![w].result = result]
    /\ UNCHANGED <<now, created, delivery, bot, sent, unrecorded, faults>>

(* Accepted, but the answer does not come in time, or is not the message   *)
(* it should be: an error for the caller.                                  *)
ResponseLost(w) ==
    /\ FaultPossible
    /\ worker[w].pc = "sending"
    /\ sent' = [sent EXCEPT ![worker[w].event] = @ + 1]
    /\ unrecorded' = [unrecorded EXCEPT ![worker[w].event] = @ + 1]
    /\ worker' = [worker EXCEPT ![w].pc = "recording", ![w].result = "failed"]
    /\ faults' = faults + 1
    /\ UNCHANGED <<now, created, delivery, bot>>

(* _record_api_failure, mark_bot_revoked and, for a token that cannot be   *)
(* decrypted, _client_for write the bot's row whatever it says now.        *)
BotAfter(row, result) ==
    CASE result = "revoked"       -> [status |-> "REVOKED", linked |-> FALSE]
      [] result = "forbidden"     -> [row EXCEPT !.status = "BLOCKED"]
      [] result = "undecryptable" -> [row EXCEPT !.status = "ERROR"]
      [] OTHER                    -> row

RecordFailure(w) ==
    /\ worker[w].pc = "recording"
    /\ bot' = [bot EXCEPT ![TenantOf[worker[w].event]] = BotAfter(@, worker[w].result)]
    /\ worker' = [worker EXCEPT ![w].pc = "saving"]
    /\ UNCHANGED <<now, created, delivery, sent, unrecorded, faults>>

(* Then the delivery, without a look at its present status.                *)
(* Mutant: a transport error counts as delivered.                          *)
OutcomeOptimistic(result) == IF result \in {"ok", "failed"} THEN "SENT" ELSE "FAILED"

Outcome(result) == IF result = "ok" THEN "SENT" ELSE "FAILED"

SaveDelivery(w) ==
    /\ worker[w].pc = "saving"
    /\ delivery' = [delivery EXCEPT ![worker[w].event].status =
                                      Outcome(worker[w].result)]
    /\ worker' = [worker EXCEPT ![w].pc = "choosing", ![w].result = "none"]
    /\ UNCHANGED <<now, created, bot, sent, unrecorded, faults>>

(* The process dies, or an exception that deliver_alert_event does not     *)
(* catch ends the batch; an accepted message may go unrecorded.            *)
Abort(w) ==
    /\ FaultPossible
    /\ worker[w].pc # "idle"
    /\ unrecorded' = IF worker[w].result = "ok"
                     THEN [unrecorded EXCEPT ![worker[w].event] = @ + 1]
                     ELSE unrecorded
    /\ worker' = [worker EXCEPT ![w] = Resting]
    /\ faults' = faults + 1
    /\ UNCHANGED <<now, created, delivery, bot, sent>>

(* A delivery takes no longer than its reservation: the API call gives up  *)
(* after TELEGRAM_API_TIMEOUT_SECONDS, far less than the lease.            *)
Tick ==
    /\ now < MaxTime
    /\ \A w \in Workers :
         worker[w].pc \in Reserved \union {"reserving"} =>
             now < worker[w].read + LeaseTime
    /\ now' = now + 1
    /\ UNCHANGED <<created, delivery, bot, worker, sent, unrecorded, faults>>

DeliverStep(w) ==
    \/ SelectBatch(w) \/ EndBatch(w)
    \/ \E e \in Events : NextEvent(w, e)
    \/ ReserveSkips(w) \/ ReserveBlocked(w) \/ Reserve(w)
    \/ SendAccepted(w)
    \/ \E result \in {"revoked", "forbidden", "undecryptable", "failed"} :
         SendRefused(w, result)
    \/ RecordFailure(w) \/ SaveDelivery(w)

Next ==
    \/ \E e \in Events : CreateEvent(e)
    \/ \E t \in Tenants : ConnectBot(t) \/ DisconnectBot(t)
    \/ \E w \in Workers : DeliverStep(w) \/ ResponseLost(w) \/ Abort(w)
    \/ Tick

Spec == Init /\ [][Next]_vars

(* Collections keep coming, each followed by a delivery; a worker goes on, *)
(* and time passes.                                                        *)
FairSpec == /\ Spec
            /\ \A w \in Workers : WF_vars(DeliverStep(w))
            /\ WF_vars(Tick)

-----------------------------------------------------------------------------
(* An event has one sender at a time: whoever reserves it finds neither a  *)
(* finished delivery nor an unexpired reservation, also with a list of     *)
(* events chosen long before.                                              *)
OneSender ==
    \A u, w \in Workers :
        /\ worker[u].pc \in Reserved /\ worker[w].pc \in Reserved
        /\ worker[u].event = worker[w].event
        => u = w

(* Every message Telegram accepted is the one of a SENT delivery, or is    *)
(* about to be saved as such, or its acceptance was lost (a crash, a lost  *)
(* answer): without faults no alert is sent twice.                         *)
Saving(e) == \E w \in Workers : worker[w].result = "ok" /\ worker[w].event = e
Counted(e) == IF delivery[e].status = "SENT" \/ Saving(e) THEN 1 ELSE 0

AcceptedAccountedFor ==
    \A e \in Events : sent[e] = unrecorded[e] + Counted(e)

(* The inductive invariant behind OneSender, AcceptedAccountedFor and      *)
(* SentIsFinal: a sender is within its lease, and the row still is its     *)
(* reservation.                                                            *)
WithinLease ==
    \A w \in Workers : worker[w].pc \in Reserved \union {"reserving"} =>
        /\ worker[w].event \in Events
        /\ worker[w].read <= now
        /\ now <= worker[w].read + LeaseTime

HoldsReservation ==
    \A w \in Workers : worker[w].pc \in Reserved =>
        delivery[worker[w].event] = SendingRow(worker[w].read)

OkIsBeingSaved ==
    \A w \in Workers : worker[w].result = "ok" => worker[w].pc = "saving"

SenderInv ==
    /\ TypeOK
    /\ WithinLease
    /\ HoldsReservation
    /\ OneSender
    /\ OkIsBeingSaved
    /\ AcceptedAccountedFor

(* A delivery recorded SENT is never written again.                        *)
SentIsFinal ==
    [][\A e \in Events : delivery[e].status = "SENT" => delivery'[e] = delivery[e]]_vars

(* Senders, batches and leases implement the life of one delivery: whoever *)
(* holds it is alone, calls Telegram once, and records the answer.         *)
At(e, pcs) == \E w \in Workers : worker[w].pc \in pcs /\ worker[w].event = e
SenderOf(e) ==
    IF Saving(e) THEN "answered"
    ELSE IF At(e, {"sending"}) THEN "sending"
    ELSE IF At(e, {"recording", "saving"}) THEN "refused" ELSE "nobody"

Lifecycle == INSTANCE AlertLifecycle WITH
    Alerts <- Events,
    status <- [e \in Events |-> delivery[e].status],
    sender <- [e \in Events |-> SenderOf(e)],
    messages <- sent,
    lost <- unrecorded

AlertLifecycleSpec == Lifecycle!Spec

(* Liveness, when the limit covers the backlog: every event is recorded as *)
(* sent, failed or blocked, also when a sender dies with the reservation,  *)
EveryAlertRecorded ==
    Limit >= LastEvent =>
        \A e \in Events :
            (e \in created) ~> (delivery[e].status \in {"SENT", "FAILED", "BLOCKED"})

(* and one that failed or was blocked is tried again while its bot can be  *)
(* used.                                                                   *)
Retriable(e) ==
    delivery[e].status \in {"FAILED", "BLOCKED"} /\ Usable(TenantOf[e])

UnsentIsRetried ==
    Limit >= LastEvent => \A e \in Events : Retriable(e) ~> ~ Retriable(e)

(* README.md of the repository: the worker delivers events by the right    *)
(* personal bot and records SENT, FAILED or BLOCKED - of every event.      *)
NoAlertStarves ==
    \A e \in Events :
        (e \in created) ~> (delivery[e].status \in {"SENT", "FAILED", "BLOCKED"})
=============================================================================
