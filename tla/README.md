# ChaRadarzin: a formal verification project

TLA+ models of ChaRadarzin, a price radar for Amazon and KaBuM offers: tenants
register products, a worker collects prices once a day or on request, an alert
engine compares them with rules and baselines, and personal Telegram bots
deliver the alerts. The models are translated from the code under `src/`,
model-checked with TLC on small instances, and the central invariants are proved
for every value of the constants with TLAPS.

Run everything from this directory:

    tlc -workers 2 -config QueueTimely.cfg MCCollectionQueue.tla
    tlapm CollectionQueueProofs.tla

`PROJECT.json` lists, in machine-readable form, the components, the runs, the
source lines each definition stands for, the hazards, the findings, the
theorems, and for each checked property one *mutant*: a wrong version of a
definition (they are the operators introduced by "Wrong ones" or "Mutant" in the
modules, used by no specification) under which the property must fail.

## 1. The system

A Django application over PostgreSQL (READ COMMITTED, autocommit, no
`ATOMIC_REQUESTS`), run as several processes:

| process | code | concurrency |
|---|---|---|
| web | gunicorn, 2 processes with 2 threads | requests and Telegram webhooks run in parallel |
| worker | `run_collection_worker` | polls the queue; a failed job ends the process and the container is restarted with a new worker id. More than one may run |
| scheduler | `run_collection_scheduler` | enqueues the day's job, sleeps, repeats |
| monitor | health commands, `check_managed_bots` | reads and sometimes writes bots |
| operator | commands: requeue, force, deliver, backup, purge | at any time |

All of them meet in the database; there is no other channel, except Telegram.
What is atomic is a `transaction.atomic()` block, or else one statement.

| component | state it keeps | operations | what is hard |
|---|---|---|---|
| **Collection queue** `monitoring/job_queue.py` | jobs, attempts, one shared worker lease | enqueue daily/now, poll (acquire, recover, claim), collect, finish, requeue | several workers; expiry of leases and jobs; a job object kept in memory over the whole collection; separate autocommitted saves after it; backoff |
| **Alert delivery** `telegram_bots/delivery.py` | `NotificationDelivery`, bot status | select a batch, reserve, send, record the outcome | an external call between two transactions, lost answers, several senders, a limit |
| **Managed bots** `telegram_bots/configuration.py`, `onboarding.py` | `ManagedBot`, onboarding sessions, tokens at Telegram | create through the manager bot, configure, rotate, disconnect, revoke, health check, /start, membership | calls to Telegram between read and save, by five different writers |
| **Webhooks and commands** `telegram_bots/views.py`, `updates.py` | update receipts, manual refresh requests | claim a receipt, handle an update, finish the receipt, `/atualizar` | duplicated and retried updates, crash with a receipt in PROCESSING, check-then-act cooldown |
| **Product panel and previews** `monitoring/preview.py`, `services.py`, `views.py` | previews, products, sources, alert settings | create, expire and confirm a preview, pause, archive, edit | reads without locks, a slow page against an expiring preview |
| **Collection engine** `monitoring/collection_engine.py` | batches, runs, observations, base offers | one fetch per base offer, one observation per tenant, baselines | partial failure in the middle of a batch |
| **Alert rules** `monitoring/alerts.py` | alert events; the previous run and the low are read from the history | evaluate the products of a batch against the runs before | what counts as the previous run, cooldown boundary, alerts of a batch that fails |
| **Tenancy and privacy** `tenancy/` | users, memberships, invitations, exports | login, create, export, delete | isolation of tenants |
| **Rate limits and health** `chadaradzin/` | cache counters | count a request, reject | counter, window and expiry are three cache operations |
| **History and operations** | retention of old rows, snapshots | purge, reports | deletion of rows still referred to |
| **Backup and restore** | files | dump, verify, prune | mostly I/O |
| **Legacy pipeline** `app/` (the local radar) | SQLite runs, observations, notification attempts, run lock | collect, compare, notify, record | failed messages tried again, a death between a message and its row |
| **Collectors, parsing, shipping** | none | pure functions over pages | formats |

How they interact: the scheduler, the operator and `/atualizar` create jobs;
the worker claims one, runs the collection engine, which evaluates the alert
rules for each tenant and commits alert events; in the same call
(`collect_and_deliver`) it delivers every pending event through the bots; the
bots' states come from the panel, the webhooks and from the answers of Telegram
to deliveries. A refresh request created by `/atualizar` follows its job.

What makes each component correct:

* queue: one worker at a time; a job is claimed only with budget left, its saved
  result is the one of the attempt that owns it, nothing is stuck, a request
  tells the truth about its job;
* delivery: an event has one sender at a time, SENT is true and final, a message
  is repeated only after a failure, every event gets recorded;
* bots: an ACTIVE bot has a token and an owner, and the last decision of the
  owner is not overwritten by a slower process (section 6: it can be);
* webhooks: every update is handled, none twice at the same time; one refresh
  request per cooldown;
* panel: an archived product has no active source, a preview is used once and
  not after it expired, limits hold;
* engine and rules: every observation is evaluated once against the previous
  state, and a batch's status agrees with its runs.

## 2. The modules

| module | what it is |
|---|---|
| `CollectionQueue` | the queue: rows, lease, requests and the worker processes |
| `JobLifecycle` | what the queue promises about each job; `CollectionQueue` implements it |
| `CollectionEngine` | shared collections: batches, runs, pages, observations, baselines, and the alert rules |
| `AlertDelivery` | reservation, sending and recording of alerts |
| `AlertLifecycle` | what delivery promises about each alert; `AlertDelivery` implements it |
| `ManagedBot` | one bot's row, its token and webhook at Telegram, and every handler that writes the row |
| `UpdateReceipts` | webhook updates, their receipts and repetitions, `/atualizar` and its cooldown |
| `ProductPanel` | previews, products and sources of one tenant, changed by parallel requests |
| `PersonalAccount` | beta grant, login and erasure of one account |
| `LocalRadar` | the single-user pipeline of `src/app` |
| `MCCollectionQueue`, `MCAlertDelivery`, `MCManagedBot` | due times, owners of events and symmetry for TLC |
| `MCServices` | `ManagedBot`, `ProductPanel`, `PersonalAccount` and `CollectionEngine` in one run |
| `MCDeliveries` | `AlertDelivery`, `UpdateReceipts` and `LocalRadar` in one run |
| `CollectionQueueProofs`, `JobRecordsProofs`, `CollectionEngineProofs`, `AlertDeliveryProofs`, `ManagedBotProofs`, `LocalRadarProofs` | proofs about one component each, section 4 |
| `ServicesProofs` | proofs about `ProductPanel`, `PersonalAccount` and the bench `MCServices` |
| `DeliveriesProofs` | proofs about `UpdateReceipts` and the bench `MCDeliveries` |

The two benches put components that share no variable side by side. A behaviour
belongs to one of them, chosen in the beginning (`part`); the others stay as they
are, so the state spaces add up instead of multiplying and nothing is claimed about
an interplay. What components do share is in one module: the engine has the alert
rules, the queue the refresh requests, the bot module every writer of a bot's row.
At the borders a component sees the other as an outcome or a free choice: the queue
sees a collection as success, retryable or fatal failure; the engine takes any set
of sources as active; delivery gets events and usable bots at any time; the account
gets history and a bot at any time. Each of these allows at least what the other
component does.

### CollectionQueue and the code

| state | code |
|---|---|
| `job[j]` | a `CollectionJob` row, `NONE` before it exists. `NoTime` and `Nobody` are null columns |
| `attempts[j]` | the `CollectionJobAttempt` rows of the job, by `attempt_number` |
| `lease` | the `CollectionWorkerLease` row `shared-collection` |
| `request[j]` | the `ManualRefreshRequest` of a manual job, `NONE` if there is none |
| `worker[w]` | the local variables of `process_next_job`: the clock read at its start, the claimed job, attempt number and budget as read at the claim, the outcome |

| action | code |
|---|---|
| `EnqueueDaily`, `EnqueueNow`, `RequestRefresh`, `RequeueDeadJob` | the transactions of `enqueue_daily_collection`, `enqueue_collection_now`, `_request_refresh` and `requeue_dead_job` |
| `StartPoll` | `process_next_job` reads the clock before its transaction |
| `PollBusy`, `PollIdle`, `PollClaim` | that transaction: `_acquire_lease`, `_recover_expired_jobs`, `_claim_next_job`, all or nothing |
| `FinishAttempt` | the collector returned or raised; the attempt row is saved |
| `SaveJob`, `SyncRequests` | the two following statements of `_finish_success` and `_finish_failure` |
| `Release` | the `finally` clause, and the end of the process after a failure |
| `DatabaseError`, `Crash`, `Restart` | a statement raises; the process dies; the container is started again |
| `Tick` | time passes |

Abstractions. A whole collection is the time spent in phase `collecting`. The
fine order inside the polling transaction does not matter, the rows are locked;
one exception is the attempt row, which recovery reads without a lock: the few
milliseconds in which a late worker saves its attempt during another's recovery
are left out. An error inside the polling transaction rolls everything back and
looks like `PollBusy`. `FinishAttempt` joins reading the finish time and saving
the attempt. Equal `scheduled_for` values are resolved by any of the tied jobs
(the code uses `created_at` and `id`). `RequestRefresh` has no cooldown, so the
model has more requests than the program; the cooldown is in
`UpdateReceipts`. A worker id is used again only when no row names it, which
is like the fresh random id of the code. Error codes, durations, counters of
collected products and logs are left out.

### AlertDelivery and the code

`delivery[e]` is the `NotificationDelivery` row of an event (channel
`TELEGRAM_PERSONAL`), `created` the events committed so far: events are numbered
by `(occurred_at, id)`, the order of the batches, and committed in any order, because
`occurred_at` is the time of the observation and not of the commit. `bot[t]` is the
`ManagedBot` row with `linked` for
"the owner's chat is known", `worker[w]` the local state of
`deliver_pending_alerts` (the list read once at its start, the current event,
the clock read by `deliver_alert_event`, the answer of Telegram). `sent` counts
the messages Telegram accepted and `unrecorded` those of them whose acceptance
the program could not record; both are history variables.

`SelectBatch`, `NextEvent` and `EndBatch` are the loop; `ReserveSkips`,
`ReserveBlocked` and `Reserve` are the branches of the reserving transaction;
`SendAccepted`, `SendRefused` and `ResponseLost` are what `sendMessage` may do;
`RecordFailure` (bot) and `SaveDelivery` are the two saves after it; `Abort` is
a death of the process or an exception that leaves the batch. `CreateEvent`,
`ConnectBot` and `DisconnectBot` stand for the alert engine and the bots'
configuration; the statuses delivery does not name (CONFIGURING, AWAITING_START,
OWNER_CHANGED, WEBHOOK_ERROR) behave like DISCONNECTED here: not usable. Attempt
counters, error codes and texts are left out.

`AlertLifecycle` forgets workers, batches, clocks and leases: per alert there is a row,
at most one sender (`nobody`, `sending`, `answered` or `refused`), the accepted messages
and the lost ones. A sender may reserve what is neither SENT nor held, calls Telegram
once, and writes the answer of that call or vanishes. The mapping (`SenderOf`) reads the
sender off the workers' states.

### ManagedBot and the code

`bot` is the `ManagedBot` row of one tenant (`NONE` before it exists; `token`
for the ciphertext, `secret` for the digest of the webhook secret, `chat` for "the
owner's chat is known"), `telegram` the token Telegram accepts for this bot and
the secret it sends with the bot's updates. Tokens and secrets are numbered in
the order they are issued. `handler[h]` is a request or a command at work: the
object it read (`copy`), the token and secret it is setting up, the status it is
about to save.

No handler locks the row while it talks to Telegram, so each is a chain of
actions, one per read, call or save, and a save changes the columns of its
`update_fields` in the row as it is then:

| handler | actions |
|---|---|
| `process_managed_bot_update` | `ReceiveManagedBot`, `FetchToken`, `UpsertBot`, then as below; another owner: `ReceiveOwnerChange`, `WipeCredentials` |
| `rotate_managed_bot_token` | `StartRotation`, `ReplaceToken`, then as below; `TokenRefused` ends either |
| `configure_personal_bot` | `StoreToken`, then `SetWebhook` or `SetupRefused`, then `SaveStatus` |
| `disconnect_bot` | `StartDisconnect`, `DeleteWebhook`, `WipeCredentials` |
| `personal_bot_webhook` and `process_personal_bot_update` | `ReceiveStart`, `ActivateBot`, `Reply`; `ReceiveCommand`, `Reply`; `ReceiveMembership`, `SaveStatus`; all guarded by `Authenticated`; a 401 leads to `WipeCredentials` |
| `deliver_alert_event`, `send_test_notification` | `StartDelivery`, `Deliver`, then `SaveStatus` (BLOCKED) or `WipeCredentials` (REVOKED) |
| `check_managed_bots` | `StartCheck`, `CheckBot`, then `SaveStatus` or `WipeCredentials` |

`Crash`, `CallFails` (no effect, or the effect without its answer),
`Undecryptable` (a key was removed) and `ChangedElsewhere` (the owner revokes the
token with BotFather, the webhook is removed) are faults. `stale` is a history
variable: some handler has saved an object that was no longer the row. The code
never notices that; a comparison of versions at each save would exclude it.

Abstractions. The calls between two saves are one action, refused as a whole when
the token does not work; `getMe` and `getWebhookInfo` of the check are one look.
The reads of `process_managed_bot_update` before it fetches the token are one
with its decision, and a managed_bot update may come at any time: the onboarding
session that the first one needs is left out. Saves of columns nobody decides by
(`last_seen_at`, error codes) are left out, like names and dates, and a database
error is a crash.

### CollectionEngine and the code

| state | code |
|---|---|
| `batch[b]` | a `CollectionBatch` row, and in `at`, `links`, `left`, `fresh` the local variables of `collect_active_offers`: how far it is, its sources, the products without a look at their baseline, those whose baseline it has set |
| `run[b][o]` | status of the batch's `MonitoringRun` of a tenant |
| `page[b][o]` | the `SharedOfferObservation` of an offer |
| `price[b][s]` | the `PriceObservation` of a source |
| `baseline`, `flagged` | `baseline_total_cents` of the products, observations with `is_baseline` |
| `alert` | `AlertEvent` rows in order of creation; `settled` is history: the successful runs the evaluation saw |

`OpenBatch`, `FetchOffer` (once per offer, for all its sources), `ObserveSources`,
`Establish` (one transaction per product, with the product locked and looked at
again), `EvaluateAlerts` (one transaction, all products), `CloseRun` (one tenant
after the other), `CloseBatch`; `FailBatch` and `FailRuns` are the exception handler,
`DieCollecting` a death. Batches overlap, as they do when a collection outlives the
lease of its job. Abstractions: what a page says is an outcome, checks of model,
variant, seller and payment are the choice between a price and an error; shipping is
a price of its own. The observations of a batch are stored in one action because no
other reader looks at those of a batch whose runs are not SUCCESS. The rules are
computed as in the code, in integers: thousandths of a percent, halves rounded up.

### UpdateReceipts and the code

`telegram[u]` is what Telegram does with an update (it repeats it until it is
answered 200) and the kind of the update, `receipt[u]` the status of its
`TelegramUpdateReceipt`, `thread[t]` a request in `personal_bot_webhook` with the token
of the row it read, `refreshes` the `requested_at` of the `ManualRefreshRequest` rows.
`credentials` are those of the `ManagedBot` row: its token (`stored`), whether the key
that decrypts it is configured (`readable`), whether the digest is that of the secret
Telegram sends (`listens`), and the token Telegram accepts (`valid`).

| code | actions |
|---|---|
| comparison of the secret, `_claim_receipt` | `Admitted`; `ClaimNew` (creating the row is one statement), `ClaimFailed` and `Reclaim` (taking over a FAILED one is a read and a save), `AnswerDuplicate` |
| the handler | `HandleSilent` (another sender, a malformed, unsupported or membership update: no reply), `HandleHopeless` (fails every time), `HandleCommand`, `CheckCooldown` and `CreateRefresh` |
| `_send`, `_client_for`, `_mark_api_failure` | `SendAnswer`; `AnswerRefused`: a 401 wipes token and digest of the row; `AnswerUnreadable`: the token cannot be decrypted; `AnswerFails`: any other error |
| `_finish_receipt` and the HTTP answer | `FinishUpdate`: 200, or 503 for FAILED; the answer may get lost |

A request with another secret is answered 403; that changes nothing, and Telegram
repeats the update. So after a 401 no repetition reaches the receipt until the bot is
configured again. `CredentialStep` is what happens to the credentials outside this
component: `ReplaceToken` (revoked or replaced at Telegram), `LoseKey` and `RestoreKey`
(a start of the processes with other keys), `Disconnect`, and `configure_personal_bot` as
`SaveCredentials` and `SetWebhook`; their handlers in full are in `ManagedBot`. The
mishaps are `AnswerFails`, `Die`, a lost answer and the steps that take working
credentials away. `hushed` and `doubled` are history: a repetition was answered 200
while its receipt was PROCESSING; a FAILED receipt was claimed twice at once. The rate
limit of the view only delays a repetition. The clock starts with the first request for a
refresh, since nothing else reads it.

### ProductPanel and the code

`product`, `source` and `preview` are `MonitoredProduct`, `OfferSource` (by product
and link) and `ProductLinkPreview` rows of one tenant, `request[r]` what a request
has read and is about to save.

| code | actions |
|---|---|
| `create_product_link_preview` | `StartPreview` (count, look), `CreatePreview`, `SavePreview` (READY or FAILED, after the page) |
| `expire_stale_product_previews`, `confirm_product_link_preview` | `ExpirePreviews`, `RefuseExpired`; `LockPreview`, then `Confirm` or `RollBackDuplicate` |
| `toggle_product_pause`, `/pausar`, the pause button | `TogglePause`, `PauseFromBot` |
| archive | `ArchiveProduct` |
| `product_edit`, `source_toggle`, `source_edit` | `StartEdit`, `SaveEdit`; `StartSource`, `SaveSource` |

A transaction is one action unless it reads a row that it does not lock: then it is
two, and `outdated` records that the second has saved over something that changed in
between. `Abandon` is a death, with its transaction rolled back. Names, limits of
products and the alert settings form are left out.

### PersonalAccount and the code

`account` is the id of a user with identity and tenant (they are created together;
0 for none), `grant` the `BetaAccessGrant`, `hasHistory` whether an observation of the
tenant exists, `visit[v]` a request at work. `FirstLogin` and `CreateAccount` are the two
halves of `login_or_create_telegram_user` for an unknown identity, `LogInAgain` is the
other case. `delete_personal_account` is `StartErasure`, `RemoveWebhook`, `ReadIdentity`
and `Erase`: the identity is read before the transaction, which deletes the grant by that
identity, and user and tenant by their ids. The protected key of `PriceObservation`
refuses the deletion of a tenant with a history. A request whose account is gone before
it reads the identity finds none, and has nothing left to delete.

### LocalRadar and the code

`ran` are the rows of `runs` with their observations, `attempt` those of
`notification_attempts`, `radar[r]` a process of `app.main`: `StartRadar` (lock and
`start_run`), `CollectLinks` (all observations in one transaction), for each product
`SkipWare` or `SendWare` and `RecordAttempt`, then `FinishRun`. `FailRun` is an exception,
`KillRadar` a death: the run stays RUNNING for ever and the operating system frees the
lock. `fresh` is history: the attempt is a decision of its own run, not a repetition of
a failure. Runs without shipping and simulations have a history of their own and send
nothing; they are left out, like the analytics and the reports after the run.

## 3. What the runs check

| run | asks | bounds |
|---|---|---|
| `QueueTimely` | Workers that finish within their lease, with crashes and database errors: one worker at a time (`SingleWorker`), the job in memory is the row that gets overwritten (`MemoryIsFresh`), attempts within the budget (`WithinBudget`), history, job and request agree (`HistoryAgrees`, `CompletedMeansSuccess`, `RequestInSync`), and the queue implements `JobLifecycle` (`LifecycleSpec`) | 2 workers, a daily and a manual job, 2 attempts, backoff 1 and 2, lease 2, 1 fault, 1 requeue, clock 0..5 |
| `QueueOverrun` | The same with collections that may outlive their lease: whoever holds an unexpired reservation owns the lease row (`ReservationProtected`), attempts keep their numbers (`AttemptsNumbered`), a PENDING request's job is not running (`PendingNotRunning`) | same, clock 0..4 |
| `QueueLiveness` | Every job settles, a dead process's lease is freed, requests settle if nothing fails | 1 fault, no requeue, clock 0..7 |
| `Services` | *Bots*, as long as no outdated object is saved: an ACTIVE bot has token, secret and chat (`ActiveIsConnected`), a wiped one keeps nothing (`WipedKeepsNothing`), a disconnected one stays so until it is configured again (`StaysDisconnected`); without faults, once nobody is configuring, token and webhook are those Telegram knows (`TokenIsCurrent`, `BotListens`). *Panel*: an archived product has no active link (`ArchivedFreesItsLinks`), parallel previews exceed the limit by less than their number (`LimitHolds`), a failed confirmation leaves no product (`NoOrphanProduct`), a confirmed preview stays so (`ConfirmationIsFinal`). *Account*: only a request made for it erases it (`ErasedByItsOwner`). *Engine*: one baseline for good (`OneBaseline`), a SUCCESS run is complete (`SuccessIsComplete`), what has ended stays as it is (`EndedStaysEnded`), a drop is told once (`DropIsNews`) | 2 handlers, 3 tokens, 3 secrets, 2 faults; 2 requests, 2 products, 1 link, 3 previews, lifetime, window and limit 1, clock 0..1; 2 visits, 2 accounts; 3 batches, 2 at a time, 1 loss, one tenant, product and source, prices 90 and 100, target 95, cooldown 1, clock 0..2 |
| `Deliveries` | *Alerts*: one sender per event (`OneSender`), every accepted message is accounted for (`AcceptedAccountedFor`), delivery implements `AlertLifecycle` (`AlertLifecycleSpec`: one call per reservation, an outcome that is its answer, SENT for good), every event is recorded (`EveryAlertRecorded`), failed and blocked ones are tried again (`UnsentIsRetried`). *Updates*: one handler (`OneHandler`), the cooldown (`CooldownHolds`), every update settles once the bot's credentials work for good (`EveryUpdateSettles`). *Local radar*: failures are tried again (`FailureIsRetried`), a target is announced when it is crossed (`GoalIsCrossed`) | 2 workers, 1 event, lease 1, 1 fault, clock 0..3; 2 updates, 2 threads, 1 mishap (a failed reply, a death, a lost answer or a loss of the credentials), cooldown 1, clock 0..2; 2 processes, 4 runs, 1 product and link, prices 90 and 100, target 95, 1 trouble |
| `QueueSuccessFinal`, `QueueRequestLost`, `AlertStarved`, `BotRevoked`, `BotDeaf`, `AccountErased`, `AlertAfterFailure` | counterexamples, section 6 | as above or smaller; `AlertAfterFailure`: 4 batches, one after the other |

Why the bounds are enough. Two workers and two jobs are the smallest instance
with contention for the lease and for the order of jobs; two attempts give a
first, a last and (after a requeue, whose budget adds to the count) a third; a
lease of 2 lets a process be early, at the boundary and late; the two backoffs
differ, so the exponent matters; one fault is enough to leave each combination of
saved and unsaved rows, because every fault point is between two statements. The
clock covers a complete lease, a backoff, a retry and its lease. `LastArrival`
and `LastFault` close the instance before the clock ends, so that liveness is not
cut off by `MaxTime`.
For bots, a conflict takes two handlers; three tokens and secrets allow a
configuration, a second one that is overtaken, and a third after it; two faults
a token revoked elsewhere and a call that fails afterwards.
The panel has as many previews as it takes to exceed a limit of one with two
requests, and to confirm one after another has expired; two products compete for
one link. Three batches are a previous run, one that overlaps it and one that
compares with both; two prices lie on both sides of the target. One
loss is an exception or a death at each of its points. In `Deliveries` the two senders
compete for one event, a death and a lost answer are each a fault; two updates
are two `/atualizar` that race, two threads the claims of one update that race. Four
runs of the radar are a price above the target, one that reaches it and fails to say
so, one between, and one that has to say it again.
Theorems drop all these bounds for most of the safety properties.

Settings of the runs. `Services` does not go on after the save of an outdated object
(constraint `NothingOutdatedSaved`): the properties that this matters to promise
nothing from there on. Its view leaves out the pages of a batch whose alerts are
evaluated, which no step and no property reads again. Symmetry is over workers,
handlers and products, in safety runs only. The queue's runs check for deadlock: polls
never end. `Services` and `Deliveries` do not, because there the bounds stop a
part: the clocks, the batches, the previews, the accounts and the runs are used up.

### Fairness

`QueueLiveness` assumes weak fairness of each worker's steps: a poll is a loop
with a sleep, a collection ends by the collectors' timeouts, and a stopped
process is restarted by the container runtime (`restart: unless-stopped`). None
is assumed of arrivals, faults or requeues. The clock moves by `PromptTick`: a
poll or a collection is shorter than a unit of time, so the clock waits for one
that has something to do. It is strongly fair because idle polls keep taking the
lease for a moment and so disable and enable it again.

`Deliveries` (`MCFairness`) assumes that each worker goes on delivering (every
collection ends with a delivery, and collections keep coming), that time passes, and
for updates (`ReceiptFairness`) that a request that has begun goes on (weak) and that
Telegram delivers an update again as long as it is not answered 200. The latter is
strong, because the delivery is disabled each time all threads are at work. No
fairness is assumed of the bots' owners, of Telegram accepting a message, of answers
arriving or of lost credentials being replaced: that the bot is connected for good is
the premise of `EveryUpdateSettles` (`<>[]Connected`). The alert properties are stated for `Limit >= LastEvent`: a
batch that covers the backlog, which the instance with one event and a limit of one
satisfies; the other case is finding 3.

## 4. What is proved

The theorems hold for any number of processes, threads, jobs, events, tenants,
products, sources, previews, batches and runs, and for any bounds. Every invariant,
action property and refinement of the passing runs is stated by one; what the runs check
and no theorem states is liveness.

Assumptions: `QueueAssumption` (jobs are of one kind, `Nobody` is nobody, times
and bounds are numbers), `SettingsAssumption` (what `settings.py` enforces at
startup: positive attempts, backoff and lease, base at most maximum),
`DeliveryAssumption` and `DeliverySettings` (the limit is positive, the lease is
not negative), `BotAssumption` (bounds are numbers, there is a first token),
`PanelAssumption`, `PanelSettings`, `ReceiptAssumption`, `EngineAssumption` and
`RadarAssumption` (finitely many requests, threads and products, positive settings,
prices above zero, each source belongs to one product) and `AccountAssumption` (bounds are
numbers). TLC evaluates them in each run. Three theorems have a hypothesis of their own:
`DropsAreNews`, explained below, and `QueueImplementsLifecycle` and `SuccessForGood`, which
assume `LeaseOutlivesWork`.

The queue, in two layers:

* `LeaseInv` is inductive with no assumption on delays. Types, clock reads in the
  past, tasks in memory and numbering (`AttemptsNumbered`) support the key
  conjunct `ReservationProtected`: a worker between claim and release, before its
  deadline, *is* the owner of the lease row with its own deadline. It is
  preserved because a process acquires only a free or expired row or its own
  (`CanAcquire`, compared with a clock read that is not later than now) and
  `Release` frees only its own. Hence `LeaseInvariant`, `TypeCorrect`,
  `ReservationSafe`, `AttemptsStayNumbered`.
* `TimelyInv` adds what holds if no live worker overruns its lease
  (`LeaseOutlivesWork`, a constant, so that both worlds are one specification).
  `NobodyOverruns` turns reservations into mutual exclusion (`OneReservation`),
  so a recovery or claim cannot touch the job another process has in memory:
  `MemoryIsFresh`. From it follow the budget, `SavedBeforeSync` (a worker about
  to report success has saved it) and `CompletedMeansSuccess`. `MemoryIsFresh`
  alone is not inductive: it needs the exclusion, and the exclusion the clock.
  Hence `TimelyInvariant`, `OneWorker`, `MemoryStaysFresh`, `BudgetRespected`,
  `CompletedIsTrue`.
* The records of a job (`JobRecordsProofs`). `RequestInSync` needs three facts for
  a queue without faults and requeues (`FollowInv`): a RUNNING job has its worker,
  a worker that is about to sync has saved what it is going to report, and a job
  that does not exist has no request. Because the workers exclude each other, a recovery
  then finds nothing to do. `HistoryAgrees` needs that a worker about to save a job
  has saved its attempt and, without faults, that a success is the last attempt, of a
  job that is SUCCESS or is about to be (`HistoryInv`). `PendingNotRunning` is
  inductive by itself, whatever the delays. Hence `RequestsFollow`, `HistoryIsTrue`,
  `PendingWaits`. `ReportInv` adds that, without faults, a worker that reports a failure
  has saved one; a later success of a requeued job is then reported after it. Hence
  `SuccessIsToldWithoutFaults` and, from `TimelyInv`, `SuccessForGood`: the boundaries of
  findings 2 and 1.
* `QueueImplementsLifecycle`: under the invariant every step maps to a step of
  `JobLifecycle` or a stutter (`TransitionStep`, one case per action).

Delivery: `SenderInv` says a sender is within its lease (`WithinLease`), the row
still is its reservation (`HoldsReservation`), it is the only one, and an "ok"
answer is about to be saved. `Tick` carries the assumption that one delivery
ends within its reservation: the API call gives up after
`TELEGRAM_API_TIMEOUT_SECONDS` (8 s), the reservation lasts 300 s. Each action
has a lemma; `Reserve` uses the boundary of `Busy`, the saves that no other
worker holds the row. Hence `SenderInvariant`, `DeliveryTyped`,
`OneSenderPerEvent`, `NoUnexplainedMessage`, and the action property
`SentForGood`.
`DeliveryImplementsLifecycle` maps each step of a worker to one of `AlertLifecycle` or a
stutter. Whoever is at a reserved event is its only sender, so the mapped sender of that
event is this worker's state (`SenderIs`) and no other event's changes
(`OthersKeepSender`); the steps of one who holds nothing map to stutters, as `RecordFailure`
does, which writes the bot and not the row. From `AcceptedAccountedFor` it also follows
that an alert is sent at most once more than there were faults (`RepeatsTakeFaults`).
`TurnsKept` bounds finding 3: because SENT is for good, the older unsent events before an
alert (`Ahead`) only become fewer, except by events that are committed late with an older
date (`Late`). Once there are fewer than the limit, every later batch takes the alert until
it is SENT or such an event comes before it.

Bots: `ActiveIsConnected` and `WipedKeepsNothing` look at the row only, but what is
saved depends on what the handlers hold. `BotInv` therefore says, up to the first
save of an outdated object, that the row has a token and a secret or neither, that
an ACTIVE row has its chat and a wiped one nothing (`RowConsistent`), and that each
handler's object has what its next save relies on (`HandlerPrepared`: one about to
save ACTIVE has a token, after a membership change also the chat; one about to wipe
saves a wiped status). A save from an object that is the row then leaves a
consistent row; one lemma per action. Hence `BotInvariant`, `ActiveConnected`,
`WipedForGood` and the action property `DisconnectionHolds`.
`QuietInv` adds what holds while nothing fails, in any order of configurations,
checks and updates: a replaced token is in the row or held by the handler that is
about to store it (`Current`); whoever is about to call the bot live has seen its
token work or an update arrive with the row's secret (`HandlerKnows`); and the
stored secret is at Telegram, or its token has been replaced, or somebody is still
at work whose last save will wipe the row or be outdated (`Unfinished`). A new secret
is larger than all before it, so nobody else can hold it. Hence `QuietInvariant`,
`TokenStaysCurrent`, `BotHears`.
`TokensIssued` holds whatever fails or is outdated: nobody holds a token that Telegram has
not issued, and who is about to note a revocation holds one older than the valid one. Tokens
only grow, so the refusal it saw stays true. With `BotInv` and `QuietInv` this gives the two
action properties that bound findings 4 and 5, `RevokedIsRefused` and `QuietCheckListens`.

Engine: overlapping batches share only the products' baselines. `EngineInv` says what the
stage of a batch implies of its row, its runs and its observations (`Staged`,
`Observed`, `Established`), and `Unique` is `OneBaseline` without the counting: two
flagged observations of one product are the same. `Establish` keeps it because it
looks at the baseline again under the lock, and no later step rewrites an observation
of a batch that is past fetching. Hence `EngineInvariant`, `HistoryIsComplete`,
`BaselineForGood` and the action property `EndedForGood`.
The alerts are statements about history, so what they said must stay true: `AlertsInv`
adds that the batch of each event is past its alerts, that the event's price still is the
best valid one of its product there, that the runs it was compared with still are SUCCESS,
and that a drop or a target it reports was a fall from the latest of them (`Told`). It is
preserved because observations and ended runs are for good (`BestForGood`, `EndedIsKept`),
and a new event is true when it is made (`NewEventTold`). Two alerts of one product then
compare along the batch numbers. Hence `AlertsStayTrue`, `DropsAreNews` and
`TargetCrossedOrUnseen`. `DropsAreNews` assumes a threshold above zero: with 0, which the
panel's form refuses (`forms.py:172` asks for at least 0.10) and the admin and
`AlertRule.clean` accept, an equal price is a drop of 0 percent and is reported
each time the cooldown allows. `TargetCrossedOrUnseen` bounds finding 7: a successful run
without a valid offer is the only other way in which a target is announced again.

Updates: `OneHandler` counts; the proof says instead that two threads that have
claimed the same update are the same thread and that its receipt is PROCESSING, up
to a double claim (`ClaimedOnce`). For the cooldown the inductive sum is that of the
recent requests and the threads that have found none and are about to create one
(`RefreshBudget`). Hence `ReceiptTyped`, `OneHandlerAtATime`, `CooldownIsHeld`.

Panel: `PanelInv` says what each request has read is what its save relies on
(`Prepared`) and that a preview has one request at a time, whence a preview that
is CONFIRMED has no request left to overwrite it. The limit again is a sum: previews
in the window and requests that have counted. Hence `PanelInvariant`, `PanelTyped`,
`NoOrphans`, `ArchivedAreFree`, `LimitIsHeld` and the action property
`ConfirmedForGood`.

Account: `AccountInv` says that only the account created last can exist
(`LastOneLives`), and that without an account there is neither a bot nor a history, nor a
grant redeemed by any other (`NothingLeftBehind`). `GrantLost` follows: an account
loses the grant it redeemed only with its own erasure, or to a slower erasure of an
account before it, whose identity was read while that account existed. The action
property `ErasedOnRequest` needs no invariant: user and tenant are deleted by ids,
which are never used again.

Benches: a behaviour of `MCServices` is one of each of its four components, and one of
`MCDeliveries` of each of its three (`ServicesAreTheirs`, `DeliveriesAreTheirs`): every step
is a step of one and a stutter of the others. So each theorem of a component holds in the
run, and the joint type invariants follow (`ServicesTyped`, `DeliveriesTyped`).

Local radar: `RadarInv` says that one process works, on the latest run (`LockHeld`),
that an attempt tells the truth about its run and about the price before it
(`AttemptsTrue`), and what the run at work still owes to earlier failures (`Retries`):
when no product is left, that is `FailureIsRetried`. Best and previous prices are
minima and maxima of sets, which exist because the natural numbers are well founded
(`LeastIsIn`, `LargestIsIn`). Hence `RadarInvariant`, `RadarTyped`,
`FailuresAreRetried`, `TargetIsPassed`.

Only model-checked: liveness (`EveryJobSettles`, `LeaseIsFreed`, `RequestsSettle`,
`EveryAlertRecorded`, `UnsentIsRetried`, `EveryUpdateSettles`): properties under fairness
and ENABLED are outside the proof system. The findings are counterexamples of TLC.

## 5. What is not modelled

* In the queue: the lock waits of PostgreSQL (a transaction is a step; deadlocks
  between locks cannot show) and clock skew between hosts (one clock; the compose
  file runs one host). In every component a price is a small natural number, not a decimal.
* Onboarding sessions, the fallback bot and the manager bot's own webhook, whose
  receipts are the code of `UpdateReceipts`; the alert settings form; OIDC and staff
  accounts; runs of the local radar without shipping.
* Rate limits (`rate_limit.py`): a counter in each process's own cache, whose limit
  therefore is one per process; no document promises more, and nothing depends on it.
* Backup and restore, purge, operations and history pages: files, external tools,
  deletion by date and read-only queries. No state of the components above depends on
  them.
* Collectors, parsing, shipping, URL checks, reports, spreadsheets, templates, admin,
  settings and schema: pure functions over pages, formatting and declarations. They
  appear as outcomes, types and assumptions.

## 6. Findings

1. **A job can leave SUCCESS** (`QueueSuccessFinal`). A worker whose lease ran
   out saves what it remembers (`job_queue.py:445`) without asking whether the
   job is still its own. If another worker has recovered and finished it, SUCCESS
   becomes RETRY_WAIT or DEAD; the documented diagram has no such edge. It needs
   a collection longer than the lease: `SuccessForGood` proves that this is the only
   way.
2. **A request can stay PROCESSING for ever** (`QueueRequestLost`). Job and
   request are saved in two statements (`job_queue.py:393`); after a failure
   between them no recovery looks at a SUCCESS job. It needs that fault or a collection
   longer than the lease (`SuccessIsToldWithoutFaults`, proved).
3. **Alerts can starve** (`AlertStarved`). A batch takes the `limit` oldest
   events that are not SENT. Events of tenants without a usable bot are BLOCKED,
   stay in that set, and once there are `limit` of them newer events of other
   tenants are never looked at. Apart from events that
   are committed late with an older date, nothing else costs an alert its turn
   (`TurnsKept`, proved).
4. **A revocation can wipe a new token** (`BotRevoked`). `mark_bot_revoked`
   (`configuration.py:396`) and its twin in `updates.py` write the row without
   asking whether its token still is the one Telegram refused. A reply, delivery or
   check that is under way with the old token during a rotation gets 401 and removes
   the credentials the rotation has just saved. It needs the save of an outdated
   object (`RevokedIsRefused`, proved), so comparing versions at each save would close it.
5. **A checked bot can be deaf** (`BotDeaf`). The digest of the new webhook secret is
   saved before `set_webhook`. If a call in between fails, Telegram keeps the old
   secret; `check_managed_bots` compares only the webhook's address
   (`check_managed_bots.py:24`) and turns ERROR back into ACTIVE, and every
   update of the owner is answered 403. It needs a fault or an outdated save
   (`QuietCheckListens`, proved).
6. **An account with a price history cannot be erased** (`AccountErased`).
   `PriceObservation.source` is `PROTECT` (`monitoring/models.py:424`), so deleting the
   tenant (`tenancy/privacy.py:60`) is refused as soon as one observation exists. The
   user gets a server error, the account stays, and the bot's webhook, removed
   before, does not come back. The privacy page promises the history is removed.
7. **A failed collection repeats an alert** (`AlertAfterFailure`). The previous run
   (`alerts.py:68`) is the latest successful one with any observation of the product,
   a failed observation included. Then there is no previous price, and a target that
   was reached and reported before counts as newly reached. The documents say failed
   collections are skipped when the last price is looked for; the local radar does
   so (`GoalIsCrossed`, proved).

Observed and not counted as findings:

* An accepted message whose answer is lost is sent again (`unrecorded` in
  `AcceptedAccountedFor`), the usual at-least-once limit of such an API.
* A 401 to the reply is answered 503, because "Telegram should retry it"
  (`updates.py:27`), but it has wiped the digest of the secret (`updates.py:56`): every
  repetition gets 403 until the bot is configured again. `EveryUpdateSettles` therefore
  has a premise.
* The identity is read before the erasing transaction (`privacy.py:55`): a slow erasure
  can delete the grant the user's next account has redeemed (`GrantLost`), and then the
  next login is refused until an operator registers the user again.

## 7. Plan

Done: `CollectionQueue`, `JobLifecycle`, `AlertDelivery`, `ManagedBot`,
`UpdateReceipts`, `ProductPanel`, `CollectionEngine` with the alert rules,
`PersonalAccount`, `LocalRadar`; proofs of all their checked safety properties and of two
refinements, `JobLifecycle` and `AlertLifecycle`.

What would come next, in this order:

1. The composition of queue, engine and delivery (`collect_and_deliver`): a job that is
   tried again after its alerts were created, in one state space.
2. Onboarding sessions and the fallback bot, next to `ManagedBot`.
3. Purge against the rows it deletes, and the rate limit's counter with its expiry.
