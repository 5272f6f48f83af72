--------------------------- MODULE CollectionQueue ---------------------------
(***************************************************************************)
(* The persistent collection queue, src/monitoring/job_queue.py: jobs,     *)
(* their attempts, the one shared worker lease and the refresh requests    *)
(* that follow a job, with the processes of                                *)
(* run_collection_worker.py working on them.                               *)
(*                                                                         *)
(* An action is one database transaction, or one autocommitted statement   *)
(* of process_next_job, which keeps its CollectionJob object in memory     *)
(* from the claim to the last save.                                        *)
(***************************************************************************)
EXTENDS Integers, Sequences, FiniteSets

CONSTANTS
    Workers,           \* worker processes; an id is reused once no row names it
    DailyJobs,         \* one job per local day: key daily-collection:<date>
    ManualJobs,        \* jobs with a random key
    DueAt,             \* [DailyJobs -> when the day's job becomes due]
    DayEnd,            \* [DailyJobs -> when that local day is over]
    MaxAttempts,       \* COLLECTION_JOB_MAX_ATTEMPTS
    RetryBase,         \* COLLECTION_RETRY_BASE_SECONDS
    RetryMax,          \* COLLECTION_RETRY_MAX_SECONDS
    LeaseTime,         \* COLLECTION_JOB_LEASE_SECONDS
    LeaseOutlivesWork, \* no live worker is still at work when its lease ends
    MaxFaults,         \* bound: crashes and failed database calls
    MaxRequeues,       \* bound: requeues by the operator
    LastArrival,       \* bound: jobs and requeues come up to this time
    LastFault,         \* bound: faults come up to this time
    MaxTime,           \* bound: the clock
    Nobody, NoJob      \* the empty claimed_by / owner, and no job in memory

Jobs == DailyJobs \union ManualJobs

ASSUME QueueAssumption ==
    /\ DailyJobs \intersect ManualJobs = {}
    /\ NoJob \notin Jobs /\ Nobody \notin Workers
    /\ DueAt \in [DailyJobs -> Nat] /\ DayEnd \in [DailyJobs -> Nat]
    /\ LeaseOutlivesWork \in BOOLEAN
    /\ {MaxFaults, MaxRequeues, LastArrival, LastFault, MaxTime} \subseteq Nat

(* src/chadaradzin/settings.py refuses to start with any other values.     *)
ASSUME SettingsAssumption ==
    /\ {MaxAttempts, RetryBase, RetryMax, LeaseTime} \subseteq Nat \ {0}
    /\ RetryBase <= RetryMax

VARIABLES
    now,      \* the wall clock all processes read
    job,      \* [Jobs -> CollectionJob row]
    attempts, \* [Jobs -> status of each CollectionJobAttempt, by number]
    lease,    \* the CollectionWorkerLease row "shared-collection"
    request,  \* [Jobs -> status of the job's ManualRefreshRequest]
    worker,   \* [Workers -> local state of process_next_job]
    faults, requeues

vars == <<now, job, attempts, lease, request, worker, faults, requeues>>

-----------------------------------------------------------------------------
JobStatus     == {"NONE", "QUEUED", "RUNNING", "RETRY_WAIT", "SUCCESS", "DEAD"}
AttemptStatus == {"RUNNING", "SUCCESS", "FAILED", "ABANDONED"}
RequestStatus == {"NONE", "PENDING", "PROCESSING", "COMPLETED", "FAILED"}
Outcome       == {"none", "success", "retryable", "fatal", "raised"}
Waiting       == {"QUEUED", "RETRY_WAIT"}

(* Null columns: nobody holds the row, and the deadline has passed.        *)
NoTime  == 0
Free    == [owner |-> Nobody, locked_until |-> NoTime]
NoRow   == [status |-> "NONE", scheduled_for |-> NoTime, available_at |-> NoTime,
            attempt_count |-> 0, max_attempts |-> MaxAttempts,
            claimed_by |-> Nobody, lease_expires_at |-> NoTime]
AtRest(phase) == [pc |-> phase, started |-> NoTime, job |-> NoJob, number |-> 0,
                  max_attempts |-> 0, outcome |-> "none", finished |-> NoTime]

(* Phases after the claim, up to the release in process_next_job's finally *)
AtWork  == {"collecting", "saving", "syncing", "releasing"}
(* ... and those that still count on the claim to save the job's row.      *)
Claimed == {"collecting", "saving"}
Deadline(w) == worker[w].started + LeaseTime

JobRow == [status : JobStatus, scheduled_for : Nat, available_at : Nat,
           attempt_count : Nat, max_attempts : Nat,
           claimed_by : Workers \union {Nobody}, lease_expires_at : Nat]
WorkerState == [pc : {"stopped", "idle", "polling"} \union AtWork, started : Nat,
                job : Jobs \union {NoJob}, number : Nat, max_attempts : Nat,
                outcome : Outcome, finished : Nat]

TypeOK ==
    /\ now \in Nat
    /\ job \in [Jobs -> JobRow]
    /\ attempts \in [Jobs -> Seq(AttemptStatus)]
    /\ lease \in [owner : Workers \union {Nobody}, locked_until : Nat]
    /\ request \in [Jobs -> RequestStatus]
    /\ worker \in [Workers -> WorkerState]
    /\ faults \in Nat /\ requeues \in Nat

Init ==
    /\ now = 0
    /\ job = [j \in Jobs |-> NoRow]
    /\ attempts = [j \in Jobs |-> <<>>]
    /\ lease = Free
    /\ request = [j \in Jobs |-> "NONE"]
    /\ worker = [w \in Workers |-> AtRest("idle")]
    /\ faults = 0 /\ requeues = 0

-----------------------------------------------------------------------------
Smaller(a, b) == IF a <= b THEN a ELSE b

retry_delay_seconds(n) ==
    LET exponent == IF n = 0 THEN 0 ELSE n - 1
    IN  Smaller(RetryMax, RetryBase * 2^exponent)

(* Two wrong ones: the status of the job instead of the request's, and no  *)
(* update to PROCESSING.                                                   *)
SyncedToJobStatus(r, s) ==
    IF r = "NONE" THEN r ELSE IF s = "PENDING" THEN "QUEUED" ELSE s
SyncedWithoutProcessing(r, s) == IF r = "NONE" \/ s = "PROCESSING" THEN r ELSE s

(* _sync_manual_refresh_requests on one request: PROCESSING only follows   *)
(* PENDING, the other statuses are written whatever the request says.      *)
Synced(r, s) ==
    IF r = "NONE" \/ (s = "PROCESSING" /\ r # "PENDING") THEN r ELSE s

(* enqueue_daily_collection and enqueue_collection_now create this row.    *)
Queued(scheduled) ==
    [NoRow EXCEPT !.status = "QUEUED", !.scheduled_for = scheduled,
                  !.available_at = scheduled]

Arrivals == now <= LastArrival

(* The scheduler, once the day's time has come and until the date changes; *)
(* a second call finds the key and changes nothing.                        *)
EnqueueDaily(j) ==
    /\ Arrivals
    /\ DueAt[j] <= now /\ now < DayEnd[j]
    /\ job[j].status = "NONE"
    /\ job' = [job EXCEPT ![j] = Queued(DueAt[j])]
    /\ UNCHANGED <<now, attempts, lease, request, worker, faults, requeues>>

(* schedule_daily_collection --force: a manual job with no request.        *)
EnqueueNow(j) ==
    /\ Arrivals
    /\ job[j].status = "NONE"
    /\ job' = [job EXCEPT ![j] = Queued(now)]
    /\ UNCHANGED <<now, attempts, lease, request, worker, faults, requeues>>

(* /atualizar: the job and its request are created in one transaction.     *)
RequestRefresh(j) ==
    /\ Arrivals
    /\ job[j].status = "NONE"
    /\ job' = [job EXCEPT ![j] = Queued(now)]
    /\ request' = [request EXCEPT ![j] = "PENDING"]
    /\ UNCHANGED <<now, attempts, lease, worker, faults, requeues>>

(* A wrong requeue: of any job that has not succeeded.                     *)
RequeueUnfinishedJob(j) ==
    /\ Arrivals /\ requeues < MaxRequeues
    /\ job[j].status \notin {"NONE", "SUCCESS"}
    /\ job' = [job EXCEPT ![j].status = "QUEUED",
                          ![j].available_at = now,
                          ![j].max_attempts = job[j].attempt_count + MaxAttempts,
                          ![j].claimed_by = Nobody,
                          ![j].lease_expires_at = NoTime]
    /\ request' = [request EXCEPT ![j] = Synced(@, "PENDING")]
    /\ requeues' = requeues + 1
    /\ UNCHANGED <<now, attempts, lease, worker, faults>>

(* retry_dead_collection_job, by the operator.                             *)
RequeueDeadJob(j) ==
    /\ Arrivals /\ requeues < MaxRequeues
    /\ job[j].status = "DEAD"
    /\ job' = [job EXCEPT ![j].status = "QUEUED",
                          ![j].available_at = now,
                          ![j].max_attempts = job[j].attempt_count + MaxAttempts,
                          ![j].claimed_by = Nobody,
                          ![j].lease_expires_at = NoTime]
    /\ request' = [request EXCEPT ![j] = Synced(@, "PENDING")]
    /\ requeues' = requeues + 1
    /\ UNCHANGED <<now, attempts, lease, worker, faults>>

-----------------------------------------------------------------------------
(* process_next_job reads the clock before its transaction begins.         *)
StartPoll(w) ==
    /\ worker[w].pc = "idle"
    /\ worker' = [worker EXCEPT ![w].pc = "polling", ![w].started = now]
    /\ UNCHANGED <<now, job, attempts, lease, request, faults, requeues>>

(* Wrong ones: a lease taken over one unit early, a lease never taken over,*)
(* and the release of a lease whoever owns it.                             *)
CanAcquireEarly(w, t) ==
    lease.owner = Nobody \/ lease.locked_until <= t + 1 \/ lease.owner = w
CanAcquireOnlyFree(w, t) == lease.owner = Nobody \/ lease.owner = w
ReleaseAnyLease(w) == lease' = Free

CanAcquire(w, t) ==
    lease.owner = Nobody \/ lease.locked_until <= t \/ lease.owner = w

AcquireLease(w, t) == lease' = [owner |-> w, locked_until |-> t + LeaseTime]

ReleaseLease(w) == lease' = IF lease.owner = w THEN Free ELSE lease

(* Wrong ones: running jobs never expire, one attempt beyond the budget,   *)
(* and a recovery that leaves the attempt RUNNING.                         *)
NeverExpired(j, t) == FALSE
ExhaustedTooLate(j) == job[j].attempt_count > job[j].max_attempts
AttemptsNotAbandoned(t) == attempts

(* _recover_expired_jobs: what the transaction at time t leaves of every   *)
(* table before it looks for a job to claim.                               *)
Expired(j, t) == job[j].status = "RUNNING" /\ job[j].lease_expires_at <= t

Exhausted(j) == job[j].attempt_count >= job[j].max_attempts

RecoveredJobs(t) ==
    [j \in Jobs |->
        IF Expired(j, t)
        THEN [job[j] EXCEPT
                !.status = IF Exhausted(j) THEN "DEAD" ELSE "RETRY_WAIT",
                !.available_at = t + retry_delay_seconds(job[j].attempt_count),
                !.claimed_by = Nobody,
                !.lease_expires_at = NoTime]
        ELSE job[j]]

RecoveredAttempts(t) ==
    [j \in Jobs |->
        IF Expired(j, t) /\ attempts[j][job[j].attempt_count] = "RUNNING"
        THEN [attempts[j] EXCEPT ![job[j].attempt_count] = "ABANDONED"]
        ELSE attempts[j]]

RecoveredRequests(t) ==
    [j \in Jobs |->
        IF Expired(j, t) /\ Exhausted(j) THEN Synced(request[j], "FAILED")
                                         ELSE request[j]]

Claimable(t) ==
    {j \in Jobs : /\ RecoveredJobs(t)[j].status \in Waiting
                  /\ RecoveredJobs(t)[j].available_at <= t}

PollBusy(w) ==
    /\ worker[w].pc = "polling"
    /\ ~ CanAcquire(w, worker[w].started)
    /\ worker' = [worker EXCEPT ![w] = AtRest("idle")]
    /\ UNCHANGED <<now, job, attempts, lease, request, faults, requeues>>

(* Nothing to claim: the lease just taken is released in a later statement *)
PollIdle(w) ==
    LET t == worker[w].started IN
    /\ worker[w].pc = "polling"
    /\ CanAcquire(w, t)
    /\ Claimable(t) = {}
    /\ AcquireLease(w, t)
    /\ job' = RecoveredJobs(t)
    /\ attempts' = RecoveredAttempts(t)
    /\ request' = RecoveredRequests(t)
    /\ worker' = [worker EXCEPT ![w].pc = "releasing"]
    /\ UNCHANGED <<now, faults, requeues>>

(* _claim_next_job: oldest scheduled_for first; created_at and id break    *)
(* ties, here any of the tied jobs.                                        *)
PollClaim(w, j) ==
    LET t      == worker[w].started
        number == job[j].attempt_count + 1
    IN
    /\ worker[w].pc = "polling"
    /\ CanAcquire(w, t)
    /\ j \in Claimable(t)
    /\ \A k \in Claimable(t) : job[j].scheduled_for <= job[k].scheduled_for
    /\ AcquireLease(w, t)
    /\ job' = [RecoveredJobs(t) EXCEPT
                 ![j].status = "RUNNING",
                 ![j].attempt_count = number,
                 ![j].claimed_by = w,
                 ![j].lease_expires_at = t + LeaseTime]
    /\ attempts' = [RecoveredAttempts(t) EXCEPT ![j] = Append(@, "RUNNING")]
    /\ request' = [RecoveredRequests(t) EXCEPT ![j] = Synced(@, "PROCESSING")]
    /\ worker' = [worker EXCEPT ![w].pc = "collecting",
                                ![w].job = j,
                                ![w].number = number,
                                ![w].max_attempts = job[j].max_attempts]
    /\ UNCHANGED <<now, faults, requeues>>

-----------------------------------------------------------------------------
(* The collector returns or raises; _finish_success and _finish_failure    *)
(* save the attempt row first, on its own. _safe_failure tells retryable   *)
(* exceptions from fatal ones.                                             *)
FinishAttempt(w, outcome) ==
    /\ worker[w].pc = "collecting"
    /\ attempts' = [attempts EXCEPT ![worker[w].job][worker[w].number] =
                       IF outcome = "success" THEN "SUCCESS" ELSE "FAILED"]
    /\ worker' = [worker EXCEPT ![w].pc = "saving",
                                ![w].outcome = outcome,
                                ![w].finished = now]
    /\ UNCHANGED <<now, job, lease, request, faults, requeues>>

(* A wrong one: a retryable failure is retried without end.                *)
RetryWithoutLimit(w) == worker[w].outcome = "retryable"

ShouldRetry(w) == /\ worker[w].outcome = "retryable"
                  /\ worker[w].number < worker[w].max_attempts

SavedStatus(w) == CASE worker[w].outcome = "success" -> "SUCCESS"
                    [] ShouldRetry(w)                -> "RETRY_WAIT"
                    [] OTHER                         -> "DEAD"

(* _finish_success does not write available_at.                            *)
SavedAvailableAt(w) ==
    IF worker[w].outcome = "success" THEN job[worker[w].job].available_at
    ELSE worker[w].finished + retry_delay_seconds(worker[w].number)

(* A wrong one: a save of the whole object, not of the changed columns.    *)
SavedWholeRow(w) == [job[worker[w].job] EXCEPT !.status = SavedStatus(w),
                                               !.available_at = SavedAvailableAt(w),
                                               !.attempt_count = worker[w].number,
                                               !.claimed_by = Nobody,
                                               !.lease_expires_at = NoTime]

SavedRow(w) == [job[worker[w].job] EXCEPT !.status = SavedStatus(w),
                                          !.available_at = SavedAvailableAt(w),
                                          !.claimed_by = Nobody,
                                          !.lease_expires_at = NoTime]

(* Wrong ones: the requests are told of every failure, or of success only. *)
AfterSaveSync(w) == "syncing"
AfterSuccessSync(w) == IF worker[w].outcome = "success" THEN "syncing" ELSE "releasing"

(* The requests are told of a final status only.                           *)
AfterSave(w) == IF ShouldRetry(w) THEN "releasing" ELSE "syncing"

(* Then the job row, from the object kept in memory since the claim: no    *)
(* condition on the row's present status, owner or attempt_count.          *)
SaveJob(w) ==
    /\ worker[w].pc = "saving"
    /\ job' = [job EXCEPT ![worker[w].job] = SavedRow(w)]
    /\ worker' = [worker EXCEPT ![w].pc = AfterSave(w)]
    /\ UNCHANGED <<now, attempts, lease, request, faults, requeues>>

(* A wrong one: COMPLETED whatever became of the job.                      *)
SyncAsCompleted(w) ==
    /\ worker[w].pc = "syncing"
    /\ request' = [request EXCEPT ![worker[w].job] = Synced(@, "COMPLETED")]
    /\ worker' = [worker EXCEPT ![w].pc = "releasing"]
    /\ UNCHANGED <<now, job, attempts, lease, faults, requeues>>

(* Then the refresh requests, when the job is over.                        *)
SyncRequests(w) ==
    LET final == IF worker[w].outcome = "success" THEN "COMPLETED" ELSE "FAILED" IN
    /\ worker[w].pc = "syncing"
    /\ request' = [request EXCEPT ![worker[w].job] = Synced(@, final)]
    /\ worker' = [worker EXCEPT ![w].pc = "releasing"]
    /\ UNCHANGED <<now, job, attempts, lease, faults, requeues>>

(* The finally clause. The worker command exits after a failed job, so its *)
(* process ends; otherwise it sleeps and polls again.                      *)
Release(w) ==
    /\ worker[w].pc = "releasing"
    /\ ReleaseLease(w)
    /\ worker' = [worker EXCEPT ![w] =
                    AtRest(IF worker[w].outcome \in {"none", "success"}
                           THEN "idle" ELSE "stopped")]
    /\ UNCHANGED <<now, job, attempts, request, faults, requeues>>

FaultPossible == faults < MaxFaults /\ now <= LastFault

(* A save raises: finally releases the lease and the process ends, with    *)
(* the rows as the earlier statements left them.                           *)
DatabaseError(w) ==
    /\ FaultPossible
    /\ worker[w].pc \in {"collecting", "saving", "syncing"}
    /\ worker' = [worker EXCEPT ![w].pc = "releasing", ![w].outcome = "raised"]
    /\ faults' = faults + 1
    /\ UNCHANGED <<now, job, attempts, lease, request, requeues>>

(* The process is killed (or interrupted) between two statements.          *)
Crash(w) ==
    /\ FaultPossible
    /\ worker[w].pc \in AtWork
    /\ worker' = [worker EXCEPT ![w] = AtRest("stopped")]
    /\ faults' = faults + 1
    /\ UNCHANGED <<now, job, attempts, lease, request, requeues>>

(* restart: unless-stopped. The new process has an id no row mentions.     *)
Restart(w) ==
    /\ worker[w].pc = "stopped"
    /\ lease.owner # w
    /\ \A j \in Jobs : job[j].claimed_by # w
    /\ worker' = [worker EXCEPT ![w] = AtRest("idle")]
    /\ UNCHANGED <<now, job, attempts, lease, request, faults, requeues>>

(* Time passes. With LeaseOutlivesWork it does not pass the deadline of a  *)
(* worker that is alive and between its clock read and its release.        *)
Tick ==
    /\ now < MaxTime
    /\ LeaseOutlivesWork =>
         \A w \in Workers :
            worker[w].pc \in AtWork \union {"polling"} => now + 1 < Deadline(w)
    /\ now' = now + 1
    /\ UNCHANGED <<job, attempts, lease, request, worker, faults, requeues>>

WorkerStep(w) ==
    \/ StartPoll(w) \/ PollBusy(w) \/ PollIdle(w)
    \/ \E j \in Jobs : PollClaim(w, j)
    \/ \E outcome \in {"success", "retryable", "fatal"} : FinishAttempt(w, outcome)
    \/ SaveJob(w) \/ SyncRequests(w) \/ Release(w)
    \/ Restart(w)

SystemStep ==
    \/ \E j \in DailyJobs : EnqueueDaily(j)
    \/ \E j \in ManualJobs : EnqueueNow(j) \/ RequestRefresh(j)
    \/ \E j \in Jobs : RequeueDeadJob(j)
    \/ \E w \in Workers : WorkerStep(w) \/ DatabaseError(w) \/ Crash(w)

Next == SystemStep \/ Tick

Spec == Init /\ [][Next]_vars

(* For liveness a unit of time is longer than a poll or a collection: the  *)
(* clock waits while a worker is at work or could get the lease and find   *)
(* something to do. So it only moves towards a backoff, a lease deadline   *)
(* or an arrival, and MaxTime can be chosen beyond the last of them.       *)
WorkPossible ==
    \/ \E w \in Workers : worker[w].pc \in AtWork
    \/ /\ lease.owner = Nobody \/ lease.locked_until <= now
       /\ Claimable(now) # {} \/ \E j \in Jobs : Expired(j, now)

PromptTick == ~ WorkPossible /\ Tick

(* Each process takes its steps (a collection ends, by the timeouts of the *)
(* collectors; a stopped process is restarted), and time passes although   *)
(* idle polls keep taking the lease for a moment.                          *)
FairSpec == /\ Init /\ [][SystemStep \/ PromptTick]_vars
            /\ \A w \in Workers : WF_vars(WorkerStep(w))
            /\ SF_vars(PromptTick)

-----------------------------------------------------------------------------
(* Safety, whatever the delays: properties of the lease itself.            *)

(* While its reservation is valid, a worker between its claim and its      *)
(* release is the owner in the lease row, with the deadline it took: no    *)
(* other process acquired the lease meanwhile and no stale process freed   *)
(* it. So two workers never hold unexpired reservations together.          *)
ReservationProtected ==
    \A w \in Workers :
        worker[w].pc \in AtWork /\ now < Deadline(w) =>
            lease = [owner |-> w, locked_until |-> Deadline(w)]

(* The attempt rows of a job are numbered 1..attempt_count, and a worker   *)
(* that finishes late still finds the row of its own attempt: no interplay *)
(* of recovery, requeue and stale saves creates a number twice or skips it.*)
AttemptsNumbered ==
    /\ \A j \in Jobs : Len(attempts[j]) = job[j].attempt_count
    /\ \A w \in Workers :
         worker[w].pc \in Claimed => worker[w].number \in 1..Len(attempts[worker[w].job])

(* A request still PENDING belongs to a job that waits for a worker or has *)
(* been saved by a late one, never to a job a worker is running: the claim *)
(* and its sync are one transaction, and so is the requeue.                *)
PendingNotRunning ==
    \A j \in Jobs : request[j] = "PENDING" => job[j].status # "RUNNING"

-----------------------------------------------------------------------------
(* Safety when no live worker overruns its lease (LeaseOutlivesWork).      *)

(* At most one process is between its claim and its release.               *)
SingleWorker ==
    LeaseOutlivesWork =>
        \A u, w \in Workers :
            worker[u].pc \in AtWork /\ worker[w].pc \in AtWork => u = w

(* The CollectionJob object a worker keeps in memory while it collects is  *)
(* still what the row says when _finish_success or _finish_failure saves   *)
(* it: running, claimed by this worker, for this attempt of this budget,   *)
(* until the deadline of its lease.                                        *)
ClaimHolds(w) ==
    LET row == job[worker[w].job] IN
    /\ row.status = "RUNNING"
    /\ row.claimed_by = w
    /\ row.attempt_count = worker[w].number
    /\ row.max_attempts = worker[w].max_attempts
    /\ row.lease_expires_at = Deadline(w)

MemoryIsFresh ==
    LeaseOutlivesWork =>
        \A w \in Workers : worker[w].pc \in Claimed => ClaimHolds(w)

(* A job is never attempted more often than its budget, and one that waits *)
(* for another attempt has budget left.                                    *)
WithinBudget ==
    LeaseOutlivesWork =>
        \A j \in Jobs :
            /\ job[j].attempt_count <= job[j].max_attempts
            /\ job[j].status \in Waiting \union {"NONE"} =>
                 job[j].attempt_count < job[j].max_attempts

(* The history agrees with the job: only the current attempt of a running  *)
(* job is RUNNING, a SUCCESS job ends in a SUCCESS attempt, and a job that *)
(* was run again after a SUCCESS attempt lost its worker between the two   *)
(* saves (a crash or a database error).                                    *)
HistoryAgrees ==
    LeaseOutlivesWork =>
        \A j \in Jobs : \A n \in DOMAIN attempts[j] :
            /\ attempts[j][n] = "RUNNING" =>
                 job[j].status = "RUNNING" /\ n = job[j].attempt_count
            /\ job[j].status = "SUCCESS" =>
                 (attempts[j][n] = "SUCCESS" <=> n = job[j].attempt_count) \/ faults > 0
            /\ attempts[j][n] = "SUCCESS" /\ job[j].status \notin {"SUCCESS", "RUNNING"} =>
                 faults > 0

(* A request reported COMPLETED belongs to a job that succeeded, for good. *)
CompletedMeansSuccess ==
    LeaseOutlivesWork =>
        \A j \in Jobs : request[j] = "COMPLETED" => job[j].status = "SUCCESS"

(* Without faults and without a requeue, a request never lags its job by   *)
(* more than the statement that is about to update it.                     *)
SyncPending(j) == \E w \in Workers : worker[w].pc = "syncing" /\ worker[w].job = j

RequestInSync ==
    LeaseOutlivesWork /\ faults = 0 /\ requeues = 0 =>
        \A j \in Jobs : request[j] = "NONE" \/
            CASE job[j].status = "QUEUED"  -> request[j] = "PENDING"
              [] job[j].status \in {"RUNNING", "RETRY_WAIT"} -> request[j] = "PROCESSING"
              [] job[j].status = "SUCCESS" -> request[j] = "COMPLETED" \/ SyncPending(j)
              [] job[j].status = "DEAD"    -> request[j] = "FAILED" \/ SyncPending(j)
              [] OTHER -> FALSE

(* The rows follow the documented life of a job.                           *)
Lifecycle == INSTANCE JobLifecycle WITH
    status        <- [j \in Jobs |-> job[j].status],
    attempt_count <- [j \in Jobs |-> job[j].attempt_count],
    max_attempts  <- [j \in Jobs |-> job[j].max_attempts]

LifecycleSpec == Lifecycle!Spec

-----------------------------------------------------------------------------
(* What else every step preserves: with the properties above, an inductive *)
(* invariant.                                                              *)

(* A worker's clock read lies in the past.                                 *)
StartedInPast == \A w \in Workers : worker[w].started <= now

(* A worker has a job in memory until it has synced its requests.          *)
TaskAssigned ==
    \A w \in Workers :
        worker[w].pc \in Claimed \union {"syncing"} => worker[w].job \in Jobs

(* Nothing writes to a job before it is created.                           *)
UntouchedUntilCreated == \A j \in Jobs : job[j].status = "NONE" => job[j] = NoRow

(* What LeaseOutlivesWork says of the clock.                               *)
NobodyOverruns ==
    LeaseOutlivesWork =>
        \A w \in Workers :
            worker[w].pc \in AtWork \union {"polling"} => now < Deadline(w)

(* A worker that is about to report COMPLETED has saved SUCCESS, and nobody *)
(* took the job back meanwhile.                                            *)
SavedBeforeSync ==
    LeaseOutlivesWork =>
        \A w \in Workers :
            worker[w].pc = "syncing" /\ worker[w].outcome = "success" =>
                job[worker[w].job].status = "SUCCESS"

LeaseInv == /\ TypeOK /\ StartedInPast /\ TaskAssigned
            /\ UntouchedUntilCreated /\ AttemptsNumbered /\ ReservationProtected

TimelyInv == /\ LeaseInv /\ NobodyOverruns /\ MemoryIsFresh /\ WithinBudget
             /\ SavedBeforeSync /\ CompletedMeansSuccess

-----------------------------------------------------------------------------
(* Liveness, under FairSpec.                                               *)

(* Every job that is created ends, in SUCCESS or DEAD, in spite of crashes *)
(* that leave it RUNNING and of leases that nobody releases.               *)
EveryJobSettles ==
    \A j \in Jobs : (job[j].status \in Waiting \union {"RUNNING"})
                        ~> (job[j].status \in {"SUCCESS", "DEAD"})

(* The shared lease does not stay with a process that is gone.             *)
LeaseIsFreed ==
    \A w \in Workers :
        (lease.owner = w /\ worker[w].pc = "stopped") ~> (lease.owner # w)

(* Without faults a refresh request reaches COMPLETED or FAILED.           *)
RequestsSettle ==
    \A j \in Jobs : (request[j] \in {"PENDING", "PROCESSING"})
                        ~> (request[j] \in {"COMPLETED", "FAILED"} \/ faults > 0)

-----------------------------------------------------------------------------
(* What the documentation says and the code does not keep.                 *)

(* The diagram of docs/stage-6-scheduler-workers.md has no way out of      *)
(* SUCCESS: a job that succeeded stays so.                                 *)
SuccessIsFinal ==
    [][\A j \in Jobs : job[j].status = "SUCCESS" => job'[j].status = "SUCCESS"]_vars

(* docs/stage-8-notifications.md: the worker moves a request through       *)
(* PENDING, PROCESSING and COMPLETED (or FAILED): the request of a job     *)
(* that succeeded, when no worker is about to update it, is COMPLETED.     *)
SuccessReachesRequest ==
    \A j \in Jobs : job[j].status = "SUCCESS" /\ ~ SyncPending(j) =>
                        request[j] \in {"NONE", "COMPLETED"}
=============================================================================
