-------------------------- MODULE JobRecordsProofs --------------------------
(* Proofs about the records that follow the jobs of the queue: refresh      *)
(* requests and attempts.                                                   *)
EXTENDS CollectionQueueProofs

(* Without faults and requeues a running job has its worker, a worker that  *)
(* is about to sync has saved what it is going to report, and a job that    *)
(* does not exist has no request.                                           *)
Quiet == LeaseOutlivesWork /\ faults = 0 /\ requeues = 0
RunningIsWorkedOn ==
    \A j \in Jobs : job[j].status = "RUNNING" =>
        \E w \in Workers : worker[w].pc \in Claimed /\ worker[w].job = j
SavedWhatIsReported ==
    \A w \in Workers : worker[w].pc = "syncing" =>
        job[worker[w].job].status = IF worker[w].outcome = "success" THEN "SUCCESS" ELSE "DEAD"
InSync(j) ==
    \/ request[j] = "NONE"
    \/ job[j].status = "QUEUED" /\ request[j] = "PENDING"
    \/ job[j].status \in {"RUNNING", "RETRY_WAIT"} /\ request[j] = "PROCESSING"
    \/ job[j].status = "SUCCESS" /\ (request[j] = "COMPLETED" \/ SyncPending(j))
    \/ job[j].status = "DEAD" /\ (request[j] = "FAILED" \/ SyncPending(j))
NoneRequested == \A j \in Jobs : job[j].status = "NONE" => request[j] = "NONE"
FollowInv ==
    Quiet => RunningIsWorkedOn /\ SavedWhatIsReported /\ NoneRequested /\ \A j \in Jobs : InSync(j)

(* RequestInSync in other words.                                            *)
LEMMA SyncInWords ==
  ASSUME TypeOK PROVE RequestInSync <=> (Quiet => \A j \in Jobs : InSync(j))
<1>1. ASSUME NEW j \in Jobs
      PROVE  (request[j] = "NONE" \/
                CASE job[j].status = "QUEUED"  -> request[j] = "PENDING"
                  [] job[j].status \in {"RUNNING", "RETRY_WAIT"} -> request[j] = "PROCESSING"
                  [] job[j].status = "SUCCESS" -> request[j] = "COMPLETED" \/ SyncPending(j)
                  [] job[j].status = "DEAD"    -> request[j] = "FAILED" \/ SyncPending(j)
                  [] OTHER -> FALSE) <=> InSync(j)
  <2>1. job[j].status \in JobStatus
    BY DEF TypeOK, JobRow
  <2>. QED BY <2>1 DEF InSync, JobStatus
<1>. QED BY <1>1 DEF RequestInSync, Quiet

(* Nothing has expired when a worker gets the lease: a running job has its  *)
(* worker, and nobody else is at work.                                      *)
LEMMA NothingExpired ==
  ASSUME TimelyInv, FollowInv, Quiet,
         NEW w \in Workers, worker[w].pc = "polling", CanAcquire(w, worker[w].started)
  PROVE  /\ \A j \in Jobs : job[j].status # "RUNNING"
         /\ RecoveredJobs(worker[w].started) = job
         /\ RecoveredRequests(worker[w].started) = request
<1>1. \A u \in Workers : worker[u].pc \notin AtWork
  BY NobodyElseAtWork DEF TimelyInv, Quiet
<1>2. \A j \in Jobs : job[j].status # "RUNNING"
  BY <1>1 DEF FollowInv, RunningIsWorkedOn, Claimed, AtWork
<1>3. \A j \in Jobs : ~ Expired(j, worker[w].started)
  BY <1>2 DEF Expired
<1>4. job \in [Jobs -> JobRow] /\ request \in [Jobs -> RequestStatus]
  BY DEF TimelyInv, LeaseInv, TypeOK
<1>. QED BY <1>2, <1>3, <1>4 DEF RecoveredJobs, RecoveredRequests

(* A step that changes no job and no request, and leaves every worker with  *)
(* a claim or a sync before it where it is.                                 *)
LEMMA NothingMoves ==
  ASSUME FollowInv, Quiet, job' = job, request' = request,
         \A u \in Workers :
           /\ worker'[u].pc \in Claimed <=> worker[u].pc \in Claimed
           /\ worker'[u].pc = "syncing" <=> worker[u].pc = "syncing"
           /\ worker[u].pc \in Claimed \cup {"syncing"} => worker'[u].job = worker[u].job
           /\ worker[u].pc = "syncing" => worker'[u].outcome = worker[u].outcome
  PROVE  FollowInv'
<1>1. RunningIsWorkedOn' /\ SavedWhatIsReported' /\ NoneRequested'
  BY DEF FollowInv, RunningIsWorkedOn, SavedWhatIsReported, NoneRequested
<1>2. \A j \in Jobs : SyncPending(j) => SyncPending(j)'
  BY DEF SyncPending
<1>3. \A j \in Jobs : InSync(j)'
  BY <1>2 DEF FollowInv, InSync
<1>. QED BY <1>1, <1>3 DEF FollowInv

(* A claim: the request of the job is PENDING or PROCESSING before, and     *)
(* PROCESSING after it.                                                     *)
LEMMA ClaimFollows ==
  ASSUME TimelyInv, FollowInv, Quiet, NEW w \in Workers, NEW j \in Jobs, PollClaim(w, j)
  PROVE  FollowInv'
<1> USE DEF TimelyInv, LeaseInv
<1>1. /\ RecoveredJobs(worker[w].started) = job /\ RecoveredRequests(worker[w].started) = request
      /\ worker[w].pc = "polling"
      /\ \A k \in Jobs : job[k].status # "RUNNING"
  BY NothingExpired DEF PollClaim
<1>2. job[j].status \in Waiting
  BY <1>1, ClaimableWaits DEF PollClaim, TypeOK, WorkerState
<1>3. /\ \A k \in Jobs : k # j => job'[k] = job[k] /\ request'[k] = request[k]
      /\ job'[j].status = "RUNNING" /\ request'[j] = Synced(request[j], "PROCESSING")
  BY <1>1 DEF PollClaim, TypeOK, JobRow
<1>4. /\ worker'[w].pc = "collecting" /\ worker'[w].job = j
      /\ \A u \in Workers : u # w => worker'[u] = worker[u]
  BY DEF PollClaim, TypeOK, WorkerState
<1>5. RunningIsWorkedOn'
  BY <1>1, <1>3, <1>4 DEF RunningIsWorkedOn, Claimed
<1>6. \A u \in Workers : u # w => worker[u].pc # "syncing"
  BY <1>1, NobodyElseAtWork DEF PollClaim, Quiet, AtWork
<1>7. SavedWhatIsReported'
  BY <1>4, <1>6 DEF SavedWhatIsReported
<1>8. NoneRequested'
  BY <1>3 DEF FollowInv, NoneRequested
<1>9. \A k \in Jobs : ~ SyncPending(k)
  BY <1>1, <1>6 DEF SyncPending
<1>10. \A k \in Jobs : InSync(k)'
  <2>1. InSync(j)'
    BY <1>2, <1>3 DEF FollowInv, InSync, Synced, Waiting
  <2>2. \A k \in Jobs : k # j => InSync(k)'
    BY <1>3, <1>9 DEF FollowInv, InSync
  <2>. QED BY <2>1, <2>2
<1>. QED BY <1>5, <1>7, <1>8, <1>10 DEF FollowInv

(* A save: the job was running, and its worker syncs next, unless the job   *)
(* is tried again and its request stays PROCESSING.                         *)
LEMMA SaveFollows ==
  ASSUME TimelyInv, FollowInv, Quiet, NEW w \in Workers, SaveJob(w)
  PROVE  FollowInv'
<1> USE DEF TimelyInv, LeaseInv
<1>1. worker[w].pc = "saving" /\ worker[w].job \in Jobs
  BY DEF SaveJob, TaskAssigned, Claimed
<1>2. PICK j \in Jobs : j = worker[w].job
  BY <1>1
<1>3. job[j].status = "RUNNING"
  BY <1>1, <1>2 DEF MemoryIsFresh, ClaimHolds, Quiet, Claimed
<1>4. /\ job'[j].status = SavedStatus(w) /\ request' = request
      /\ \A k \in Jobs : k # j => job'[k] = job[k]
  BY <1>1, <1>2, SavedRowEffect DEF SaveJob, TypeOK
<1>5. /\ worker'[w].pc = AfterSave(w) /\ worker'[w].job = j
      /\ worker'[w].outcome = worker[w].outcome
      /\ \A u \in Workers : u # w => worker'[u] = worker[u]
  BY <1>2 DEF SaveJob, TypeOK, WorkerState
<1>6. \A u \in Workers : u # w => worker[u].pc \notin AtWork
  BY <1>1, OneReservation DEF SingleWorker, Quiet, AtWork
<1>7. /\ SavedStatus(w) = "RETRY_WAIT" => AfterSave(w) = "releasing"
      /\ SavedStatus(w) # "RETRY_WAIT" => AfterSave(w) = "syncing"
      /\ AfterSave(w) = "syncing" =>
           SavedStatus(w) = IF worker[w].outcome = "success" THEN "SUCCESS" ELSE "DEAD"
      /\ SavedStatus(w) \in {"SUCCESS", "RETRY_WAIT", "DEAD"}
  BY DEF SavedStatus, AfterSave, ShouldRetry
<1>8. RunningIsWorkedOn'
  <2>1. \A k \in Jobs : k # j => job[k].status # "RUNNING"
    BY <1>2, <1>6 DEF FollowInv, RunningIsWorkedOn, Claimed, AtWork
  <2>. QED BY <1>4, <1>7, <2>1 DEF RunningIsWorkedOn
<1>9. SavedWhatIsReported'
  BY <1>4, <1>5, <1>6, <1>7 DEF SavedWhatIsReported, AtWork
<1>10. NoneRequested'
  BY <1>4, <1>7 DEF FollowInv, NoneRequested
<1>11. \A k \in Jobs : InSync(k)'
  <2>1. InSync(j)'
    <3>1. AfterSave(w) = "syncing" => SyncPending(j)'
      BY <1>5 DEF SyncPending
    <3>2. request[j] \in {"NONE", "PROCESSING"}
      BY <1>3 DEF FollowInv, InSync
    <3>. QED BY <1>4, <1>7, <3>1, <3>2 DEF InSync
  <2>2. \A k \in Jobs : k # j => ~ SyncPending(k)
    BY <1>1, <1>6 DEF SyncPending, AtWork
  <2>3. \A k \in Jobs : k # j => InSync(k)'
    BY <1>4, <2>2 DEF FollowInv, InSync
  <2>. QED BY <2>1, <2>3
<1>. QED BY <1>8, <1>9, <1>10, <1>11 DEF FollowInv

(* A sync: the request gets the status that belongs to the saved one.       *)
LEMMA SyncFollows ==
  ASSUME TimelyInv, FollowInv, Quiet, NEW w \in Workers, SyncRequests(w)
  PROVE  FollowInv'
<1> USE DEF TimelyInv, LeaseInv
<1>1. worker[w].pc = "syncing" /\ worker[w].job \in Jobs
  BY DEF SyncRequests, TaskAssigned
<1>2. PICK j \in Jobs : j = worker[w].job
  BY <1>1
<1>3. job[j].status = IF worker[w].outcome = "success" THEN "SUCCESS" ELSE "DEAD"
  BY <1>1, <1>2 DEF FollowInv, SavedWhatIsReported
<1>4. /\ job' = job /\ \A k \in Jobs : k # j => request'[k] = request[k]
      /\ request'[j] = Synced(request[j],
           IF worker[w].outcome = "success" THEN "COMPLETED" ELSE "FAILED")
  BY <1>2 DEF SyncRequests, TypeOK
<1>5. /\ worker'[w].pc = "releasing" /\ \A u \in Workers : u # w => worker'[u] = worker[u]
  BY DEF SyncRequests, TypeOK, WorkerState
<1>6. \A u \in Workers : u # w => worker[u].pc \notin AtWork
  BY <1>1, OneReservation DEF SingleWorker, Quiet, AtWork
<1>7. RunningIsWorkedOn' /\ SavedWhatIsReported'
  BY <1>1, <1>4, <1>5, <1>6 DEF FollowInv, RunningIsWorkedOn, SavedWhatIsReported, Claimed, AtWork
<1>8. NoneRequested'
  BY <1>3, <1>4 DEF FollowInv, NoneRequested
<1>9. \A k \in Jobs : InSync(k)'
  <2>1. InSync(j)'
    BY <1>3, <1>4 DEF InSync, Synced
  <2>2. \A k \in Jobs : k # j => ~ SyncPending(k)
    BY <1>2, <1>6 DEF SyncPending, AtWork
  <2>3. \A k \in Jobs : k # j => InSync(k)'
    BY <1>4, <2>2 DEF FollowInv, InSync
  <2>. QED BY <2>1, <2>3
<1>. QED BY <1>7, <1>8, <1>9 DEF FollowInv

(* A job is created, with a request or without one.                         *)
LEMMA CreationFollows ==
  ASSUME TimelyInv, FollowInv, Quiet,
         \/ \E j \in DailyJobs : EnqueueDaily(j)
         \/ \E j \in ManualJobs : EnqueueNow(j) \/ RequestRefresh(j)
  PROVE  FollowInv'
<1> USE DEF TimelyInv, LeaseInv
<1>1. PICK j \in Jobs :
        /\ job[j].status = "NONE" /\ worker' = worker
        /\ \E t \in Nat : job' = [job EXCEPT ![j] = Queued(t)]
        /\ request' = request \/ request' = [request EXCEPT ![j] = "PENDING"]
  BY QueueAssumption DEF EnqueueDaily, EnqueueNow, RequestRefresh, Jobs, TypeOK
<1>2. \A t : Queued(t).status = "QUEUED"
  BY DEF Queued, NoRow
<1>3. /\ job'[j].status = "QUEUED" /\ request'[j] \in {request[j], "PENDING"}
      /\ \A k \in Jobs : k # j => job'[k] = job[k] /\ request'[k] = request[k]
  BY <1>1, <1>2 DEF TypeOK
<1>4. request[j] = "NONE"
  BY <1>1 DEF FollowInv, NoneRequested
<1>5. RunningIsWorkedOn' /\ NoneRequested'
  BY <1>1, <1>3 DEF FollowInv, RunningIsWorkedOn, NoneRequested
<1>6. SavedWhatIsReported'
  <2>1. \A w \in Workers : worker[w].pc = "syncing" =>
           worker[w].job \in Jobs /\ job[worker[w].job].status # "NONE"
    BY DEF FollowInv, SavedWhatIsReported, TaskAssigned
  <2>. QED BY <1>1, <1>3, <2>1 DEF FollowInv, SavedWhatIsReported
<1>7. \A k \in Jobs : SyncPending(k)' = SyncPending(k)
  BY <1>1 DEF SyncPending
<1>8. \A k \in Jobs : InSync(k)'
  BY <1>3, <1>4, <1>7 DEF FollowInv, InSync
<1>. QED BY <1>5, <1>6, <1>8 DEF FollowInv

(* Every step: those that are faults or requeues end the quiet.             *)
LEMMA FollowStep == TimelyInv /\ FollowInv /\ [Next]_vars => FollowInv'
<1> SUFFICES ASSUME TimelyInv, FollowInv, [Next]_vars, Quiet' PROVE FollowInv'
  BY DEF FollowInv
<1>1. TypeOK /\ faults \in Nat /\ requeues \in Nat
  BY DEF TimelyInv, LeaseInv, TypeOK
<1>2. ASSUME Quiet, NEW w \in Workers,
             \/ StartPoll(w) \/ PollBusy(w) \/ PollIdle(w) \/ Release(w) \/ Restart(w)
             \/ \E outcome \in {"success", "retryable", "fatal"} : FinishAttempt(w, outcome)
      PROVE  FollowInv'
  <2>1. job' = job /\ request' = request
    <3>1. CASE PollIdle(w)
      BY <1>2, <3>1, NothingExpired DEF PollIdle
    <3>2. CASE ~ PollIdle(w)
      BY <1>2, <3>2 DEF StartPoll, PollBusy, Release, Restart, FinishAttempt
    <3>. QED BY <3>1, <3>2
  <2>2. \A u \in Workers : u # w => worker'[u] = worker[u]
    BY <1>1, <1>2
       DEF StartPoll, PollBusy, PollIdle, Release, Restart, FinishAttempt, TypeOK
  <2>3. \/ /\ worker[w].pc \notin Claimed \cup {"syncing"}
           /\ worker'[w].pc \notin Claimed \cup {"syncing"}
        \/ /\ worker[w].pc = "collecting" /\ worker'[w].pc = "saving"
           /\ worker'[w].job = worker[w].job
    <3>1. worker[w] \in WorkerState /\ worker \in [Workers -> WorkerState]
      BY <1>1 DEF TypeOK
    <3>2. CASE StartPoll(w)
      BY <3>1, <3>2 DEF StartPoll, WorkerState, Claimed
    <3>3. CASE PollIdle(w)
      BY <3>1, <3>3 DEF PollIdle, WorkerState, Claimed
    <3>4. CASE PollBusy(w) \/ Release(w) \/ Restart(w)
      <4>1. \E phase \in {"idle", "stopped"} : worker'[w] = AtRest(phase)
        BY <3>1, <3>4 DEF PollBusy, Release, Restart
      <4>2. \A phase : AtRest(phase).pc = phase
        BY DEF AtRest
      <4>3. worker[w].pc \in {"polling", "releasing", "stopped"}
        BY <3>4 DEF PollBusy, Release, Restart
      <4>. QED BY <4>1, <4>2, <4>3 DEF Claimed
    <3>5. CASE \E outcome \in {"success", "retryable", "fatal"} : FinishAttempt(w, outcome)
      BY <3>1, <3>5 DEF FinishAttempt, WorkerState
    <3>. QED BY <1>2, <3>2, <3>3, <3>4, <3>5
  <2>. QED BY <1>2, <2>1, <2>2, <2>3, NothingMoves DEF Claimed
<1>3. ASSUME Tick \/ UNCHANGED vars, Quiet PROVE FollowInv'
  <2>1. job' = job /\ request' = request /\ worker' = worker
    BY <1>3 DEF Tick, vars
  <2>. QED BY <1>3, <2>1, NothingMoves
<1>4. ASSUME NEW w \in Workers, DatabaseError(w) \/ Crash(w) PROVE FALSE
  BY <1>1, <1>4 DEF DatabaseError, Crash, Quiet
<1>5. ASSUME NEW j \in Jobs, RequeueDeadJob(j) PROVE FALSE
  BY <1>1, <1>5 DEF RequeueDeadJob, Quiet
<1>6. ASSUME NEW w \in Workers, WorkerStep(w)
      PROVE  UNCHANGED <<faults, requeues>>
  <2>1. CASE StartPoll(w) \/ PollBusy(w) \/ PollIdle(w)
    BY <2>1 DEF StartPoll, PollBusy, PollIdle
  <2>2. CASE \E j \in Jobs : PollClaim(w, j)
    BY <2>2 DEF PollClaim
  <2>3. CASE \E outcome \in {"success", "retryable", "fatal"} : FinishAttempt(w, outcome)
    BY <2>3 DEF FinishAttempt
  <2>4. CASE SaveJob(w) \/ SyncRequests(w) \/ Release(w) \/ Restart(w)
    BY <2>4 DEF SaveJob, SyncRequests, Release, Restart
  <2>. QED BY <1>6, <2>1, <2>2, <2>3, <2>4 DEF WorkerStep
<1>7. ASSUME \/ \E j \in DailyJobs : EnqueueDaily(j)
             \/ \E j \in ManualJobs : EnqueueNow(j) \/ RequestRefresh(j)
             \/ Tick \/ UNCHANGED vars
      PROVE  UNCHANGED <<faults, requeues>>
  BY <1>7 DEF EnqueueDaily, EnqueueNow, RequestRefresh, Tick, vars
<1>8. UNCHANGED <<faults, requeues>>
  BY <1>4, <1>5, <1>6, <1>7 DEF Next, SystemStep
<1>9. Quiet
  BY <1>8 DEF Quiet
<1>. QED BY <1>2, <1>3, <1>4, <1>5, <1>9, ClaimFollows, SaveFollows, SyncFollows, CreationFollows
         DEF Next, SystemStep, WorkerStep

----------------------------------------------------------------------------
(* Without faults and requeues every request says what its job says, up to  *)
(* the one statement that is about to update it: no claim, save, recovery   *)
(* or second request leaves a request behind.                               *)
THEOREM RequestsFollow == Spec => []RequestInSync
<1>1. Init => FollowInv
  <2> SUFFICES ASSUME Init PROVE FollowInv
    OBVIOUS
  <2>1. NoRow.status = "NONE" /\ AtRest("idle").pc = "idle"
    BY DEF NoRow, AtRest
  <2>. QED BY <2>1
           DEF Init, FollowInv, RunningIsWorkedOn, SavedWhatIsReported, NoneRequested, InSync
<1>2. TimelyInv /\ FollowInv => RequestInSync
  BY SyncInWords DEF TimelyInv, LeaseInv, FollowInv
<1>. QED BY <1>1, <1>2, FollowStep, TimelyInvariant, PTL DEF Spec

(* The claim and the request's PROCESSING are one step, and so are requeue  *)
(* and PENDING: no step lets a PENDING request and a running job meet.      *)
LEMMA PendingStep == TypeOK /\ PendingNotRunning /\ [Next]_vars => PendingNotRunning'
<1> SUFFICES ASSUME TypeOK, PendingNotRunning, [Next]_vars, NEW k \in Jobs,
                    request'[k] = "PENDING"
             PROVE  job'[k].status # "RUNNING"
  BY DEF PendingNotRunning
<1>1. /\ job \in [Jobs -> JobRow] /\ request \in [Jobs -> RequestStatus]
      /\ \A w \in Workers : worker[w].started \in Nat
      /\ request[k] = "PENDING" => job[k].status # "RUNNING"
  BY DEF TypeOK, WorkerState, PendingNotRunning
<1>2. \A t \in Nat : /\ RecoveredJobs(t)[k].status = "RUNNING" => job[k].status = "RUNNING"
                     /\ RecoveredRequests(t)[k] = "PENDING" => request[k] = "PENDING"
  <2> SUFFICES ASSUME NEW t \in Nat
               PROVE  /\ RecoveredJobs(t)[k].status = "RUNNING" => job[k].status = "RUNNING"
                      /\ RecoveredRequests(t)[k] = "PENDING" => request[k] = "PENDING"
    OBVIOUS
  <2>1. RecoveredJobs(t)[k].status = "RUNNING" => job[k].status = "RUNNING"
    BY RecoveryEffect DEF Expired
  <2>2. RecoveredRequests(t)[k] = "PENDING" => request[k] = "PENDING"
    BY DEF RecoveredRequests, Synced
  <2>. QED BY <2>1, <2>2
<1>3. ASSUME NEW w \in Workers, PollIdle(w) PROVE job'[k].status # "RUNNING"
  <2>1. /\ job' = RecoveredJobs(worker[w].started)
        /\ request' = RecoveredRequests(worker[w].started)
    BY <1>3 DEF PollIdle
  <2>. QED BY <1>1, <1>2, <2>1
<1>4. ASSUME NEW w \in Workers, NEW j \in Jobs, PollClaim(w, j)
      PROVE  job'[k].status # "RUNNING"
  <2> DEFINE t == worker[w].started
             jobs == RecoveredJobs(t)
             requests == RecoveredRequests(t)
  <2>1. jobs \in [Jobs -> JobRow] /\ requests \in [Jobs -> RequestStatus]
    BY <1>1, RecoveryTyped
  <2>2. request' = [requests EXCEPT ![j] = Synced(requests[j], "PROCESSING")]
    BY <1>4 DEF PollClaim
  <2>3. k # j => job'[k] = jobs[k]
    BY <1>4, <2>1 DEF PollClaim
  <2>4. (jobs[k].status = "RUNNING" => job[k].status = "RUNNING")
        /\ (requests[k] = "PENDING" => request[k] = "PENDING")
    BY <1>1, <1>2
  <2> HIDE DEF jobs, requests
  <2>5. k # j
    BY <2>1, <2>2 DEF Synced
  <2>6. requests[k] = "PENDING"
    BY <2>1, <2>2, <2>5
  <2>. QED BY <1>1, <2>3, <2>4, <2>5, <2>6
<1>5. ASSUME NEW w \in Workers, SaveJob(w) PROVE job'[k].status # "RUNNING"
  <2>1. /\ request' = request /\ job' = [job EXCEPT ![worker[w].job] = SavedRow(w)]
    BY <1>5 DEF SaveJob
  <2>2. worker[w].job \in Jobs => SavedRow(w).status # "RUNNING"
    BY SavedRowEffect
  <2>. QED BY <1>1, <2>1, <2>2
<1>6. ASSUME NEW w \in Workers, SyncRequests(w) PROVE job'[k].status # "RUNNING"
  <2>1. job' = job /\ request'[k] \in {request[k], "COMPLETED", "FAILED"}
    BY <1>1, <1>6 DEF SyncRequests, Synced
  <2>. QED BY <1>1, <2>1
<1>7. ASSUME NEW j \in Jobs, RequeueDeadJob(j) PROVE job'[k].status # "RUNNING"
  BY <1>1, <1>7 DEF RequeueDeadJob, JobRow
<1>8. CASE \/ \E j \in DailyJobs : EnqueueDaily(j)
           \/ \E j \in ManualJobs : EnqueueNow(j) \/ RequestRefresh(j)
  <2>1. PICK j \in Jobs, t \in Nat :
          /\ job' = [job EXCEPT ![j] = Queued(t)]
          /\ request' = request \/ request' = [request EXCEPT ![j] = "PENDING"]
    BY <1>8, QueueAssumption DEF EnqueueDaily, EnqueueNow, RequestRefresh, Jobs, TypeOK
  <2>2. Queued(t).status = "QUEUED"
    BY DEF Queued, NoRow
  <2>. QED BY <1>1, <2>1, <2>2
<1>9. ASSUME NEW w \in Workers,
             \/ StartPoll(w) \/ PollBusy(w) \/ Release(w) \/ Restart(w)
             \/ DatabaseError(w) \/ Crash(w)
             \/ \E outcome \in {"success", "retryable", "fatal"} : FinishAttempt(w, outcome)
      PROVE  job'[k].status # "RUNNING"
  <2>1. job' = job /\ request' = request
    BY <1>9 DEF StartPoll, PollBusy, Release, Restart, DatabaseError, Crash, FinishAttempt
  <2>. QED BY <1>1, <2>1
<1>10. CASE Tick \/ UNCHANGED vars
  BY <1>1, <1>10 DEF Tick, vars
<1>. QED BY <1>3, <1>4, <1>5, <1>6, <1>7, <1>8, <1>9, <1>10 DEF Next, SystemStep, WorkerStep

(* A request that waits never belongs to a job that runs.                   *)
THEOREM PendingWaits == Spec => []PendingNotRunning
<1>1. Init => PendingNotRunning
  BY DEF Init, PendingNotRunning
<1>2. LeaseInv => TypeOK
  BY DEF LeaseInv
<1>. QED BY <1>1, <1>2, PendingStep, LeaseInvariant, PTL DEF Spec
----------------------------------------------------------------------------
(* The history of a job. Whatever fails, only the current attempt of a job  *)
(* that runs is RUNNING, and a worker that is about to save the job has     *)
(* saved its attempt.                                                       *)
RunningIsCurrent ==
    \A j \in Jobs : \A n \in DOMAIN attempts[j] :
        attempts[j][n] = "RUNNING" => job[j].status = "RUNNING" /\ n = job[j].attempt_count
OutcomeIsRecorded ==
    \A w \in Workers : worker[w].pc = "saving" =>
        attempts[worker[w].job][worker[w].number] =
            IF worker[w].outcome = "success" THEN "SUCCESS" ELSE "FAILED"

(* Without faults a success is the last attempt, of a job that is SUCCESS   *)
(* or that its worker is about to save as such.                             *)
Reported(j) == \E w \in Workers :
    worker[w].pc = "saving" /\ worker[w].job = j /\ worker[w].outcome = "success"
SuccessIsLast ==
    \A j \in Jobs : \A n \in DOMAIN attempts[j] : attempts[j][n] = "SUCCESS" =>
        /\ n = job[j].attempt_count
        /\ job[j].status = "SUCCESS" \/ (job[j].status = "RUNNING" /\ Reported(j))
SuccessIsRecorded ==
    \A j \in Jobs : job[j].status = "SUCCESS" =>
        /\ job[j].attempt_count \in DOMAIN attempts[j]
        /\ attempts[j][job[j].attempt_count] = "SUCCESS"
HistoryInv ==
    LeaseOutlivesWork =>
        /\ RunningIsCurrent /\ OutcomeIsRecorded
        /\ faults = 0 => RunningIsWorkedOn /\ SuccessIsLast /\ SuccessIsRecorded

(* A step that changes no job and no attempt.                               *)
LEMMA HistoryStays ==
  ASSUME HistoryInv, LeaseOutlivesWork, job' = job, attempts' = attempts,
         \A u \in Workers : worker'[u].pc = "saving" => worker'[u] = worker[u],
         faults' = 0 =>
            faults = 0 /\ \A u \in Workers : worker[u].pc \in Claimed => worker'[u] = worker[u]
  PROVE  HistoryInv'
<1>1. RunningIsCurrent' /\ OutcomeIsRecorded'
  BY DEF HistoryInv, RunningIsCurrent, OutcomeIsRecorded
<1>2. ASSUME faults' = 0 PROVE RunningIsWorkedOn' /\ SuccessIsLast' /\ SuccessIsRecorded'
  <2>1. RunningIsWorkedOn /\ SuccessIsLast /\ SuccessIsRecorded
    BY <1>2 DEF HistoryInv
  <2>2. \A u \in Workers : worker[u].pc \in Claimed => worker'[u] = worker[u]
    BY <1>2
  <2>3. RunningIsWorkedOn'
    BY <2>1, <2>2 DEF RunningIsWorkedOn
  <2>4. \A j \in Jobs : Reported(j) => Reported(j)'
    BY <2>2 DEF Reported, Claimed
  <2>5. SuccessIsLast' /\ SuccessIsRecorded'
    BY <2>1, <2>4 DEF SuccessIsLast, SuccessIsRecorded
  <2>. QED BY <2>3, <2>5
<1>. QED BY <1>1, <1>2 DEF HistoryInv

(* Nobody is about to save a job when a worker gets the lease; a recovery   *)
(* leaves no attempt RUNNING that was, and without faults has nothing to do.*)
LEMMA RecoveryKeepsHistory ==
  ASSUME TimelyInv, HistoryInv, LeaseOutlivesWork,
         NEW w \in Workers, worker[w].pc = "polling", CanAcquire(w, worker[w].started)
  PROVE  /\ \A u \in Workers : worker[u].pc \notin Claimed
         /\ \A j \in Jobs : ~ Expired(j, worker[w].started) =>
              RecoveredAttempts(worker[w].started)[j] = attempts[j]
         /\ \A j \in Jobs : \A n \in DOMAIN RecoveredAttempts(worker[w].started)[j] :
              RecoveredAttempts(worker[w].started)[j][n] = "RUNNING" =>
                 /\ ~ Expired(j, worker[w].started)
                 /\ job[j].status = "RUNNING" /\ n = job[j].attempt_count
         /\ faults = 0 =>
              /\ RecoveredJobs(worker[w].started) = job
              /\ RecoveredAttempts(worker[w].started) = attempts
              /\ \A j \in Jobs : job[j].status # "RUNNING"
<1> USE DEF TimelyInv, LeaseInv
<1>1. \A u \in Workers : worker[u].pc \notin Claimed
  BY NobodyElseAtWork DEF AtWork, Claimed
<1>2. PICK t \in Nat : t = worker[w].started
  BY DEF TypeOK, WorkerState
<1>3. \A j \in Jobs : ~ Expired(j, t) => RecoveredAttempts(t)[j] = attempts[j]
  BY DEF RecoveredAttempts
<1>4. ASSUME NEW j \in Jobs, NEW n \in DOMAIN RecoveredAttempts(t)[j],
             RecoveredAttempts(t)[j][n] = "RUNNING"
      PROVE  ~ Expired(j, t) /\ job[j].status = "RUNNING" /\ n = job[j].attempt_count
  <2>1. attempts[j] \in Seq(AttemptStatus)
    BY DEF TypeOK
  <2>2. n \in DOMAIN attempts[j] /\ attempts[j][n] = "RUNNING"
    BY <1>4, <2>1 DEF RecoveredAttempts
  <2>3. job[j].status = "RUNNING" /\ n = job[j].attempt_count
    BY <2>2 DEF HistoryInv, RunningIsCurrent
  <2>4. ~ Expired(j, t)
    BY <1>4, <2>1, <2>2, <2>3 DEF RecoveredAttempts
  <2>. QED BY <2>3, <2>4
<1>5. ASSUME faults = 0
      PROVE  /\ RecoveredJobs(t) = job /\ RecoveredAttempts(t) = attempts
             /\ \A j \in Jobs : job[j].status # "RUNNING"
  <2>1. \A j \in Jobs : job[j].status # "RUNNING"
    BY <1>1, <1>5 DEF HistoryInv, RunningIsWorkedOn
  <2>2. \A j \in Jobs : ~ Expired(j, t)
    BY <2>1 DEF Expired
  <2>3. job \in [Jobs -> JobRow] /\ attempts \in [Jobs -> Seq(AttemptStatus)]
    BY DEF TypeOK
  <2>. QED BY <2>1, <2>2, <2>3 DEF RecoveredJobs, RecoveredAttempts
<1>. QED BY <1>1, <1>2, <1>3, <1>4, <1>5

(* A poll that finds nothing to claim.                                      *)
LEMMA IdleHistory ==
  ASSUME TimelyInv, HistoryInv, LeaseOutlivesWork, NEW w \in Workers, PollIdle(w)
  PROVE  HistoryInv'
<1> USE DEF TimelyInv, LeaseInv
<1>1. PICK t \in Nat : t = worker[w].started
  BY DEF TypeOK, WorkerState
<1>2. /\ worker[w].pc = "polling" /\ CanAcquire(w, t)
      /\ job' = RecoveredJobs(t) /\ attempts' = RecoveredAttempts(t) /\ faults' = faults
  BY <1>1 DEF PollIdle
<1>3. /\ \A u \in Workers : worker[u].pc \notin Claimed
      /\ \A j \in Jobs : \A n \in DOMAIN attempts'[j] : attempts'[j][n] = "RUNNING" =>
            ~ Expired(j, t) /\ job[j].status = "RUNNING" /\ n = job[j].attempt_count
      /\ faults = 0 =>
            job' = job /\ attempts' = attempts /\ \A j \in Jobs : job[j].status # "RUNNING"
  BY <1>1, <1>2, RecoveryKeepsHistory
<1>4. \A u \in Workers : worker'[u].pc \notin Claimed
  BY <1>3 DEF PollIdle, TypeOK, WorkerState, Claimed
<1>5. RunningIsCurrent'
  BY <1>2, <1>3, RecoveryEffect DEF RunningIsCurrent
<1>6. OutcomeIsRecorded'
  BY <1>4 DEF OutcomeIsRecorded, Claimed
<1>7. ASSUME faults' = 0 PROVE RunningIsWorkedOn' /\ SuccessIsLast' /\ SuccessIsRecorded'
  BY <1>2, <1>3, <1>7 DEF HistoryInv, RunningIsWorkedOn, SuccessIsLast, SuccessIsRecorded
<1>. QED BY <1>5, <1>6, <1>7 DEF HistoryInv

(* A claim adds an attempt to a job that waits, so none of its attempts was *)
(* RUNNING or, without faults, a success.                                   *)
LEMMA ClaimHistory ==
  ASSUME TimelyInv, HistoryInv, LeaseOutlivesWork, NEW w \in Workers, NEW j \in Jobs,
         PollClaim(w, j)
  PROVE  HistoryInv'
<1> USE DEF TimelyInv, LeaseInv
<1>1. PICK t \in Nat : t = worker[w].started
  BY DEF TypeOK, WorkerState
<1>2. /\ worker[w].pc = "polling" /\ CanAcquire(w, t) /\ j \in Claimable(t) /\ faults' = faults
  BY <1>1 DEF PollClaim
<1>3. job[j].status \in Waiting /\ ~ Expired(j, t) /\ RecoveredJobs(t)[j] = job[j]
  BY <1>2, ClaimableWaits
<1>4. /\ \A u \in Workers : worker[u].pc \notin Claimed
      /\ RecoveredAttempts(t)[j] = attempts[j]
      /\ \A k \in Jobs : \A n \in DOMAIN RecoveredAttempts(t)[k] :
            RecoveredAttempts(t)[k][n] = "RUNNING" =>
               ~ Expired(k, t) /\ job[k].status = "RUNNING" /\ n = job[k].attempt_count
      /\ faults = 0 =>
            /\ RecoveredJobs(t) = job /\ RecoveredAttempts(t) = attempts
            /\ \A k \in Jobs : job[k].status # "RUNNING"
  BY <1>1, <1>2, <1>3, RecoveryKeepsHistory
<1>5. RecoveredJobs(t) \in [Jobs -> JobRow] /\ RecoveredAttempts(t) \in [Jobs -> Seq(AttemptStatus)]
  BY RecoveryTyped
<1>6. /\ \A k \in Jobs : k # j =>
            job'[k] = RecoveredJobs(t)[k] /\ attempts'[k] = RecoveredAttempts(t)[k]
      /\ attempts'[j] = Append(attempts[j], "RUNNING")
      /\ job'[j].status = "RUNNING" /\ job'[j].attempt_count = job[j].attempt_count + 1
  BY <1>1, <1>3, <1>4, <1>5 DEF PollClaim, JobRow
<1>7. /\ Len(attempts[j]) = job[j].attempt_count /\ attempts[j] \in Seq(AttemptStatus)
  BY DEF AttemptsNumbered, TypeOK
<1>8. /\ DOMAIN attempts'[j] = DOMAIN attempts[j] \cup {job[j].attempt_count + 1}
      /\ \A n \in DOMAIN attempts[j] : attempts'[j][n] = attempts[j][n]
      /\ attempts'[j][job[j].attempt_count + 1] = "RUNNING"
  BY <1>6, <1>7
<1>9. /\ worker'[w].pc = "collecting" /\ worker'[w].job = j
      /\ \A u \in Workers : u # w => worker'[u] = worker[u]
  BY DEF PollClaim, TypeOK, WorkerState
<1>10. RunningIsCurrent'
  <2>1. \A n \in DOMAIN attempts[j] : attempts[j][n] # "RUNNING"
    BY <1>3 DEF HistoryInv, RunningIsCurrent, Waiting
  <2>2. \A n \in DOMAIN attempts'[j] : attempts'[j][n] = "RUNNING" =>
           job'[j].status = "RUNNING" /\ n = job'[j].attempt_count
    BY <1>6, <1>8, <2>1
  <2>3. \A k \in Jobs : k # j => \A n \in DOMAIN attempts'[k] : attempts'[k][n] = "RUNNING" =>
           job'[k].status = "RUNNING" /\ n = job'[k].attempt_count
    BY <1>4, <1>6, RecoveryEffect
  <2>. QED BY <2>2, <2>3 DEF RunningIsCurrent
<1>11. OutcomeIsRecorded'
  BY <1>4, <1>9 DEF OutcomeIsRecorded, Claimed
<1>12. ASSUME faults' = 0 PROVE RunningIsWorkedOn' /\ SuccessIsLast' /\ SuccessIsRecorded'
  <2>1. /\ SuccessIsLast /\ SuccessIsRecorded
        /\ \A k \in Jobs : job[k].status # "RUNNING"
        /\ \A k \in Jobs : k # j => job'[k] = job[k] /\ attempts'[k] = attempts[k]
    BY <1>2, <1>4, <1>6, <1>12 DEF HistoryInv
  <2>2. RunningIsWorkedOn'
    BY <1>9, <2>1 DEF RunningIsWorkedOn, Claimed
  <2>3. \A n \in DOMAIN attempts'[j] : attempts'[j][n] # "SUCCESS"
    BY <1>3, <1>8, <2>1 DEF SuccessIsLast, Waiting
  <2>4. SuccessIsLast'
    BY <2>1, <2>3 DEF SuccessIsLast
  <2>5. SuccessIsRecorded'
    BY <1>6, <2>1 DEF SuccessIsRecorded
  <2>. QED BY <2>2, <2>4, <2>5
<1>. QED BY <1>10, <1>11, <1>12 DEF HistoryInv

(* The attempt that ends is the current one of a job that runs.             *)
LEMMA FinishHistory ==
  ASSUME TimelyInv, HistoryInv, LeaseOutlivesWork, NEW w \in Workers,
         NEW outcome \in {"success", "retryable", "fatal"}, FinishAttempt(w, outcome)
  PROVE  HistoryInv'
<1> USE DEF TimelyInv, LeaseInv
<1>1. worker[w].pc = "collecting" /\ worker[w].job \in Jobs /\ job' = job /\ faults' = faults
  BY DEF FinishAttempt, TaskAssigned, Claimed
<1>2. PICK j \in Jobs, number \in {worker[w].number} : j = worker[w].job
  BY <1>1
<1>3. /\ job[j].status = "RUNNING" /\ job[j].attempt_count = number
      /\ number \in DOMAIN attempts[j]
  BY <1>1, <1>2 DEF MemoryIsFresh, ClaimHolds, AttemptsNumbered, Claimed, TypeOK
<1>4. /\ \A k \in Jobs : k # j => attempts'[k] = attempts[k]
      /\ DOMAIN attempts'[j] = DOMAIN attempts[j]
      /\ attempts'[j][number] = IF outcome = "success" THEN "SUCCESS" ELSE "FAILED"
      /\ \A n \in DOMAIN attempts[j] : n # number => attempts'[j][n] = attempts[j][n]
  BY <1>2, <1>3 DEF FinishAttempt, TypeOK
<1>5. /\ worker'[w].pc = "saving" /\ worker'[w].job = j /\ worker'[w].number = number
      /\ worker'[w].outcome = outcome
      /\ \A u \in Workers : u # w => worker'[u] = worker[u]
  BY <1>2 DEF FinishAttempt, TypeOK, WorkerState
<1>6. \A u \in Workers : u # w => worker[u].pc \notin AtWork
  BY <1>1, OneReservation DEF SingleWorker, AtWork
<1>7. RunningIsCurrent'
  BY <1>1, <1>3, <1>4 DEF HistoryInv, RunningIsCurrent
<1>8. OutcomeIsRecorded'
  BY <1>4, <1>5, <1>6 DEF OutcomeIsRecorded, AtWork
<1>9. ASSUME faults' = 0 PROVE RunningIsWorkedOn' /\ SuccessIsLast' /\ SuccessIsRecorded'
  <2>1. RunningIsWorkedOn /\ SuccessIsLast /\ SuccessIsRecorded
    BY <1>1, <1>9 DEF HistoryInv
  <2>2. RunningIsWorkedOn'
    BY <1>1, <1>2, <1>5, <2>1 DEF RunningIsWorkedOn, Claimed
  <2>3. \A k \in Jobs : Reported(k) => Reported(k)'
    BY <1>1, <1>5 DEF Reported
  <2>4. attempts'[j][number] = "SUCCESS" => Reported(j)'
    BY <1>4, <1>5 DEF Reported
  <2>5. SuccessIsLast'
    BY <1>1, <1>3, <1>4, <2>1, <2>3, <2>4 DEF SuccessIsLast
  <2>6. SuccessIsRecorded'
    BY <1>1, <1>3, <1>4, <2>1 DEF SuccessIsRecorded
  <2>. QED BY <2>2, <2>5, <2>6
<1>. QED BY <1>7, <1>8, <1>9 DEF HistoryInv

(* The job is saved as its last attempt was.                                *)
LEMMA SaveHistory ==
  ASSUME TimelyInv, HistoryInv, LeaseOutlivesWork, NEW w \in Workers, SaveJob(w)
  PROVE  HistoryInv'
<1> USE DEF TimelyInv, LeaseInv
<1>1. worker[w].pc = "saving" /\ worker[w].job \in Jobs /\ attempts' = attempts /\ faults' = faults
  BY DEF SaveJob, TaskAssigned, Claimed
<1>2. PICK j \in Jobs, number \in {worker[w].number} : j = worker[w].job
  BY <1>1
<1>3. /\ job[j].status = "RUNNING" /\ job[j].attempt_count = number
      /\ number \in DOMAIN attempts[j]
      /\ attempts[j][number] = IF worker[w].outcome = "success" THEN "SUCCESS" ELSE "FAILED"
  BY <1>1, <1>2
     DEF MemoryIsFresh, ClaimHolds, AttemptsNumbered, Claimed, TypeOK, HistoryInv, OutcomeIsRecorded
<1>4. /\ job'[j].status = SavedStatus(w) /\ job'[j].attempt_count = number
      /\ \A k \in Jobs : k # j => job'[k] = job[k]
  BY <1>1, <1>2, <1>3, SavedRowEffect DEF SaveJob, TypeOK
<1>5. worker'[w].pc # "saving" /\ \A u \in Workers : u # w => worker'[u] = worker[u]
  BY DEF SaveJob, AfterSave, TypeOK, WorkerState
<1>6. \A u \in Workers : u # w => worker[u].pc \notin AtWork
  BY <1>1, OneReservation DEF SingleWorker, AtWork
<1>7. /\ SavedStatus(w) = "SUCCESS" <=> worker[w].outcome = "success"
      /\ SavedStatus(w) # "RUNNING"
  BY DEF SavedStatus, ShouldRetry
<1>8. RunningIsCurrent'
  BY <1>1, <1>3, <1>4 DEF HistoryInv, RunningIsCurrent
<1>9. OutcomeIsRecorded'
  BY <1>5, <1>6 DEF OutcomeIsRecorded, AtWork
<1>10. ASSUME faults' = 0 PROVE RunningIsWorkedOn' /\ SuccessIsLast' /\ SuccessIsRecorded'
  <2>1. RunningIsWorkedOn /\ SuccessIsLast /\ SuccessIsRecorded
    BY <1>1, <1>10 DEF HistoryInv
  <2>2. \A k \in Jobs : k # j => job[k].status # "RUNNING"
    BY <1>2, <1>6, <2>1 DEF RunningIsWorkedOn, Claimed, AtWork
  <2>3. RunningIsWorkedOn'
    BY <1>4, <1>7, <2>2 DEF RunningIsWorkedOn
  <2>4. \A n \in DOMAIN attempts[j] : attempts[j][n] = "SUCCESS" =>
           n = number /\ job'[j].status = "SUCCESS"
    BY <1>3, <1>4, <1>7, <2>1 DEF SuccessIsLast
  <2>5. SuccessIsLast'
    BY <1>1, <1>4, <2>1, <2>2, <2>4 DEF SuccessIsLast
  <2>6. SuccessIsRecorded'
    BY <1>1, <1>3, <1>4, <1>7, <2>1 DEF SuccessIsRecorded
  <2>. QED BY <2>3, <2>5, <2>6
<1>. QED BY <1>8, <1>9, <1>10 DEF HistoryInv

(* A job that is created has no attempts; one that is requeued has none     *)
(* that runs and, without faults, none that succeeded.                      *)
LEMMA ArrivalHistory ==
  ASSUME TimelyInv, HistoryInv, LeaseOutlivesWork,
         \/ \E j \in DailyJobs : EnqueueDaily(j)
         \/ \E j \in ManualJobs : EnqueueNow(j) \/ RequestRefresh(j)
         \/ \E j \in Jobs : RequeueDeadJob(j)
  PROVE  HistoryInv'
<1> USE DEF TimelyInv, LeaseInv
<1>1. PICK j \in Jobs :
        /\ job[j].status \in {"NONE", "DEAD"} /\ job'[j].status = "QUEUED"
        /\ job[j].status = "DEAD" => job'[j].attempt_count = job[j].attempt_count
        /\ \A k \in Jobs : k # j => job'[k] = job[k]
        /\ attempts' = attempts /\ worker' = worker /\ faults' = faults
  <2>1. CASE \E j \in Jobs : RequeueDeadJob(j)
    <3>1. PICK j \in Jobs : RequeueDeadJob(j)
      BY <2>1
    <3>2. job \in [Jobs -> JobRow] /\ job[j] \in JobRow
      BY DEF TypeOK
    <3>3. job'[j].status = "QUEUED" /\ job'[j].attempt_count = job[j].attempt_count
      BY <3>1, <3>2 DEF RequeueDeadJob, JobRow
    <3>4. \A k \in Jobs : k # j => job'[k] = job[k]
      BY <3>1, <3>2 DEF RequeueDeadJob
    <3>5. /\ job[j].status = "DEAD"
          /\ attempts' = attempts /\ worker' = worker /\ faults' = faults
      BY <3>1 DEF RequeueDeadJob
    <3>. QED BY <3>3, <3>4, <3>5
  <2>2. CASE \/ \E j \in DailyJobs : EnqueueDaily(j)
             \/ \E j \in ManualJobs : EnqueueNow(j) \/ RequestRefresh(j)
    <3>1. PICK j \in Jobs :
            /\ job[j].status = "NONE" /\ attempts' = attempts /\ worker' = worker
            /\ faults' = faults /\ \E t : job' = [job EXCEPT ![j] = Queued(t)]
      BY <2>2 DEF EnqueueDaily, EnqueueNow, RequestRefresh, Jobs
    <3>2. \A t : Queued(t).status = "QUEUED"
      BY DEF Queued, NoRow
    <3>3. job'[j].status = "QUEUED" /\ \A k \in Jobs : k # j => job'[k] = job[k]
      BY <3>1, <3>2 DEF TypeOK
    <3>. QED BY <3>1, <3>3
  <2>. QED BY <2>1, <2>2
<1>2. \A n \in DOMAIN attempts[j] : job[j].status = "DEAD"
  <2>1. job[j].status = "NONE" => Len(attempts[j]) = 0
    BY DEF UntouchedUntilCreated, AttemptsNumbered, NoRow
  <2>2. attempts[j] \in Seq(AttemptStatus)
    BY DEF TypeOK
  <2>. QED BY <1>1, <2>1, <2>2
<1>3. \A n \in DOMAIN attempts[j] : attempts[j][n] # "RUNNING"
  BY <1>2 DEF HistoryInv, RunningIsCurrent
<1>4. RunningIsCurrent' /\ OutcomeIsRecorded'
  BY <1>1, <1>3 DEF HistoryInv, RunningIsCurrent, OutcomeIsRecorded
<1>5. ASSUME faults' = 0 PROVE RunningIsWorkedOn' /\ SuccessIsLast' /\ SuccessIsRecorded'
  <2>1. RunningIsWorkedOn /\ SuccessIsLast /\ SuccessIsRecorded
    BY <1>1, <1>5 DEF HistoryInv
  <2>2. \A k \in Jobs : Reported(k)' = Reported(k)
    BY <1>1 DEF Reported
  <2>3. \A n \in DOMAIN attempts[j] : attempts[j][n] # "SUCCESS"
    BY <1>2, <2>1 DEF SuccessIsLast
  <2>. QED BY <1>1, <2>1, <2>2, <2>3 DEF RunningIsWorkedOn, SuccessIsLast, SuccessIsRecorded
<1>. QED BY <1>4, <1>5 DEF HistoryInv

(* Every step.                                                              *)
LEMMA HistoryStep == TimelyInv /\ HistoryInv /\ [Next]_vars => HistoryInv'
<1> SUFFICES ASSUME TimelyInv, HistoryInv, [Next]_vars, LeaseOutlivesWork PROVE HistoryInv'
  BY DEF HistoryInv
<1>1. /\ worker \in [Workers -> WorkerState] /\ faults \in Nat
      /\ \A phase : AtRest(phase).pc = phase
  BY DEF TimelyInv, LeaseInv, TypeOK, AtRest
<1>2. ASSUME NEW w \in Workers,
             StartPoll(w) \/ PollBusy(w) \/ SyncRequests(w) \/ Release(w) \/ Restart(w)
      PROVE  HistoryInv'
  <2>1. job' = job /\ attempts' = attempts /\ faults' = faults
    BY <1>2 DEF StartPoll, PollBusy, SyncRequests, Release, Restart
  <2>2. \A u \in Workers : u # w => worker'[u] = worker[u]
    BY <1>1, <1>2 DEF StartPoll, PollBusy, SyncRequests, Release, Restart
  <2>3. worker[w].pc \notin Claimed /\ worker'[w].pc # "saving"
    BY <1>1, <1>2 DEF StartPoll, PollBusy, SyncRequests, Release, Restart, WorkerState, Claimed
  <2>. QED BY <2>1, <2>2, <2>3, HistoryStays
<1>3. ASSUME NEW w \in Workers, DatabaseError(w) \/ Crash(w) PROVE HistoryInv'
  <2>1. job' = job /\ attempts' = attempts /\ faults' # 0
    BY <1>1, <1>3 DEF DatabaseError, Crash
  <2>2. \A u \in Workers : u # w => worker'[u] = worker[u]
    BY <1>1, <1>3 DEF DatabaseError, Crash
  <2>3. worker'[w].pc # "saving"
    BY <1>1, <1>3 DEF DatabaseError, Crash, WorkerState
  <2>. QED BY <2>1, <2>2, <2>3, HistoryStays
<1>4. CASE Tick \/ UNCHANGED vars
  <2>1. job' = job /\ attempts' = attempts /\ faults' = faults /\ worker' = worker
    BY <1>4 DEF Tick, vars
  <2>. QED BY <2>1, HistoryStays
<1>. QED BY <1>2, <1>3, <1>4, IdleHistory, ClaimHistory, FinishHistory, SaveHistory, ArrivalHistory
         DEF Next, SystemStep, WorkerStep

(* The history agrees with the job, whatever crashes and database errors    *)
(* happen: an attempt is RUNNING only while its job is, and only a fault    *)
(* between two saves can make a job run again after a successful attempt.   *)
THEOREM HistoryIsTrue == Spec => []HistoryAgrees
<1>1. Init => HistoryInv
  <2> SUFFICES ASSUME Init PROVE HistoryInv
    OBVIOUS
  <2>1. NoRow.status = "NONE" /\ AtRest("idle").pc = "idle"
    BY DEF NoRow, AtRest
  <2>. QED BY <2>1
           DEF Init, HistoryInv, RunningIsCurrent, OutcomeIsRecorded, RunningIsWorkedOn,
               SuccessIsLast, SuccessIsRecorded
<1>2. TimelyInv /\ HistoryInv => HistoryAgrees
  <2> SUFFICES ASSUME TimelyInv, HistoryInv, LeaseOutlivesWork,
                      NEW j \in Jobs, NEW n \in DOMAIN attempts[j]
               PROVE  /\ attempts[j][n] = "RUNNING" =>
                           job[j].status = "RUNNING" /\ n = job[j].attempt_count
                      /\ job[j].status = "SUCCESS" =>
                           (attempts[j][n] = "SUCCESS" <=> n = job[j].attempt_count) \/ faults > 0
                      /\ attempts[j][n] = "SUCCESS" =>
                           job[j].status \in {"SUCCESS", "RUNNING"} \/ faults > 0
    BY DEF HistoryAgrees
  <2>1. faults = 0 \/ faults > 0
    BY DEF TimelyInv, LeaseInv, TypeOK
  <2>. QED BY <2>1 DEF HistoryInv, RunningIsCurrent, SuccessIsLast, SuccessIsRecorded
<1>. QED BY <1>1, <1>2, HistoryStep, TimelyInvariant, PTL DEF Spec
----------------------------------------------------------------------------
(* The request of a job that succeeded: only a fault between the save of    *)
(* the job and the update of its request lets it miss the success.          *)

(* Who reports a failure has saved it, and at most an operator has requeued *)
(* the job since.                                                           *)
FailuresAreSaved ==
    \A w \in Workers : worker[w].pc = "syncing" /\ worker[w].outcome # "success" =>
        job[worker[w].job].status \in {"DEAD", "QUEUED"}
SuccessIsReported == LeaseOutlivesWork /\ faults = 0 => SuccessReachesRequest
ReportInv == SuccessIsReported /\ (LeaseOutlivesWork /\ faults = 0 => FailuresAreSaved)

(* A worker gets to its report by its save only, and stays there.           *)
LEMMA SyncingStays ==
  ASSUME TypeOK, [Next]_vars, NEW u \in Workers, worker'[u].pc = "syncing"
  PROVE  (worker[u].pc = "syncing" /\ worker'[u] = worker[u]) \/ SaveJob(u)
<1> SUFFICES ASSUME worker'[u] # worker[u] PROVE SaveJob(u)
  OBVIOUS
<1>1. worker \in [Workers -> WorkerState]
  BY DEF TypeOK
<1>2. PICK w \in Workers : WorkerStep(w) \/ DatabaseError(w) \/ Crash(w)
  BY DEF Next, SystemStep, EnqueueDaily, EnqueueNow, RequestRefresh, RequeueDeadJob, Tick, vars
<1>3. CASE \/ StartPoll(w) \/ PollIdle(w) \/ DatabaseError(w) \/ SyncRequests(w)
           \/ \E outcome \in {"success", "retryable", "fatal"} : FinishAttempt(w, outcome)
           \/ \E j \in Jobs : PollClaim(w, j)
  <2>1. CASE StartPoll(w)
    BY <1>1, <2>1 DEF StartPoll, WorkerState
  <2>2. CASE PollIdle(w) \/ DatabaseError(w) \/ SyncRequests(w)
    BY <1>1, <2>2 DEF PollIdle, DatabaseError, SyncRequests, WorkerState
  <2>3. CASE \E outcome \in {"success", "retryable", "fatal"} : FinishAttempt(w, outcome)
    BY <1>1, <2>3 DEF FinishAttempt, WorkerState
  <2>4. CASE \E j \in Jobs : PollClaim(w, j)
    BY <1>1, <2>4 DEF PollClaim, WorkerState
  <2>. QED BY <1>3, <2>1, <2>2, <2>3, <2>4
<1>4. CASE PollBusy(w) \/ Release(w) \/ Crash(w) \/ Restart(w)
  <2>1. PICK phase \in {"idle", "stopped"} : worker' = [worker EXCEPT ![w] = AtRest(phase)]
    BY <1>4 DEF PollBusy, Release, Crash, Restart
  <2>2. AtRest(phase).pc = phase
    BY DEF AtRest
  <2>. QED BY <1>1, <2>1, <2>2
<1>5. CASE SaveJob(w)
  BY <1>1, <1>5 DEF SaveJob
<1>. QED BY <1>2, <1>3, <1>4, <1>5 DEF WorkerStep

(* A job that is over stays so while another's report is under way, or an   *)
(* operator requeues it: nobody claims meanwhile.                           *)
LEMMA FailureStays ==
  ASSUME TimelyInv, [Next]_vars, LeaseOutlivesWork, NEW u \in Workers,
         worker[u].pc \in AtWork, NEW j \in Jobs, job[j].status \in {"DEAD", "QUEUED"}
  PROVE  job'[j].status \in {"DEAD", "QUEUED"} \/ \E w \in Workers : SaveJob(w) /\ worker[w].job = j
<1> USE DEF TimelyInv, LeaseInv
<1>1. ASSUME NEW w \in Workers, PollIdle(w) \/ \E k \in Jobs : PollClaim(w, k)
      PROVE  FALSE
  BY <1>1, NobodyElseAtWork DEF PollIdle, PollClaim
<1>2. ASSUME NEW k \in Jobs, NEW t \in Nat, job[k].status = "NONE",
             job' = [job EXCEPT ![k] = Queued(t)]
      PROVE  job'[j] = job[j]
  BY <1>2
<1>3. ASSUME NEW k \in Jobs, RequeueDeadJob(k) PROVE job'[j].status \in {"DEAD", "QUEUED"}
  BY <1>3 DEF RequeueDeadJob, TypeOK, JobRow
<1>4. ASSUME NEW w \in Workers, SaveJob(w), worker[w].job # j PROVE job'[j] = job[j]
  BY <1>4 DEF SaveJob
<1>. QED BY <1>1, <1>2, <1>3, <1>4, JobWriters

(* The worker that is about to report is the only one at work, so it is not *)
(* another that saves.                                                      *)
LEMMA FailuresStaySaved ==
  ASSUME TimelyInv, FailuresAreSaved, [Next]_vars, LeaseOutlivesWork
  PROVE  FailuresAreSaved'
<1> USE DEF TimelyInv, LeaseInv
<1> SUFFICES ASSUME NEW u \in Workers, worker'[u].pc = "syncing",
                    worker'[u].outcome # "success"
             PROVE  job'[worker'[u].job].status \in {"DEAD", "QUEUED"}
  BY DEF FailuresAreSaved
<1>1. CASE worker[u].pc = "syncing" /\ worker'[u] = worker[u]
  <2>1. PICK j \in Jobs : j = worker[u].job
    BY <1>1 DEF TaskAssigned
  <2>2. job[j].status \in {"DEAD", "QUEUED"}
    BY <1>1, <2>1 DEF FailuresAreSaved
  <2>3. ASSUME NEW w \in Workers, SaveJob(w) PROVE FALSE
    BY <1>1, <2>3, OneReservation DEF SaveJob, SingleWorker, AtWork
  <2>. QED BY <1>1, <2>1, <2>2, <2>3, FailureStays DEF AtWork
<1>2. CASE SaveJob(u)
  <2>1. worker[u].pc = "saving" /\ worker[u].job \in Jobs
    BY <1>2 DEF SaveJob, TaskAssigned, Claimed
  <2>2. /\ worker'[u].job = worker[u].job /\ worker'[u].outcome = worker[u].outcome
        /\ AfterSave(u) = "syncing"
    BY <1>2 DEF SaveJob, TypeOK, WorkerState
  <2>3. SavedStatus(u) = "DEAD"
    BY <2>2 DEF SavedStatus, AfterSave
  <2>4. job'[worker[u].job] = SavedRow(u)
    BY <1>2, <2>1 DEF SaveJob, TypeOK
  <2>. QED BY <2>1, <2>2, <2>3, <2>4, SavedRowEffect
<1>3. (worker[u].pc = "syncing" /\ worker'[u] = worker[u]) \/ SaveJob(u)
  BY SyncingStays
<1>. QED BY <1>1, <1>2, <1>3

(* A worker about to report leaves by its report, unless something fails.   *)
LEMMA SyncingEnds ==
  ASSUME TypeOK, [Next]_vars, faults' = faults, NEW w \in Workers,
         worker[w].pc = "syncing", worker'[w] # worker[w]
  PROVE  SyncRequests(w)
<1>1. worker \in [Workers -> WorkerState] /\ faults \in Nat
  BY DEF TypeOK
<1>2. ASSUME NEW u \in Workers, DatabaseError(u) \/ Crash(u) PROVE FALSE
  BY <1>1, <1>2 DEF DatabaseError, Crash
<1>3. PICK u \in Workers : WorkerStep(u)
  BY <1>2 DEF Next, SystemStep, EnqueueDaily, EnqueueNow, RequestRefresh, RequeueDeadJob,
              Tick, vars
<1>4. u = w
  <2>1. PICK state : worker' = [worker EXCEPT ![u] = state]
    <3>1. CASE StartPoll(u) \/ PollBusy(u) \/ PollIdle(u) \/ Release(u) \/ Restart(u)
      BY <3>1 DEF StartPoll, PollBusy, PollIdle, Release, Restart
    <3>2. CASE \/ SaveJob(u) \/ SyncRequests(u)
               \/ \E j \in Jobs : PollClaim(u, j)
               \/ \E outcome \in {"success", "retryable", "fatal"} : FinishAttempt(u, outcome)
      BY <3>2 DEF SaveJob, SyncRequests, PollClaim, FinishAttempt
    <3>. QED BY <1>3, <3>1, <3>2 DEF WorkerStep
  <2>. QED BY <1>1, <2>1
<1>. QED BY <1>3, <1>4 DEF WorkerStep, StartPoll, PollBusy, PollIdle, PollClaim, FinishAttempt,
                           SaveJob, Release, Restart

(* A job becomes SUCCESS by the save of a worker that reports it next.      *)
LEMMA SuccessIsSaved ==
  ASSUME TypeOK, TaskAssigned, [Next]_vars, NEW j \in Jobs,
         job[j].status # "SUCCESS", job'[j].status = "SUCCESS"
  PROVE  SyncPending(j)'
<1>1. job \in [Jobs -> JobRow] /\ \A w \in Workers : worker[w].started \in Nat
  BY DEF TypeOK, WorkerState
<1>2. ASSUME NEW t \in Nat PROVE RecoveredJobs(t)[j].status # "SUCCESS"
  BY <1>2, RecoveryEffect
<1>3. ASSUME NEW w \in Workers, PollIdle(w) PROVE FALSE
  BY <1>1, <1>2, <1>3 DEF PollIdle
<1>4. ASSUME NEW w \in Workers, NEW k \in Jobs, PollClaim(w, k) PROVE FALSE
  <2>1. RecoveredJobs(worker[w].started) \in [Jobs -> JobRow]
    BY <1>1, RecoveryTyped
  <2>2. job'[j].status \in {RecoveredJobs(worker[w].started)[j].status, "RUNNING"}
    BY <1>4, <2>1 DEF PollClaim, JobRow
  <2>. QED BY <1>1, <1>2, <2>2
<1>5. ASSUME NEW k \in Jobs, RequeueDeadJob(k) PROVE FALSE
  BY <1>1, <1>5 DEF RequeueDeadJob, JobRow
<1>6. ASSUME NEW k \in Jobs, NEW t \in Nat, job' = [job EXCEPT ![k] = Queued(t)] PROVE FALSE
  <2>1. Queued(t).status = "QUEUED"
    BY DEF Queued, NoRow
  <2>. QED BY <1>1, <1>6, <2>1
<1>7. PICK w \in Workers : SaveJob(w)
  BY <1>3, <1>4, <1>5, <1>6, JobWriters
<1>8. worker[w].job = j /\ job'[j] = SavedRow(w)
  BY <1>1, <1>7 DEF SaveJob, TaskAssigned, Claimed
<1>9. SavedStatus(w) = "SUCCESS"
  BY <1>8, SavedRowEffect
<1>10. AfterSave(w) = "syncing"
  BY <1>9 DEF SavedStatus, AfterSave, ShouldRetry
<1>11. worker'[w].pc = "syncing" /\ worker'[w].job = j
  BY <1>7, <1>8, <1>10 DEF SaveJob, TypeOK, WorkerState
<1>. QED BY <1>11 DEF SyncPending

(* The request of a job that succeeded is written by a report about it only.*)
LEMMA SucceededRequest ==
  ASSUME TypeOK, [Next]_vars, NEW j \in Jobs, job[j].status = "SUCCESS",
         \A w \in Workers : SyncRequests(w) => worker[w].job # j
  PROVE  request'[j] = request[j]
<1>1. /\ job \in [Jobs -> JobRow] /\ request \in [Jobs -> RequestStatus]
      /\ \A w \in Workers : worker[w].started \in Nat
  BY DEF TypeOK, WorkerState
<1>2. ASSUME NEW t \in Nat PROVE RecoveredRequests(t)[j] = request[j]
  BY DEF RecoveredRequests, Expired
<1>3. ASSUME NEW w \in Workers, PollIdle(w) PROVE request'[j] = request[j]
  BY <1>1, <1>2, <1>3 DEF PollIdle
<1>4. ASSUME NEW w \in Workers, NEW k \in Jobs, PollClaim(w, k) PROVE request'[j] = request[j]
  <2>1. RecoveredRequests(worker[w].started) \in [Jobs -> RequestStatus]
    BY <1>1, RecoveryTyped
  <2>2. k # j
    BY <1>1, <1>4, ClaimableWaits DEF PollClaim, Waiting
  <2>. QED BY <1>1, <1>2, <1>4, <2>1, <2>2 DEF PollClaim
<1>5. ASSUME NEW w \in Workers, SyncRequests(w) PROVE request'[j] = request[j]
  BY <1>1, <1>5 DEF SyncRequests
<1>6. CASE \/ \E k \in Jobs : RequeueDeadJob(k)
           \/ \E k \in ManualJobs : RequestRefresh(k)
  BY <1>1, <1>6 DEF RequeueDeadJob, RequestRefresh
<1>7. ASSUME NEW w \in Workers,
             \/ StartPoll(w) \/ PollBusy(w) \/ SaveJob(w) \/ Release(w)
             \/ Restart(w) \/ DatabaseError(w) \/ Crash(w)
             \/ \E outcome \in {"success", "retryable", "fatal"} : FinishAttempt(w, outcome)
      PROVE  request'[j] = request[j]
  BY <1>7 DEF StartPoll, PollBusy, SaveJob, Release, Restart, DatabaseError, Crash, FinishAttempt
<1>8. CASE \/ \E k \in DailyJobs : EnqueueDaily(k)
           \/ \E k \in ManualJobs : EnqueueNow(k)
           \/ Tick \/ UNCHANGED vars
  BY <1>8 DEF EnqueueDaily, EnqueueNow, Tick, vars
<1>. QED BY <1>3, <1>4, <1>5, <1>6, <1>7, <1>8 DEF Next, SystemStep, WorkerStep

(* Faults are only counted up.                                              *)
LEMMA FaultsGrow == TypeOK /\ [Next]_vars /\ faults' = 0 => faults = 0
<1> SUFFICES ASSUME TypeOK, [Next]_vars, faults' # faults PROVE faults' # 0
  OBVIOUS
<1>1. PICK w \in Workers : WorkerStep(w) \/ DatabaseError(w) \/ Crash(w)
  BY DEF Next, SystemStep, EnqueueDaily, EnqueueNow, RequestRefresh, RequeueDeadJob, Tick, vars
<1>2. ~ WorkerStep(w)
  BY DEF WorkerStep, StartPoll, PollBusy, PollIdle, PollClaim, FinishAttempt, SaveJob,
         SyncRequests, Release, Restart
<1>. QED BY <1>1, <1>2 DEF DatabaseError, Crash, TypeOK

(* Every step reports what it has to.                                       *)
LEMMA ReportStep == TimelyInv /\ ReportInv /\ [Next]_vars => ReportInv'
<1> SUFFICES ASSUME TimelyInv, ReportInv, [Next]_vars, LeaseOutlivesWork, faults' = 0
             PROVE  SuccessReachesRequest' /\ FailuresAreSaved'
  BY DEF ReportInv, SuccessIsReported
<1>1. TypeOK /\ TaskAssigned /\ faults = 0
  BY FaultsGrow DEF TimelyInv, LeaseInv
<1>2. SuccessReachesRequest /\ FailuresAreSaved
  BY <1>1 DEF ReportInv, SuccessIsReported
<1>3. ASSUME NEW j \in Jobs, job'[j].status = "SUCCESS", ~ SyncPending(j)'
      PROVE  request'[j] \in {"NONE", "COMPLETED"}
  <2>1. job[j].status = "SUCCESS"
    BY <1>1, <1>3, SuccessIsSaved
  <2>2. ASSUME NEW w \in Workers, SyncRequests(w), worker[w].job = j
        PROVE  request'[j] \in {"NONE", "COMPLETED"}
    <3>1. worker[w].outcome = "success"
      BY <1>2, <2>1, <2>2 DEF SyncRequests, FailuresAreSaved
    <3>2. request'[j] = Synced(request[j], "COMPLETED")
      BY <1>1, <2>2, <3>1 DEF SyncRequests, TypeOK
    <3>. QED BY <3>2 DEF Synced
  <2>3. CASE \A w \in Workers : SyncRequests(w) => worker[w].job # j
    <3>1. ASSUME NEW w \in Workers, worker[w].pc = "syncing", worker[w].job = j
          PROVE  FALSE
      <4>1. worker'[w] # worker[w]
        BY <1>3, <3>1 DEF SyncPending
      <4>. QED BY <1>1, <2>3, <3>1, <4>1, SyncingEnds
    <3>2. request'[j] = request[j]
      BY <1>1, <2>1, <2>3, SucceededRequest
    <3>3. ~ SyncPending(j)
      BY <3>1 DEF SyncPending
    <3>. QED BY <1>2, <2>1, <3>2, <3>3 DEF SuccessReachesRequest
  <2>. QED BY <2>2, <2>3
<1>4. FailuresAreSaved'
  BY <1>2, FailuresStaySaved
<1>. QED BY <1>3, <1>4 DEF SuccessReachesRequest

(* If workers finish within their leases and nothing fails, no success is   *)
(* kept from its request, whatever operators requeue meanwhile.             *)
THEOREM SuccessIsToldWithoutFaults == Spec => []SuccessIsReported
<1>1. Init => ReportInv
  <2> SUFFICES ASSUME Init PROVE ReportInv
    OBVIOUS
  <2>1. NoRow.status = "NONE" /\ AtRest("idle").pc = "idle"
    BY DEF NoRow, AtRest
  <2>. QED BY <2>1
           DEF Init, ReportInv, SuccessIsReported, SuccessReachesRequest, FailuresAreSaved
<1>2. ReportInv => SuccessIsReported
  BY DEF ReportInv
<1>. QED BY <1>1, <1>2, ReportStep, TimelyInvariant, PTL DEF Spec

(* The documented diagram has no way out of SUCCESS, and if collections end *)
(* within their leases there is none.                                       *)
THEOREM SuccessForGood == ASSUME LeaseOutlivesWork PROVE Spec => SuccessIsFinal
<1>1. TimelyInv /\ [Next]_vars =>
        [\A j \in Jobs : job[j].status = "SUCCESS" => job'[j].status = "SUCCESS"]_vars
  BY SuccessStays DEF TimelyInv
<1>. QED BY <1>1, TimelyInvariant, PTL DEF Spec, SuccessIsFinal
=============================================================================
