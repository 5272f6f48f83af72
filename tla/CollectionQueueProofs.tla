------------------------ MODULE CollectionQueueProofs ------------------------
(***************************************************************************)
(* Proofs about CollectionQueue for every value of its constants.          *)
(***************************************************************************)
EXTENDS CollectionQueue, TLAPS, FiniteSetTheorems, SequenceTheorems

-----------------------------------------------------------------------------
(* Powers of two are positive: 2^n counts the subsets of 1..n.             *)
LEMMA PowerPositive == ASSUME NEW n \in Nat PROVE 2^n \in Nat \ {0}
<1>1. IsFiniteSet(1..n) /\ Cardinality(1..n) = n
  BY FS_Interval
<1>2. IsFiniteSet(SUBSET (1..n)) /\ Cardinality(SUBSET (1..n)) = 2^n
  BY <1>1, FS_SUBSET
<1>3. Cardinality(SUBSET (1..n)) \in Nat
  BY <1>2, FS_CardinalityType
<1>4. Cardinality(SUBSET (1..n)) # 0
  BY <1>2, FS_EmptySet
<1>. QED BY <1>2, <1>3, <1>4

(* Neither factor is zero, nor is their product.                           *)
LEMMA ProductPositive ==
  ASSUME NEW a \in Nat \ {0}, NEW b \in Nat \ {0} PROVE a * b \in Nat \ {0}
OBVIOUS

(* A backoff always lasts: retry_delay_seconds never returns zero.         *)
LEMMA RetryDelayPositive ==
  ASSUME NEW n \in Nat PROVE retry_delay_seconds(n) \in Nat \ {0}
<1> DEFINE exponent == IF n = 0 THEN 0 ELSE n - 1
<1>1. exponent \in Nat
  OBVIOUS
<1>2. 2^exponent \in Nat \ {0}
  BY <1>1, PowerPositive
<1> HIDE DEF exponent
<1>3. RetryBase * 2^exponent \in Nat \ {0}
  BY <1>2, ProductPositive, SettingsAssumption
<1>4. retry_delay_seconds(n) = Smaller(RetryMax, RetryBase * 2^exponent)
  BY DEF retry_delay_seconds, exponent
<1>. QED BY <1>3, <1>4, SettingsAssumption DEF Smaller

(* Saving one attempt row keeps the history a sequence of the same length. *)
LEMMA ExceptHistory ==
  ASSUME NEW s \in Seq(AttemptStatus), NEW n, NEW x \in AttemptStatus
  PROVE  /\ [s EXCEPT ![n] = x] \in Seq(AttemptStatus)
         /\ Len([s EXCEPT ![n] = x]) = Len(s)
<1> DEFINE r == [s EXCEPT ![n] = x]
<1>1. /\ DOMAIN r = 1..Len(s)
      /\ \A i \in 1..Len(s) : r[i] \in AttemptStatus
      /\ Len(s) \in Nat
  OBVIOUS
<1>2. r \in [1..Len(s) -> AttemptStatus]
  BY <1>1
<1>3. r \in Seq(AttemptStatus)
  BY <1>1, <1>2, SeqDef
<1>4. DOMAIN r = 1..Len(r) /\ Len(r) \in Nat
  BY <1>3, LenProperties
<1>. QED BY <1>1, <1>3, <1>4

-----------------------------------------------------------------------------
(* What _recover_expired_jobs leaves is well typed and keeps every history *)
(* as long as it was.                                                      *)
LEMMA RecoveryTyped ==
  ASSUME TypeOK, NEW t \in Nat
  PROVE  /\ RecoveredJobs(t) \in [Jobs -> JobRow]
         /\ RecoveredAttempts(t) \in [Jobs -> Seq(AttemptStatus)]
         /\ RecoveredRequests(t) \in [Jobs -> RequestStatus]
         /\ \A j \in Jobs : Len(RecoveredAttempts(t)[j]) = Len(attempts[j])
<1>1. RecoveredJobs(t) \in [Jobs -> JobRow]
  <2>1. ASSUME NEW j \in Jobs PROVE RecoveredJobs(t)[j] \in JobRow
    <3>1. job[j] \in JobRow /\ job[j].attempt_count \in Nat
      BY DEF TypeOK, JobRow
    <3>2. t + retry_delay_seconds(job[j].attempt_count) \in Nat
      BY <3>1, RetryDelayPositive
    <3>. QED BY <3>1, <3>2 DEF RecoveredJobs, JobRow, JobStatus, NoTime
  <2>. QED BY <2>1 DEF RecoveredJobs
<1>2. ASSUME NEW j \in Jobs
      PROVE  /\ RecoveredAttempts(t)[j] \in Seq(AttemptStatus)
             /\ Len(RecoveredAttempts(t)[j]) = Len(attempts[j])
  <2>1. attempts[j] \in Seq(AttemptStatus) /\ "ABANDONED" \in AttemptStatus
    BY DEF TypeOK, AttemptStatus
  <2>2. RecoveredAttempts(t)[j] \in
          {attempts[j], [attempts[j] EXCEPT ![job[j].attempt_count] = "ABANDONED"]}
    BY DEF RecoveredAttempts
  <2>. QED BY <2>1, <2>2, ExceptHistory
<1>3. RecoveredRequests(t) \in [Jobs -> RequestStatus]
  BY DEF RecoveredRequests, TypeOK, Synced, RequestStatus
<1>. QED BY <1>1, <1>2, <1>3 DEF RecoveredAttempts

(* Recovery moves only expired running jobs, whose budget decides where,   *)
(* and leaves counts and budgets alone.                                    *)
LEMMA RecoveryEffect ==
  ASSUME TypeOK, NEW t \in Nat, NEW j \in Jobs
  PROVE  /\ RecoveredJobs(t)[j].attempt_count = job[j].attempt_count
         /\ RecoveredJobs(t)[j].max_attempts = job[j].max_attempts
         /\ RecoveredJobs(t)[j].scheduled_for = job[j].scheduled_for
         /\ ~ Expired(j, t) => RecoveredJobs(t)[j] = job[j]
         /\ Expired(j, t) =>
              /\ RecoveredJobs(t)[j].status =
                   IF Exhausted(j) THEN "DEAD" ELSE "RETRY_WAIT"
              /\ RecoveredJobs(t)[j].available_at > t
<1>1. job[j] \in JobRow /\ job[j].attempt_count \in Nat
  BY DEF TypeOK, JobRow
<1>2. retry_delay_seconds(job[j].attempt_count) \in Nat \ {0}
  BY <1>1, RetryDelayPositive
<1>. QED BY <1>1, <1>2 DEF RecoveredJobs, JobRow

(* So a job that can be claimed at t was already waiting before recovery.  *)
LEMMA ClaimableWaits ==
  ASSUME TypeOK, NEW t \in Nat, NEW j \in Claimable(t)
  PROVE  /\ j \in Jobs
         /\ job[j].status \in Waiting
         /\ ~ Expired(j, t)
         /\ RecoveredJobs(t)[j] = job[j]
<1>1. j \in Jobs /\ RecoveredJobs(t)[j].status \in Waiting
      /\ RecoveredJobs(t)[j].available_at <= t
  BY DEF Claimable
<1>2. RecoveredJobs(t)[j].available_at \in Nat
  BY <1>1, RecoveryTyped DEF JobRow
<1>3. ~ Expired(j, t)
  BY <1>1, <1>2, RecoveryEffect
<1>. QED BY <1>1, <1>3, RecoveryEffect

-----------------------------------------------------------------------------
(* Type correctness, step by step.                                         *)
LEMMA TypeInit == Init => TypeOK
BY QueueAssumption, SettingsAssumption
   DEF Init, TypeOK, JobRow, WorkerState, NoRow, Free, AtRest, NoTime, JobStatus,
       RequestStatus, Outcome, AtWork

(* Every action keeps the types, given that workers have a job to save.    *)
LEMMA TypeStep == TypeOK /\ TaskAssigned /\ [Next]_vars => TypeOK'
<1> SUFFICES ASSUME TypeOK, TaskAssigned, [Next]_vars PROVE TypeOK'
  OBVIOUS
<1> USE QueueAssumption, SettingsAssumption
<1>a. ASSUME NEW w \in Workers PROVE worker[w] \in WorkerState
  BY DEF TypeOK
<1>b. ASSUME NEW j \in Jobs PROVE job[j] \in JobRow
  BY DEF TypeOK
<1>1. ASSUME NEW j \in Jobs, NEW t \in Nat
      PROVE  Queued(t) \in JobRow
  BY DEF Queued, NoRow, JobRow, JobStatus, NoTime
<1>2. ASSUME NEW j \in DailyJobs, EnqueueDaily(j) PROVE TypeOK'
  BY <1>1, <1>2 DEF EnqueueDaily, TypeOK, Jobs
<1>3. ASSUME NEW j \in ManualJobs, EnqueueNow(j) PROVE TypeOK'
  BY <1>1, <1>3 DEF EnqueueNow, TypeOK, Jobs
<1>4. ASSUME NEW j \in ManualJobs, RequestRefresh(j) PROVE TypeOK'
  BY <1>1, <1>4 DEF RequestRefresh, TypeOK, Jobs, RequestStatus
<1>5. ASSUME NEW j \in Jobs, RequeueDeadJob(j) PROVE TypeOK'
  <2> DEFINE row == [job[j] EXCEPT
                       !.status = "QUEUED", !.available_at = now,
                       !.max_attempts = job[j].attempt_count + MaxAttempts,
                       !.claimed_by = Nobody, !.lease_expires_at = NoTime]
  <2>a. row \in JobRow
    <3>1. job[j] \in JobRow /\ job[j].attempt_count \in Nat
      BY <1>b DEF JobRow
    <3>2. job[j].attempt_count + MaxAttempts \in Nat
      BY <3>1
    <3>. QED BY <3>1, <3>2 DEF JobRow, JobStatus, NoTime, TypeOK
  <2>b. job' = [job EXCEPT ![j] = row]
    BY <1>5 DEF RequeueDeadJob
  <2>1. job' \in [Jobs -> JobRow]
    BY <2>a, <2>b DEF TypeOK
  <2>2. request' \in [Jobs -> RequestStatus]
    BY <1>5 DEF RequeueDeadJob, TypeOK, RequestStatus, Synced
  <2>. QED BY <1>5, <2>1, <2>2 DEF RequeueDeadJob, TypeOK
<1>6. ASSUME NEW w \in Workers, StartPoll(w) PROVE TypeOK'
  <2>1. [worker[w] EXCEPT !.pc = "polling", !.started = now] \in WorkerState
    BY <1>a DEF WorkerState, TypeOK
  <2>2. worker' = [worker EXCEPT
                     ![w] = [worker[w] EXCEPT !.pc = "polling", !.started = now]]
    BY <1>6 DEF StartPoll
  <2>3. worker' \in [Workers -> WorkerState]
    BY <2>1, <2>2 DEF TypeOK
  <2>. QED BY <1>6, <2>3 DEF StartPoll, TypeOK
<1>7. ASSUME NEW phase \in {"idle", "stopped"}
      PROVE  AtRest(phase) \in WorkerState
  BY DEF AtRest, WorkerState, NoTime, Outcome
<1>8. ASSUME NEW w \in Workers, PollBusy(w) PROVE TypeOK'
  BY <1>7, <1>8 DEF PollBusy, TypeOK
<1>9. ASSUME NEW w \in Workers, AcquireLease(w, worker[w].started)
      PROVE  lease' \in [owner : Workers \union {Nobody}, locked_until : Nat]
  BY <1>9 DEF AcquireLease, TypeOK, WorkerState
<1>10. ASSUME NEW w \in Workers, PollIdle(w) PROVE TypeOK'
  <2>1. worker[w].started \in Nat
    BY DEF TypeOK, WorkerState
  <2>2. worker' \in [Workers -> WorkerState]
    <3>1. [worker[w] EXCEPT !.pc = "releasing"] \in WorkerState
      BY <1>a DEF WorkerState, AtWork
    <3>2. worker' = [worker EXCEPT ![w] = [worker[w] EXCEPT !.pc = "releasing"]]
      BY <1>10 DEF PollIdle
    <3>. QED BY <3>1, <3>2 DEF TypeOK
  <2>. QED BY <1>9, <1>10, <2>1, <2>2, RecoveryTyped DEF PollIdle, TypeOK
<1>11. ASSUME NEW w \in Workers, NEW j \in Jobs, PollClaim(w, j) PROVE TypeOK'
  <2> DEFINE t == worker[w].started
  <2>a. t \in Nat
    BY <1>a DEF WorkerState
  <2>b. job[j].attempt_count + 1 \in Nat /\ job[j].max_attempts \in Nat
    BY <1>b DEF JobRow
  <2>1. t \in Nat /\ job[j].attempt_count + 1 \in Nat /\ job[j].max_attempts \in Nat
        /\ t + LeaseTime \in Nat
    BY <2>a, <2>b
  <2> DEFINE row == [RecoveredJobs(t)[j] EXCEPT
                       !.status = "RUNNING",
                       !.attempt_count = job[j].attempt_count + 1,
                       !.claimed_by = w, !.lease_expires_at = t + LeaseTime]
             claim == [worker[w] EXCEPT
                         !.pc = "collecting", !.job = j,
                         !.number = job[j].attempt_count + 1,
                         !.max_attempts = job[j].max_attempts]
  <2>2. job' \in [Jobs -> JobRow]
    <3>1. RecoveredJobs(t) \in [Jobs -> JobRow]
      BY <2>1, RecoveryTyped
    <3>2. row \in JobRow
      <4>1. RecoveredJobs(t)[j] \in JobRow
        BY <3>1
      <4>. QED BY <2>1, <4>1 DEF JobRow, JobStatus
    <3>3. job' = [RecoveredJobs(t) EXCEPT ![j] = row]
      BY <1>11 DEF PollClaim
    <3>. QED BY <3>1, <3>2, <3>3
  <2>3. attempts' \in [Jobs -> Seq(AttemptStatus)]
    <3>1. RecoveredAttempts(t) \in [Jobs -> Seq(AttemptStatus)]
      BY <2>1, RecoveryTyped
    <3>2. RecoveredAttempts(t)[j] \in Seq(AttemptStatus)
      BY <3>1
    <3>3. Append(RecoveredAttempts(t)[j], "RUNNING") \in Seq(AttemptStatus)
      BY <3>2, AppendProperties DEF AttemptStatus
    <3>4. attempts' = [RecoveredAttempts(t) EXCEPT
                         ![j] = Append(RecoveredAttempts(t)[j], "RUNNING")]
      BY <1>11 DEF PollClaim
    <3>. QED BY <3>1, <3>3, <3>4
  <2>4. request' \in [Jobs -> RequestStatus]
    BY <1>11, <2>1, RecoveryTyped DEF PollClaim, RequestStatus, Synced
  <2>5. worker' \in [Workers -> WorkerState]
    <3>1. claim \in WorkerState
      BY <1>a, <2>1 DEF WorkerState, AtWork
    <3>2. worker' = [worker EXCEPT ![w] = claim]
      BY <1>11 DEF PollClaim
    <3>. QED BY <3>1, <3>2 DEF TypeOK
  <2>. QED BY <1>9, <1>11, <2>2, <2>3, <2>4, <2>5 DEF PollClaim, TypeOK
<1>12. ASSUME NEW w \in Workers, NEW outcome \in {"success", "retryable", "fatal"},
              FinishAttempt(w, outcome)
       PROVE  TypeOK'
  <2>1. worker[w].job \in Jobs
    BY <1>12 DEF FinishAttempt, TaskAssigned, Claimed
  <2>2. attempts' \in [Jobs -> Seq(AttemptStatus)]
    <3>1. attempts'[worker[w].job] \in Seq(AttemptStatus)
      BY <1>12, <2>1, ExceptHistory DEF FinishAttempt, TypeOK, AttemptStatus
    <3>. QED BY <1>12, <2>1, <3>1 DEF FinishAttempt, TypeOK
  <2>3. worker' \in [Workers -> WorkerState]
    <3> DEFINE done == [worker[w] EXCEPT !.pc = "saving", !.outcome = outcome,
                                         !.finished = now]
    <3>1. done \in WorkerState
      BY <1>a DEF WorkerState, AtWork, Outcome, TypeOK
    <3>2. worker' = [worker EXCEPT ![w] = done]
      BY <1>12 DEF FinishAttempt
    <3>. QED BY <3>1, <3>2 DEF TypeOK
  <2>. QED BY <1>12, <2>2, <2>3 DEF FinishAttempt, TypeOK
<1>13. ASSUME NEW w \in Workers, SaveJob(w) PROVE TypeOK'
  <2>1. worker[w].finished + retry_delay_seconds(worker[w].number) \in Nat
    <3>1. worker[w].finished \in Nat /\ worker[w].number \in Nat
      BY <1>a DEF WorkerState
    <3>. QED BY <3>1, RetryDelayPositive
  <2>2. job' \in [Jobs -> JobRow]
    <3>1. worker[w].job \in Jobs
      BY <1>13 DEF SaveJob, TaskAssigned, Claimed
    <3>2. job' = [job EXCEPT ![worker[w].job] = SavedRow(w)]
      BY <1>13 DEF SaveJob
    <3>3. SavedStatus(w) \in JobStatus
      BY DEF JobStatus, SavedStatus
    <3>4. job[worker[w].job] \in JobRow /\ job[worker[w].job].available_at \in Nat
      BY <1>b, <3>1 DEF JobRow
    <3>5. SavedAvailableAt(w) \in Nat
      BY <2>1, <3>4 DEF SavedAvailableAt
    <3>6. SavedRow(w) \in JobRow
      BY <3>3, <3>4, <3>5 DEF SavedRow, JobRow, NoTime
    <3>. QED BY <3>1, <3>2, <3>6 DEF TypeOK
  <2>3. worker' \in [Workers -> WorkerState]
    <3>1. AfterSave(w) \in AtWork
      BY DEF AfterSave, AtWork
    <3>2. [worker[w] EXCEPT !.pc = AfterSave(w)] \in WorkerState
      BY <1>a, <3>1 DEF WorkerState
    <3>3. worker' = [worker EXCEPT ![w] = [worker[w] EXCEPT !.pc = AfterSave(w)]]
      BY <1>13 DEF SaveJob
    <3>. QED BY <3>2, <3>3 DEF TypeOK
  <2>. QED BY <1>13, <2>2, <2>3 DEF SaveJob, TypeOK
<1>14. ASSUME NEW w \in Workers, SyncRequests(w) PROVE TypeOK'
  <2>1. request' \in [Jobs -> RequestStatus]
    BY <1>14 DEF SyncRequests, TypeOK, RequestStatus, Synced
  <2>2. worker' \in [Workers -> WorkerState]
    <3>1. [worker[w] EXCEPT !.pc = "releasing"] \in WorkerState
      BY <1>a DEF WorkerState, AtWork
    <3>2. worker' = [worker EXCEPT ![w] = [worker[w] EXCEPT !.pc = "releasing"]]
      BY <1>14 DEF SyncRequests
    <3>. QED BY <3>1, <3>2 DEF TypeOK
  <2>. QED BY <1>14, <2>1, <2>2 DEF SyncRequests, TypeOK
<1>15. ASSUME NEW w \in Workers, Release(w) PROVE TypeOK'
  BY <1>7, <1>15 DEF Release, ReleaseLease, Free, NoTime, TypeOK
<1>16. ASSUME NEW w \in Workers, DatabaseError(w) PROVE TypeOK'
  <2> DEFINE raised == [worker[w] EXCEPT !.pc = "releasing", !.outcome = "raised"]
  <2>1. raised \in WorkerState
    BY <1>a DEF WorkerState, AtWork, Outcome
  <2>2. worker' = [worker EXCEPT ![w] = raised]
    BY <1>16 DEF DatabaseError
  <2>. QED BY <1>16, <2>1, <2>2 DEF DatabaseError, TypeOK
<1>17. ASSUME NEW w \in Workers, Crash(w) PROVE TypeOK'
  BY <1>7, <1>17 DEF Crash, TypeOK
<1>18. ASSUME NEW w \in Workers, Restart(w) PROVE TypeOK'
  BY <1>7, <1>18 DEF Restart, TypeOK
<1>19. CASE Tick
  BY <1>19 DEF Tick, TypeOK
<1>20. CASE UNCHANGED vars
  BY <1>20 DEF vars, TypeOK
<1>. QED
  BY <1>2, <1>3, <1>4, <1>5, <1>6, <1>8, <1>10, <1>11, <1>12, <1>13, <1>14, <1>15,
     <1>16, <1>17, <1>18, <1>19, <1>20 DEF Next, SystemStep, WorkerStep
-----------------------------------------------------------------------------
(* The lease invariant, conjunct by conjunct.                              *)
LEMMA StartedStep == TypeOK /\ StartedInPast /\ [Next]_vars => StartedInPast'
<1> SUFFICES ASSUME TypeOK, StartedInPast, [Next]_vars, NEW u \in Workers
             PROVE  worker'[u].started <= now'
  BY DEF StartedInPast
<1>1. /\ worker \in [Workers -> WorkerState] /\ now \in Nat
      /\ worker[u].started <= now /\ worker[u].started \in Nat
  BY DEF TypeOK, StartedInPast, WorkerState
<1>2. ASSUME NEW w \in Workers, StartPoll(w) PROVE worker'[u].started <= now'
  <2>1. CASE u = w
    BY <1>1, <1>2, <2>1 DEF StartPoll
  <2>2. CASE u # w
    BY <1>1, <1>2, <2>2 DEF StartPoll
  <2>. QED BY <2>1, <2>2
<1>3. ASSUME NEW phase PROVE AtRest(phase).started = 0
  BY DEF AtRest, NoTime
<1>4. ASSUME NEW w \in Workers, PollBusy(w) \/ Release(w) \/ Crash(w) \/ Restart(w)
      PROVE  worker'[u].started <= now'
  <2>1. now' = now /\ (worker'[u] = worker[u] \/ \E phase : worker'[u] = AtRest(phase))
    BY <1>1, <1>4 DEF PollBusy, Release, Crash, Restart
  <2>. QED BY <1>1, <1>3, <2>1
<1>5. ASSUME NEW w \in Workers,
             \/ PollIdle(w) \/ SaveJob(w) \/ SyncRequests(w) \/ DatabaseError(w)
             \/ \E j \in Jobs : PollClaim(w, j)
             \/ \E outcome \in {"success", "retryable", "fatal"} :
                  FinishAttempt(w, outcome)
      PROVE  worker'[u].started <= now'
  <2>1. CASE PollIdle(w)
    BY <1>1, <2>1 DEF PollIdle
  <2>2. CASE SaveJob(w)
    BY <1>1, <2>2 DEF SaveJob
  <2>3. CASE SyncRequests(w)
    BY <1>1, <2>3 DEF SyncRequests
  <2>4. CASE DatabaseError(w)
    BY <1>1, <2>4 DEF DatabaseError
  <2>5. CASE \E j \in Jobs : PollClaim(w, j)
    BY <1>1, <2>5 DEF PollClaim
  <2>6. CASE \E outcome \in {"success", "retryable", "fatal"} : FinishAttempt(w, outcome)
    BY <1>1, <2>6 DEF FinishAttempt
  <2>. QED BY <1>5, <2>1, <2>2, <2>3, <2>4, <2>5, <2>6
<1>6. CASE \/ \E j \in DailyJobs : EnqueueDaily(j)
           \/ \E j \in ManualJobs : EnqueueNow(j) \/ RequestRefresh(j)
           \/ \E j \in Jobs : RequeueDeadJob(j)
           \/ Tick \/ UNCHANGED vars
  <2>1. worker' = worker /\ (now' = now \/ now' = now + 1)
    BY <1>6 DEF EnqueueDaily, EnqueueNow, RequestRefresh, RequeueDeadJob, Tick, vars
  <2>. QED BY <1>1, <2>1
<1>. QED BY <1>2, <1>4, <1>5, <1>6 DEF Next, SystemStep, WorkerStep

(* A worker keeps its job in memory until it has synced.                   *)
LEMMA TaskStep == TypeOK /\ TaskAssigned /\ [Next]_vars => TaskAssigned'
<1> SUFFICES ASSUME TypeOK, TaskAssigned, [Next]_vars, NEW u \in Workers,
                    worker'[u].pc \in {"collecting", "saving", "syncing"}
             PROVE  worker'[u].job \in Jobs
  BY DEF TaskAssigned, Claimed
<1>1. /\ worker \in [Workers -> WorkerState]
      /\ worker[u].pc \in {"collecting", "saving", "syncing"} => worker[u].job \in Jobs
  BY DEF TypeOK, TaskAssigned, Claimed
<1>2. ASSUME NEW phase PROVE AtRest(phase).pc = phase
  BY DEF AtRest
<1>3. ASSUME NEW w \in Workers, NEW j \in Jobs, PollClaim(w, j)
      PROVE  worker'[u].job \in Jobs
  BY <1>1, <1>3 DEF PollClaim
<1>4. ASSUME NEW w \in Workers,
             \/ StartPoll(w) \/ PollIdle(w) \/ SaveJob(w) \/ SyncRequests(w)
             \/ DatabaseError(w)
             \/ \E outcome \in {"success", "retryable", "fatal"} :
                  FinishAttempt(w, outcome)
      PROVE  worker'[u].job \in Jobs
  <2>1. CASE StartPoll(w)
    BY <1>1, <2>1 DEF StartPoll
  <2>2. CASE PollIdle(w)
    BY <1>1, <2>2 DEF PollIdle
  <2>3. CASE SaveJob(w)
    BY <1>1, <2>3 DEF SaveJob
  <2>4. CASE SyncRequests(w)
    BY <1>1, <2>4 DEF SyncRequests
  <2>5. CASE DatabaseError(w)
    BY <1>1, <2>5 DEF DatabaseError
  <2>6. CASE \E outcome \in {"success", "retryable", "fatal"} : FinishAttempt(w, outcome)
    BY <1>1, <2>6 DEF FinishAttempt
  <2>. QED BY <1>4, <2>1, <2>2, <2>3, <2>4, <2>5, <2>6
<1>5. ASSUME NEW w \in Workers, PollBusy(w) \/ Release(w) \/ Crash(w) \/ Restart(w)
      PROVE  worker'[u].job \in Jobs
  <2>1. worker'[u] = worker[u] \/ \E phase \in {"idle", "stopped"} :
                                     worker'[u] = AtRest(phase)
    BY <1>1, <1>5 DEF PollBusy, Release, Crash, Restart
  <2>. QED BY <1>1, <1>2, <2>1
<1>6. CASE \/ \E j \in DailyJobs : EnqueueDaily(j)
           \/ \E j \in ManualJobs : EnqueueNow(j) \/ RequestRefresh(j)
           \/ \E j \in Jobs : RequeueDeadJob(j)
           \/ Tick \/ UNCHANGED vars
  BY <1>1, <1>6 DEF EnqueueDaily, EnqueueNow, RequestRefresh, RequeueDeadJob, Tick, vars
<1>. QED BY <1>3, <1>4, <1>5, <1>6 DEF Next, SystemStep, WorkerStep

(* The row a save writes differs from the present one in four columns.     *)
LEMMA SavedRowEffect ==
  ASSUME TypeOK, NEW w \in Workers, worker[w].job \in Jobs
  PROVE  /\ SavedRow(w).status = SavedStatus(w)
         /\ SavedStatus(w) \in {"SUCCESS", "RETRY_WAIT", "DEAD"}
         /\ SavedRow(w).attempt_count = job[worker[w].job].attempt_count
         /\ SavedRow(w).max_attempts = job[worker[w].job].max_attempts
<1>1. job[worker[w].job] \in JobRow
  BY DEF TypeOK
<1>2. SavedStatus(w) \in {"SUCCESS", "RETRY_WAIT", "DEAD"}
  BY DEF SavedStatus
<1>. QED BY <1>1, <1>2 DEF SavedRow, JobRow

(* Only an enqueue writes to a job that does not exist yet.                *)
LEMMA UntouchedStep ==
  TypeOK /\ TaskAssigned /\ UntouchedUntilCreated /\ [Next]_vars => UntouchedUntilCreated'
<1> SUFFICES ASSUME TypeOK, TaskAssigned, UntouchedUntilCreated, [Next]_vars,
                    NEW k \in Jobs, job'[k].status = "NONE"
             PROVE  job'[k] = NoRow
  BY DEF UntouchedUntilCreated
<1>1. /\ job \in [Jobs -> JobRow]
      /\ job[k].status = "NONE" => job[k] = NoRow
      /\ \A w \in Workers : worker[w].pc = "saving" => worker[w].job \in Jobs
      /\ \A w \in Workers : worker[w].started \in Nat
  BY DEF TypeOK, UntouchedUntilCreated, TaskAssigned, Claimed, WorkerState
<1>2. ASSUME NEW t \in Nat PROVE Queued(t).status = "QUEUED"
  BY DEF Queued, NoRow
<1>3. ASSUME NEW j \in Jobs, NEW t \in Nat, job' = [job EXCEPT ![j] = Queued(t)]
      PROVE  job'[k] = NoRow
  <2>1. job'[k] = job[k] \/ job'[k].status = "QUEUED"
    BY <1>1, <1>2, <1>3
  <2>. QED BY <1>1, <2>1
<1>4. CASE \E j \in DailyJobs : EnqueueDaily(j)
  <2>. PICK j \in DailyJobs : EnqueueDaily(j)
    BY <1>4
  <2>1. DueAt[j] \in Nat /\ j \in Jobs /\ job' = [job EXCEPT ![j] = Queued(DueAt[j])]
    BY QueueAssumption DEF EnqueueDaily, Jobs
  <2>. QED BY <1>3, <2>1
<1>5. CASE \E j \in ManualJobs : EnqueueNow(j) \/ RequestRefresh(j)
  <2>. PICK j \in ManualJobs : EnqueueNow(j) \/ RequestRefresh(j)
    BY <1>5
  <2>1. now \in Nat /\ j \in Jobs /\ job' = [job EXCEPT ![j] = Queued(now)]
    BY DEF EnqueueNow, RequestRefresh, Jobs, TypeOK
  <2>. QED BY <1>3, <2>1
<1>6. CASE \E j \in Jobs : RequeueDeadJob(j)
  BY <1>1, <1>6 DEF RequeueDeadJob, JobRow
<1>7. ASSUME NEW t \in Nat, RecoveredJobs(t)[k].status = "NONE"
      PROVE  RecoveredJobs(t)[k] = NoRow
  BY <1>1, <1>7, RecoveryEffect
<1>8. ASSUME NEW w \in Workers, PollIdle(w) PROVE job'[k] = NoRow
  BY <1>1, <1>7, <1>8 DEF PollIdle
<1>9. ASSUME NEW w \in Workers, NEW j \in Jobs, PollClaim(w, j) PROVE job'[k] = NoRow
  <2> DEFINE t == worker[w].started
  <2>1. RecoveredJobs(t) \in [Jobs -> JobRow]
    BY <1>1, RecoveryTyped
  <2>2. CASE k = j
    <3>1. job'[k].status = "RUNNING"
      BY <1>9, <2>1, <2>2 DEF PollClaim, JobRow
    <3>. QED BY <3>1
  <2>3. CASE k # j
    <3>1. job'[k] = RecoveredJobs(t)[k]
      BY <1>9, <2>1, <2>3 DEF PollClaim
    <3>. QED BY <1>1, <1>7, <3>1
  <2>. QED BY <2>2, <2>3
<1>10. ASSUME NEW w \in Workers, SaveJob(w) PROVE job'[k] = NoRow
  <2>1. worker[w].job \in Jobs /\ job' = [job EXCEPT ![worker[w].job] = SavedRow(w)]
    BY <1>1, <1>10 DEF SaveJob
  <2>2. SavedRow(w).status # "NONE"
    BY <2>1, SavedRowEffect
  <2>. QED BY <1>1, <2>1, <2>2
<1>11. ASSUME NEW w \in Workers,
              \/ StartPoll(w) \/ PollBusy(w) \/ SyncRequests(w) \/ Release(w)
              \/ Restart(w) \/ DatabaseError(w) \/ Crash(w) \/ Tick \/ UNCHANGED vars
              \/ \E outcome \in {"success", "retryable", "fatal"} :
                   FinishAttempt(w, outcome)
       PROVE  job' = job
  BY <1>11 DEF StartPoll, PollBusy, SyncRequests, Release, Restart, DatabaseError,
               Crash, Tick, vars, FinishAttempt
<1>12. CASE Tick \/ UNCHANGED vars
  BY <1>1, <1>12 DEF Tick, vars
<1>. QED
  BY <1>1, <1>4, <1>5, <1>6, <1>8, <1>9, <1>10, <1>11, <1>12
  DEF Next, SystemStep, WorkerStep

(* Claims append attempt rows and count them; saves change rows in place.  *)
LEMMA AttemptsStep ==
  /\ TypeOK /\ TaskAssigned /\ UntouchedUntilCreated /\ AttemptsNumbered
  /\ [Next]_vars
  => AttemptsNumbered'
<1> SUFFICES ASSUME TypeOK, TaskAssigned, UntouchedUntilCreated, AttemptsNumbered,
                    [Next]_vars
             PROVE  AttemptsNumbered'
  OBVIOUS
<1>1. /\ job \in [Jobs -> JobRow] /\ worker \in [Workers -> WorkerState]
      /\ attempts \in [Jobs -> Seq(AttemptStatus)]
      /\ \A j \in Jobs : job[j].attempt_count \in Nat
      /\ \A w \in Workers : worker[w].started \in Nat
      /\ \A w \in Workers : worker[w].pc \in Claimed => worker[w].job \in Jobs
  BY DEF TypeOK, TaskAssigned, WorkerState, JobRow
<1>2. /\ \A j \in Jobs : Len(attempts[j]) = job[j].attempt_count
      /\ \A w \in Workers : worker[w].pc \in Claimed =>
           worker[w].number \in 1..Len(attempts[worker[w].job])
  BY DEF AttemptsNumbered
(* Every step either keeps the counts and the claims of the workers ...    *)
<1>3. ASSUME \A j \in Jobs : /\ job'[j].attempt_count = job[j].attempt_count
                             /\ Len(attempts'[j]) = Len(attempts[j]),
             \A w \in Workers : worker'[w].pc \in Claimed =>
               /\ worker[w].pc \in Claimed
               /\ worker'[w].job = worker[w].job /\ worker'[w].number = worker[w].number
      PROVE  AttemptsNumbered'
  <2>1. \A j \in Jobs : Len(attempts'[j]) = job'[j].attempt_count
    BY <1>2, <1>3
  <2>2. ASSUME NEW w \in Workers, worker'[w].pc \in Claimed
        PROVE  worker'[w].number \in 1..Len(attempts'[worker'[w].job])
    BY <1>1, <1>2, <1>3, <2>2
  <2>. QED BY <2>1, <2>2 DEF AttemptsNumbered
<1>4. ASSUME NEW phase PROVE AtRest(phase).pc = phase
  BY DEF AtRest
(* ... because its job is new, or its row's count is not among the columns *)
(* written, ...                                                            *)
<1>5. CASE \/ \E j \in DailyJobs : EnqueueDaily(j)
           \/ \E j \in ManualJobs : EnqueueNow(j) \/ RequestRefresh(j)
  <2>1. PICK j \in Jobs, t \in Nat :
          /\ job[j].status = "NONE" /\ job' = [job EXCEPT ![j] = Queued(t)]
          /\ attempts' = attempts /\ worker' = worker
    BY <1>5, QueueAssumption DEF EnqueueDaily, EnqueueNow, RequestRefresh, Jobs, TypeOK
  <2>2. Queued(t).attempt_count = 0 /\ job[j].attempt_count = 0
    BY <2>1 DEF Queued, NoRow, UntouchedUntilCreated
  <2>. QED BY <1>1, <1>3, <2>1, <2>2
<1>6. CASE \E j \in Jobs : RequeueDeadJob(j)
  <2>1. attempts' = attempts /\ worker' = worker
    BY <1>6 DEF RequeueDeadJob
  <2>2. \A k \in Jobs : job'[k].attempt_count = job[k].attempt_count
    BY <1>1, <1>6 DEF RequeueDeadJob, JobRow
  <2>. QED BY <1>3, <2>1, <2>2
<1>7. ASSUME NEW w \in Workers, PollIdle(w) PROVE AttemptsNumbered'
  <2>1. /\ job' = RecoveredJobs(worker[w].started)
        /\ attempts' = RecoveredAttempts(worker[w].started)
        /\ worker' = [worker EXCEPT ![w].pc = "releasing"]
    BY <1>7 DEF PollIdle
  <2>2. \A j \in Jobs : /\ job'[j].attempt_count = job[j].attempt_count
                        /\ Len(attempts'[j]) = Len(attempts[j])
    BY <1>1, <2>1, RecoveryTyped, RecoveryEffect
  <2>3. \A u \in Workers : worker'[u].pc \in Claimed => worker'[u] = worker[u]
    BY <1>1, <2>1 DEF Claimed, WorkerState
  <2>. QED BY <1>3, <2>2, <2>3
(* ... or it claims a job, whose count and history grow together.          *)
<1>8. ASSUME NEW w \in Workers, NEW j \in Jobs, PollClaim(w, j) PROVE AttemptsNumbered'
  <2> DEFINE t == worker[w].started
             number == job[j].attempt_count + 1
             claim == [worker[w] EXCEPT
                         !.pc = "collecting", !.job = j, !.number = number,
                         !.max_attempts = job[j].max_attempts]
             row == [RecoveredJobs(t)[j] EXCEPT
                       !.status = "RUNNING", !.attempt_count = number,
                       !.claimed_by = w, !.lease_expires_at = t + LeaseTime]
  <2>1. /\ job' = [RecoveredJobs(t) EXCEPT ![j] = row]
        /\ attempts' = [RecoveredAttempts(t) EXCEPT ![j] = Append(@, "RUNNING")]
        /\ worker' = [worker EXCEPT ![w] = claim]
    BY <1>8 DEF PollClaim
  <2>2. /\ RecoveredJobs(t) \in [Jobs -> JobRow]
        /\ RecoveredAttempts(t) \in [Jobs -> Seq(AttemptStatus)]
        /\ \A k \in Jobs : /\ RecoveredJobs(t)[k].attempt_count = job[k].attempt_count
                           /\ Len(RecoveredAttempts(t)[k]) = Len(attempts[k])
    BY <1>1, RecoveryTyped, RecoveryEffect
  <2>3. row.attempt_count = number
    BY <2>2 DEF JobRow
  <2>4. claim.job = j /\ claim.number = number /\ number \in Nat
    BY <1>1 DEF WorkerState
  <2> HIDE DEF row, claim
  <2>5. \A k \in Jobs : Len(attempts'[k]) =
          IF k = j THEN Len(attempts[k]) + 1 ELSE Len(attempts[k])
    BY <2>1, <2>2
  <2>6. \A k \in Jobs : job'[k].attempt_count =
          IF k = j THEN number ELSE job[k].attempt_count
    BY <2>1, <2>2, <2>3
  <2>7. \A k \in Jobs : Len(attempts'[k]) = job'[k].attempt_count
    BY <1>1, <1>2, <2>5, <2>6
  <2>8. ASSUME NEW u \in Workers, worker'[u].pc \in Claimed
        PROVE  worker'[u].number \in 1..Len(attempts'[worker'[u].job])
    <3>1. CASE u = w
      <4>1. worker'[u] = claim
        BY <1>1, <2>1, <3>1
      <4>. QED BY <1>1, <1>2, <2>4, <2>5, <4>1
    <3>2. CASE u # w
      <4>1. worker'[u] = worker[u]
        BY <1>1, <2>1, <3>2
      <4>2. /\ worker[u].job \in Jobs
            /\ worker[u].number \in 1..Len(attempts[worker[u].job])
        BY <1>1, <1>2, <2>8, <4>1
      <4>3. Len(attempts'[worker[u].job]) \in
              {Len(attempts[worker[u].job]), Len(attempts[worker[u].job]) + 1}
        BY <2>5, <4>2
      <4>. QED BY <1>1, <4>1, <4>2, <4>3
    <3>. QED BY <3>1, <3>2
  <2>. QED BY <2>7, <2>8 DEF AttemptsNumbered
<1>9. ASSUME NEW w \in Workers, NEW outcome \in {"success", "retryable", "fatal"},
             FinishAttempt(w, outcome)
      PROVE  AttemptsNumbered'
  <2>1. worker[w].job \in Jobs /\ job' = job
    BY <1>1, <1>9 DEF FinishAttempt, Claimed
  <2>2. ASSUME NEW j \in Jobs PROVE Len(attempts'[j]) = Len(attempts[j])
    BY <1>1, <1>9, <2>1, ExceptHistory DEF FinishAttempt, AttemptStatus
  <2>3. ASSUME NEW u \in Workers, worker'[u].pc \in Claimed
        PROVE  /\ worker[u].pc \in Claimed
               /\ worker'[u].job = worker[u].job /\ worker'[u].number = worker[u].number
    BY <1>1, <1>9, <2>3 DEF FinishAttempt, Claimed
  <2>. QED BY <1>3, <2>1, <2>2, <2>3
<1>10. ASSUME NEW w \in Workers, SaveJob(w) PROVE AttemptsNumbered'
  <2>1. /\ worker[w].job \in Jobs /\ job' = [job EXCEPT ![worker[w].job] = SavedRow(w)]
        /\ attempts' = attempts /\ worker' = [worker EXCEPT ![w].pc = AfterSave(w)]
        /\ AfterSave(w) \notin Claimed
    BY <1>1, <1>10 DEF SaveJob, Claimed, AfterSave
  <2>2. \A k \in Jobs : job'[k].attempt_count = job[k].attempt_count
    BY <1>1, <2>1, SavedRowEffect
  <2>3. \A u \in Workers : worker'[u].pc \in Claimed => worker'[u] = worker[u]
    BY <1>1, <2>1 DEF WorkerState
  <2>. QED BY <1>3, <2>1, <2>2, <2>3
<1>11. ASSUME NEW w \in Workers,
              StartPoll(w) \/ SyncRequests(w) \/ DatabaseError(w)
       PROVE  AttemptsNumbered'
  <2>1. job' = job /\ attempts' = attempts
    BY <1>11 DEF StartPoll, SyncRequests, DatabaseError
  <2>2. ASSUME NEW u \in Workers, worker'[u].pc \in Claimed
        PROVE  worker'[u] = worker[u]
    <3>1. CASE StartPoll(w)
      BY <1>1, <2>2, <3>1 DEF StartPoll, Claimed
    <3>2. CASE SyncRequests(w)
      BY <1>1, <2>2, <3>2 DEF SyncRequests, Claimed
    <3>3. CASE DatabaseError(w)
      BY <1>1, <2>2, <3>3 DEF DatabaseError, Claimed
    <3>. QED BY <1>11, <3>1, <3>2, <3>3
  <2>. QED BY <1>3, <2>1, <2>2
<1>12. ASSUME NEW w \in Workers,
              PollBusy(w) \/ Release(w) \/ Crash(w) \/ Restart(w)
       PROVE  AttemptsNumbered'
  <2>1. job' = job /\ attempts' = attempts
    BY <1>12 DEF PollBusy, Release, Crash, Restart
  <2>2. \E phase \in {"idle", "stopped"} : worker' = [worker EXCEPT ![w] = AtRest(phase)]
    BY <1>12 DEF PollBusy, Release, Crash, Restart
  <2>3. \A u \in Workers : worker'[u].pc \in Claimed => worker'[u] = worker[u]
    BY <1>1, <1>4, <2>2 DEF Claimed
  <2>. QED BY <1>3, <2>1, <2>3
<1>13. CASE Tick \/ UNCHANGED vars
  <2>1. job' = job /\ attempts' = attempts /\ worker' = worker
    BY <1>13 DEF Tick, vars
  <2>. QED BY <1>3, <2>1
<1>. QED
  BY <1>5, <1>6, <1>7, <1>8, <1>9, <1>10, <1>11, <1>12, <1>13
  DEF Next, SystemStep, WorkerStep

-----------------------------------------------------------------------------
(* A lease that can be acquired belongs to no one else whose reservation   *)
(* is still valid.                                                         *)
LEMMA AcquisitionExcludes ==
  ASSUME TypeOK, StartedInPast, ReservationProtected,
         NEW w \in Workers, CanAcquire(w, worker[w].started),
         NEW u \in Workers, u # w, worker[u].pc \in AtWork
  PROVE  ~ (now < Deadline(u))
<1> SUFFICES ASSUME now < Deadline(u) PROVE FALSE
  OBVIOUS
<1>1. lease = [owner |-> u, locked_until |-> Deadline(u)]
  BY DEF ReservationProtected
<1>2. lease.owner = u /\ lease.locked_until = Deadline(u) /\ u # Nobody
  BY <1>1, QueueAssumption
<1>3. /\ worker[w].started <= now /\ now \in Nat
      /\ worker[w].started \in Nat /\ worker[u].started \in Nat
  BY DEF StartedInPast, TypeOK, WorkerState
<1>4. Deadline(u) \in Nat
  BY <1>3, SettingsAssumption DEF Deadline
<1>. QED BY <1>2, <1>3, <1>4 DEF CanAcquire

(* Acquisitions and releases keep the reservations of others.              *)
LEMMA ReservationStep ==
  TypeOK /\ StartedInPast /\ ReservationProtected /\ [Next]_vars => ReservationProtected'
<1> SUFFICES ASSUME TypeOK, StartedInPast, ReservationProtected, [Next]_vars,
                    NEW u \in Workers, worker'[u].pc \in AtWork,
                    now' < worker'[u].started + LeaseTime
             PROVE  lease' = [owner |-> u,
                              locked_until |-> worker'[u].started + LeaseTime]
  BY DEF ReservationProtected, Deadline
<1>1. /\ worker \in [Workers -> WorkerState]
      /\ now \in Nat /\ LeaseTime \in Nat
      /\ \A w \in Workers : worker[w].started \in Nat
  BY SettingsAssumption DEF TypeOK, WorkerState
<1>2. worker[u].pc \in AtWork /\ now < Deadline(u) =>
        lease = [owner |-> u, locked_until |-> Deadline(u)]
  BY DEF ReservationProtected
<1>3. ASSUME NEW phase PROVE AtRest(phase).pc = phase
  BY DEF AtRest
(* A worker that goes on under the same lease row keeps its reservation.   *)
<1>4. ASSUME worker[u].pc \in AtWork, worker'[u].started = worker[u].started,
             now' = now \/ now' = now + 1,
             lease' = lease \/ lease.owner # u
      PROVE  lease' = [owner |-> u, locked_until |-> worker'[u].started + LeaseTime]
  <2>1. now < Deadline(u)
    BY <1>1, <1>4 DEF Deadline
  <2>2. lease = [owner |-> u, locked_until |-> Deadline(u)]
    BY <1>2, <1>4, <2>1
  <2>. QED BY <1>4, <2>2 DEF Deadline
<1>5. ASSUME NEW w \in Workers, worker[w].pc = "polling",
             CanAcquire(w, worker[w].started), AcquireLease(w, worker[w].started),
             now' = now, u # w => worker'[u] = worker[u],
             worker'[w].started = worker[w].started
      PROVE  lease' = [owner |-> u, locked_until |-> worker'[u].started + LeaseTime]
  <2>1. CASE u = w
    BY <1>5, <2>1 DEF AcquireLease
  <2>2. CASE u # w
    <3>1. worker[u].pc \in AtWork /\ now < Deadline(u)
      BY <1>5, <2>2 DEF Deadline
    <3>. QED BY <1>5, <2>2, <3>1, AcquisitionExcludes
  <2>. QED BY <2>1, <2>2
<1>6. ASSUME NEW w \in Workers, PollIdle(w)
      PROVE  lease' = [owner |-> u, locked_until |-> worker'[u].started + LeaseTime]
  BY <1>1, <1>5, <1>6 DEF PollIdle
<1>7. ASSUME NEW w \in Workers, NEW j \in Jobs, PollClaim(w, j)
      PROVE  lease' = [owner |-> u, locked_until |-> worker'[u].started + LeaseTime]
  <2>1. /\ worker[w].pc = "polling" /\ CanAcquire(w, worker[w].started)
        /\ AcquireLease(w, worker[w].started) /\ now' = now
    BY <1>7 DEF PollClaim
  <2>2. u # w => worker'[u] = worker[u]
    BY <1>1, <1>7 DEF PollClaim
  <2>3. worker'[w].started = worker[w].started
    BY <1>1, <1>7 DEF PollClaim, WorkerState
  <2>. QED BY <1>5, <2>1, <2>2, <2>3
<1>8. ASSUME NEW w \in Workers,
             StartPoll(w) \/ SyncRequests(w) \/ DatabaseError(w) \/ SaveJob(w)
             \/ \E outcome \in {"success", "retryable", "fatal"} :
                  FinishAttempt(w, outcome)
      PROVE  lease' = [owner |-> u, locked_until |-> worker'[u].started + LeaseTime]
  <2>1. now' = now /\ lease' = lease
    BY <1>8 DEF StartPoll, SyncRequests, DatabaseError, SaveJob, FinishAttempt
  <2>2. worker[u].pc \in AtWork /\ worker'[u].started = worker[u].started
    <3>1. CASE StartPoll(w)
      BY <1>1, <3>1 DEF StartPoll, AtWork
    <3>2. CASE SyncRequests(w)
      BY <1>1, <3>2 DEF SyncRequests, AtWork
    <3>3. CASE DatabaseError(w)
      BY <1>1, <3>3 DEF DatabaseError, AtWork
    <3>4. CASE SaveJob(w)
      BY <1>1, <3>4 DEF SaveJob, AtWork
    <3>5. CASE \E outcome \in {"success", "retryable", "fatal"} :
                 FinishAttempt(w, outcome)
      BY <1>1, <3>5 DEF FinishAttempt, AtWork
    <3>. QED BY <1>8, <3>1, <3>2, <3>3, <3>4, <3>5
  <2>. QED BY <1>4, <2>1, <2>2
(* Release touches the row only when it still names the releasing worker.  *)
<1>9. ASSUME NEW w \in Workers,
             PollBusy(w) \/ Release(w) \/ Crash(w) \/ Restart(w)
      PROVE  lease' = [owner |-> u, locked_until |-> worker'[u].started + LeaseTime]
  <2>1. \E phase \in {"idle", "stopped"} : worker' = [worker EXCEPT ![w] = AtRest(phase)]
    BY <1>9 DEF PollBusy, Release, Crash, Restart
  <2>2. u # w /\ worker'[u] = worker[u]
    BY <1>1, <1>3, <2>1 DEF AtWork
  <2>3. now' = now /\ (lease' = lease \/ lease.owner = w)
    BY <1>9 DEF PollBusy, Release, ReleaseLease, Crash, Restart
  <2>. QED BY <1>4, <2>2, <2>3
<1>10. CASE \/ \E j \in DailyJobs : EnqueueDaily(j)
            \/ \E j \in ManualJobs : EnqueueNow(j) \/ RequestRefresh(j)
            \/ \E j \in Jobs : RequeueDeadJob(j)
            \/ Tick \/ UNCHANGED vars
  <2>1. worker' = worker /\ lease' = lease /\ (now' = now \/ now' = now + 1)
    BY <1>10 DEF EnqueueDaily, EnqueueNow, RequestRefresh, RequeueDeadJob, Tick, vars
  <2>. QED BY <1>4, <2>1
<1>. QED BY <1>6, <1>7, <1>8, <1>9, <1>10 DEF Next, SystemStep, WorkerStep

-----------------------------------------------------------------------------
(* The invariant that needs no assumption on delays is inductive.          *)
LEMMA LeaseInit == Init => LeaseInv
<1> SUFFICES ASSUME Init PROVE LeaseInv
  OBVIOUS
<1>1. \A w \in Workers : worker[w] = AtRest("idle")
  BY DEF Init
<1>2. AtRest("idle").pc = "idle" /\ AtRest("idle").started = 0
  BY DEF AtRest, NoTime
<1>3. TypeOK
  BY TypeInit
<1>4. StartedInPast /\ TaskAssigned /\ ReservationProtected
  BY <1>1, <1>2 DEF Init, StartedInPast, TaskAssigned, ReservationProtected, Claimed, AtWork
<1>5. UntouchedUntilCreated
  BY DEF Init, UntouchedUntilCreated
<1>6. AttemptsNumbered
  <2>1. NoRow.attempt_count = 0
    BY DEF NoRow
  <2>. QED BY <1>1, <1>2, <2>1 DEF Init, AttemptsNumbered, Claimed
<1>. QED BY <1>3, <1>4, <1>5, <1>6 DEF LeaseInv

(* Each conjunct by its own lemma.                                         *)
LEMMA LeaseStep == LeaseInv /\ [Next]_vars => LeaseInv'
BY TypeStep, StartedStep, TaskStep, UntouchedStep, AttemptsStep, ReservationStep
   DEF LeaseInv

(* The lease invariant holds whatever the delays: it carries the theorems  *)
(* about types, attempts and reservations.                                 *)
THEOREM LeaseInvariant == Spec => []LeaseInv
<1>. QED BY LeaseInit, LeaseStep, PTL DEF Spec

(* All rows, attempts, requests and process states keep their types: no    *)
(* interleaving of saves, recoveries and requeues writes another status.   *)
THEOREM TypeCorrect == Spec => []TypeOK
<1>1. LeaseInv => TypeOK
  BY DEF LeaseInv
<1>. QED BY <1>1, LeaseInvariant, PTL

(* _acquire_lease and _release_lease protect a reservation while it lasts: *)
(* nobody takes over or frees the lease of a worker before its deadline.   *)
THEOREM ReservationSafe == Spec => []ReservationProtected
<1>1. LeaseInv => ReservationProtected
  BY DEF LeaseInv
<1>. QED BY <1>1, LeaseInvariant, PTL

(* _finish_success and _finish_failure always find the attempt row of      *)
(* their own attempt, and the attempts are numbered 1..attempt_count, even *)
(* when stale workers, recoveries and requeues interleave.                 *)
THEOREM AttemptsStayNumbered == Spec => []AttemptsNumbered
<1>1. LeaseInv => AttemptsNumbered
  BY DEF LeaseInv
<1>. QED BY <1>1, LeaseInvariant, PTL

-----------------------------------------------------------------------------
(* When no live worker outlives its lease.                                 *)

(* The steps that write to rows of jobs, and what the rest keep.           *)
LEMMA JobWriters ==
  ASSUME TypeOK, [Next]_vars
  PROVE  \/ job' = job
         \/ \E j \in Jobs, t \in Nat :
              /\ job[j].status = "NONE" /\ job' = [job EXCEPT ![j] = Queued(t)]
              /\ worker' = worker
         \/ \E j \in Jobs : RequeueDeadJob(j)
         \/ \E w \in Workers : PollIdle(w) \/ SaveJob(w)
         \/ \E w \in Workers, j \in Jobs : PollClaim(w, j)
<1> DEFINE Created == \E j \in Jobs, t \in Nat :
                        /\ job[j].status = "NONE" /\ job' = [job EXCEPT ![j] = Queued(t)]
                        /\ worker' = worker
<1>1. ASSUME \/ \E j \in DailyJobs : EnqueueDaily(j)
             \/ \E j \in ManualJobs : EnqueueNow(j) \/ RequestRefresh(j)
      PROVE  Created
  BY <1>1, QueueAssumption DEF EnqueueDaily, EnqueueNow, RequestRefresh, Jobs, TypeOK
<1>2. ASSUME NEW w \in Workers,
             \/ StartPoll(w) \/ PollBusy(w) \/ SyncRequests(w) \/ Release(w)
             \/ Restart(w) \/ DatabaseError(w) \/ Crash(w)
             \/ \E outcome \in {"success", "retryable", "fatal"} :
                  FinishAttempt(w, outcome)
      PROVE  job' = job
  BY <1>2 DEF StartPoll, PollBusy, SyncRequests, Release, Restart, DatabaseError,
              Crash, FinishAttempt
<1>3. ASSUME Tick \/ UNCHANGED vars PROVE job' = job
  BY <1>3 DEF Tick, vars
<1> DEFINE Goal == \/ job' = job \/ Created
                   \/ \E j \in Jobs : RequeueDeadJob(j)
                   \/ \E w \in Workers : PollIdle(w) \/ SaveJob(w)
                   \/ \E w \in Workers, j \in Jobs : PollClaim(w, j)
<1>4. ASSUME NEW w \in Workers, WorkerStep(w) \/ DatabaseError(w) \/ Crash(w)
      PROVE  Goal
  <2>1. CASE PollIdle(w) \/ SaveJob(w) \/ \E j \in Jobs : PollClaim(w, j)
    BY <2>1
  <2>2. CASE ~ (PollIdle(w) \/ SaveJob(w) \/ \E j \in Jobs : PollClaim(w, j))
    BY <1>2, <1>4, <2>2 DEF WorkerStep
  <2>. QED BY <2>1, <2>2
<1>5. ASSUME NEW j \in Jobs, RequeueDeadJob(j) PROVE Goal
  BY <1>5
<1>6. (Created => Goal) /\ (job' = job => Goal)
  OBVIOUS
<1> HIDE DEF Created, Goal
<1>7. Goal
  BY <1>1, <1>3, <1>4, <1>5, <1>6 DEF Next, SystemStep
<1>. QED BY <1>7 DEF Goal, Created

(* A reservation that has not expired has one owner.                       *)
LEMMA OneReservation == LeaseInv /\ NobodyOverruns => SingleWorker
<1> SUFFICES ASSUME LeaseInv, NobodyOverruns, LeaseOutlivesWork,
                    NEW u \in Workers, NEW w \in Workers,
                    worker[u].pc \in AtWork, worker[w].pc \in AtWork
             PROVE  u = w
  BY DEF SingleWorker
<1>1. now < Deadline(u) /\ now < Deadline(w)
  BY DEF NobodyOverruns
<1>2. lease = [owner |-> u, locked_until |-> Deadline(u)]
  BY <1>1 DEF LeaseInv, ReservationProtected
<1>3. lease = [owner |-> w, locked_until |-> Deadline(w)]
  BY <1>1 DEF LeaseInv, ReservationProtected
<1>. QED BY <1>2, <1>3

(* So whoever gets the lease finds nobody at work.                         *)
LEMMA NobodyElseAtWork ==
  ASSUME LeaseInv, NobodyOverruns, LeaseOutlivesWork,
         NEW w \in Workers, worker[w].pc = "polling", CanAcquire(w, worker[w].started),
         NEW u \in Workers
  PROVE  worker[u].pc \notin AtWork
<1>1. CASE u = w
  BY <1>1 DEF AtWork
<1>2. CASE u # w
  <2>1. worker[u].pc \in AtWork => now < Deadline(u)
    BY DEF NobodyOverruns
  <2>. QED BY <1>2, <2>1, AcquisitionExcludes DEF LeaseInv
<1>. QED BY <1>1, <1>2

(* The clock waits for live workers, and a new claim starts a new lease.   *)
LEMMA OverrunStep == TypeOK /\ NobodyOverruns /\ [Next]_vars => NobodyOverruns'
<1> DEFINE busy == AtWork \union {"polling"}
<1> SUFFICES ASSUME TypeOK, NobodyOverruns, [Next]_vars, LeaseOutlivesWork,
                    NEW u \in Workers, worker'[u].pc \in busy
             PROVE  now' < worker'[u].started + LeaseTime
  BY DEF NobodyOverruns, Deadline
<1>1. /\ worker \in [Workers -> WorkerState] /\ now \in Nat /\ LeaseTime \in Nat \ {0}
      /\ worker[u].started \in Nat
  BY SettingsAssumption DEF TypeOK, WorkerState
<1>2. worker[u].pc \in busy => now < worker[u].started + LeaseTime
  BY DEF NobodyOverruns, Deadline
<1>3. ASSUME worker[u].pc \in busy, worker'[u].started = worker[u].started, now' = now
      PROVE  now' < worker'[u].started + LeaseTime
  BY <1>2, <1>3
<1>4. ASSUME NEW w \in Workers, StartPoll(w) PROVE now' < worker'[u].started + LeaseTime
  <2>1. CASE u = w
    BY <1>1, <1>4, <2>1 DEF StartPoll, WorkerState
  <2>2. CASE u # w
    BY <1>1, <1>2, <1>4, <2>2 DEF StartPoll
  <2>. QED BY <2>1, <2>2
<1>5. ASSUME NEW w \in Workers,
             \/ PollIdle(w) \/ SyncRequests(w) \/ DatabaseError(w) \/ SaveJob(w)
             \/ \E j \in Jobs : PollClaim(w, j)
             \/ \E outcome \in {"success", "retryable", "fatal"} :
                  FinishAttempt(w, outcome)
      PROVE  now' < worker'[u].started + LeaseTime
  <2>1. now' = now
    BY <1>5 DEF PollIdle, SyncRequests, DatabaseError, SaveJob, PollClaim, FinishAttempt
  <2>2. worker[u].pc \in busy /\ worker'[u].started = worker[u].started
    <3>1. CASE PollIdle(w)
      BY <1>1, <3>1 DEF PollIdle, AtWork, WorkerState
    <3>2. CASE SyncRequests(w)
      BY <1>1, <3>2 DEF SyncRequests, AtWork, WorkerState
    <3>3. CASE DatabaseError(w)
      BY <1>1, <3>3 DEF DatabaseError, AtWork, WorkerState
    <3>4. CASE SaveJob(w)
      BY <1>1, <3>4 DEF SaveJob, AtWork, WorkerState
    <3>5. CASE \E j \in Jobs : PollClaim(w, j)
      BY <1>1, <3>5 DEF PollClaim, AtWork, WorkerState
    <3>6. CASE \E outcome \in {"success", "retryable", "fatal"} :
                 FinishAttempt(w, outcome)
      BY <1>1, <3>6 DEF FinishAttempt, AtWork, WorkerState
    <3>. QED BY <1>5, <3>1, <3>2, <3>3, <3>4, <3>5, <3>6
  <2>. QED BY <1>3, <2>1, <2>2
<1>6. ASSUME NEW w \in Workers,
             PollBusy(w) \/ Release(w) \/ Crash(w) \/ Restart(w)
      PROVE  now' < worker'[u].started + LeaseTime
  <2>1. \E phase \in {"idle", "stopped"} : worker' = [worker EXCEPT ![w] = AtRest(phase)]
    BY <1>6 DEF PollBusy, Release, Crash, Restart
  <2>2. worker'[u] = worker[u]
    <3>1. ASSUME NEW phase PROVE AtRest(phase).pc = phase
      BY DEF AtRest
    <3>. QED BY <1>1, <2>1, <3>1 DEF AtWork
  <2>3. now' = now
    BY <1>6 DEF PollBusy, Release, Crash, Restart
  <2>. QED BY <1>3, <2>2, <2>3
<1>7. CASE Tick
  BY <1>1, <1>7 DEF Tick, Deadline
<1>8. CASE \/ \E j \in DailyJobs : EnqueueDaily(j)
           \/ \E j \in ManualJobs : EnqueueNow(j) \/ RequestRefresh(j)
           \/ \E j \in Jobs : RequeueDeadJob(j)
           \/ UNCHANGED vars
  <2>1. worker' = worker /\ now' = now
    BY <1>8 DEF EnqueueDaily, EnqueueNow, RequestRefresh, RequeueDeadJob, vars
  <2>. QED BY <1>3, <2>1
<1>. QED BY <1>4, <1>5, <1>6, <1>7, <1>8 DEF Next, SystemStep, WorkerStep

(* Whoever could write to the row of a job somebody works on cannot: the   *)
(* job is not waiting, not expired and not DEAD.                           *)
LEMMA FreshStep ==
  LeaseInv /\ NobodyOverruns /\ MemoryIsFresh /\ [Next]_vars => MemoryIsFresh'
<1> SUFFICES ASSUME LeaseInv, NobodyOverruns, MemoryIsFresh, [Next]_vars,
                    LeaseOutlivesWork, NEW u \in Workers, worker'[u].pc \in Claimed
             PROVE  ClaimHolds(u)'
  BY DEF MemoryIsFresh
<1>1. /\ TypeOK /\ worker \in [Workers -> WorkerState] /\ job \in [Jobs -> JobRow]
      /\ \A w \in Workers : worker[w].started \in Nat
      /\ \A w \in Workers : worker[w].pc \in Claimed =>
           worker[w].job \in Jobs /\ ClaimHolds(w)
  BY DEF LeaseInv, TypeOK, TaskAssigned, MemoryIsFresh, WorkerState
<1>2. SingleWorker
  BY OneReservation
(* The worker goes on with the same object, and its row does not change:   *)
<1>3. ASSUME worker[u].pc \in Claimed,
             job'[worker[u].job] = job[worker[u].job],
             worker'[u].job = worker[u].job, worker'[u].number = worker[u].number,
             worker'[u].max_attempts = worker[u].max_attempts,
             worker'[u].started = worker[u].started
      PROVE  ClaimHolds(u)'
  BY <1>1, <1>3 DEF ClaimHolds, Deadline
(* other steps write to rows that are not running,                         *)
<1>4. ASSUME NEW j \in Jobs, NEW t \in Nat,
             job[j].status = "NONE", job' = [job EXCEPT ![j] = Queued(t)],
             worker' = worker
      PROVE  ClaimHolds(u)'
  <2>1. worker[u].pc \in Claimed /\ worker[u].job # j
    BY <1>1, <1>4 DEF ClaimHolds
  <2>. QED BY <1>1, <1>3, <1>4, <2>1
<1>5. ASSUME NEW j \in Jobs, RequeueDeadJob(j) PROVE ClaimHolds(u)'
  <2>1. worker' = worker /\ job[j].status = "DEAD"
    BY <1>5 DEF RequeueDeadJob
  <2>2. worker[u].pc \in Claimed /\ worker[u].job # j
    BY <1>1, <2>1 DEF ClaimHolds
  <2>3. job'[worker[u].job] = job[worker[u].job]
    BY <1>1, <1>5, <2>2 DEF RequeueDeadJob
  <2>. QED BY <1>3, <2>1, <2>2, <2>3
(* or come when nobody else is at work.                                    *)
<1>6. ASSUME NEW w \in Workers, PollIdle(w) PROVE ClaimHolds(u)'
  <2>1. worker[w].pc = "polling" /\ CanAcquire(w, worker[w].started)
    BY <1>6 DEF PollIdle
  <2>2. worker[u].pc \notin AtWork
    BY <2>1, NobodyElseAtWork
  <2>3. worker'[u].pc \notin Claimed
    BY <1>1, <1>6, <2>2 DEF PollIdle, AtWork, Claimed
  <2>. QED BY <2>3
<1>7. ASSUME NEW w \in Workers, SaveJob(w) PROVE ClaimHolds(u)'
  <2>1. worker[w].pc = "saving" /\ worker'[w].pc \notin Claimed
    BY <1>1, <1>7 DEF SaveJob, AfterSave, Claimed, WorkerState
  <2>2. u # w /\ worker'[u] = worker[u]
    BY <1>1, <1>7, <2>1 DEF SaveJob
  <2>. QED BY <1>2, <2>1, <2>2 DEF SingleWorker, AtWork, Claimed
<1>8. ASSUME NEW w \in Workers, NEW j \in Jobs, PollClaim(w, j) PROVE ClaimHolds(u)'
  <2> DEFINE t == worker[w].started
             claim == [worker[w] EXCEPT
                         !.pc = "collecting", !.job = j,
                         !.number = job[j].attempt_count + 1,
                         !.max_attempts = job[j].max_attempts]
             row == [RecoveredJobs(t)[j] EXCEPT
                       !.status = "RUNNING", !.attempt_count = job[j].attempt_count + 1,
                       !.claimed_by = w, !.lease_expires_at = t + LeaseTime]
  <2>1. worker[w].pc = "polling" /\ CanAcquire(w, worker[w].started)
    BY <1>8 DEF PollClaim
  <2>2. worker[u].pc \notin AtWork
    BY <2>1, NobodyElseAtWork
  <2>3. /\ job' = [RecoveredJobs(t) EXCEPT ![j] = row]
        /\ worker' = [worker EXCEPT ![w] = claim]
    BY <1>8 DEF PollClaim
  <2>4. u = w
    BY <1>1, <2>2, <2>3 DEF AtWork, Claimed
  <2>5. /\ RecoveredJobs(t) \in [Jobs -> JobRow]
        /\ RecoveredJobs(t)[j].max_attempts = job[j].max_attempts
    BY <1>1, RecoveryTyped, RecoveryEffect
  <2>6. /\ row.status = "RUNNING" /\ row.claimed_by = w
        /\ row.attempt_count = claim.number /\ row.max_attempts = claim.max_attempts
        /\ row.lease_expires_at = claim.started + LeaseTime /\ claim.job = j
    BY <1>1, <2>5 DEF JobRow, WorkerState
  <2> HIDE DEF row, claim
  <2>7. job'[j] = row /\ worker'[u] = claim
    BY <1>1, <2>3, <2>4, <2>5
  <2>. QED BY <2>4, <2>6, <2>7 DEF ClaimHolds, Deadline
<1>9. ASSUME NEW w \in Workers, NEW outcome \in {"success", "retryable", "fatal"},
             FinishAttempt(w, outcome)
      PROVE  ClaimHolds(u)'
  <2>1. job' = job
    BY <1>9 DEF FinishAttempt
  <2>2. /\ worker[u].pc \in Claimed
        /\ worker'[u].job = worker[u].job /\ worker'[u].number = worker[u].number
        /\ worker'[u].max_attempts = worker[u].max_attempts
        /\ worker'[u].started = worker[u].started
    BY <1>1, <1>9 DEF FinishAttempt, Claimed
  <2>. QED BY <1>3, <2>1, <2>2
<1>10. ASSUME NEW w \in Workers, StartPoll(w) \/ SyncRequests(w) \/ DatabaseError(w)
       PROVE  ClaimHolds(u)'
  <2>1. job' = job
    BY <1>10 DEF StartPoll, SyncRequests, DatabaseError
  <2>2. worker'[u] = worker[u]
    <3>1. CASE StartPoll(w)
      BY <1>1, <3>1 DEF StartPoll, Claimed
    <3>2. CASE SyncRequests(w)
      BY <1>1, <3>2 DEF SyncRequests, Claimed
    <3>3. CASE DatabaseError(w)
      BY <1>1, <3>3 DEF DatabaseError, Claimed
    <3>. QED BY <1>10, <3>1, <3>2, <3>3
  <2>. QED BY <1>3, <2>1, <2>2
<1>11. ASSUME NEW w \in Workers, PollBusy(w) \/ Release(w) \/ Crash(w) \/ Restart(w)
       PROVE  ClaimHolds(u)'
  <2>1. job' = job
    BY <1>11 DEF PollBusy, Release, Crash, Restart
  <2>2. \E phase \in {"idle", "stopped"} : worker' = [worker EXCEPT ![w] = AtRest(phase)]
    BY <1>11 DEF PollBusy, Release, Crash, Restart
  <2>3. worker'[u] = worker[u]
    <3>1. ASSUME NEW phase PROVE AtRest(phase).pc = phase
      BY DEF AtRest
    <3>. QED BY <1>1, <2>2, <3>1 DEF Claimed
  <2>. QED BY <1>3, <2>1, <2>3
<1>12. CASE Tick \/ UNCHANGED vars
  <2>1. job' = job /\ worker' = worker
    BY <1>12 DEF Tick, vars
  <2>. QED BY <1>3, <2>1
<1>13. CASE \/ \E j \in DailyJobs : EnqueueDaily(j)
            \/ \E j \in ManualJobs : EnqueueNow(j) \/ RequestRefresh(j)
  <2>1. \E j \in Jobs, t \in Nat :
          /\ job[j].status = "NONE" /\ job' = [job EXCEPT ![j] = Queued(t)]
          /\ worker' = worker
    BY <1>1, <1>13, QueueAssumption
    DEF EnqueueDaily, EnqueueNow, RequestRefresh, Jobs, TypeOK
  <2>. QED BY <1>4, <2>1
<1>. QED
  BY <1>5, <1>6, <1>7, <1>8, <1>9, <1>10, <1>11, <1>12, <1>13
  DEF Next, SystemStep, WorkerStep

(* Claims use up budget, requeues add some, and what waits has some left.  *)
LEMMA BudgetStep ==
  LeaseInv /\ NobodyOverruns /\ MemoryIsFresh /\ WithinBudget /\ [Next]_vars
    => WithinBudget'
<1> DEFINE Waits(status) == status \in Waiting \union {"NONE"}
<1> SUFFICES ASSUME LeaseInv, NobodyOverruns, MemoryIsFresh, WithinBudget, [Next]_vars,
                    LeaseOutlivesWork, NEW k \in Jobs
             PROVE  /\ job'[k].attempt_count <= job'[k].max_attempts
                    /\ Waits(job'[k].status) =>
                         job'[k].attempt_count < job'[k].max_attempts
  BY DEF WithinBudget
<1>1. /\ TypeOK /\ job \in [Jobs -> JobRow]
      /\ job[k].attempt_count \in Nat /\ job[k].max_attempts \in Nat
      /\ job[k].attempt_count <= job[k].max_attempts
      /\ Waits(job[k].status) => job[k].attempt_count < job[k].max_attempts
      /\ MaxAttempts \in Nat \ {0}
      /\ \A w \in Workers : worker[w].started \in Nat
  BY SettingsAssumption DEF LeaseInv, TypeOK, JobRow, WorkerState, WithinBudget
<1>2. ASSUME NEW j \in Jobs, NEW t \in Nat, job' = [job EXCEPT ![j] = Queued(t)]
      PROVE  /\ job'[k].attempt_count <= job'[k].max_attempts
             /\ job'[k].attempt_count < job'[k].max_attempts \/ ~ Waits(job'[k].status)
  <2>1. Queued(t).attempt_count = 0 /\ Queued(t).max_attempts = MaxAttempts
    BY DEF Queued, NoRow
  <2>2. job'[k] = Queued(t) \/ job'[k] = job[k]
    BY <1>1, <1>2
  <2>. QED BY <1>1, <2>1, <2>2
<1>3. ASSUME NEW j \in Jobs, RequeueDeadJob(j)
      PROVE  /\ job'[k].attempt_count <= job'[k].max_attempts
             /\ job'[k].attempt_count < job'[k].max_attempts \/ ~ Waits(job'[k].status)
  <2>1. \/ job'[k] = job[k]
        \/ /\ job'[k].attempt_count = job[k].attempt_count
           /\ job'[k].max_attempts = job[k].attempt_count + MaxAttempts
    BY <1>1, <1>3 DEF RequeueDeadJob, JobRow
  <2>. QED BY <1>1, <2>1
<1>4. ASSUME NEW t \in Nat
      PROVE  /\ RecoveredJobs(t)[k].attempt_count = job[k].attempt_count
             /\ RecoveredJobs(t)[k].max_attempts = job[k].max_attempts
             /\ Waits(RecoveredJobs(t)[k].status) =>
                  job[k].attempt_count < job[k].max_attempts
  <2>1. CASE Expired(k, t)
    BY <1>1, <2>1, RecoveryEffect DEF Exhausted, Waiting
  <2>2. CASE ~ Expired(k, t)
    BY <1>1, <2>2, RecoveryEffect
  <2>. QED BY <2>1, <2>2
<1>5. ASSUME NEW w \in Workers, PollIdle(w)
      PROVE  /\ job'[k].attempt_count <= job'[k].max_attempts
             /\ job'[k].attempt_count < job'[k].max_attempts \/ ~ Waits(job'[k].status)
  BY <1>1, <1>4, <1>5 DEF PollIdle
<1>6. ASSUME NEW w \in Workers, NEW j \in Jobs, PollClaim(w, j)
      PROVE  /\ job'[k].attempt_count <= job'[k].max_attempts
             /\ job'[k].attempt_count < job'[k].max_attempts \/ ~ Waits(job'[k].status)
  <2> DEFINE t == worker[w].started
  <2>1. RecoveredJobs(t) \in [Jobs -> JobRow]
    BY <1>1, RecoveryTyped
  <2>2. CASE k = j
    <3>1. Waits(job[k].status)
      BY <1>1, <1>6, <2>2, ClaimableWaits DEF PollClaim
    <3>2. /\ job'[k].status = "RUNNING"
          /\ job'[k].attempt_count = job[k].attempt_count + 1
          /\ job'[k].max_attempts = RecoveredJobs(t)[k].max_attempts
      BY <1>6, <2>1, <2>2 DEF PollClaim, JobRow
    <3>. QED BY <1>1, <1>4, <3>1, <3>2 DEF Waiting
  <2>3. CASE k # j
    <3>1. job'[k] = RecoveredJobs(t)[k]
      BY <1>6, <2>1, <2>3 DEF PollClaim
    <3>. QED BY <1>1, <1>4, <3>1
  <2>. QED BY <2>2, <2>3
<1>7. ASSUME NEW w \in Workers, SaveJob(w)
      PROVE  /\ job'[k].attempt_count <= job'[k].max_attempts
             /\ job'[k].attempt_count < job'[k].max_attempts \/ ~ Waits(job'[k].status)
  <2>1. /\ worker[w].pc = "saving" /\ worker[w].job \in Jobs
        /\ job' = [job EXCEPT ![worker[w].job] = SavedRow(w)]
    BY <1>7 DEF SaveJob, LeaseInv, TaskAssigned, Claimed
  <2>2. ClaimHolds(w)
    BY <2>1 DEF MemoryIsFresh, Claimed
  <2>3. CASE k = worker[w].job
    <3>1. job'[k] = SavedRow(w)
      BY <1>1, <2>1, <2>3
    <3>2. /\ SavedRow(w).status = SavedStatus(w)
          /\ SavedRow(w).attempt_count = job[k].attempt_count
          /\ SavedRow(w).max_attempts = job[k].max_attempts
      BY <1>1, <2>1, <2>3, SavedRowEffect
    <3>3. Waits(SavedStatus(w)) => worker[w].number < worker[w].max_attempts
      BY DEF SavedStatus, ShouldRetry, Waiting
    <3>. QED BY <1>1, <2>2, <2>3, <3>1, <3>2, <3>3 DEF ClaimHolds
  <2>4. CASE k # worker[w].job
    BY <1>1, <2>1, <2>4
  <2>. QED BY <2>3, <2>4
<1>8. CASE job' = job
  BY <1>1, <1>8
<1>. QED BY <1>1, <1>2, <1>3, <1>5, <1>6, <1>7, <1>8, JobWriters

(* Every step moves every job by one transition of its documented life.    *)
LEMMA TransitionStep ==
  ASSUME LeaseInv, NobodyOverruns, MemoryIsFresh, WithinBudget, [Next]_vars,
         LeaseOutlivesWork, NEW k \in Jobs
  PROVE  Lifecycle!JobStep(k)
<1> DEFINE row == job[k]
           new == job'[k]
           Same == new.attempt_count = row.attempt_count
                   /\ new.max_attempts = row.max_attempts
           Transition ==
             \/ row.status = "NONE" /\ new.status = "QUEUED" /\ Same
             \/ /\ row.status \in {"QUEUED", "RETRY_WAIT"} /\ new.status = "RUNNING"
                /\ row.attempt_count < row.max_attempts
                /\ new.attempt_count = row.attempt_count + 1
                /\ new.max_attempts = row.max_attempts
             \/ row.status = "RUNNING" /\ new.status \in {"SUCCESS", "DEAD"} /\ Same
             \/ /\ row.status = "RUNNING" /\ new.status = "RETRY_WAIT"
                /\ row.attempt_count < row.max_attempts /\ Same
             \/ /\ row.status = "DEAD" /\ new.status = "QUEUED"
                /\ new.attempt_count = row.attempt_count
                /\ new.max_attempts = row.attempt_count + MaxAttempts
             \/ new.status = row.status /\ Same
<1>1. /\ TypeOK /\ job \in [Jobs -> JobRow] /\ row \in JobRow
      /\ row.attempt_count \in Nat /\ row.max_attempts \in Nat
      /\ row.status \in Waiting => row.attempt_count < row.max_attempts
      /\ row.status = "NONE" => row = NoRow
      /\ \A w \in Workers : worker[w].started \in Nat
      /\ row.attempt_count <= row.max_attempts
  BY DEF LeaseInv, TypeOK, JobRow, WorkerState, WithinBudget, UntouchedUntilCreated
<1>2. ASSUME NEW j \in Jobs, NEW t \in Nat, job[j].status = "NONE",
             job' = [job EXCEPT ![j] = Queued(t)]
      PROVE  Transition
  <2>1. CASE k = j
    <3>1. new = Queued(t) /\ row = NoRow
      BY <1>1, <1>2, <2>1
    <3>2. /\ Queued(t).status = "QUEUED" /\ NoRow.status = "NONE"
          /\ Queued(t).attempt_count = NoRow.attempt_count
          /\ Queued(t).max_attempts = NoRow.max_attempts
      BY DEF Queued, NoRow
    <3>. QED BY <3>1, <3>2
  <2>2. CASE k # j
    BY <1>1, <1>2, <2>2
  <2>. QED BY <2>1, <2>2
<1>3. ASSUME NEW j \in Jobs, RequeueDeadJob(j) PROVE Transition
  BY <1>1, <1>3 DEF RequeueDeadJob, JobRow
<1>4. ASSUME NEW t \in Nat, new = RecoveredJobs(t)[k] PROVE Transition
  <2>1. CASE Expired(k, t)
    <3>1. row.status = "RUNNING" /\ Same
      BY <1>1, <1>4, <2>1, RecoveryEffect DEF Expired
    <3>2. /\ new.status \in {"DEAD", "RETRY_WAIT"}
          /\ new.status = "RETRY_WAIT" => row.attempt_count < row.max_attempts
      BY <1>1, <1>4, <2>1, RecoveryEffect DEF Exhausted
    <3>. QED BY <3>1, <3>2
  <2>2. CASE ~ Expired(k, t)
    BY <1>1, <1>4, <2>2, RecoveryEffect
  <2>. QED BY <2>1, <2>2
<1>5. ASSUME NEW w \in Workers, PollIdle(w) PROVE Transition
  <2>1. new = RecoveredJobs(worker[w].started)[k]
    BY <1>5 DEF PollIdle
  <2>. QED BY <1>1, <1>4, <2>1
<1>6. ASSUME NEW w \in Workers, NEW j \in Jobs, PollClaim(w, j) PROVE Transition
  <2> DEFINE t == worker[w].started
  <2>1. RecoveredJobs(t) \in [Jobs -> JobRow]
    BY <1>1, RecoveryTyped
  <2>2. CASE k = j
    <3>1. row.status \in Waiting /\ RecoveredJobs(t)[k] = row
      BY <1>1, <1>6, <2>2, ClaimableWaits DEF PollClaim
    <3>2. /\ new.status = "RUNNING" /\ new.attempt_count = row.attempt_count + 1
          /\ new.max_attempts = row.max_attempts
      BY <1>6, <2>1, <2>2, <3>1 DEF PollClaim, JobRow
    <3>. QED BY <1>1, <3>1, <3>2 DEF Waiting
  <2>3. CASE k # j
    <3>1. new = RecoveredJobs(t)[k]
      BY <1>6, <2>1, <2>3 DEF PollClaim
    <3>. QED BY <1>1, <1>4, <3>1
  <2>. QED BY <2>2, <2>3
<1>7. ASSUME NEW w \in Workers, SaveJob(w) PROVE Transition
  <2>1. /\ worker[w].pc = "saving" /\ worker[w].job \in Jobs
        /\ job' = [job EXCEPT ![worker[w].job] = SavedRow(w)]
    BY <1>7 DEF SaveJob, LeaseInv, TaskAssigned, Claimed
  <2>2. ClaimHolds(w)
    BY <2>1 DEF MemoryIsFresh, Claimed
  <2>3. CASE k = worker[w].job
    <3>1. new = SavedRow(w)
      BY <1>1, <2>1, <2>3
    <3>2. /\ SavedRow(w).status = SavedStatus(w)
          /\ SavedStatus(w) \in {"SUCCESS", "RETRY_WAIT", "DEAD"}
          /\ SavedRow(w).attempt_count = row.attempt_count
          /\ SavedRow(w).max_attempts = row.max_attempts
      BY <1>1, <2>1, <2>3, SavedRowEffect
    <3>3. SavedStatus(w) = "RETRY_WAIT" => worker[w].number < worker[w].max_attempts
      BY DEF SavedStatus, ShouldRetry
    <3>. QED BY <2>2, <2>3, <3>1, <3>2, <3>3 DEF ClaimHolds
  <2>4. CASE k # worker[w].job
    BY <1>1, <2>1, <2>4
  <2>. QED BY <2>3, <2>4
<1>8. ASSUME job' = job PROVE Transition
  BY <1>8
<1>9. Transition
  BY <1>1, <1>2, <1>3, <1>5, <1>6, <1>7, <1>8, JobWriters
<1> HIDE DEF row, new
<1>10. CASE row.status = "NONE" /\ new.status = "QUEUED" /\ Same
  BY <1>10 DEF row, new, Lifecycle!JobStep, Lifecycle!Enqueue,
     Lifecycle!SameCount, Lifecycle!SameBudget
<1>11. CASE /\ row.status \in {"QUEUED", "RETRY_WAIT"} /\ new.status = "RUNNING"
            /\ row.attempt_count < row.max_attempts
            /\ new.attempt_count = row.attempt_count + 1
            /\ new.max_attempts = row.max_attempts
  BY <1>11 DEF row, new, Lifecycle!JobStep, Lifecycle!Claim, Lifecycle!SameBudget
<1>12. CASE row.status = "RUNNING" /\ new.status \in {"SUCCESS", "DEAD"} /\ Same
  BY <1>12 DEF row, new, Lifecycle!JobStep, Lifecycle!Succeed, Lifecycle!Die,
     Lifecycle!SameCount, Lifecycle!SameBudget
<1>13. CASE /\ row.status = "RUNNING" /\ new.status = "RETRY_WAIT"
            /\ row.attempt_count < row.max_attempts /\ Same
  BY <1>13 DEF row, new, Lifecycle!JobStep, Lifecycle!Retry,
     Lifecycle!SameCount, Lifecycle!SameBudget
<1>14. CASE /\ row.status = "DEAD" /\ new.status = "QUEUED"
            /\ new.attempt_count = row.attempt_count
            /\ new.max_attempts = row.attempt_count + MaxAttempts
  BY <1>14 DEF row, new, Lifecycle!JobStep, Lifecycle!Requeue, Lifecycle!SameCount
<1>15. CASE new.status = row.status /\ Same
  BY <1>15 DEF row, new, Lifecycle!JobStep, Lifecycle!Keep,
     Lifecycle!SameCount, Lifecycle!SameBudget
<1>. QED BY <1>9, <1>10, <1>11, <1>12, <1>13, <1>14, <1>15

(* In particular nothing leads out of SUCCESS.                             *)
LEMMA SuccessStays ==
  ASSUME LeaseInv, NobodyOverruns, MemoryIsFresh, WithinBudget, [Next]_vars,
         LeaseOutlivesWork, NEW k \in Jobs, job[k].status = "SUCCESS"
  PROVE  job'[k].status = "SUCCESS"
<1>1. Lifecycle!JobStep(k)
  BY TransitionStep
<1>. QED BY <1>1
  DEF Lifecycle!JobStep, Lifecycle!Enqueue, Lifecycle!Claim, Lifecycle!Succeed,
      Lifecycle!Retry, Lifecycle!Die, Lifecycle!Requeue, Lifecycle!Keep

(* Between its save and its sync nobody moves a job out of SUCCESS.        *)
LEMMA SyncStep ==
  /\ LeaseInv /\ NobodyOverruns /\ MemoryIsFresh /\ WithinBudget /\ SavedBeforeSync
  /\ [Next]_vars
  => SavedBeforeSync'
<1> SUFFICES ASSUME LeaseInv, NobodyOverruns, MemoryIsFresh, WithinBudget,
                    SavedBeforeSync, [Next]_vars, LeaseOutlivesWork,
                    NEW u \in Workers,
                    worker'[u].pc = "syncing", worker'[u].outcome = "success"
             PROVE  job'[worker'[u].job].status = "SUCCESS"
  BY DEF SavedBeforeSync
<1>1. /\ TypeOK /\ worker \in [Workers -> WorkerState] /\ job \in [Jobs -> JobRow]
      /\ \A w \in Workers : worker[w].pc \in {"saving", "syncing"} => worker[w].job \in Jobs
  BY DEF LeaseInv, TypeOK, TaskAssigned, Claimed
<1>2. ASSUME worker'[u] = worker[u] PROVE job'[worker'[u].job].status = "SUCCESS"
  <2>1. worker[u].job \in Jobs /\ job[worker[u].job].status = "SUCCESS"
    BY <1>1, <1>2 DEF SavedBeforeSync
  <2>. QED BY <1>2, <2>1, SuccessStays
<1>3. ASSUME NEW w \in Workers, SaveJob(w)
      PROVE  job'[worker'[u].job].status = "SUCCESS"
  <2>1. /\ worker[w].job \in Jobs /\ job' = [job EXCEPT ![worker[w].job] = SavedRow(w)]
        /\ worker' = [worker EXCEPT ![w].pc = AfterSave(w)]
    BY <1>1, <1>3 DEF SaveJob
  <2>2. CASE u = w
    <3>1. worker'[u].job = worker[w].job /\ worker[w].outcome = "success"
      BY <1>1, <2>1, <2>2 DEF WorkerState
    <3>2. SavedRow(w).status = "SUCCESS"
      <4>1. SavedStatus(w) = "SUCCESS"
        BY <3>1 DEF SavedStatus, ShouldRetry
      <4>. QED BY <1>1, <2>1, <4>1, SavedRowEffect
    <3>. QED BY <1>1, <2>1, <3>1, <3>2
  <2>3. CASE u # w
    <3>1. worker'[u] = worker[u]
      BY <1>1, <2>1, <2>3
    <3>. QED BY <1>2, <3>1
  <2>. QED BY <2>2, <2>3
<1>4. ASSUME NEW w \in Workers,
             PollBusy(w) \/ Release(w) \/ Crash(w) \/ Restart(w)
      PROVE  job'[worker'[u].job].status = "SUCCESS"
  <2>1. \E phase \in {"idle", "stopped"} : worker' = [worker EXCEPT ![w] = AtRest(phase)]
    BY <1>4 DEF PollBusy, Release, Crash, Restart
  <2>2. ASSUME NEW phase PROVE AtRest(phase).pc = phase
    BY DEF AtRest
  <2>3. worker'[u] = worker[u]
    BY <1>1, <2>1, <2>2
  <2>. QED BY <1>2, <2>3
<1>5. ASSUME NEW w \in Workers,
             \/ StartPoll(w) \/ PollIdle(w) \/ SyncRequests(w) \/ DatabaseError(w)
             \/ \E j \in Jobs : PollClaim(w, j)
             \/ \E outcome \in {"success", "retryable", "fatal"} :
                  FinishAttempt(w, outcome)
      PROVE  job'[worker'[u].job].status = "SUCCESS"
  <2>1. worker'[u] = worker[u]
    <3>1. CASE StartPoll(w)
      BY <1>1, <3>1 DEF StartPoll, WorkerState
    <3>2. CASE PollIdle(w)
      BY <1>1, <3>2 DEF PollIdle, WorkerState
    <3>3. CASE SyncRequests(w)
      BY <1>1, <3>3 DEF SyncRequests, WorkerState
    <3>4. CASE DatabaseError(w)
      BY <1>1, <3>4 DEF DatabaseError, WorkerState
    <3>5. CASE \E j \in Jobs : PollClaim(w, j)
      BY <1>1, <3>5 DEF PollClaim, WorkerState
    <3>6. CASE \E outcome \in {"success", "retryable", "fatal"} :
                 FinishAttempt(w, outcome)
      BY <1>1, <3>6 DEF FinishAttempt, WorkerState
    <3>. QED BY <1>5, <3>1, <3>2, <3>3, <3>4, <3>5, <3>6
  <2>. QED BY <1>2, <2>1
<1>6. CASE \/ \E j \in DailyJobs : EnqueueDaily(j)
           \/ \E j \in ManualJobs : EnqueueNow(j) \/ RequestRefresh(j)
           \/ \E j \in Jobs : RequeueDeadJob(j)
           \/ Tick \/ UNCHANGED vars
  <2>1. worker' = worker
    BY <1>6 DEF EnqueueDaily, EnqueueNow, RequestRefresh, RequeueDeadJob, Tick, vars
  <2>. QED BY <1>2, <2>1
<1>. QED BY <1>3, <1>4, <1>5, <1>6 DEF Next, SystemStep, WorkerStep

(* COMPLETED is written for a job that succeeded, and SUCCESS is not left. *)
LEMMA CompletedStep ==
  /\ LeaseInv /\ NobodyOverruns /\ MemoryIsFresh /\ WithinBudget /\ SavedBeforeSync
  /\ CompletedMeansSuccess /\ [Next]_vars
  => CompletedMeansSuccess'
<1> SUFFICES ASSUME LeaseInv, NobodyOverruns, MemoryIsFresh, WithinBudget,
                    SavedBeforeSync, CompletedMeansSuccess, [Next]_vars,
                    LeaseOutlivesWork, NEW k \in Jobs, request'[k] = "COMPLETED"
             PROVE  job'[k].status = "SUCCESS"
  BY DEF CompletedMeansSuccess
<1>1. /\ TypeOK /\ request \in [Jobs -> RequestStatus]
      /\ request[k] = "COMPLETED" => job[k].status = "SUCCESS"
      /\ \A w \in Workers : worker[w].started \in Nat
  BY DEF LeaseInv, TypeOK, CompletedMeansSuccess, WorkerState
(* A request that was COMPLETED before belongs to a job that stays,        *)
<1>2. ASSUME request[k] = "COMPLETED" PROVE job'[k].status = "SUCCESS"
  BY <1>1, <1>2, SuccessStays
(* a request that becomes COMPLETED was synced by a worker that had saved, *)
<1>3. ASSUME NEW w \in Workers, SyncRequests(w) PROVE job'[k].status = "SUCCESS"
  <2>1. CASE k = worker[w].job /\ worker[w].outcome = "success"
    BY <1>3, <2>1 DEF SyncRequests, SavedBeforeSync
  <2>2. CASE k # worker[w].job
    <3>1. request'[k] = request[k]
      BY <1>1, <1>3, <2>2 DEF SyncRequests
    <3>. QED BY <1>2, <3>1
  <2>3. CASE k = worker[w].job /\ worker[w].outcome # "success"
    <3>1. request'[k] \in {request[k], "FAILED"}
      BY <1>1, <1>3, <2>3 DEF SyncRequests, Synced
    <3>. QED BY <1>2, <3>1
  <2>. QED BY <2>1, <2>2, <2>3
(* and no other step writes that status.                                   *)
<1>4. ASSUME NEW t \in Nat PROVE RecoveredRequests(t)[k] \in {request[k], "FAILED"}
  BY <1>1 DEF RecoveredRequests, Synced
<1>5. ASSUME NEW w \in Workers, PollIdle(w) PROVE job'[k].status = "SUCCESS"
  <2>1. request' = RecoveredRequests(worker[w].started)
    BY <1>5 DEF PollIdle
  <2>. QED BY <1>1, <1>2, <1>4, <2>1
<1>6. ASSUME NEW w \in Workers, NEW j \in Jobs, PollClaim(w, j)
      PROVE  job'[k].status = "SUCCESS"
  <2> DEFINE r == RecoveredRequests(worker[w].started)
  <2>1. request' = [r EXCEPT ![j] = Synced(r[j], "PROCESSING")]
    BY <1>6 DEF PollClaim
  <2>2. r \in [Jobs -> RequestStatus]
    BY <1>1, RecoveryTyped
  <2>3. r[k] \in {request[k], "FAILED"}
    BY <1>1, <1>4
  <2> HIDE DEF r
  <2>4. request'[k] \in {r[k], "PROCESSING"}
    BY <2>1, <2>2 DEF Synced
  <2>. QED BY <1>2, <2>3, <2>4
<1>7. CASE \E j \in Jobs : RequeueDeadJob(j)
  <2>1. request'[k] \in {request[k], "PENDING"}
    BY <1>1, <1>7 DEF RequeueDeadJob, Synced
  <2>. QED BY <1>2, <2>1
<1>8. CASE \E j \in ManualJobs : RequestRefresh(j)
  <2>1. request'[k] \in {request[k], "PENDING"}
    BY <1>1, <1>8 DEF RequestRefresh
  <2>. QED BY <1>2, <2>1
<1>9. ASSUME NEW w \in Workers,
             \/ StartPoll(w) \/ PollBusy(w) \/ SaveJob(w) \/ Release(w)
             \/ Restart(w) \/ DatabaseError(w) \/ Crash(w)
             \/ \E outcome \in {"success", "retryable", "fatal"} :
                  FinishAttempt(w, outcome)
      PROVE  job'[k].status = "SUCCESS"
  <2>1. request' = request
    BY <1>9 DEF StartPoll, PollBusy, SaveJob, Release, Restart, DatabaseError,
                Crash, FinishAttempt
  <2>. QED BY <1>2, <2>1
<1>10. CASE \/ \E j \in DailyJobs : EnqueueDaily(j)
            \/ \E j \in ManualJobs : EnqueueNow(j)
            \/ Tick \/ UNCHANGED vars
  <2>1. request' = request
    BY <1>10 DEF EnqueueDaily, EnqueueNow, Tick, vars
  <2>. QED BY <1>2, <2>1
<1>. QED
  BY <1>3, <1>5, <1>6, <1>7, <1>8, <1>9, <1>10 DEF Next, SystemStep, WorkerStep

-----------------------------------------------------------------------------
(* Nothing is claimed at the start.                                        *)
LEMMA TimelyInit == Init => TimelyInv
<1> SUFFICES ASSUME Init PROVE TimelyInv
  OBVIOUS
<1>1. \A w \in Workers : worker[w] = AtRest("idle")
  BY DEF Init
<1>2. AtRest("idle").pc = "idle"
  BY DEF AtRest
<1>3. NobodyOverruns /\ MemoryIsFresh /\ SavedBeforeSync
  BY <1>1, <1>2 DEF NobodyOverruns, MemoryIsFresh, SavedBeforeSync, Claimed, AtWork
<1>4. WithinBudget
  <2>1. NoRow.attempt_count = 0 /\ NoRow.max_attempts = MaxAttempts
    BY DEF NoRow
  <2>. QED BY <2>1, SettingsAssumption DEF Init, WithinBudget
<1>5. CompletedMeansSuccess
  BY DEF Init, CompletedMeansSuccess
<1>. QED BY <1>3, <1>4, <1>5, LeaseInit DEF TimelyInv

(* Each conjunct by its own lemma.                                         *)
LEMMA TimelyStep == TimelyInv /\ [Next]_vars => TimelyInv'
<1> SUFFICES ASSUME TimelyInv, [Next]_vars PROVE TimelyInv'
  OBVIOUS
<1>1. LeaseInv' /\ NobodyOverruns'
  BY LeaseStep, OverrunStep DEF TimelyInv, LeaseInv
<1>2. MemoryIsFresh' /\ WithinBudget'
  BY FreshStep, BudgetStep DEF TimelyInv
<1>3. SavedBeforeSync' /\ CompletedMeansSuccess'
  BY SyncStep, CompletedStep DEF TimelyInv
<1>. QED BY <1>1, <1>2, <1>3 DEF TimelyInv

(* With live workers that finish within the lease, the stronger invariant  *)
(* holds: it carries the theorems about single workers, memory and budget. *)
THEOREM TimelyInvariant == Spec => []TimelyInv
BY TimelyInit, TimelyStep, PTL DEF Spec

(* The shared lease excludes: two processes are never between a claim and  *)
(* a release together, if live workers finish within the lease.            *)
THEOREM OneWorker == Spec => []SingleWorker
<1>1. TimelyInv => SingleWorker
  BY OneReservation DEF TimelyInv
<1>. QED BY <1>1, TimelyInvariant, PTL

(* The object in memory since the claim equals the row when it is saved.   *)
THEOREM MemoryStaysFresh == Spec => []MemoryIsFresh
<1>1. TimelyInv => MemoryIsFresh
  BY DEF TimelyInv
<1>. QED BY <1>1, TimelyInvariant, PTL

(* Claims, recoveries and requeues keep the attempt budget.                *)
THEOREM BudgetRespected == Spec => []WithinBudget
<1>1. TimelyInv => WithinBudget
  BY DEF TimelyInv
<1>. QED BY <1>1, TimelyInvariant, PTL

(* A refresh reported as completed is one whose job succeeded.             *)
THEOREM CompletedIsTrue == Spec => []CompletedMeansSuccess
<1>1. TimelyInv => CompletedMeansSuccess
  BY DEF TimelyInv
<1>. QED BY <1>1, TimelyInvariant, PTL

(* The queue implements the documented life of a job.                      *)
THEOREM QueueImplementsLifecycle ==
  ASSUME LeaseOutlivesWork PROVE Spec => LifecycleSpec
<1>1. Init => Lifecycle!Init
  BY DEF Init, Lifecycle!Init, NoRow
<1>2. TimelyInv /\ [Next]_vars => [Lifecycle!Next]_Lifecycle!lifecycleVars
  <2> SUFFICES ASSUME TimelyInv, [Next]_vars PROVE Lifecycle!Next
    OBVIOUS
  <2>1. \A k \in Jobs : Lifecycle!JobStep(k)
    BY TransitionStep DEF TimelyInv
  <2>. QED BY <2>1 DEF Lifecycle!Next
<1>. QED BY <1>1, <1>2, TimelyInvariant, PTL DEF Spec, LifecycleSpec, Lifecycle!Spec
=============================================================================
