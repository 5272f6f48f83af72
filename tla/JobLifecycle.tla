---------------------------- MODULE JobLifecycle ----------------------------
(***************************************************************************)
(* What the collection queue promises about one row of CollectionJob,      *)
(* whatever workers, leases and clocks do underneath: the state diagram of *)
(* docs/stage-6-scheduler-workers.md, plus the operator's requeue of a     *)
(* DEAD job, with the attempt budget each transition must respect.         *)
(***************************************************************************)
EXTENDS Naturals

CONSTANTS Jobs,        \* the jobs that may ever be created
          MaxAttempts  \* COLLECTION_JOB_MAX_ATTEMPTS

VARIABLES status,        \* [Jobs -> status of the row, NONE before it exists]
          attempt_count, \* [Jobs -> number of claims so far]
          max_attempts   \* [Jobs -> claims allowed so far]

lifecycleVars == <<status, attempt_count, max_attempts>>

Init == /\ status = [j \in Jobs |-> "NONE"]
        /\ attempt_count = [j \in Jobs |-> 0]
        /\ max_attempts = [j \in Jobs |-> MaxAttempts]

SameBudget(j) == max_attempts'[j] = max_attempts[j]
SameCount(j)  == attempt_count'[j] = attempt_count[j]

(* A job appears queued, with a full budget and no attempt.                *)
Enqueue(j) == /\ status[j] = "NONE" /\ status'[j] = "QUEUED"
              /\ SameCount(j) /\ SameBudget(j)

(* Only a waiting job with budget left is claimed, and a claim is counted. *)
Claim(j) == /\ status[j] \in {"QUEUED", "RETRY_WAIT"} /\ status'[j] = "RUNNING"
            /\ attempt_count[j] < max_attempts[j]
            /\ attempt_count'[j] = attempt_count[j] + 1
            /\ SameBudget(j)

(* Only a running job ends; RETRY_WAIT is for jobs that may run again.     *)
Succeed(j) == /\ status[j] = "RUNNING" /\ status'[j] = "SUCCESS"
              /\ SameCount(j) /\ SameBudget(j)
Retry(j) == /\ status[j] = "RUNNING" /\ status'[j] = "RETRY_WAIT"
            /\ attempt_count[j] < max_attempts[j]
            /\ SameCount(j) /\ SameBudget(j)
Die(j) == /\ status[j] = "RUNNING" /\ status'[j] = "DEAD"
          /\ SameCount(j) /\ SameBudget(j)

(* The operator gives a DEAD job a new budget on top of its history.       *)
Requeue(j) == /\ status[j] = "DEAD" /\ status'[j] = "QUEUED"
              /\ SameCount(j)
              /\ max_attempts'[j] = attempt_count[j] + MaxAttempts

Keep(j) == status'[j] = status[j] /\ SameCount(j) /\ SameBudget(j)

JobStep(j) == \/ Enqueue(j) \/ Claim(j) \/ Succeed(j) \/ Retry(j)
              \/ Die(j) \/ Requeue(j) \/ Keep(j)

(* One transaction of the queue may move several jobs (it recovers every   *)
(* expired one and claims another), each of them by one transition.        *)
Next == /\ DOMAIN status' = Jobs
        /\ DOMAIN attempt_count' = Jobs
        /\ DOMAIN max_attempts' = Jobs
        /\ \A j \in Jobs : JobStep(j)

Spec == Init /\ [][Next]_lifecycleVars
=============================================================================
