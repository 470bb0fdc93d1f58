----------------------------- MODULE JobControl -----------------------------
(***************************************************************************)
(* The job control plane of the assistant: llm_gateway.LLMGateway (Redis   *)
(* records, queues, leases, reservations), the two scheduler coroutines    *)
(* (admission and stale-job reaper) and the workers that claim and run     *)
(* jobs.                                                                   *)
(*                                                                         *)
(* Grain.  One gateway coroutine is one step, or the first n of its Redis  *)
(* commands when its process stops or a command raises after them;         *)
(* claim_dispatch_job's BRPOPLPUSH is a step of its own.  JobSteps refines *)
(* the grain to interleaved single commands for the coroutines that read,  *)
(* wait and then write the record.                                         *)
(*                                                                         *)
(* Data.  Prompts, histories, events and model profiles are left out; a    *)
(* reservation is one unit of a target's capacity (Slots).  Time is the    *)
(* two facts the code tests: "the lease is over" and "the deadline has     *)
(* passed".                                                                *)
(***************************************************************************)
EXTENDS Integers, FiniteSets, SequencesExt

CONSTANTS Jobs,         \* job ids (uuid4: an id is enqueued once)
          Workers,      \* worker processes of one pool
          Targets,      \* inference targets
          TargetOf,     \* WORKER_TARGET_ID of each worker
          KindOf,       \* target_kind of each target
          PreferGpu,    \* GPU_ENABLED
          Linked,       \* jobs that are children of a parser root
          Slots,        \* reservations a target admits at once
          QueueLimit,   \* _dynamic_queue_limit
          ScanDepth,    \* SCHEDULER_QUEUE_SCAN_DEPTH
          MaxRetries,   \* SCHEDULER_MAX_JOB_RETRIES
          MaxCrashes,   \* bound: stops and interrupted coroutines in a behaviour
          MayStall,     \* TRUE: a live worker may lose Redis for a while, so that
                        \* it renews too late or cannot record a job's end
          LongOutage,   \* TRUE: a record in use may outlive LLM_JOB_TTL_SECONDS
          None          \* no target / no worker / no job

ASSUME ConstantsAssumption ==
    /\ TargetOf \in [Workers -> Targets]
    /\ KindOf \in [Targets -> {"cpu", "gpu"}]
    /\ PreferGpu \in BOOLEAN
    /\ MayStall \in BOOLEAN
    /\ LongOutage \in BOOLEAN
    /\ Linked \subseteq Jobs
    /\ Slots \in Nat /\ QueueLimit \in Nat /\ ScanDepth \in Nat
    /\ MaxRetries \in Nat /\ MaxCrashes \in Nat
    /\ None \notin Jobs /\ None \notin Workers /\ None \notin Targets

VARIABLES job,          \* llm:job:{id}; status "absent" is a missing key
          created,      \* ids that were ever enqueued
          pending,      \* the pending list, head first
          dispatch,     \* the dispatch list of each target, head first
          processing,   \* entries of each worker's processing list
          active,       \* members of ACTIVE_JOBS_ZSET
          usage,        \* active_jobs of each target's usage hash
          up,           \* workers whose process is running
          beat,         \* workers whose heartbeat key has not expired
          hand,         \* the id a worker popped and has not looked up yet
          tasks,        \* process_job coroutines per worker and job
          renewing,     \* keys of each worker's active_tasks
          starts,       \* history: how often a job was set running
          crashes,      \* history: worker stops and interrupted coroutines so far
          lost,         \* history: jobs cut off between two lists or sets
          leaked        \* history: reservations of a target cut off from their record

redisVars   == <<job, created, pending, dispatch, processing, active, usage>>
workerVars  == <<up, beat, hand, tasks, renewing>>
historyVars == <<starts, crashes, lost, leaked>>
vars        == <<redisVars, workerVars, historyVars>>

Terminal == {"completed", "failed", "cancelled"}
Statuses == {"absent", "queued", "admitted", "running"} \cup Terminal

JobRecord == [status : Statuses, retry_count : Nat, cancel_requested : BOOLEAN,
              assigned_target_id : Targets \cup {None},
              assigned_worker_id : Workers \cup {None},
              target_kind : {"cpu", "gpu"},
              leased : BOOLEAN,     \* lease_until lies in the future
              late : BOOLEAN]       \* deadline_at has passed

AbsentRecord == [status |-> "absent", retry_count |-> 0, cancel_requested |-> FALSE,
                 assigned_target_id |-> None, assigned_worker_id |-> None,
                 target_kind |-> "cpu", leased |-> FALSE, late |-> FALSE]

\* Type invariant: records, lists and counters keep their types; no counter that is
\* released twice goes below zero.
TypeOK ==
    /\ job \in [Jobs -> JobRecord]
    /\ created \subseteq Jobs
    /\ pending \in Seq(Jobs)
    /\ dispatch \in [Targets -> Seq(Jobs)]
    /\ processing \in [Workers -> [Jobs -> Nat]]
    /\ active \subseteq Jobs
    /\ usage \in [Targets -> Nat]
    /\ up \subseteq Workers
    /\ beat \subseteq Workers
    /\ hand \in [Workers -> Jobs \cup {None}]
    /\ tasks \in [Workers -> [Jobs -> Nat]]
    /\ renewing \in [Workers -> SUBSET Jobs]
    /\ starts \in [Jobs -> Nat]
    /\ crashes \in Nat
    /\ lost \subseteq Jobs
    /\ leaked \in [Targets -> Nat]

Init ==
    /\ job = [j \in Jobs |-> AbsentRecord]
    /\ created = {}
    /\ pending = <<>>
    /\ dispatch = [t \in Targets |-> <<>>]
    /\ processing = [w \in Workers |-> [j \in Jobs |-> 0]]
    /\ active = {}
    /\ usage = [t \in Targets |-> 0]
    /\ up = Workers
    /\ beat = Workers
    /\ hand = [w \in Workers |-> None]
    /\ tasks = [w \in Workers |-> [j \in Jobs |-> 0]]
    /\ renewing = [w \in Workers |-> {}]
    /\ starts = [j \in Jobs |-> 0]
    /\ crashes = 0
    /\ lost = {}
    /\ leaked = [t \in Targets |-> 0]

-----------------------------------------------------------------------------
(* Helpers shared by the gateway's coroutines.                             *)

\* Mutant of Less1: the counter is not clamped at 0.
UnclampedLess1(n) == n - 1

\* One occurrence less, never below none: LREM key 1 id on a list whose order
\* nobody reads, and HINCRBY -1 followed by the clamp to 0.
Less1(n) == IF n > 0 THEN n - 1 ELSE 0

\* has_worker_for_target_kind(.., "gpu")
HasGpuWorker == \E w \in beat : KindOf[TargetOf[w]] = "gpu"

\* downgrade_job_target_kind_if_needed
DowngradedKind(kind) ==
    IF kind = "gpu" /\ HasGpuWorker THEN "gpu" ELSE "cpu"

\* _release_reserved_capacity: skipped for a record without a target
ReleaseReservedCapacity(r) ==
    IF r.assigned_target_id = None THEN usage
    ELSE [usage EXCEPT ![r.assigned_target_id] = Less1(@)]

\* _remove_from_processing: skipped without a worker id
RemoveFromProcessing(w, j) ==
    IF w = None THEN processing
    ELSE [processing EXCEPT ![w][j] = Less1(@)]

\* An interrupted coroutine: after n of its Redis commands its process stops, or
\* the next one raises and the loop that called it goes on.
Executed(n, all) ==
    IF n = all THEN UNCHANGED crashes
    ELSE crashes < MaxCrashes /\ crashes' = crashes + 1

\* What a worker keeps in memory is gone.
Dies(w) ==
    /\ up' = up \ {w}
    /\ hand' = [hand EXCEPT ![w] = None]
    /\ tasks' = [tasks EXCEPT ![w] = [j \in Jobs |-> 0]]
    /\ renewing' = [renewing EXCEPT ![w] = {}]

\* Admitted or running: the record holds a reservation on its target, if it has one.
Live(j) == job[j].status \in {"admitted", "running"}

\* The record of j stops holding its reservation, which is not given back.
Leak(j) ==
    IF Live(j) /\ job[j].assigned_target_id # None
    THEN [leaked EXCEPT ![job[j].assigned_target_id] = @ + 1]
    ELSE leaked

\* The common tail of mark_job_completed, _mark_job_failed_from_record and
\* mark_job_cancelled for record r, as far as its first n commands: save it with
\* a terminal status, release its reservation, drop it from the processing list
\* and from the active set.  The target and the worker stay in the record.
MarkTerminal(j, r, status, w, n) ==
    /\ job' = IF n >= 1 THEN [job EXCEPT ![j] = [r EXCEPT !.status = status]] ELSE job
    /\ usage' = IF n >= 2 THEN ReleaseReservedCapacity(r) ELSE usage
    /\ processing' = IF n >= 3
                     THEN RemoveFromProcessing(IF w = None THEN r.assigned_worker_id ELSE w, j)
                     ELSE processing
    /\ active' = IF n >= 4 THEN active \ {j} ELSE active
    /\ leaked' = IF n = 1 THEN Leak(j) ELSE leaked

\* mark_job_completed, mark_job_failed: no test of the current status
MarkDone(j, status, w, n) ==
    IF job[j].status = "absent"
    THEN UNCHANGED <<job, usage, processing, active, leaked>>
    ELSE MarkTerminal(j, job[j], status, w, n)

\* mark_job_cancelled: a terminal record is left alone
MarkCancelled(j, w, n) ==
    IF job[j].status \in Terminal \cup {"absent"}
    THEN UNCHANGED <<job, usage, processing, active, leaked>>
    ELSE MarkTerminal(j, job[j], "cancelled", w, n)

\* Mutant of RequeuedRecord: the retry is not counted.
RequeuedRecordUncounted(r, retries) ==
    [r EXCEPT !.status = "queued",
              !.assigned_target_id = None, !.assigned_worker_id = None,
              !.target_kind = DowngradedKind(@), !.leased = FALSE]

\* The record requeue_stale_jobs and requeue_job_for_pending save.
RequeuedRecord(r, retries) ==
    [r EXCEPT !.status = "queued", !.retry_count = retries,
              !.assigned_target_id = None, !.assigned_worker_id = None,
              !.target_kind = DowngradedKind(@), !.leased = FALSE]

-----------------------------------------------------------------------------
(* The web application: enqueue_job and cancel_job.                        *)

\* enqueue_job: refused when the queue is saturated; otherwise one MULTI saves
\* the record and pushes the id.
Enqueue(j) ==
    /\ j \notin created
    /\ Len(pending) < QueueLimit
    /\ created' = created \cup {j}
    /\ job' = [job EXCEPT ![j] =
                  [AbsentRecord EXCEPT !.status = "queued",
                     !.target_kind = IF PreferGpu /\ HasGpuWorker THEN "gpu" ELSE "cpu"]]
    /\ pending' = Append(pending, j)
    /\ UNCHANGED <<dispatch, processing, active, usage, workerVars, historyVars>>

\* cancel_job of a queued job; a request that was already made changes nothing.
\* Interrupted after the LREM it leaves a queued record on no list.
CancelQueued(j) ==
    \E n \in 0..4 :
       /\ job[j].status = "queued" /\ ~job[j].cancel_requested
       /\ pending' = RemoveFirst(pending, j)
       /\ MarkCancelled(j, None, n)
       /\ lost' = IF n = 0 THEN lost \cup {j} ELSE lost
       /\ Executed(n, 4)
       /\ UNCHANGED <<created, dispatch, workerVars, starts>>

\* cancel_job of an admitted job: taken back from the dispatch list.
CancelAdmitted(j) ==
    \E n \in 0..4 :
       LET t == job[j].assigned_target_id
       IN /\ job[j].status = "admitted" /\ ~job[j].cancel_requested
          /\ t # None
          /\ dispatch' = [dispatch EXCEPT ![t] = RemoveFirst(@, j)]
          /\ MarkCancelled(j, None, n)
          /\ Executed(n, 4)
          /\ UNCHANGED <<created, pending, workerVars, starts, lost>>

\* cancel_job of a running job: only the flag, which the worker polls.
CancelRunning(j) ==
    /\ job[j].status = "running" /\ ~job[j].cancel_requested
    /\ job' = [job EXCEPT ![j].cancel_requested = TRUE]
    /\ UNCHANGED <<created, pending, dispatch, processing, active, usage,
                   workerVars, historyVars>>

CancelJob(j) == CancelQueued(j) \/ CancelAdmitted(j) \/ CancelRunning(j)

-----------------------------------------------------------------------------
(* The scheduler: schedule_once / try_admit_job and requeue_stale_jobs.    *)

\* list_pending_candidates: queued records among the first ScanDepth ids
Candidate(j) ==
    /\ job[j].status = "queued"
    /\ \E i \in 1..Len(pending) : i <= ScanDepth /\ pending[i] = j

\* schedule_once: a target is eligible when one of its workers has a heartbeat
ActivePair(t) == \E w \in beat : TargetOf[w] = t

\* _evaluate_target_admission with unit reservations
Fits(kind, t) == kind = KindOf[t] /\ usage[t] < Slots

\* try_admit_job, under the target lock: LREM pending, the reservation, the save,
\* ZADD active, RPUSH dispatch.  Interrupted before the ZADD it leaves a job that
\* is on no list and in no set, and before the save a reservation without a record.
TryAdmit(j, t) ==
    \E n \in 0..5 :
       LET kind == DowngradedKind(job[j].target_kind)
       IN /\ Candidate(j) /\ ActivePair(t) /\ Fits(kind, t)
          /\ pending' = IF n >= 1 THEN RemoveFirst(pending, j) ELSE pending
          /\ usage' = IF n >= 2 THEN [usage EXCEPT ![t] = @ + 1] ELSE usage
          /\ job' = IF n >= 3
                    THEN [job EXCEPT ![j] = [@ EXCEPT !.status = "admitted",
                            !.assigned_target_id = t, !.target_kind = kind, !.leased = TRUE]]
                    ELSE [job EXCEPT ![j].target_kind = kind]
          /\ active' = IF n >= 4 THEN active \cup {j} ELSE active
          /\ dispatch' = IF n >= 5 THEN [dispatch EXCEPT ![t] = Append(@, j)] ELSE dispatch
          /\ lost' = IF n \in 1..3 THEN lost \cup {j} ELSE lost
          /\ leaked' = IF n = 2 THEN [leaked EXCEPT ![t] = @ + 1] ELSE leaked
          /\ Executed(n, 5)
          /\ UNCHANGED <<created, processing, workerVars, starts>>

\* try_admit_job that saves the downgraded kind and then finds no room
TryAdmitRefused(j, t) ==
    LET kind == DowngradedKind(job[j].target_kind)
    IN /\ Candidate(j) /\ ActivePair(t) /\ ~Fits(kind, t)
       /\ kind # job[j].target_kind
       /\ job' = [job EXCEPT ![j].target_kind = kind]
       /\ UNCHANGED <<created, pending, dispatch, processing, active, usage,
                      workerVars, historyVars>>

\* requeue_stale_jobs looks at active ids whose lease is over.
Stale(j) == j \in active /\ ~job[j].leased

ReapGone(j) ==
    /\ j \in active
    /\ job[j].status \in Terminal \cup {"absent"}
    /\ active' = active \ {j}
    /\ UNCHANGED <<job, created, pending, dispatch, processing, usage,
                   workerVars, historyVars>>

\* _cancel_stale_requested_job
CancelStaleRequested(j) ==
    j \in Linked /\ job[j].cancel_requested /\ job[j].status \in {"admitted", "running"}

ReapCancelRequested(j) ==
    \E n \in 0..4 :
       LET t == job[j].assigned_target_id
       IN /\ Stale(j) /\ CancelStaleRequested(j)
          /\ dispatch' = IF job[j].status = "admitted" /\ t # None
                         THEN [dispatch EXCEPT ![t] = RemoveFirst(@, j)]
                         ELSE dispatch
          /\ MarkCancelled(j, job[j].assigned_worker_id, n)
          /\ Executed(n, 4)
          /\ UNCHANGED <<created, pending, workerVars, starts, lost>>

\* Mutant of Recoverable: a job is left to its worker while that has a heartbeat.
RecoverableWithoutHeartbeat(j) ==
    /\ Stale(j) /\ job[j].status \notin Terminal \cup {"absent"}
    /\ ~CancelStaleRequested(j)
    /\ job[j].assigned_worker_id \notin beat

Recoverable(j) ==
    /\ Stale(j) /\ job[j].status \notin Terminal \cup {"absent"}
    /\ ~CancelStaleRequested(j)

ReapLate(j) ==
    \E n \in 1..4 :
       /\ Recoverable(j) /\ job[j].late
       /\ MarkTerminal(j, job[j], "failed", job[j].assigned_worker_id, n)
       /\ Executed(n, 4)
       /\ UNCHANGED <<created, pending, dispatch, workerVars, starts, lost>>

ReapExhausted(j) ==
    \E n \in 1..4 :
       LET retries == job[j].retry_count + 1
       IN /\ Recoverable(j) /\ ~job[j].late /\ retries > MaxRetries
          /\ MarkTerminal(j, [job[j] EXCEPT !.retry_count = retries], "failed",
                          job[j].assigned_worker_id, n)
          /\ Executed(n, 4)
          /\ UNCHANGED <<created, pending, dispatch, workerVars, starts, lost>>

\* Mutant of ReapRequeue: the id is not pushed on the pending list.
ReapRequeueWithoutPush(j) ==
    \E n \in 1..4 :
       LET retries == job[j].retry_count + 1
       IN /\ Recoverable(j) /\ ~job[j].late /\ retries <= MaxRetries
          /\ usage' = ReleaseReservedCapacity(job[j])
          /\ processing' = IF n >= 2 THEN RemoveFromProcessing(job[j].assigned_worker_id, j)
                                     ELSE processing
          /\ active' = IF n >= 3 THEN active \ {j} ELSE active
          /\ job' = IF n >= 4 THEN [job EXCEPT ![j] = RequeuedRecord(@, retries)] ELSE job
          /\ lost' = IF n = 3 THEN lost \cup {j} ELSE lost
          /\ Executed(n, 4)
          /\ UNCHANGED <<created, pending, dispatch, workerVars, starts, leaked>>

\* Release, LREM processing, ZREM active, save, RPUSH pending.  The dispatch list
\* keeps its entry when the stale job was only admitted.  Interrupted between the
\* ZREM and the push, no list or set leads to the job any more.
ReapRequeue(j) ==
    \E n \in 1..5 :
       LET retries == job[j].retry_count + 1
       IN /\ Recoverable(j) /\ ~job[j].late /\ retries <= MaxRetries
          /\ usage' = ReleaseReservedCapacity(job[j])
          /\ processing' = IF n >= 2 THEN RemoveFromProcessing(job[j].assigned_worker_id, j)
                                     ELSE processing
          /\ active' = IF n >= 3 THEN active \ {j} ELSE active
          /\ job' = IF n >= 4 THEN [job EXCEPT ![j] = RequeuedRecord(@, retries)] ELSE job
          /\ pending' = IF n >= 5 THEN Append(pending, j) ELSE pending
          /\ lost' = IF n \in 3..4 THEN lost \cup {j} ELSE lost
          /\ Executed(n, 5)
          /\ UNCHANGED <<created, dispatch, workerVars, starts, leaked>>

RequeueStaleJobs(j) ==
    \/ ReapGone(j) \/ ReapCancelRequested(j)
    \/ ReapLate(j) \/ ReapExhausted(j) \/ ReapRequeue(j)

-----------------------------------------------------------------------------
(* The workers: claim_dispatch_job, process_job and lease_loop.            *)

\* Mutant of ClaimPop: the entry is read but stays on the dispatch list.
ClaimPeek(w) ==
    LET t == TargetOf[w]
        j == Last(dispatch[t])
    IN /\ w \in up /\ hand[w] = None /\ dispatch[t] # <<>>
       /\ processing' = [processing EXCEPT ![w][j] = @ + 1]
       /\ hand' = [hand EXCEPT ![w] = j]
       /\ UNCHANGED <<job, created, pending, dispatch, active, usage, up, beat,
                      tasks, renewing, historyVars>>

\* BRPOPLPUSH: the tail of the dispatch list
ClaimPop(w) ==
    LET t == TargetOf[w]
        j == Last(dispatch[t])
    IN /\ w \in up /\ hand[w] = None /\ dispatch[t] # <<>>
       /\ dispatch' = [dispatch EXCEPT ![t] = Front(@)]
       /\ processing' = [processing EXCEPT ![w][j] = @ + 1]
       /\ hand' = [hand EXCEPT ![w] = j]
       /\ UNCHANGED <<job, created, pending, active, usage, up, beat, tasks,
                      renewing, historyVars>>

\* Mutant of ClaimGone: the processing entry is not removed.
ClaimGoneKeepingEntry(w, j) ==
    /\ hand[w] = j /\ job[j].status = "absent"
    /\ hand' = [hand EXCEPT ![w] = None]
    /\ UNCHANGED <<job, created, pending, dispatch, processing, active, usage, up,
                   beat, tasks, renewing, historyVars>>

\* The record is gone.
ClaimGone(w, j) ==
    /\ hand[w] = j /\ job[j].status = "absent"
    /\ processing' = RemoveFromProcessing(w, j)
    /\ hand' = [hand EXCEPT ![w] = None]
    /\ UNCHANGED <<job, created, pending, dispatch, active, usage, up, beat,
                   tasks, renewing, historyVars>>

KindMatches(w, j) == job[j].target_kind = KindOf[TargetOf[w]]

\* A claim is over: claim_dispatch_job returns or raises and run() goes on, or the
\* worker stops inside it.
ClaimEnds(w, n, all) ==
    /\ \/ hand' = [hand EXCEPT ![w] = None] /\ UNCHANGED <<up, tasks, renewing>>
       \/ n < all /\ Dies(w)
    /\ Executed(n, all)
    /\ UNCHANGED beat

\* Mutant of ClaimMismatch: the reservation is not given back.
ClaimMismatchKeepingSlot(w, j) ==
    \E n \in 0..4 :
       /\ hand[w] = j /\ job[j].status # "absent" /\ ~KindMatches(w, j)
       /\ processing' = IF n >= 1 THEN RemoveFromProcessing(w, j) ELSE processing
       /\ active' = IF n >= 2 THEN active \ {j} ELSE active
       /\ job' = IF n >= 3 THEN [job EXCEPT ![j] = RequeuedRecord(@, @.retry_count)] ELSE job
       /\ pending' = IF n >= 4 THEN Append(pending, j) ELSE pending
       /\ lost' = IF n \in 2..3 THEN lost \cup {j} ELSE lost
       /\ ClaimEnds(w, n, 4)
       /\ UNCHANGED <<created, dispatch, usage, starts, leaked>>

\* The kinds differ: whatever the status, the job goes back to pending.  LREM
\* processing, release, ZREM active, save, RPUSH pending; interrupted after the
\* ZREM, no list or set leads to the job any more.
ClaimMismatch(w, j) ==
    \E n \in 0..5 :
       /\ hand[w] = j /\ job[j].status # "absent" /\ ~KindMatches(w, j)
       /\ processing' = IF n >= 1 THEN RemoveFromProcessing(w, j) ELSE processing
       /\ usage' = IF n >= 2 THEN ReleaseReservedCapacity(job[j]) ELSE usage
       /\ active' = IF n >= 3 THEN active \ {j} ELSE active
       /\ job' = IF n >= 4 THEN [job EXCEPT ![j] = RequeuedRecord(@, @.retry_count)] ELSE job
       /\ pending' = IF n >= 5 THEN Append(pending, j) ELSE pending
       /\ lost' = IF n \in 3..4 THEN lost \cup {j} ELSE lost
       /\ ClaimEnds(w, n, 5)
       /\ UNCHANGED <<created, dispatch, starts, leaked>>

ClaimLate(w, j) ==
    \E n \in 0..4 :
       /\ hand[w] = j /\ job[j].status # "absent" /\ KindMatches(w, j) /\ job[j].late
       /\ MarkDone(j, "failed", w, n)
       /\ ClaimEnds(w, n, 4)
       /\ UNCHANGED <<created, pending, dispatch, starts, lost>>

CanStart(w, j) ==
    hand[w] = j /\ job[j].status # "absent" /\ KindMatches(w, j) /\ ~job[j].late

RunningRecord(w, r) == [r EXCEPT !.status = "running", !.assigned_worker_id = w, !.leased = TRUE]

\* Set running (whatever the status was) and start process_job.
ClaimStart(w, j) ==
    /\ CanStart(w, j)
    /\ job' = [job EXCEPT ![j] = RunningRecord(w, @)]
    /\ active' = active \cup {j}
    /\ hand' = [hand EXCEPT ![w] = None]
    /\ tasks' = [tasks EXCEPT ![w][j] = @ + 1]
    /\ renewing' = [renewing EXCEPT ![w] = @ \cup {j}]
    /\ starts' = [starts EXCEPT ![j] = @ + 1]
    /\ UNCHANGED <<created, pending, dispatch, processing, usage, up, beat, crashes, lost, leaked>>

\* The claim is interrupted after the save, or after the ZADD and before
\* process_job: the record says running and nobody runs it.  A stale entry's job
\* that was not active is then found by nobody.
ClaimStartCut(w, j) ==
    \E n \in 1..2 :
       /\ CanStart(w, j)
       /\ job' = [job EXCEPT ![j] = RunningRecord(w, @)]
       /\ active' = IF n >= 2 THEN active \cup {j} ELSE active
       /\ lost' = IF n = 1 /\ j \notin active THEN lost \cup {j} ELSE lost
       /\ starts' = [starts EXCEPT ![j] = @ + 1]
       /\ ClaimEnds(w, n, 3)
       /\ UNCHANGED <<created, pending, dispatch, processing, usage, leaked>>

Claim(w, j) ==
    \/ ClaimGone(w, j) \/ ClaimMismatch(w, j)
    \/ ClaimLate(w, j) \/ ClaimStart(w, j) \/ ClaimStartCut(w, j)

\* A process_job coroutine returns, after n of the four commands that record its
\* end when the worker stops or a command raises; _on_task_done forgets the id even
\* when a second coroutine for the same job is still running.
TaskEnds(w, j, n) ==
    /\ tasks[w][j] > 0
    /\ \/ /\ tasks' = [tasks EXCEPT ![w][j] = @ - 1]
          /\ renewing' = [renewing EXCEPT ![w] = @ \ {j}]
          /\ UNCHANGED <<up, hand>>
       \/ n < 4 /\ Dies(w)
    /\ Executed(n, 4)
    /\ UNCHANGED <<created, pending, dispatch, beat, starts, lost>>

\* The cancel flag was seen, at the start or between two streamed lines.
TaskCancelled(w, j) ==
    \E n \in 0..4 :
       /\ job[j].status # "absent" /\ job[j].cancel_requested
       /\ MarkCancelled(j, w, n)
       /\ TaskEnds(w, j, n)

\* The stream ended; the flag may have been raised after the last poll.
TaskCompleted(w, j) == \E n \in 0..4 : MarkDone(j, "completed", w, n) /\ TaskEnds(w, j, n)

\* Deadline, timeout, missing model or any other exception.
TaskFailed(w, j) == \E n \in 0..4 : MarkDone(j, "failed", w, n) /\ TaskEnds(w, j, n)

\* While Redis is unreachable the error handler itself raises: nothing is recorded.
TaskAborted(w, j) ==
    /\ MayStall
    /\ UNCHANGED <<job, usage, processing, active, leaked>>
    /\ TaskEnds(w, j, 4)

ProcessJob(w, j) ==
    \/ TaskCancelled(w, j) \/ TaskCompleted(w, j)
    \/ TaskFailed(w, j) \/ TaskAborted(w, j)

\* lease_loop / renew_job_lease
RenewLease(w, j) ==
    /\ j \in renewing[w]
    /\ job[j].status \in {"admitted", "running"}
    /\ job' = [job EXCEPT ![j].leased = TRUE]
    /\ active' = active \cup {j}
    /\ UNCHANGED <<created, pending, dispatch, processing, usage, workerVars,
                   historyVars>>

-----------------------------------------------------------------------------
(* The environment: time, process failures and key expiry.                 *)

\* A live worker is about to claim the job or keeps renewing its lease.
Attended(j) ==
    \E w \in up : \/ j \in renewing[w] \/ hand[w] = j
                  \/ Contains(dispatch[TargetOf[w]], j)

\* A lease (30 s, renewed every 5 s) outlives a heartbeat key (15 s): when it
\* ends unattended, the worker that ran the job, or all workers that should
\* have claimed it, have been silent long enough for their keys to expire.
Neglected(j) ==
    /\ ~Attended(j)
    /\ \A w \in beat \ up : /\ job[j].assigned_worker_id # w
                            /\ ~Contains(dispatch[TargetOf[w]], j)

\* SCHEDULER_JOB_LEASE_SECONDS pass without a renewal.
LeaseEnds(j) ==
    /\ j \in active /\ job[j].leased
    /\ MayStall \/ Neglected(j)
    /\ job' = [job EXCEPT ![j].leased = FALSE]
    /\ UNCHANGED <<created, pending, dispatch, processing, active, usage,
                   workerVars, historyVars>>

DeadlinePasses(j) ==
    /\ job[j].status # "absent" /\ ~job[j].late
    /\ job' = [job EXCEPT ![j].late = TRUE]
    /\ UNCHANGED <<created, pending, dispatch, processing, active, usage,
                   workerVars, historyVars>>

\* LLM_JOB_TTL_SECONDS pass since the last save of the record; the reservation of
\* a record in use is never released then.
RecordExpires(j) ==
    /\ \/ job[j].status \in Terminal \cup {"queued"}
       \/ LongOutage /\ job[j].status # "absent" /\ ~job[j].leased
    /\ job' = [job EXCEPT ![j] = AbsentRecord]
    /\ leaked' = Leak(j)
    /\ UNCHANGED <<created, pending, dispatch, processing, active, usage,
                   workerVars, starts, crashes, lost>>

\* A crash, or a shutdown: start() cancels the tasks and marks nothing.
WorkerStops(w) ==
    /\ w \in up /\ crashes < MaxCrashes
    /\ Dies(w)
    /\ crashes' = crashes + 1
    /\ UNCHANGED <<redisVars, beat, starts, lost, leaked>>

WorkerStarts(w) ==
    /\ w \notin up
    /\ up' = up \cup {w}
    /\ UNCHANGED <<redisVars, beat, hand, tasks, renewing, historyVars>>

\* heartbeat_loop
Heartbeat(w) ==
    /\ w \in up \ beat
    /\ beat' = beat \cup {w}
    /\ UNCHANGED <<redisVars, up, hand, tasks, renewing, historyVars>>

HeartbeatExpires(w) ==
    /\ w \in beat /\ (w \notin up \/ MayStall)
    /\ beat' = beat \ {w}
    /\ UNCHANGED <<redisVars, up, hand, tasks, renewing, historyVars>>

-----------------------------------------------------------------------------
JobStep(j) ==
    \/ Enqueue(j)
    \/ CancelJob(j)
    \/ RequeueStaleJobs(j)
    \/ LeaseEnds(j) \/ DeadlinePasses(j) \/ RecordExpires(j)
    \/ \E t \in Targets : TryAdmit(j, t) \/ TryAdmitRefused(j, t)

WorkerStep(w) ==
    \/ ClaimPop(w)
    \/ \E j \in Jobs : Claim(w, j) \/ ProcessJob(w, j) \/ RenewLease(w, j)
    \/ WorkerStops(w) \/ WorkerStarts(w) \/ Heartbeat(w) \/ HeartbeatExpires(w)

Next ==
    \/ \E j \in Jobs : JobStep(j)
    \/ \E w \in Workers : WorkerStep(w)

Spec == Init /\ [][Next]_vars

\* The scheduler's loops and the workers' loops run forever; leases and the
\* heartbeat keys of stopped workers end by the clock; docker restarts a
\* stopped worker (restart: unless-stopped) and it reports a heartbeat;
\* process_job ends within LLM_JOB_TIMEOUT_SECONDS.
Fairness ==
    /\ \A j \in Jobs :
          /\ WF_vars(\E t \in Targets : TryAdmit(j, t))
          /\ WF_vars(RequeueStaleJobs(j))
          /\ WF_vars(Neglected(j) /\ LeaseEnds(j))
    /\ \A w \in Workers :
          /\ WF_vars(ClaimPop(w))
          /\ WF_vars(\E j \in Jobs : Claim(w, j))
          /\ \A j \in Jobs : WF_vars(ProcessJob(w, j))
          /\ WF_vars(WorkerStarts(w))
          /\ WF_vars(Heartbeat(w))
          /\ WF_vars(w \notin up /\ HeartbeatExpires(w))

FairSpec == Spec /\ Fairness

-----------------------------------------------------------------------------
(* Properties.                                                             *)

\* The jobs whose record says they hold a reservation on t.
Holders(t) == {j \in Jobs : Live(j) /\ job[j].assigned_target_id = t}

\* No job is lost: a queued record is on the pending list, where try_admit_job
\* finds it, and an admitted or running record is in ACTIVE_JOBS_ZSET, where
\* requeue_stale_jobs finds it, whatever workers stop, stall or claim twice and
\* whatever coroutine is interrupted after whichever command, except in the
\* windows between two lists that "lost" names.
NoJobLost ==
    \A j \in Jobs \ lost : /\ job[j].status = "queued" => Contains(pending, j)
                           /\ Live(j) => j \in active

\* Replays are bounded: over all requeues, stale dispatch entries and repeated
\* claims a job is set running at most once per allowed attempt
\* (SCHEDULER_MAX_JOB_RETRIES after the first).
BoundedReplay == \A j \in Jobs : starts[j] <= MaxRetries + 1

\* Capacity never leaks unnoticed: a target's active_jobs counter exceeds the
\* number of records that still hold a reservation on it by no more than what was
\* cut off between a terminal save and its release, between the reservation and
\* the save of an admission, or by a record that expired in use
\* (try_admit_job against _release_reserved_capacity).
NoCapacityLeak ==
    \A t \in Targets : usage[t] <= Cardinality(Holders(t)) + leaked[t]

\* Where the id of j is on a dispatch list, in a worker's hand and in a coroutine.
Entries(j) == UNION {{t} \X {i \in DOMAIN dispatch[t] : dispatch[t][i] = j} : t \in Targets}
Hands(j)   == {w \in Workers : hand[w] = j}
Running(j) == {w \in Workers : tasks[w][j] > 0}

\* Every further execution is a counted retry: as long as a job has a record, the
\* entries of dispatch lists, workers that popped it and workers that execute it,
\* with the queued record that will become the next entry, are at most one more
\* than its retry_count.  Whatever lapses, stops, is cancelled late, bounced by the
\* kind check or claimed from a stale entry, a job runs twice at once only after
\* requeue_stale_jobs has counted a retry.
RunsAreCounted ==
    \A j \in Jobs : job[j].status # "absent" =>
       Cardinality(Entries(j)) + Cardinality(Hands(j)) + Cardinality(Running(j))
          + (IF job[j].status = "queued" THEN 1 ELSE 0) <= job[j].retry_count + 1

\* No worker has stopped, no coroutine was interrupted and none loses Redis: what
\* a healthy installation does.
Undisturbed == crashes = 0 /\ ~MayStall

\* Until a worker stops or stalls, an id on a worker's processing list is one
\* the worker has popped or is executing: every path that ends a job's execution
\* also removes it from the list.
ProcessingIsOwned ==
    Undisturbed => \A w \in Workers, j \in Jobs :
       processing[w][j] > 0 => hand[w] = j \/ tasks[w][j] > 0

\* The slots of t are taken for good: by reservations that were cut off from their
\* record, or held by jobs that nothing finds.
Clogged(t) == leaked[t] + Cardinality(Holders(t) \cap lost) >= Slots

\* Every job reaches a terminal status (or its record expires) again and again:
\* crashes, stale leases and stale dispatch entries never leave it hanging, unless
\* an interruption has lost it or has taken the last slot of a target for good.
Settles ==
    \A j \in Jobs : []<>(\/ job[j].status \in Terminal \cup {"absent"}
                         \/ j \in lost
                         \/ \E t \in Targets : Clogged(t))

=============================================================================
