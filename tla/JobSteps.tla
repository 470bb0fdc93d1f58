------------------------------ MODULE JobSteps ------------------------------
(***************************************************************************)
(* One job at the grain of single Redis commands.  The gateway's           *)
(* coroutines read the whole job record, wait, and write the whole record  *)
(* back; no lock covers the pair, so another coroutine's write in between  *)
(* is lost.  JobControl takes each coroutine as one step; this module      *)
(* shows what their interleavings add.                                     *)
(*                                                                         *)
(* Processes: the scheduler's admission and reaper coroutines, a worker's  *)
(* claim loop, its process_job task and its lease loop, one cancel request *)
(* and the reader of the job's event stream.                               *)
(*                                                                         *)
(* Bounds: one job, one worker with one process_job coroutine at a time,   *)
(* one cancel request, MaxRetries replays, MaxWorkerStops and              *)
(* MaxSchedulerStops process failures.                                     *)
(***************************************************************************)
EXTENDS Integers

CONSTANTS MaxRetries,         \* SCHEDULER_MAX_JOB_RETRIES
          MaxWorkerStops,     \* bound: worker failures in a behaviour
          MaxSchedulerStops,  \* bound: scheduler failures in a behaviour
          MayCancel           \* TRUE: the user may cancel the job

ASSUME StepsAssumption ==
    /\ MaxRetries \in Nat /\ MaxWorkerStops \in Nat /\ MaxSchedulerStops \in Nat
    /\ MayCancel \in BOOLEAN

VARIABLES rec,        \* the job record in Redis
          pending,    \* entries of the job on the pending list
          dispatch,   \* entries of the job on the dispatch list
          active,     \* the job's member of ACTIVE_JOBS_ZSET: none, live or over
          usage,      \* active_jobs of the target
          done,       \* the event stream holds a done event
          reader,     \* stream_events: waiting or ended
          pc,         \* where each coroutine is
          snap,       \* the record each coroutine read, with its changes
          up,         \* the worker process is running
          settled,    \* history: a terminal record was saved
          stops       \* history: process failures so far

vars == <<rec, pending, dispatch, active, usage, done, reader, pc, snap, up,
          settled, stops>>

Terminal == {"completed", "failed", "cancelled"}
Statuses == {"queued", "admitted", "running"} \cup Terminal

Record == [status : Statuses, retry_count : Nat,
           cancel_requested : BOOLEAN, reserved : BOOLEAN, leased : BOOLEAN]

Procs == {"admit", "reaper", "claim", "task", "lease", "cancel"}
SchedulerProcs == {"admit", "reaper"}
WorkerProcs    == {"claim", "task", "lease"}

Enqueued == [status |-> "queued", retry_count |-> 0, cancel_requested |-> FALSE,
             reserved |-> FALSE, leased |-> FALSE]

Labels == {"idle", "lrem_pending", "hincr", "save", "zadd", "rpush_dispatch",
           "release", "zrem", "rpush_pending", "read", "generate", "save_terminal",
           "announce", "release_terminal", "zrem_terminal", "lrem_dispatch",
           "mark", "flag", "over"}

\* Type invariant: the record and every copy of it keep their fields, the counters
\* of the lists and of the target never go below zero.
TypeOK ==
    /\ rec \in Record
    /\ pending \in Nat /\ dispatch \in Nat /\ usage \in Nat
    /\ active \in {"none", "live", "over"}
    /\ done \in BOOLEAN /\ reader \in {"waiting", "ended"}
    /\ pc \in [Procs -> Labels] /\ snap \in [Procs -> Record]
    /\ up \in BOOLEAN /\ settled \in BOOLEAN
    /\ stops \in [worker : Nat, scheduler : Nat]

\* enqueue_job has committed its MULTI: the record and the pending entry.
Init ==
    /\ rec = Enqueued /\ pending = 1 /\ dispatch = 0 /\ active = "none" /\ usage = 0
    /\ done = FALSE /\ reader = "waiting"
    /\ pc = [p \in Procs |-> "idle"] /\ snap = [p \in Procs |-> Enqueued]
    /\ up = TRUE /\ settled = FALSE
    /\ stops = [worker |-> 0, scheduler |-> 0]

-----------------------------------------------------------------------------
\* Mutant of Less1: the counter is not clamped at 0.
UnclampedLess1(n) == n - 1

\* LREM key 1 id, and HINCRBY -1 followed by the clamp to 0
Less1(n) == IF n > 0 THEN n - 1 ELSE 0

\* No coroutine is in the middle of its work.
Quiet == \A p \in Procs : pc[p] \in {"idle", "over"}

At(p, label) == pc[p] = label
Goto(p, label) == pc' = [pc EXCEPT ![p] = label]

\* The coroutine returns and its copy of the record is gone.  The one cancel
\* request is not made again.
Return(p) ==
    /\ Goto(p, IF p = "cancel" THEN "over" ELSE "idle")
    /\ snap' = [snap EXCEPT ![p] = Enqueued]

\* get_job, with the changes the coroutine makes before it saves the record
Read(p, r) == snap' = [snap EXCEPT ![p] = r]
Save(p)    == rec' = snap[p] /\ UNCHANGED snap

\* The target lock: try_admit_job holds it, _release_reserved_capacity needs it.
TargetLockFree == At("admit", "idle")

\* _release_reserved_capacity for the record the coroutine has in hand
Release(p) ==
    /\ TargetLockFree
    /\ usage' = IF snap[p].reserved THEN Less1(usage) ELSE usage

worldVars == <<up, stops, reader>>

-----------------------------------------------------------------------------
(* Ending a job: the tail shared by the mark_job_* coroutines.             *)

\* Mutant of MarkRead: the record is not saved before the event.
MarkReadUnsaved(p, status) ==
    /\ Read(p, [rec EXCEPT !.status = status])
    /\ Goto(p, "announce")

\* get_job of mark_job_completed and mark_job_failed: any status
MarkRead(p, status) ==
    /\ Read(p, [rec EXCEPT !.status = status])
    /\ Goto(p, "save_terminal")

\* get_job of mark_job_cancelled: a terminal record ends the coroutine.
MarkCancelledRead(p) ==
    IF rec.status \in Terminal
    THEN Return(p)
    ELSE MarkRead(p, "cancelled")

SaveTerminal(p) ==
    /\ At(p, "save_terminal")
    /\ Save(p) /\ settled' = TRUE /\ Goto(p, "announce")
    /\ UNCHANGED <<pending, dispatch, active, usage, done, worldVars>>

AppendDone(p) ==
    /\ At(p, "announce")
    /\ done' = TRUE /\ Goto(p, "release_terminal")
    /\ UNCHANGED <<rec, pending, dispatch, active, usage, snap, settled, worldVars>>

ReleaseTerminal(p) ==
    /\ At(p, "release_terminal")
    /\ Release(p) /\ Goto(p, "zrem_terminal")
    /\ UNCHANGED <<rec, pending, dispatch, active, done, snap, settled, worldVars>>

ZremTerminal(p) ==
    /\ At(p, "zrem_terminal")
    /\ active' = "none" /\ Return(p)
    /\ UNCHANGED <<rec, pending, dispatch, usage, done, settled, worldVars>>

MarkTail(p) ==
    SaveTerminal(p) \/ AppendDone(p) \/ ReleaseTerminal(p) \/ ZremTerminal(p)

-----------------------------------------------------------------------------
(* The scheduler.                                                          *)

\* try_admit_job: get_job under the target lock (capacity is one slot)
AdmitRead ==
    /\ At("admit", "idle") /\ rec.status = "queued" /\ pending > 0 /\ usage = 0
    /\ Read("admit", rec) /\ Goto("admit", "lrem_pending")
    /\ UNCHANGED <<rec, pending, dispatch, active, usage, done, settled, worldVars>>

AdmitLrem ==
    /\ At("admit", "lrem_pending")
    /\ pending' = Less1(pending)
    /\ IF pending = 0 THEN Return("admit") ELSE Goto("admit", "hincr") /\ UNCHANGED snap
    /\ UNCHANGED <<rec, dispatch, active, usage, done, settled, worldVars>>

AdmitHincr ==
    /\ At("admit", "hincr")
    /\ usage' = usage + 1
    /\ Read("admit", [snap["admit"] EXCEPT !.status = "admitted", !.reserved = TRUE,
                                           !.leased = TRUE])
    /\ Goto("admit", "save")
    /\ UNCHANGED <<rec, pending, dispatch, active, done, settled, worldVars>>

AdmitSave ==
    /\ At("admit", "save")
    /\ Save("admit") /\ Goto("admit", "zadd")
    /\ UNCHANGED <<pending, dispatch, active, usage, done, settled, worldVars>>

AdmitZadd ==
    /\ At("admit", "zadd")
    /\ active' = "live" /\ Goto("admit", "rpush_dispatch")
    /\ UNCHANGED <<rec, pending, dispatch, usage, done, snap, settled, worldVars>>

AdmitRpush ==
    /\ At("admit", "rpush_dispatch")
    /\ dispatch' = dispatch + 1 /\ Return("admit")
    /\ UNCHANGED <<rec, pending, active, usage, done, settled, worldVars>>

Admit == AdmitRead \/ AdmitLrem \/ AdmitHincr \/ AdmitSave \/ AdmitZadd \/ AdmitRpush

\* requeue_stale_jobs: ZRANGEBYSCORE and get_job
ReaperRead ==
    /\ At("reaper", "idle") /\ active = "over"
    /\ LET retries == rec.retry_count + 1
       IN \/ /\ rec.status \in Terminal
             /\ Goto("reaper", "zrem_terminal") /\ UNCHANGED snap
          \/ /\ rec.status \notin Terminal /\ ~rec.leased
             /\ retries > MaxRetries
             /\ Read("reaper", [rec EXCEPT !.status = "failed", !.retry_count = retries])
             /\ Goto("reaper", "save_terminal")
          \/ /\ rec.status \notin Terminal /\ ~rec.leased
             /\ retries <= MaxRetries
             /\ Read("reaper", [rec EXCEPT !.retry_count = retries])
             /\ Goto("reaper", "release")
    /\ UNCHANGED <<rec, pending, dispatch, active, usage, done, settled, worldVars>>

ReaperRelease ==
    /\ At("reaper", "release")
    /\ Release("reaper") /\ Goto("reaper", "zrem")
    /\ UNCHANGED <<rec, pending, dispatch, active, done, snap, settled, worldVars>>

ReaperZrem ==
    /\ At("reaper", "zrem")
    /\ active' = "none"
    /\ Read("reaper", [snap["reaper"] EXCEPT !.status = "queued", !.reserved = FALSE,
                                             !.leased = FALSE])
    /\ Goto("reaper", "save")
    /\ UNCHANGED <<rec, pending, dispatch, usage, done, settled, worldVars>>

ReaperSave ==
    /\ At("reaper", "save")
    /\ Save("reaper") /\ Goto("reaper", "rpush_pending")
    /\ UNCHANGED <<pending, dispatch, active, usage, done, settled, worldVars>>

ReaperRpush ==
    /\ At("reaper", "rpush_pending")
    /\ pending' = pending + 1 /\ Return("reaper")
    /\ UNCHANGED <<rec, dispatch, active, usage, done, settled, worldVars>>

Reaper ==
    ReaperRead \/ ReaperRelease \/ ReaperZrem \/ ReaperSave \/ ReaperRpush \/ MarkTail("reaper")

-----------------------------------------------------------------------------
(* The worker.                                                             *)

\* BRPOPLPUSH of claim_dispatch_job
ClaimPop ==
    /\ up /\ At("claim", "idle") /\ At("task", "idle") /\ dispatch > 0
    /\ dispatch' = dispatch - 1 /\ Goto("claim", "read")
    /\ UNCHANGED <<rec, pending, active, usage, done, snap, settled, worldVars>>

ClaimRead ==
    /\ At("claim", "read")
    /\ Read("claim", [rec EXCEPT !.status = "running", !.leased = TRUE])
    /\ Goto("claim", "save")
    /\ UNCHANGED <<rec, pending, dispatch, active, usage, done, settled, worldVars>>

ClaimSave ==
    /\ At("claim", "save")
    /\ Save("claim") /\ Goto("claim", "zadd")
    /\ UNCHANGED <<pending, dispatch, active, usage, done, settled, worldVars>>

\* ZADD, then run() creates the process_job task.
ClaimZadd ==
    /\ At("claim", "zadd")
    /\ active' = "live"
    /\ pc' = [pc EXCEPT !["claim"] = "idle", !["task"] = "generate"]
    /\ snap' = [snap EXCEPT !["claim"] = Enqueued]
    /\ UNCHANGED <<rec, pending, dispatch, usage, done, settled, worldVars>>

Claim == ClaimPop \/ ClaimRead \/ ClaimSave \/ ClaimZadd

\* is_cancel_requested answers True, at the start or between two lines.
TaskCancelled ==
    /\ At("task", "generate") /\ rec.cancel_requested
    /\ MarkCancelledRead("task")
    /\ UNCHANGED <<rec, pending, dispatch, active, usage, done, settled, worldVars>>

\* The stream ends, or an error ends it.
TaskFinished ==
    /\ At("task", "generate")
    /\ MarkRead("task", "completed") \/ MarkRead("task", "failed")
    /\ UNCHANGED <<rec, pending, dispatch, active, usage, done, settled, worldVars>>

Task == TaskCancelled \/ TaskFinished \/ MarkTail("task")

\* renew_job_lease, while the task is in active_tasks
RenewRead ==
    /\ At("lease", "idle") /\ pc["task"] # "idle"
    /\ rec.status \in {"admitted", "running"}
    /\ Read("lease", [rec EXCEPT !.leased = TRUE])
    /\ Goto("lease", "save")
    /\ UNCHANGED <<rec, pending, dispatch, active, usage, done, settled, worldVars>>

RenewSave ==
    /\ At("lease", "save")
    /\ Save("lease") /\ Goto("lease", "zadd")
    /\ UNCHANGED <<pending, dispatch, active, usage, done, settled, worldVars>>

RenewZadd ==
    /\ At("lease", "zadd")
    /\ active' = "live" /\ Return("lease")
    /\ UNCHANGED <<rec, pending, dispatch, usage, done, settled, worldVars>>

Renew == RenewRead \/ RenewSave \/ RenewZadd

-----------------------------------------------------------------------------
(* The web application: one cancel_job and one stream_events.              *)

\* get_job of cancel_job and its branches; a terminal job is refused.
CancelRead ==
    /\ MayCancel /\ At("cancel", "idle")
    /\ IF rec.status \in Terminal THEN Return("cancel")
       ELSE /\ Goto("cancel", CASE rec.status = "queued" -> "lrem_pending"
                                 [] rec.status = "admitted" -> "lrem_dispatch"
                                 [] rec.status = "running" -> "flag")
            /\ Read("cancel", rec)
    /\ UNCHANGED <<rec, pending, dispatch, active, usage, done, settled, worldVars>>

CancelLrem ==
    /\ \/ /\ At("cancel", "lrem_pending")
          /\ pending' = Less1(pending) /\ UNCHANGED dispatch
       \/ /\ At("cancel", "lrem_dispatch")
          /\ dispatch' = Less1(dispatch) /\ UNCHANGED pending
    /\ Goto("cancel", "mark")
    /\ UNCHANGED <<rec, active, usage, done, snap, settled, worldVars>>

CancelMark ==
    /\ At("cancel", "mark")
    /\ MarkCancelledRead("cancel")
    /\ UNCHANGED <<rec, pending, dispatch, active, usage, done, settled, worldVars>>

\* A running job: the record read earlier is saved with the flag.
CancelFlag ==
    /\ At("cancel", "flag")
    /\ rec' = [snap["cancel"] EXCEPT !.cancel_requested = TRUE]
    /\ Return("cancel")
    /\ UNCHANGED <<pending, dispatch, active, usage, done, settled, up, stops, reader>>

Cancel == CancelRead \/ CancelLrem \/ CancelMark \/ CancelFlag \/ MarkTail("cancel")

\* XREAD returns the done event.
ReadDone ==
    /\ reader = "waiting" /\ done
    /\ reader' = "ended"
    /\ UNCHANGED <<rec, pending, dispatch, active, usage, done, pc, snap, settled, up, stops>>

\* Mutant of PollRecord: only a completed record ends the stream.
PollRecordCompleted ==
    /\ reader = "waiting" /\ ~done /\ rec.status = "completed"
    /\ reader' = "ended"
    /\ UNCHANGED <<rec, pending, dispatch, active, usage, done, pc, snap, settled, up, stops>>

\* XREAD times out (or fails) and the record is terminal.
PollRecord ==
    /\ reader = "waiting" /\ ~done /\ rec.status \in Terminal
    /\ reader' = "ended"
    /\ UNCHANGED <<rec, pending, dispatch, active, usage, done, pc, snap, settled, up, stops>>

-----------------------------------------------------------------------------
(* The environment.                                                        *)

\* 30 s without a renewal: no coroutine is in the middle of its work and no
\* live worker is about to claim the job.  Every copy of the record carries the
\* same absolute lease_until.
LeaseEnds ==
    /\ active = "live" \/ rec.leased
    /\ Quiet /\ (~up \/ dispatch = 0)
    /\ active' = IF active = "none" THEN "none" ELSE "over"
    /\ rec' = [rec EXCEPT !.leased = FALSE]
    /\ snap' = [p \in Procs |-> [snap[p] EXCEPT !.leased = FALSE]]
    /\ UNCHANGED <<pending, dispatch, usage, done, pc, settled, worldVars>>

\* A process is gone, and its coroutines with it.
Stop(procs) ==
    /\ pc' = [p \in Procs |-> IF p \in procs THEN "idle" ELSE pc[p]]
    /\ snap' = [p \in Procs |-> IF p \in procs THEN Enqueued ELSE snap[p]]

WorkerStops ==
    /\ up /\ stops.worker < MaxWorkerStops
    /\ up' = FALSE /\ stops' = [stops EXCEPT !.worker = @ + 1]
    /\ Stop(WorkerProcs)
    /\ UNCHANGED <<rec, pending, dispatch, active, usage, done, settled, reader>>

WorkerStarts ==
    /\ ~up /\ up' = TRUE
    /\ UNCHANGED <<rec, pending, dispatch, active, usage, done, pc, snap, settled, stops, reader>>

\* The scheduler process stops and is started again: its coroutines are gone.
SchedulerRestarts ==
    /\ stops.scheduler < MaxSchedulerStops
    /\ \E p \in SchedulerProcs : ~At(p, "idle")
    /\ stops' = [stops EXCEPT !.scheduler = @ + 1]
    /\ Stop(SchedulerProcs)
    /\ UNCHANGED <<rec, pending, dispatch, active, usage, done, settled, up, reader>>

-----------------------------------------------------------------------------
Next ==
    \/ Admit \/ Reaper \/ Claim \/ Task \/ Renew \/ Cancel
    \/ ReadDone \/ PollRecord
    \/ LeaseEnds \/ WorkerStops \/ WorkerStarts \/ SchedulerRestarts

Spec == Init /\ [][Next]_vars

\* Coroutines that have started go on, the loops come back, leases end by the
\* clock, docker restarts the worker, the reader keeps polling.  Nobody has to
\* cancel, and nothing has to fail.
Fairness ==
    /\ WF_vars(Admit) /\ WF_vars(Reaper) /\ WF_vars(Claim) /\ WF_vars(Task)
    /\ WF_vars(RenewSave \/ RenewZadd)
    /\ WF_vars(~At("cancel", "idle") /\ Cancel)
    /\ WF_vars(ReadDone \/ PollRecord)
    /\ WF_vars(LeaseEnds) /\ WF_vars(WorkerStarts)

FairSpec == Spec /\ Fairness

-----------------------------------------------------------------------------
(* Properties.                                                             *)

\* A done event on the stream means that a terminal record was saved before:
\* stream_events never ends a stream whose job was not settled.
DoneAfterSave == (done \/ reader = "ended") => settled

\* A cancel was asked for and the worker stopped, or the scheduler stopped.
Disturbed == (~At("cancel", "idle") /\ stops.worker > 0) \/ stops.scheduler > 0

\* The browser's stream ends: through the done event, or through the record when
\* the worker stopped before it could append the event (stream_events).  Both a
\* cancel and a stop of the worker may hit it, but not together; a stop of the
\* scheduler may leave it open.
StreamEnds == <>(reader = "ended" \/ Disturbed)

\* QUEUE_CONCURRENCY_CONTROL_DIRECTION: stale running jobs are requeued or
\* finished.  When everything is quiet, a queued job is on the pending list
\* and an admitted or running one in the active set, where the scheduler's
\* loops find it.
QuietJobIsFound ==
    Quiet => /\ rec.status = "queued" => pending > 0
             /\ rec.status \in {"admitted", "running"} => active # "none"

=============================================================================
