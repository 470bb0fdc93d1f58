----------------------------- MODULE ParserChild -----------------------------
(***************************************************************************)
(* File chat: a parser root job and the LLM child job it hands over to.    *)
(* worker._process_parser_job parses the staged files, enqueues the child  *)
(* once under the root's job lock, deletes the raw files and parks the     *)
(* root; whoever ends the child mirrors its end onto the root              *)
(* (llm_gateway._synthesize_root_terminal_state).                          *)
(*                                                                         *)
(* Grain.  The parser coroutine is one step per call it awaits; the parking*)
(* of the root and the mirroring, which read the root, wait and save it,   *)
(* are split at the save, and enqueue_child_job_once at every await between*)
(* the acquisition and the release of the job lock, which Redis drops after*)
(* 5 s whether its holder has left or not.  Queueing, admission and the    *)
(* lease of a job are JobControl's subject: here a queued root is claimed  *)
(* in one step, a requeued one in another, and the child runs when it runs *)
(* (the ends of two executions of it are mirrored one after the other).    *)
(*                                                                         *)
(* Bounds: one root, one child, one cancel request; MaxReplays requeues of *)
(* the root; MaxFaults failures, stalls, cancels and lapses of the lock.   *)
(***************************************************************************)
EXTENDS Integers

CONSTANTS Attempts,        \* parser coroutines that may be at work on the root
          MaxReplays,      \* SCHEDULER_MAX_JOB_RETRIES of the root
          MaxFaults,       \* bound: process failures, stalls and cancels together
          None             \* nobody holds the lock

ASSUME ParserAssumption ==
    /\ MaxReplays \in Nat /\ MaxFaults \in Nat
    /\ None \notin Attempts

VARIABLES root,       \* the root's record
          active,     \* the root is in ACTIVE_JOBS_ZSET
          kid,        \* the child's record; "absent" is a missing key
          raw,        \* the raw files are in the staging area
          done,       \* the root's event stream holds a done event
          lock,       \* holder of the root's job lock
          pc, snap,   \* parser coroutines: where they are, the record they read
          mirror,     \* the end of the child, being mirrored onto the root
          cancel,     \* the cancel request: where it is, the record it read
          executions, \* executions of the child that are under way
          enqueues,   \* history: how often a child was pushed
          answered,   \* history: an execution of the child completed
          lapses,     \* history: how often the lock lapsed under its holder
          stops,      \* history: process failures so far
          stalled     \* history: the root was requeued under a live worker

history == <<enqueues, answered, lapses, stops, stalled>>

vars == <<root, active, kid, raw, done, lock, pc, snap, mirror, cancel, executions,
          history>>

Terminal == {"completed", "failed", "cancelled"}

RootRecord == [status : {"queued", "running"} \cup Terminal, retry_count : Nat,
               cancel_requested : BOOLEAN, child_job_id : BOOLEAN]
KidRecord  == [status : {"absent", "queued", "running"} \cup Terminal,
               cancel_requested : BOOLEAN]

NewRoot == [status |-> "queued", retry_count |-> 0, cancel_requested |-> FALSE,
            child_job_id |-> FALSE]
NewKid  == [status |-> "queued", cancel_requested |-> FALSE]

\* Nobody is mirroring an end of the child.
Unmirrored == [at |-> "idle", end |-> "failed", root |-> NewRoot]

Labels == {"idle", "cancelled_before", "get_job", "linked", "prepare", "save_prepared",
           "recheck", "lock", "test", "push", "link", "lock_lost", "delete_raw", "adopt", "wait_read", "wait_save",
           "wait_zrem"}

\* Type invariant: the records of root and child, and every copy of the root that a
\* coroutine holds, keep their fields.
TypeOK ==
    /\ root \in RootRecord /\ kid \in KidRecord
    /\ active \in BOOLEAN /\ raw \in BOOLEAN /\ done \in BOOLEAN
    /\ lock \in Attempts \cup {None}
    /\ pc \in [Attempts -> Labels] /\ snap \in [Attempts -> RootRecord]
    /\ mirror \in [at : {"idle", "read", "save", "event"}, end : Terminal, root : RootRecord]
    /\ cancel \in [at : {"idle", "branch", "over"}, root : RootRecord]
    /\ executions \in Nat /\ enqueues \in Nat /\ answered \in BOOLEAN /\ lapses \in Nat
    /\ stops \in [parser : Nat, child : Nat] /\ stalled \in BOOLEAN

\* The app has staged the files and enqueued the root.
Init ==
    /\ root = NewRoot /\ active = FALSE
    /\ kid = [status |-> "absent", cancel_requested |-> FALSE]
    /\ raw = TRUE /\ done = FALSE /\ lock = None
    /\ pc = [a \in Attempts |-> "idle"] /\ snap = [a \in Attempts |-> NewRoot]
    /\ mirror = Unmirrored
    /\ cancel = [at |-> "idle", root |-> NewRoot]
    /\ executions = 0 /\ enqueues = 0 /\ answered = FALSE /\ lapses = 0
    /\ stops = [parser |-> 0, child |-> 0] /\ stalled = FALSE

\* What has gone wrong so far: a stop, a requeue under a live worker, a lock that
\* lapsed, a cancel.
Faults == stops.parser + stops.child + lapses + (IF stalled THEN 1 ELSE 0)
          + (IF cancel.at = "idle" THEN 0 ELSE 1)

-----------------------------------------------------------------------------
Goto(a, label) == pc' = [pc EXCEPT ![a] = label]
Keep(a, r)     == snap' = [snap EXCEPT ![a] = r]
Drop(a)        == Keep(a, NewRoot)

\* The coroutine returns: its local variables are gone.
Return(a) == Goto(a, "idle") /\ Drop(a)

\* mark_job_failed of the root: no test of its status
MarkRootFailed ==
    /\ root' = [root EXCEPT !.status = "failed"]
    /\ done' = TRUE /\ active' = FALSE

\* mark_job_cancelled of the root: a terminal record is left alone
MarkRootCancelled ==
    IF root.status \in Terminal THEN UNCHANGED <<root, done, active>>
    ELSE /\ root' = [root EXCEPT !.status = "cancelled"]
         /\ done' = TRUE /\ active' = FALSE

\* mark_job_* of the child: its record is saved, then the root is looked up.
EndKid(status) ==
    /\ mirror.at = "idle"
    /\ kid' = [kid EXCEPT !.status = status]
    /\ mirror' = [mirror EXCEPT !.at = "read", !.end = status]
    /\ answered' = (answered \/ status = "completed")

-----------------------------------------------------------------------------
(* The root's way to a parser worker (JobControl has the details).         *)

\* try_admit_job and claim_dispatch_job
ClaimRoot(a) ==
    /\ pc[a] = "idle" /\ root.status = "queued"
    /\ root' = [root EXCEPT !.status = "running"]
    /\ active' = TRUE /\ Goto(a, "cancelled_before")
    /\ UNCHANGED <<kid, raw, done, lock, snap, mirror, cancel, executions, history>>

\* requeue_stale_jobs, when the lease is over; it takes the root's job lock.
RequeueRoot ==
    /\ active /\ root.status \notin Terminal /\ lock = None
    /\ \/ stalled \/ Faults < MaxFaults
       \/ \A a \in Attempts : pc[a] = "idle"
    /\ IF root.retry_count < MaxReplays
       THEN /\ root' = [root EXCEPT !.status = "queued", !.retry_count = @ + 1]
            /\ active' = FALSE /\ UNCHANGED done
       ELSE MarkRootFailed
    /\ stalled' = (stalled \/ \E a \in Attempts : pc[a] # "idle")
    /\ UNCHANGED <<kid, raw, lock, pc, snap, mirror, cancel, executions, enqueues,
                   answered, lapses, stops>>

\* requeue_stale_jobs finds a terminal root.
ForgetRoot ==
    /\ active /\ root.status \in Terminal /\ lock = None
    /\ active' = FALSE
    /\ UNCHANGED <<root, kid, raw, done, lock, pc, snap, mirror, cancel, executions, history>>

-----------------------------------------------------------------------------
(* worker._process_parser_job                                              *)

CheckCancelled(a) ==
    /\ pc[a] = "cancelled_before"
    /\ IF root.cancel_requested
       THEN MarkRootCancelled /\ Return(a)
       ELSE Goto(a, "get_job") /\ UNCHANGED <<root, done, active, snap>>
    /\ UNCHANGED <<kid, raw, lock, mirror, cancel, executions, history>>

GetJob(a) ==
    /\ pc[a] = "get_job"
    /\ Keep(a, root) /\ Goto(a, "linked")
    /\ UNCHANGED <<root, active, kid, raw, done, lock, mirror, cancel, executions, history>>

\* The wrong worker pool, a disabled parser stage, a missing staging id.
ParserRefuses(a) ==
    /\ pc[a] = "get_job"
    /\ MarkRootFailed /\ Return(a)
    /\ UNCHANGED <<kid, raw, lock, mirror, cancel, executions, history>>

\* get_linked_child_job_id: a child under the derived id is adopted.
LinkedChild(a) ==
    /\ pc[a] = "linked" /\ lock = None
    /\ IF kid.status = "absent"
       THEN Goto(a, "prepare") /\ UNCHANGED <<root, snap>>
       ELSE /\ root' = [root EXCEPT !.child_job_id = TRUE]
            /\ Drop(a) /\ Goto(a, "adopt")
    /\ UNCHANGED <<active, kid, raw, done, lock, mirror, cancel, executions, history>>

\* Mutant of Prepare: the raw files go as soon as they are parsed.
PrepareDeletingRaw(a) ==
    /\ pc[a] = "prepare"
    /\ \/ /\ raw /\ raw' = FALSE /\ Goto(a, "save_prepared")
          /\ UNCHANGED <<root, done, active, snap>>
       \/ MarkRootFailed /\ Return(a) /\ UNCHANGED raw
    /\ UNCHANGED <<kid, lock, mirror, cancel, executions, history>>

\* prepare_parser_job_artifacts in a thread; without the raw files it fails.
Prepare(a) ==
    /\ pc[a] = "prepare"
    /\ \/ /\ raw /\ Goto(a, "save_prepared")
          /\ UNCHANGED <<root, done, active, snap>>
       \/ MarkRootFailed /\ Return(a)
    /\ UNCHANGED <<kid, raw, lock, mirror, cancel, executions, history>>

\* save_job(updated_job): the record read before the parsing is written back.
SavePrepared(a) ==
    /\ pc[a] = "save_prepared"
    /\ root' = snap[a] /\ Drop(a) /\ Goto(a, "recheck")
    /\ UNCHANGED <<active, kid, raw, done, lock, mirror, cancel, executions, history>>

\* latest_job is terminal, or is_cancel_requested answers True.
Recheck(a) ==
    /\ pc[a] = "recheck"
    /\ IF root.status \in Terminal \/ root.cancel_requested
       THEN MarkRootCancelled /\ Return(a)
       ELSE Goto(a, "lock") /\ UNCHANGED <<root, done, active, snap>>
    /\ UNCHANGED <<kid, raw, lock, mirror, cancel, executions, history>>

\* enqueue_child_job_once: the linked child is reused.
ReuseChild(a) ==
    /\ pc[a] = "lock" /\ lock = None /\ root.child_job_id
    /\ Goto(a, "delete_raw")
    /\ UNCHANGED <<root, active, kid, raw, done, lock, snap, mirror, cancel, executions, history>>

\* ParserChildEnqueueCancelled
ChildRefused(a) ==
    /\ pc[a] = "lock" /\ lock = None /\ ~root.child_job_id
    /\ root.status \in Terminal \/ root.cancel_requested
    /\ MarkRootCancelled /\ Return(a)
    /\ UNCHANGED <<kid, raw, lock, mirror, cancel, executions, history>>

\* Mutant of TakeLock: the section is entered whoever holds the lock.
TakeLockUnguarded(a) ==
    /\ pc[a] = "lock" /\ ~root.child_job_id
    /\ ~(root.status \in Terminal \/ root.cancel_requested)
    /\ lock' = a /\ Goto(a, "test")
    /\ UNCHANGED <<root, active, kid, raw, done, snap, mirror, cancel, executions, history>>

\* The root is neither linked nor ended: the lock is kept over the awaits below.
TakeLock(a) ==
    /\ pc[a] = "lock" /\ lock = None /\ ~root.child_job_id
    /\ ~(root.status \in Terminal \/ root.cancel_requested)
    /\ lock' = a /\ Goto(a, "test")
    /\ UNCHANGED <<root, active, kid, raw, done, snap, mirror, cancel, executions, history>>

\* get_job of the derived child id: a child that exists is linked, not pushed.
TestChild(a) ==
    /\ pc[a] = "test"
    /\ Goto(a, IF kid.status = "absent" THEN "push" ELSE "link")
    /\ UNCHANGED <<root, active, kid, raw, done, lock, snap, mirror, cancel, executions, history>>

\* enqueue_job(job_id_override=derived id): the record is written, whatever is
\* under its key, and its id is pushed.
PushChild(a) ==
    /\ pc[a] = "push"
    /\ kid' = NewKid /\ enqueues' = enqueues + 1 /\ Goto(a, "link")
    /\ UNCHANGED <<root, active, raw, done, lock, snap, mirror, cancel, executions, answered,
                   lapses, stops, stalled>>

Unlock(a) == lock' = IF lock = a THEN None ELSE lock

\* enqueue_job raises: the queue is saturated or the model is gone.
EnqueueFails(a) ==
    /\ pc[a] = "push"
    /\ Unlock(a) /\ MarkRootFailed /\ Return(a)
    /\ UNCHANGED <<kid, raw, mirror, cancel, executions, history>>

\* The root is read again, linked and saved; the release of a lock that has lapsed
\* meanwhile raises.
LinkChild(a) ==
    /\ pc[a] = "link"
    /\ root' = [root EXCEPT !.child_job_id = TRUE]
    /\ Unlock(a) /\ Goto(a, IF lock = a THEN "delete_raw" ELSE "lock_lost")
    /\ UNCHANGED <<active, kid, raw, done, snap, mirror, cancel, executions, history>>

\* An exception between the push of the child and the parking of the root.
HandoverFails(a) ==
    /\ pc[a] \in {"link", "lock_lost", "delete_raw"}
    /\ Unlock(a) /\ MarkRootFailed /\ Return(a)
    /\ UNCHANGED <<kid, raw, mirror, cancel, executions, history>>

\* delete_staged_raw_files, for a new child and for an adopted one
DeleteRaw(a) ==
    /\ pc[a] \in {"delete_raw", "adopt"}
    /\ raw' = FALSE /\ Goto(a, "wait_read")
    /\ UNCHANGED <<root, active, kid, done, lock, snap, mirror, cancel, executions, history>>

\* mark_job_waiting_on_child: get_job, save_job, then release and ZREM
WaitRead(a) ==
    /\ pc[a] = "wait_read"
    /\ Keep(a, [root EXCEPT !.child_job_id = TRUE]) /\ Goto(a, "wait_save")
    /\ UNCHANGED <<root, active, kid, raw, done, lock, mirror, cancel, executions, history>>

WaitSave(a) ==
    /\ pc[a] = "wait_save"
    /\ root' = snap[a] /\ Drop(a) /\ Goto(a, "wait_zrem")
    /\ UNCHANGED <<active, kid, raw, done, lock, mirror, cancel, executions, history>>

WaitZrem(a) ==
    /\ pc[a] = "wait_zrem"
    /\ active' = FALSE /\ Return(a)
    /\ UNCHANGED <<root, kid, raw, done, lock, mirror, cancel, executions, history>>

ProcessParserJob(a) ==
    \/ CheckCancelled(a) \/ ParserRefuses(a) \/ GetJob(a) \/ LinkedChild(a) \/ Prepare(a) \/ SavePrepared(a)
    \/ Recheck(a) \/ ReuseChild(a) \/ ChildRefused(a) \/ TakeLock(a) \/ TestChild(a)
    \/ PushChild(a) \/ EnqueueFails(a)
    \/ LinkChild(a) \/ HandoverFails(a) \/ DeleteRaw(a) \/ WaitRead(a) \/ WaitSave(a) \/ WaitZrem(a)

-----------------------------------------------------------------------------
(* The child and the mirroring of its end.                                 *)

\* An entry of the child is claimed.
KidRuns ==
    /\ kid.status = "queued" /\ kid' = [kid EXCEPT !.status = "running"]
    /\ executions' = executions + 1
    /\ UNCHANGED <<root, active, raw, done, lock, pc, snap, mirror, cancel, history>>

\* The worker of an execution ends the child, or the reaper gives it up; only the
\* cancelling looks at the record's status first.
KidEnds ==
    /\ executions > 0 /\ executions' = executions - 1
    /\ \/ EndKid("completed") \/ EndKid("failed")
       \/ kid.cancel_requested /\ kid.status \notin Terminal /\ EndKid("cancelled")
    /\ UNCHANGED <<root, active, raw, done, lock, pc, snap, cancel, enqueues, lapses, stops,
                   stalled>>

\* The root as it is saved with the end of the child.
Mirrored(status) ==
    mirror' = [mirror EXCEPT !.at = "save",
                             !.root = [root EXCEPT !.status = status, !.child_job_id = TRUE]]

\* Mutant of MirrorRead: the lifecycle stage is saved as the status.
MirrorReadStage ==
    /\ mirror.at = "read"
    /\ IF root.status \in Terminal THEN mirror' = Unmirrored ELSE Mirrored("child_completed")
    /\ UNCHANGED <<root, active, kid, raw, done, lock, pc, snap, cancel, executions, history>>

\* Mutant of MirrorRead: every end of the child completes the root.
MirrorReadCompleted ==
    /\ mirror.at = "read"
    /\ IF root.status \in Terminal THEN mirror' = Unmirrored ELSE Mirrored("completed")
    /\ UNCHANGED <<root, active, kid, raw, done, lock, pc, snap, cancel, executions, history>>

\* Mutant of MirrorRead: only a running root is mirrored, not a requeued one.
MirrorReadRunning ==
    /\ mirror.at = "read"
    /\ IF root.status # "running" THEN mirror' = Unmirrored ELSE Mirrored(mirror.end)
    /\ UNCHANGED <<root, active, kid, raw, done, lock, pc, snap, cancel, executions, history>>

\* _synthesize_root_terminal_state: a terminal root is left alone.
MirrorRead ==
    /\ mirror.at = "read"
    /\ IF root.status \in Terminal THEN mirror' = Unmirrored ELSE Mirrored(mirror.end)
    /\ UNCHANGED <<root, active, kid, raw, done, lock, pc, snap, cancel, executions, history>>

MirrorSave ==
    /\ mirror.at = "save"
    /\ root' = mirror.root /\ mirror' = [Unmirrored EXCEPT !.at = "event"]
    /\ UNCHANGED <<active, kid, raw, done, lock, pc, snap, cancel, executions, history>>

MirrorEvent ==
    /\ mirror.at = "event"
    /\ done' = TRUE /\ mirror' = Unmirrored
    /\ UNCHANGED <<root, active, kid, raw, lock, pc, snap, cancel, executions, history>>

Mirror == MirrorRead \/ MirrorSave \/ MirrorEvent

-----------------------------------------------------------------------------
(* cancel_job(root) and _propagate_cancel_to_linked_child                  *)

CancelRead ==
    /\ Faults < MaxFaults /\ cancel.at = "idle"
    /\ cancel' = IF root.status \in Terminal THEN [cancel EXCEPT !.at = "over"]
                 ELSE [at |-> "branch", root |-> root]
    /\ UNCHANGED <<root, active, kid, raw, done, lock, pc, snap, mirror, executions, history>>

\* A queued root is taken off the pending list and marked.
CancelQueuedRoot ==
    /\ cancel.root.status = "queued"
    /\ MarkRootCancelled /\ UNCHANGED <<kid, mirror, answered>>

\* A child that waits is marked, a running one gets the flag.
CancelChild ==
    /\ cancel.root.status = "running" /\ cancel.root.child_job_id
    /\ \/ kid.status = "queued" /\ EndKid("cancelled")
       \/ kid.status = "running" /\ kid' = [kid EXCEPT !.cancel_requested = TRUE]
          /\ UNCHANGED <<mirror, answered>>
    /\ UNCHANGED <<root, done, active>>

\* Otherwise the root that was read is saved with the flag.
CancelFlag ==
    /\ cancel.root.status = "running"
    /\ cancel.root.child_job_id => kid.status \in Terminal
    /\ root' = [cancel.root EXCEPT !.cancel_requested = TRUE]
    /\ UNCHANGED <<kid, mirror, done, active, answered>>

CancelBranch ==
    /\ cancel.at = "branch"
    /\ CancelQueuedRoot \/ CancelChild \/ CancelFlag
    /\ cancel' = [at |-> "over", root |-> NewRoot]
    /\ UNCHANGED <<raw, lock, pc, snap, executions, enqueues, lapses, stops, stalled>>

-----------------------------------------------------------------------------
(* Failures: the coroutines of a process are gone and its lock expires; the *)
(* lock expires under a live holder.                                        *)

ParserStops(a) ==
    /\ Faults < MaxFaults /\ pc[a] # "idle"
    /\ stops' = [stops EXCEPT !.parser = @ + 1]
    /\ Unlock(a) /\ Return(a)
    /\ UNCHANGED <<root, active, kid, raw, done, mirror, cancel, executions, enqueues, answered,
                   lapses, stalled>>

ChildWorkerStops ==
    /\ Faults < MaxFaults /\ mirror.at # "idle"
    /\ stops' = [stops EXCEPT !.child = @ + 1]
    /\ mirror' = Unmirrored
    /\ UNCHANGED <<root, active, kid, raw, done, lock, pc, snap, cancel, executions, enqueues,
                   answered, lapses, stalled>>

\* job_lock, timeout=5: the section takes longer than the lock lives.
LockLapses ==
    /\ Faults < MaxFaults /\ lock # None
    /\ lock' = None /\ lapses' = lapses + 1
    /\ UNCHANGED <<root, active, kid, raw, done, pc, snap, mirror, cancel, executions, enqueues,
                   answered, stops, stalled>>

-----------------------------------------------------------------------------
Next ==
    \/ \E a \in Attempts : ClaimRoot(a) \/ ProcessParserJob(a) \/ ParserStops(a)
    \/ RequeueRoot \/ ForgetRoot
    \/ KidRuns \/ KidEnds \/ Mirror
    \/ CancelRead \/ CancelBranch
    \/ ChildWorkerStops \/ LockLapses

Spec == Init /\ [][Next]_vars

\* The scheduler and the workers keep running (docker restarts them), a lease
\* without an owner ends by the clock, every awaited call returns.
Fairness ==
    /\ WF_vars(\E a \in Attempts : ClaimRoot(a))
    /\ \A a \in Attempts : WF_vars(ProcessParserJob(a))
    /\ WF_vars((\A a \in Attempts : pc[a] = "idle") /\ RequeueRoot)
    /\ WF_vars(KidRuns) /\ WF_vars(KidEnds) /\ WF_vars(Mirror)
    /\ WF_vars(CancelBranch)

FairSpec == Spec /\ Fairness

-----------------------------------------------------------------------------
(* Properties.                                                             *)

\* enqueue_child_job_once pushes one child for a root, over all replays, stalled
\* attempts and failures of the parser, and at most one more for each time the job
\* lock lapsed under its holder: the lock, the derived child id and the test of it
\* stand between two coroutines that work on the same root.
OneChild == enqueues <= 1 + lapses

\* The raw files are deleted only after a child that no longer needs them was
\* enqueued: a replay after a failure can still parse them.
RawKeptForReplay == ~raw => enqueues > 0

\* A root is completed only by an execution of its child that completed: no stale
\* save of the root, no replay, no second push and no cancel makes it look answered
\* when it was not.
CompletedByChild == root.status = "completed" => answered

\* The browser's stream on the root ends, however often the parser stops.  A
\* cancel, a stop of the child's process, a lease or a lock that lapses under a
\* live parser may leave it open (see the README).
Disturbed == cancel.at # "idle" \/ stops.child > 0 \/ stalled \/ lapses > 0
RootStreamEnds == <>(done \/ root.status \in Terminal \/ Disturbed)

=============================================================================
