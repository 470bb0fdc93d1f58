----------------------------- MODULE Admission -----------------------------
(***************************************************************************)
(* Queue limits, placement and the admission arithmetic of                 *)
(* src/llm_gateway.py and src/scheduler.py, with the numbers of            *)
(* src/config.py.  JobControl treats "the target has room" as one bit;     *)
(* here it is computed: model profiles, token shares, memory gates, the    *)
(* two CPU overrides, warm models, the order of the queues and of the      *)
(* targets, and the depth of the queue against its dynamic limit.          *)
(*                                                                         *)
(* A job's path after admission is reduced to the steps that move its      *)
(* reservation: its end, its requeue, the expiry of its record, and what a *)
(* worker or a dispatch entry does to it after its lease has lapsed.  The  *)
(* scheduler works on the target records and the candidates it has read at *)
(* the start of a pass, while heartbeats, ends and arrivals go on.         *)
(***************************************************************************)
EXTENDS Integers, Sequences, FiniteSets, FiniteSetsExt, SequencesExt

CONSTANTS
    Submissions,   \* [class, model] of the jobs, in the order they arrive
    Requests,      \* web requests that may be enqueueing at the same time
    Models, SizeMb,          \* the catalogue: size of each model
    CpuTargets, GpuTargets,  \* target ids by kind, numbered in their order
    Cpus, TotalMb, \* cpu_count and ram_total_mb of the CPU targets
    FreeMb,        \* values of ram_free_mb and vram_free_mb
    ScanDepth,     \* SCHEDULER_QUEUE_SCAN_DEPTH
    MinDepth, QueueFactor, WorkerWeight,   \* SCHEDULER_* of the queue limit
    MaxRetries,    \* SCHEDULER_MAX_JOB_RETRIES
    MaxChanges,    \* bound: heartbeats that report something new, stops in a handler
    None

Targets == CpuTargets \cup GpuTargets
Jobs == DOMAIN Submissions
Class(j) == Submissions[j].class
Model(j) == Submissions[j].model
Kinds == {"cpu", "gpu"}
Classes == {"siem", "chat", "parse", "batch"}

ASSUME AdmissionAssumption ==
    /\ Submissions \in Seq([class : Classes, model : Models])
    /\ IsFiniteSet(Requests) /\ Requests # {}
    /\ SizeMb \in [Models -> Nat] /\ Cpus \in Nat \ {0} /\ TotalMb \in Nat
    /\ FreeMb \subseteq Nat /\ IsFiniteSet(FreeMb) /\ FreeMb # {}
    /\ Targets \subseteq Nat /\ IsFiniteSet(Targets) /\ None \notin Targets
    /\ CpuTargets \cap GpuTargets = {} /\ ScanDepth \in Nat \ {0}
    /\ MinDepth \in Nat /\ QueueFactor \in Nat /\ WorkerWeight \in Nat
    /\ MaxRetries \in Nat /\ MaxChanges \in Nat

VARIABLES
    pending,    \* the pending list of each class
    job,        \* the record of each job: status, kind, retries, place and reservation
    usage,      \* target_usage_key of each target
    refs,       \* target_models_key of each target
    record,     \* the last heartbeat of each target: free memory, loaded models
    alive,      \* targets with a live heartbeat and live workers
    arriving,   \* the jobs that have passed the saturation test of enqueue_job
    arrived,    \* number of jobs whose requests have come in
    pass,       \* the candidates left of the scheduler's pass, in order
    snapshot,   \* the target records that the pass works with
    changes,
    late,       \* executions and dispatch entries of a job on a target that outlived its lease
    calm,       \* history: nothing but the scheduler has run since its pass began
    back,       \* history: jobs that have been put back into a list
    broken      \* history: targets with a reservation released twice or never

vars == <<pending, job, usage, refs, record, alive, arriving, arrived, pass, snapshot, changes,
          late, calm, back, broken>>

Kind(t) == IF t \in GpuTargets THEN "gpu" ELSE "cpu"

------------------------------------------------------------------------------
(* build_model_profile, with the numbers of config.py. *)

AtLeast(n, x) == IF x < n THEN n ELSE x
AtMost(n, x) == IF x > n THEN n ELSE x
CeilDiv(a, b) == (a + b - 1) \div b
KvCacheMb == CeilDiv((4096 + 1024) * 96, 1000)
OverheadMb(kind) == IF kind = "gpu" THEN 768 ELSE 512
RunMb == [kind \in Kinds |-> KvCacheMb + OverheadMb(kind)]
WeightsMb ==
    [m \in Models |-> [kind \in Kinds |->
        LET percent == IF kind = "gpu" THEN 110 ELSE 135
        IN  Max({256, CeilDiv(Max({256, SizeMb[m]}) * percent, 100)})]]
TokenCost ==
    [m \in Models |-> [kind \in Kinds |->
        Max({1, CeilDiv(WeightsMb[m][kind] + RunMb[kind], 512)})]]

------------------------------------------------------------------------------
(* collect_target_report: what a heartbeat says of a target.  `busy` is the   *)
(* load at which jobs are shed; a CPU target that is not busy is idle.        *)

Usable(t, free) == AtLeast(0, free - (IF t \in GpuTargets THEN 2048 + 1024 ELSE 4096))

BaseTokens(t, free, busy) ==
    LET tokens == Usable(t, free) \div 512
        cpuTokens == AtMost(Cpus, IF busy THEN tokens \div 4 ELSE tokens)
    IN  IF t \in GpuTargets THEN AtLeast(1, tokens)
        ELSE AtLeast(IF TotalMb >= 12 * 1024 THEN 8 ELSE 1, cpuTokens)

Report(t, free, loaded, busy) ==
    [free |-> free, loaded |-> loaded, busy |-> busy, base |-> BaseTokens(t, free, busy)]

------------------------------------------------------------------------------
(* _evaluate_target_admission for a job of class c and model m, of the kind *)
(* of t, against the heartbeat h and the usage u of t.                      *)

Idle(u) == u.active = 0 /\ u.tokens = 0

SingleSlot(t, cost, h, u) == t \in CpuTargets /\ Idle(u) /\ cost > h.base

Effective(t, cost, h, u) == IF SingleSlot(t, cost, h, u) THEN cost ELSE h.base

ChatCap(tokens) == AtLeast(1, tokens \div 2)
SiemCap(tokens) == tokens \div 4

\* What chat and siem have not used of their shares is kept from batch jobs;
\* siem may borrow what chat does not protect.
ShareAllowsAnySiem(c, cost, e, u) ==
    /\ u.tokens + cost <= e
    /\ c = "batch" => AtLeast(0, e - u.tokens - (AtLeast(0, ChatCap(e) - u.chat)
                                                  + AtLeast(0, SiemCap(e) - u.siem))) >= cost
ShareAllowsForgettingCost(c, cost, e, u) ==
    /\ u.tokens <= e
    /\ c = "batch" => AtLeast(0, e - u.tokens - AtLeast(0, ChatCap(e) - u.chat)) >= cost
ShareAllows(c, cost, e, u) ==
    LET chatUnused == AtLeast(0, ChatCap(e) - u.chat)
        siemUnused == AtLeast(0, SiemCap(e) - u.siem)
    IN  /\ u.tokens + cost <= e
        /\ c = "batch" => AtLeast(0, e - u.tokens - (chatUnused + siemUnused)) >= cost
        /\ c = "siem" => \/ u.siem + cost <= SiemCap(e)
                         \/ AtLeast(0, e - u.tokens - chatUnused) >= cost

ParallelLimit(t, h) ==
    LET fits == Usable(t, h.free) \div AtLeast(512, RunMb[Kind(t)])
    IN  AtLeast(1, IF t \in GpuTargets THEN fits ELSE AtMost(Cpus, fits))

Warm(t, m, h) == m \in h.loaded \/ refs[t][m] > 0
RequiredMb(t, m, h) == RunMb[Kind(t)] + (IF Warm(t, m, h) THEN 0 ELSE WeightsMb[m][Kind(t)])

ColdStart(t, c, m, h, u) ==
    /\ t \in CpuTargets /\ c = "chat"
    /\ Idle(u) /\ u.mem = 0
    /\ ~Warm(t, m, h) /\ Usable(t, h.free) > 0

MemoryAllows(t, c, m, h, u) ==
    /\ u.active < ParallelLimit(t, h)
    /\ \/ Usable(t, h.free) - u.mem >= RequiredMb(t, m, h)
       \/ ColdStart(t, c, m, h, u)
    /\ ~(t \in CpuTargets /\ h.busy /\ u.active > 0)

Admits(t, kind, c, m, h, u) ==
    LET cost == TokenCost[m][Kind(t)]
    IN  /\ kind = Kind(t)
        /\ ShareAllows(c, cost, Effective(t, cost, h, u), u)
        /\ MemoryAllows(t, c, m, h, u)

------------------------------------------------------------------------------
(* enqueue_job *)

TotalPending == Len(pending["siem"]) + Len(pending["chat"]) + Len(pending["parse"])
                + Len(pending["batch"])
LiveTokens == SumFunctionOnSet([t \in Targets |-> record[t].base], alive)
DynamicLimit == AtLeast(MinDepth, LiveTokens * QueueFactor + Cardinality(alive) * WorkerWeight)

SaturatedLate == TotalPending > DynamicLimit
Saturated == TotalPending >= DynamicLimit

HasGpuWorker == alive \cap GpuTargets # {}
RoutedKind == IF HasGpuWorker THEN "gpu" ELSE "cpu"     \* resolve_target_kind
DowngradedKindNever(j) == job[j].kind
DowngradedKind(j) == IF HasGpuWorker THEN job[j].kind ELSE "cpu"

NoUsage == [tokens |-> 0, chat |-> 0, siem |-> 0, batch |-> 0, parse |-> 0, mem |-> 0, active |-> 0]
NewJob == [status |-> "none", kind |-> "cpu", retries |-> 0, on |-> None, tokens |-> 0, mem |-> 0]
QueuedJob(kind) == [NewJob EXCEPT !.status = "queued", !.kind = kind]

Init ==
    /\ pending = [c \in Classes |-> <<>>]
    /\ job = [j \in Jobs |-> NewJob]
    /\ usage = [t \in Targets |-> NoUsage]
    /\ refs = [t \in Targets |-> [m \in Models |-> 0]]
    /\ record = [t \in Targets |-> Report(t, Max(FreeMb), {}, FALSE)]
    /\ alive = Targets
    /\ arriving = {} /\ arrived = 0
    /\ pass = <<>> /\ snapshot = <<>>
    /\ changes = 0 /\ late = [j \in Jobs |-> [t \in Targets |-> 0]]
    /\ calm = FALSE /\ back = {} /\ broken = {}

\* The saturation test and the push are separate commands.
EnqueueTest ==
    /\ arrived < Len(Submissions) /\ Cardinality(arriving) < Cardinality(Requests)
    /\ arrived' = arrived + 1
    /\ arriving' = IF Saturated THEN arriving ELSE arriving \cup {arrived'}
    /\ job' = [job EXCEPT ![arrived'].status = IF Saturated THEN "rejected" ELSE "none"]
    /\ calm' = FALSE
    /\ UNCHANGED <<pending, usage, refs, record, alive, pass, snapshot, changes, late, back, broken>>

EnqueuePush(j) ==
    /\ j \in arriving
    /\ arriving' = arriving \ {j}
    /\ job' = [job EXCEPT ![j] = QueuedJob(RoutedKind)]
    /\ pending' = [pending EXCEPT ![Class(j)] = Append(@, j)]
    /\ calm' = FALSE
    /\ UNCHANGED <<usage, refs, record, alive, arrived, pass, snapshot, changes, late, back, broken>>

------------------------------------------------------------------------------
(* The scheduler. *)

\* list_pending_candidates: the first entries of every list, if still queued.
Window(c) == SubSeq(pending[c], 1, AtMost(ScanDepth, Len(pending[c])))

Queued(s) ==
    LET taken[n \in 0 .. Len(s)] ==
            IF n = 0 THEN <<>>
            ELSE IF job[s[n]].status = "queued" THEN Append(taken[n - 1], s[n])
            ELSE taken[n - 1]
    IN  taken[Len(s)]
Candidates == Queued(Window("siem")) \o Queued(Window("chat"))
              \o Queued(Window("parse")) \o Queued(Window("batch"))

SchedulerScan ==
    /\ pass = <<>> /\ alive # {} /\ Candidates # <<>>
    /\ pass' = Candidates
    /\ snapshot' = [t \in alive |-> record[t]]
    /\ calm' = TRUE
    /\ UNCHANGED <<pending, job, usage, refs, record, alive, arriving, arrived, changes, late, back,
                   broken>>

\* pick_target: loaded models first, then few jobs, then much memory; the kind
\* of the job plays no part.
Score(t, m) == <<IF m \in snapshot[t].loaded THEN 0 ELSE 1, usage[t].active,
                 -snapshot[t].free, t>>
Less(a, b) == \E k \in DOMAIN a : a[k] < b[k] /\ \A i \in 1 .. (k - 1) : a[i] = b[i]
PickTarget(m) == CHOOSE t \in DOMAIN snapshot :
                    \A o \in DOMAIN snapshot \ {t} : Less(Score(t, m), Score(o, m))

Reserve(u, c, tokens, mem) ==
    [u EXCEPT !.tokens = @ + tokens, ![c] = @ + tokens, !.mem = @ + mem, !.active = @ + 1]

\* try_admit_job under the lock of the target, up to the transaction that reserves.
Admissible(j, t) ==
    /\ job[j].status = "queued"
    /\ Admits(t, DowngradedKind(j), Class(j), Model(j), snapshot[t], usage[t])
    /\ Contains(pending[Class(j)], j)     \* LREM
Cost(j, t) == TokenCost[Model(j)][Kind(t)]
Mem(j, t) == RequiredMb(t, Model(j), snapshot[t])
Charge(j, t) ==
    /\ pending' = [pending EXCEPT ![Class(j)] = RemoveFirst(@, j)]
    /\ usage' = [usage EXCEPT ![t] = Reserve(@, Class(j), Cost(j, t), Mem(j, t))]
    /\ refs' = [refs EXCEPT ![t][Model(j)] = @ + 1]

Consider ==
    /\ pass # <<>>
    /\ pass' = Tail(pass)
    /\ LET j == Head(pass)
           t == PickTarget(Model(j))
       IN  IF Admissible(j, t)
           THEN /\ Charge(j, t)
                /\ job' = [job EXCEPT ![j] = [@ EXCEPT !.status = "admitted",
                                                !.kind = DowngradedKind(j), !.on = t,
                                                !.tokens = Cost(j, t), !.mem = Mem(j, t)]]
           ELSE /\ job' = IF job[j].status = "queued"
                          THEN [job EXCEPT ![j].kind = DowngradedKind(j)] ELSE job
                /\ UNCHANGED <<pending, usage, refs>>
    /\ UNCHANGED <<record, alive, arriving, arrived, snapshot, changes, late, calm, back, broken>>

\* The scheduler stops after the transaction and before the record is saved: the
\* reservation belongs to nobody, and the rest of the pass is forgotten.
ConsiderCut ==
    /\ pass # <<>> /\ changes < MaxChanges
    /\ LET j == Head(pass)
           t == PickTarget(Model(j))
       IN  /\ Admissible(j, t)
           /\ Charge(j, t)
           /\ job' = [job EXCEPT ![j].kind = DowngradedKind(j)]
           /\ broken' = broken \cup {t}
    /\ pass' = <<>>
    /\ changes' = changes + 1
    /\ calm' = FALSE
    /\ UNCHANGED <<record, alive, arriving, arrived, snapshot, late, back>>

------------------------------------------------------------------------------
(* The rest of a job's life, and the targets. *)

\* _release_reserved_capacity: what the record says, never below zero; a record
\* without a target has nothing to release.
GiveBack(u, c, tokens, mem) ==
    [u EXCEPT !.tokens = AtLeast(0, @ - tokens), ![c] = AtLeast(0, @ - tokens),
              !.mem = AtLeast(0, @ - mem), !.active = AtLeast(0, @ - 1)]
Release(j) ==
    IF job[j].on = None THEN UNCHANGED <<usage, refs>>
    ELSE /\ usage' = [usage EXCEPT ![job[j].on] = GiveBack(@, Class(j), job[j].tokens, job[j].mem)]
         /\ refs' = [refs EXCEPT ![job[j].on][Model(j)] = AtLeast(0, @ - 1)]

\* An ended record keeps its reservation, and no release looks at the status.
Twice(j) == broken' = IF job[j].status = "done" THEN broken \cup {job[j].on} ELSE broken

EndedRecord(j) == [job[j] EXCEPT !.status = "done"]
Finish(j) ==
    /\ job[j].status = "admitted"
    /\ job' = [job EXCEPT ![j] = EndedRecord(j)]
    /\ Release(j)
    /\ calm' = FALSE
    /\ UNCHANGED <<pending, record, alive, arriving, arrived, pass, snapshot, changes, late, back,
                   broken>>

\* The process stops after the terminal save: the reservation is not released.
FinishCut(j) ==
    /\ job[j].status = "admitted" /\ changes < MaxChanges
    /\ job' = [job EXCEPT ![j] = EndedRecord(j)]
    /\ broken' = broken \cup {job[j].on}
    /\ changes' = changes + 1
    /\ calm' = FALSE
    /\ UNCHANGED <<pending, usage, refs, record, alive, arriving, arrived, pass, snapshot, late, back>>

\* The late execution on t goes; the one that an admitted record stands for becomes late.
LateGoes(j, t) ==
    LET rest == [late[j] EXCEPT ![t] = @ - 1]
    IN  [late EXCEPT ![j] = IF job[j].status = "admitted"
                            THEN [rest EXCEPT ![job[j].on] = @ + 1] ELSE rest]

\* mark_job_completed and mark_job_failed by a worker whose lease had lapsed, on
\* the record as it is now: waiting, admitted again or ended by another worker.
LateEnd(j, t) ==
    /\ late[j][t] > 0 /\ job[j].status \in {"queued", "admitted", "done"}
    /\ job' = [job EXCEPT ![j] = EndedRecord(j)]
    /\ Release(j)
    /\ Twice(j)
    /\ late' = LateGoes(j, t)
    /\ calm' = FALSE
    /\ UNCHANGED <<pending, record, alive, arriving, arrived, pass, snapshot, changes, back>>

RequeuedRecordKeepingPlace(j, retries) ==
    [job[j] EXCEPT !.status = "queued", !.kind = DowngradedKind(j), !.retries = retries]
RequeuedRecord(j, retries) == [QueuedJob(DowngradedKind(j)) EXCEPT !.retries = retries]

\* claim_dispatch_job takes a late entry of a target whose kind is no longer that
\* of the job: the record, whatever its status, is released and queued again.
ClaimMismatch(j, t) ==
    /\ late[j][t] > 0 /\ job[j].status \in {"queued", "admitted", "done"}
    /\ job[j].kind # Kind(t)
    /\ job' = [job EXCEPT ![j] = RequeuedRecord(j, job[j].retries)]
    /\ pending' = [pending EXCEPT ![Class(j)] = Append(@, j)]
    /\ Release(j)
    /\ Twice(j)
    /\ late' = LateGoes(j, t)
    /\ back' = back \cup {j}
    /\ calm' = FALSE
    /\ UNCHANGED <<record, alive, arriving, arrived, pass, snapshot, changes>>

MayRetry(j) == job[j].retries < MaxRetries

\* The execution on t whose lease lapses: the admitted one, or a late one that has
\* made the record running again.  Its worker has stopped, or lives on.
Lapses(j, t, lives) ==
    \/ /\ job[j].status = "admitted" /\ job[j].on = t
       /\ late' = IF lives THEN [late EXCEPT ![j][t] = @ + 1] ELSE late
    \/ /\ job[j].status \in {"queued", "done"} /\ late[j][t] > 0 /\ job[j].kind = Kind(t)
       /\ late' = IF lives THEN late ELSE [late EXCEPT ![j][t] = @ - 1]

\* requeue_stale_jobs gives a stale job back to its list, whatever its length; a
\* job out of retries ends (Finish, LateEnd).
Requeue(j, t, lives) ==
    /\ MayRetry(j) /\ Lapses(j, t, lives)
    /\ job' = [job EXCEPT ![j] = RequeuedRecord(j, job[j].retries + 1)]
    /\ pending' = [pending EXCEPT ![Class(j)] = Append(@, j)]
    /\ Release(j)
    /\ Twice(j)
    /\ back' = back \cup {j}
    /\ calm' = FALSE
    /\ UNCHANGED <<record, alive, arriving, arrived, pass, snapshot, changes>>

\* The process stops in a requeue after the release: the record keeps what it has
\* given back.
RequeueCut(j) ==
    /\ job[j].status = "admitted" /\ changes < MaxChanges
    /\ Release(j)
    /\ broken' = broken \cup {job[j].on}
    /\ changes' = changes + 1
    /\ calm' = FALSE
    /\ UNCHANGED <<pending, job, record, alive, arriving, arrived, pass, snapshot, late, back>>

\* The record outlives LLM_JOB_TTL_SECONDS; its id stays in the list, and the
\* reservation of an admitted job, which requeue_stale_jobs does not find, is lost.
RecordExpires(j) ==
    /\ job[j].status \in {"queued", "admitted"}
    /\ job' = [job EXCEPT ![j].status = "gone"]
    /\ broken' = IF job[j].status = "admitted" THEN broken \cup {job[j].on} ELSE broken
    /\ calm' = FALSE
    /\ UNCHANGED <<pending, usage, refs, record, alive, arriving, arrived, pass, snapshot, changes,
                   late, back>>

Heartbeat(t, free, loaded, busy) ==
    /\ changes < MaxChanges /\ t \in alive
    /\ record' = [record EXCEPT ![t] = Report(t, free, loaded, busy)]
    /\ record' # record
    /\ changes' = changes + 1
    /\ calm' = FALSE
    /\ UNCHANGED <<pending, job, usage, refs, alive, arriving, arrived, pass, snapshot, late, back,
                   broken>>

HeartbeatExpires(t) ==
    /\ changes < MaxChanges /\ t \in alive
    /\ alive' = alive \ {t}
    /\ changes' = changes + 1
    /\ calm' = FALSE
    /\ UNCHANGED <<pending, job, usage, refs, record, arriving, arrived, pass, snapshot, late, back,
                   broken>>

TargetReturns(t) ==
    /\ t \notin alive
    /\ alive' = alive \cup {t}
    /\ calm' = FALSE
    /\ UNCHANGED <<pending, job, usage, refs, record, arriving, arrived, pass, snapshot, changes,
                   late, back, broken>>

Loadable(t) == SUBSET (record[t].loaded \cup {m \in Models : refs[t][m] > 0})

Next ==
    \/ EnqueueTest \/ SchedulerScan \/ Consider \/ ConsiderCut
    \/ \E j \in Jobs : EnqueuePush(j) \/ Finish(j) \/ FinishCut(j) \/ RequeueCut(j) \/ RecordExpires(j)
    \/ \E j \in Jobs, t \in Targets : LateEnd(j, t) \/ ClaimMismatch(j, t)
    \/ \E j \in Jobs, t \in Targets, lives \in BOOLEAN : Requeue(j, t, lives)
    \/ \E t \in Targets : HeartbeatExpires(t) \/ TargetReturns(t)
    \/ \E t \in Targets : \E free \in FreeMb, loaded \in Loadable(t), busy \in BOOLEAN :
          Heartbeat(t, free, loaded, busy)

Spec == Init /\ [][Next]_vars

------------------------------------------------------------------------------
(* Properties. *)

On(t) == {j \in Jobs : job[j].status = "admitted" /\ job[j].on = t}
Tokens == [j \in Jobs |-> job[j].tokens]
Memory == [j \in Jobs |-> job[j].mem]

\* What is reserved on a target is exactly what the admitted jobs on it have
\* reserved, class by class, across ends, requeues, late ends of jobs that are
\* admitted again and the clamping of negative counters; a model's reference count
\* is the number of jobs that run it.  Only a target on which an ended record was
\* released once more, a record expired in use, or a process stopped between a
\* reservation or a release and the save beside it, may differ.
LedgerExact ==
    \A t \in Targets \ broken :
        /\ \A c \in Classes :
              usage[t][c] = SumFunctionOnSet(Tokens, {j \in On(t) : Class(j) = c})
        /\ usage[t].tokens = SumFunctionOnSet(Tokens, On(t))
        /\ usage[t].mem = SumFunctionOnSet(Memory, On(t))
        /\ usage[t].active = Cardinality(On(t))
        /\ \A m \in Models : refs[t][m] = Cardinality({j \in On(t) : Model(j) = m})

\* The largest capacity that a target can report.
MaxBase(t) == Max({BaseTokens(t, free, FALSE) : free \in FreeMb})

\* However the reported capacities vary while jobs come and go, and whatever is
\* released twice or lost, a target never has more tokens reserved than the most
\* it has reported, except a CPU target with a single job on its counter
\* (cpu_single_slot_override).
TokensWithinCapacity ==
    \A t \in Targets :
        usage[t].tokens > MaxBase(t) => t \in CpuTargets /\ usage[t].active <= 1

\* However jobs arrive and end, siem and batch jobs together never hold a token
\* of the chat share, and batch jobs none of the siem share either
\* (SCHEDULER_CHAT_RESERVED_RATIO, SCHEDULER_SIEM_RESERVED_RATIO), up to the one
\* token by which the rounding of the shares of two capacities can differ.  (A
\* second release of a chat job takes tokens off the total that no class gave, so
\* a target with such a release is exempt.)
SharesProtected ==
    \A t \in Targets \ broken :
        LET most == MaxBase(t)
        IN  /\ usage[t].siem + usage[t].batch <= most - ChatCap(most) + 1
            /\ usage[t].batch <= most - ChatCap(most) - SiemCap(most) + 1

\* Requests that test the queue at the same time exceed its limit by at most one
\* job each; only jobs that were put back, by the reaper or by a worker of the
\* wrong kind, come on top.
FullLimit == AtLeast(MinDepth, SumFunctionOnSet([t \in Targets |-> MaxBase(t)], Targets) * QueueFactor
                                 + Cardinality(Targets) * WorkerWeight)
QueueBound ==
    Cardinality({j \in Jobs \ back : \E c \in Classes : j \in ToSet(pending[c])})
        <= FullLimit + Cardinality(Requests) - 1

\* A complete pass of the scheduler over idle targets, with nothing beside it,
\* admits a job if one is queued within the scan window that every live target
\* would take: no set of queued jobs keeps the idle cluster idle.  (With a target
\* of another kind ranked first, or with ScanDepth expired ids before the job,
\* the code gives no such guarantee.)
Hope(j) ==
    /\ job[j].status = "queued"
    /\ \E k \in 1 .. AtMost(ScanDepth, Len(pending[Class(j)])) : pending[Class(j)][k] = j
    /\ \A t \in alive : /\ HasGpuWorker => job[j].kind = Kind(t)
                       /\ Admits(t, Kind(t), Class(j), Model(j), record[t], usage[t])
PassMakesProgress ==
    calm /\ pass = <<>> /\ (\A t \in Targets : Idle(usage[t])) => \A j \in Jobs : ~Hope(j)

=============================================================================
