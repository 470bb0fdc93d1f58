# TLA+ verification of the corporate AI assistant

This directory holds TLA+ models of the assistant (its job control plane,
admission, conversations, sessions, model access and text budgets), the TLC
configurations that check them on small instances, and TLAPS proofs for all
instances. `PROJECT.json` is the machine-readable index: which definition models
which lines, which run checks what, which mutant of the code each property
catches, which hazards the code has.

## 1. The system

A FastAPI application (`app.py`) signs users in, accepts chat messages and file
uploads, turns each into a *job* in Redis and streams the answer to the browser. A
scheduler process admits jobs to inference targets; worker processes claim
admitted jobs and call Ollama. File chats go through a parser worker first.
Conversations are kept in Redis and copied to PostgreSQL. Everything that the
processes share is in Redis, and every Redis command is an `await`, so every pair
of commands can be separated by other coroutines and processes.

| Component | State | Operations | Interacts with | Module |
|---|---|---|---|---|
| Gateway, `llm_gateway.LLMGateway` | job records (TTL), pending and dispatch lists, processing lists, `ACTIVE_JOBS_ZSET` with leases, usage hashes, heartbeat keys | `enqueue_job`, `cancel_job`, `try_admit_job`, `claim_dispatch_job`, `renew_job_lease`, `requeue_stale_jobs`, `mark_job_*` | called by all processes | JobControl, JobSteps |
| Admission and queue limits, `_evaluate_target_admission`, `enqueue_job`, `pick_target` | usage hashes and model reference counts per target, target records | token, VRAM and RAM reservations, workload shares, saturation test, ranking | gateway, scheduler, worker heartbeats | Admission |
| Scheduler, `scheduler.py` | none of its own | admission loop, reaper loop, heartbeat loop | gateway | JobControl, JobSteps, Admission |
| Worker, `worker.py` | `active_tasks` | claim loop, `process_job`, lease loop, heartbeat and catalogue loop, shutdown | gateway, Ollama, conversation writer | JobControl, JobSteps, Conversation, ModelAccess |
| Parser stage, `parser_stage.py` and `_process_parser_job` | staging area, root and child record | parse, `enqueue_child_job_once`, `mark_job_waiting_on_child`, mirroring of the child's end | gateway, file system | ParserChild, Budgets |
| Event streams | one Redis stream per job | `emit_event`, `_append_event`, `stream_events` | browser | JobSteps, ParserChild |
| Context governance | none | `apply_history_budget`, `apply_total_prompt_budget`, `apply_document_budget` | app, parser, worker | Budgets |
| Model access and catalogue, `auth_kerberos.py`, `config.py` | policy and registry files, `llm:model_catalog`, the model in the session | resolution at login, chat and switch; refresh by app and worker | Ollama, sessions | ModelAccess |
| Chat store, `AsyncChatStore` | thread lists, thread registry, list of the old layout | append, restore, clear, list, legacy migration | app, worker | Conversation, ChatLog |
| Dual write, `persistence/` | PostgreSQL threads and messages | mirror of every Redis write, parity test, read cutover, offline migration | app, worker | Conversation, ChatLog |
| Sessions and sign-in, `auth_kerberos.py`, `sso_proxy_auth.py` | cookies, revocation keys, ticket caches | password and SSO login, refresh, switch, logout | Kerberos, LDAP, Redis | Sessions |
| Rate limiter, `AsyncRateLimiter` | sorted set per key | sliding window | app | Sessions |
| Local administrator, `local_admin_security.py` | one account key in Redis, the environment, session revisions | login, forced rotation, change, logout, dashboard guard | Redis | LocalAdmin |
| Dashboard telemetry, health checks | none | read-only aggregation | Redis | – |
| Browser client, `static/js` | threads, streams | rendering | app | – |

What is hard here: records are read, changed in memory and written back as a
whole without a lock or a compare-and-set; a job's end is four or more Redis
commands; any process may stop between two of them; a lease may lapse under a
live worker, so that two workers run the same job; lists are not cleaned when
the job they name is failed or cancelled; records expire while lists still name
them; the scheduler works with target records read at the start of a pass; the
two copies of a conversation are written one after the other by three processes;
tokens are checked against keys that expire on another clock; the account of the
administrator is read and written in two commands. `PROJECT.json` lists each
hazard at its line.

What makes each part correct:

* job control: a job is not lost and its capacity not kept, outside the windows
  that section 4 lists; it is not replayed without bound, and runs twice at once
  only as a counted retry; every job settles;
* event streams: the end is announced after it is recorded, and every stream ends;
* parser stage: one child per root while the job lock holds, files kept until the
  child exists, the root completes only by its child;
* admission: the usage hashes are an exact ledger of what is reserved as long as
  every reservation is released once, within the capacity always and within the
  shares of the classes; the queue limit holds up to the racing requests and the
  jobs put back; an idle cluster does not stay idle;
* chat store and dual write: users see one bounded log per thread whichever copy
  serves it; both copies agree at rest; an upload whose history is put back leaves
  no trace (a streamed one is never put back);
* context governance: what is sent fits the budget, is the newest history without
  gaps, and is the same in both processes up to white space at a cut; the parser
  names every document, and the total trim keeps a prefix of them;
* model access: a job runs on a model that the user's groups open; the catalogue
  follows Ollama;
* sessions: a revoked token is not honoured, concurrent tabs do not log a user
  out, the login limiter bounds every window, a ticket stays on disk only when two
  removals failed;
* local administrator: no dashboard before a forced rotation, a password change
  ends the sessions before it.

## 2. The modules

Beside a module `X`, `MCX` gives its constants values for TLC and `XProofs` has its
theorems (section 5); **RequestProofs** is about ModelAccess. A module whose
constants are plain values is checked without an MC module.

### Job control

**JobControl** is the whole control plane with several jobs, workers and
targets. A gateway coroutine is one action that runs its Redis commands in their
order, all of them or only the first `n`: its process stops there, or the next
command raises and the loop that called it goes on (`Executed`; bounded with the
worker stops by `MaxCrashes`). `claim_dispatch_job` is two actions, because other
coroutines run between BRPOPLPUSH and the rest. The history variable `lost` names
the jobs that an interruption left between two lists or sets, `leaked` counts the
reservations it cut off from their record, so that the properties claim everything
outside these windows, and section 4 lists them.
`job` are the records (`"absent"` is a missing key), `pending` and `dispatch`
the lists in their Redis order (RPUSH on the right, BRPOPLPUSH from the right:
the dispatch list is a stack), `active` the sorted set, `usage` the `active_jobs`
counter. `tasks`, `renewing` and `hand` are the worker's coroutines, its
`active_tasks` keys and the id between pop and claim. Environment actions are the
end of a lease or deadline, record and heartbeat expiry, and stop and start of a
worker. Abstractions: one pending list, unit reservations (`Slots`), an arbitrary
eligible target instead of `pick_target` (both are Admission's subject), time as
the two tests the code makes. An aborted task (`TaskAborted`) is an exception in
`process_job`'s own error handler, which needs Redis to be away and is therefore
tied to `MayStall`.

**JobSteps** is one job at the grain of single Redis commands: admission, reaper,
claim, task, lease renewal and cancel are processes with a program counter
(`pc`) and the copy of the record they read (`snap`). It answers what the
one-step coroutines of JobControl cannot: which interleavings of reads and writes
lose an update. The target lock is modelled, as is the reaper's job lock (there
is one reaper). Left out: kinds, deadlines, the processing list, linked children
and the record's TTL, which JobControl has. A lease ends only while no coroutine
is in the middle of its work and no live worker has the entry to claim, that is,
a coroutine's few commands take less than a lease.

**ParserChild** is one parser root and its child: `_process_parser_job` step by
step, the locked `enqueue_child_job_once`, parking, mirroring and cancel, with
two parser coroutines at once when the root's lease lapses. Taking the job lock,
the test of the child, its push and the link are steps of their own, and the lock
may lapse under its holder between any two of them (`LockLapses`): a second
coroutine then enters, the child may be pushed and executed again, and the release
of the lapsed lock raises. Queueing and leases are one step each. Left out: expiry
of the child's record and failures inside the parking.

JobSteps and ParserChild look closer at parts of JobControl; they share no state
with it, so there is no module that composes them.

**Admission** computes what JobControl treats as one bit, "the target has room".
The records of `record` are the heartbeats (free memory, loaded models, and the
base capacity that the gateway derives from them: `Usable`, `BaseTokens`);
`usage` and `refs` are the two hashes of a target; a pass of the scheduler holds
the candidates and the target records it read at its start (`pass`, `snapshot`)
while heartbeats, ends and arrivals go on. Model profiles, the floors of the
reserved ratios, the memory gates, `cpu_single_slot_override`,
`cpu_cold_start_ram_override`, warm models, the order of the queues and
the order of `pick_target` are the code's, with the numbers of `config.py`. The
saturation test of `enqueue_job` and its push are two steps. An admission removes
the first entry of the id (LREM) and does not take place when there is none. A
job's path after admission is reduced to what releases its reservation: its end;
the requeue of a stale job, whose worker has stopped or lives on; the end by such
a late worker, on whatever record it then finds (`late` counts the executions and
entries of a job that the record no longer stands for; a late claim and its end
are one step); the requeue of an entry whose kind no longer fits; expiry of the
record in use; and a process that stops between a reservation or a release and the
save beside it. An ended record keeps its target, and `_release_reserved_capacity`
does not look at the status, so a second end or requeue releases again. `broken`
names the targets with a reservation that was released twice or never, `back` the
jobs that were put back on their list.

### Preparing a request

**ModelAccess** has one user whose groups, policy files, registry file and
validation status change, Ollama's list of models, the Redis key of the
catalogue with its two writers (the worker's refresh loop and the application's
fallback, each a read and a later store), and the resolution of the model at
login, chat, switch and listing. A request is one handler in flight, split at its
awaits.

**Budgets** computes, for one request, what the application (or the parser)
stores in the job record and what the worker sends: the history budget, the
document budget, the prompt frame, and the total
budget with its trimming of history, then documents, then prompt. A text is its
length after `strip()` and an id. A message cut without room for a marker may end
in white space, which the worker's `strip()` removes (`blank`). The worker finds
the documents in the prompt again by their headers and labels: a text that holds
such a line itself is "odd", and a prompt with an odd text may be read as it was
built, not at all (the plain cut), or as any of `Misreadings` (`Readings`). The
loops of the code are recursive functions
over positions (`Speaks`, `KeepMessages`, `KeepDocuments`, `KeepChunks`), which TLC
evaluates and the proofs can reason about.

**MCRequests** instantiates both in one run. They share no state: the texts vary
while the files, the catalogue and the session stand still, and the other way
round.

### Conversations

**ChatLog** is the abstract specification: one bounded log per thread, changed by
append, clear and import only, and reads answered with the log of one moment.
**Conversation** is the implementation: a request runs a script (`todo`) of
single Redis commands and SQL transactions, the worker's job of that request
runs its own, and they interleave. A SQL transaction is a read and a commit, so
that two appends can read the same `max(message_index)`; a commit that meets the
unique index or a missing row is rolled back and logged, as the coordinator does.
A request with files is of two kinds: `"stream"`, which `static/js/app.js:420-425`
always asks for, ends once the job is enqueued and never puts the history back;
`"files"` waits for the job and puts it back when the job fails, is cancelled or
takes too long.
`db` says of each thread whether it has a row, and which message rows.
`ServesTheLog` is the refinement: `redis`, `snap` and `served` implement `log`,
`asked` and `answered`. It says that the dual write and the cutover are invisible.
Dual write and cutover are switched on; the thread list's own cutover is not
separated from that of the messages; registry scores are left out.

### Identities

**Sessions** is one browser with one cookie jar and several requests in flight.
A request captures the cookies when it is sent and changes them when its answer
arrives; every await of its handler is a step. Time is in ticks, several to the
second, because JWT claims have whole seconds and Redis keys expire to the
millisecond. Answers get lost, Redis is away, Kerberos and LDAP fail: these are
outcomes of the steps. The cache file is created before the krb5 configuration,
which may fail outside the `try` and leave it, empty; `destroy_ticket` runs
`kdestroy` and then removes the file, and either may fail (`leftover`). Sign-in
through the proxy and through the form end in the same issue of tokens. Pages,
CSRF and origin checks are not part of it, nor is a stop of the application during
a lookup.

**LocalAdmin** has the environment of the process, the account state in Redis,
the sessions issued, and requests whose read of the key and whose later write are
separate steps. A restart brings another environment. Password hashes are fresh
values because they are salted; the revision in a session is the state it was
issued for, because the digest covers all of it. The guard of the dashboard loads
the state a second time and does not use the result; that load is not repeated.

## 3. The runs

All runs are without deadlock check: the system may rest when every job or
request has ended, and the failures in a behaviour are bounded.

| Run | Instance | Checks | Shows |
|---|---|---|---|
| `crash` | 2 jobs (symmetric), a gpu and a cpu target with a worker each, 1 slot each, 1 retry, 1 stop or interruption, records may expire in use | `TypeOK`, `NoJobLost`, `ProcessingIsOwned` | an interruption after any command of any coroutine loses no job but in the windows of section 4; until then the processing lists are exact |
| `stall` | 1 job (a linked child), a gpu and a cpu target with a worker each, 1 retry, 2 stops or interruptions, leases lapse freely, records may expire in use | `BoundedReplay`, `NoCapacityLeak`, `RunsAreCounted` | two workers may run and end the same job and the kind check may bounce it: replays stay within budget, each simultaneous run is a counted retry, and a slot leaks only where it is cut off from its record |
| `live` | 2 jobs, 1 worker, 1 slot, 1 stop or interruption | `Settles` | every job settles again and again, unless the interruption lost it or took the slot for good |
| `steps` | 1 job, cancel, a worker and a scheduler stop | `TypeOK`, `DoneAfterSave`, `StreamEnds` | no stream ends before the end is recorded; the stream ends although the worker stops between any two commands, or a cancel races with anything |
| `parser` | 2 attempts, 1 replay, 2 faults among stops, lapsed leases, lapses of the job lock and a cancel | `TypeOK`, `OneChild`, `RawKeptForReplay`, `CompletedByChild`, `RootStreamEnds` | replays of the parser are idempotent while the lock holds, and one lapse costs one more child at most; after parser stops the root's stream still ends |
| `sessions` | 2 requests at a time, 3 in all, 6 tokens, 4 ticks, 2 to the second, tokens of 1 and 2 seconds, 1 login per 3 ticks | `TypeOK`, `RevokedIsRefused`, `RefreshCookieIsLive`, `AuthTimeIsALogin`, `LoginsBounded`, `NoTicketLeft` | revocation holds to the last second of a token, two tabs never log each other out, refreshing does not renew the login time, every failure path but two removes the ticket cache |
| `local_admin` | 2 requests at a time, 2 environments (one asks for a rotation), 2 new hashes, 2 sessions, 2 restarts | `TypeOK`, `DashboardNeedsRotation`, `ChangeEndsSessions` | in no order of logins, rotations, changes and restarts is the dashboard reached before the rotation; a change ends what was before it |
| `conversation` | 2 requests of every kind for a new thread, reads, clears and migrations of the default thread, with their jobs; an old history of 1 message, lists of 3, a budget of 2 messages, 1 upload, 1 fault | `MirrorParity`, `ListShowsAll`, `RestoreLeavesNoTrace`, `ServesTheLog` | what users read is the ChatLog; copies agree at rest; nothing stays of an upload that was put back; no thread is missing from the list |
| `admission` | 3 jobs of three classes and two model sizes (the big one of 2.5 GB), a gpu and a cpu target (12 CPUs, 32 GB), free memory of 4300 or 13312 MB, 1 retry, 1 new heartbeat or stop inside a handler, 2 racing requests | `LedgerExact`, `TokensWithinCapacity`, `SharesProtected`, `QueueBound`, `PassMakesProgress` | the usage hashes are exact across requeues, late ends and kind mismatches unless a reservation is released twice or never; neither that nor stale target records overbook; shares hold |
| `requests` | 2 models in 2 categories, 4 policies, 3 registries, 2 changes; 24 500 requests with texts around every limit, some of them odd | `WithinGroups`, `CatalogSettles`, `WithinBudget`, `NewestHistory`, `BudgetsAgree`, `HistoryYields`, `DocumentsKept` | no path between login and chat reaches a model outside the groups; the budgets cut the right things in the right order |

Why the bounds are enough.

* Job control: the interesting behaviours need one id twice in the system (a stale
  dispatch entry beside a pending one; a lapsed lease under a live worker), which
  one job, two workers and one retry already produce; competition for capacity
  needs two jobs and one slot. One job is the hard case for `NoCapacityLeak`: the
  clamp of the counter at 0 forgets a release that came first, whereas with a
  second job on the target that release only lowers the counter. With one
  interruption every command of every coroutine is interrupted once; a second is the
  first that can hit the replay of an interrupted job, and `stall` has it, beside
  lapses and expiries without bound.
* Parser: two attempts are a lapsed lease under a live parser; two faults are the
  first and one that hits its replay, or a cancel of it, or a lock that lapses
  under one of two attempts.
* Sessions: three requests are a login, and two that race on its cookies; the
  clock reaches the last second of both tokens and passes one window.
* Local administrator: two requests are enough because a lost update needs one
  read, one whole handler between, and one write; two restarts lead to another
  environment and back.
* Conversation: two requests and their two jobs are four processes; the list of 3
  overflows with the old message and two answered chats. A fault is a crash, a
  failed mirror write, or an overlap of two requests on one thread.
* Admission: 13312 MB free give the gpu target 20 tokens and the cpu target 12 and
  admit both models; 4300 MB give 2 and 8 and admit nothing but a cold start on
  the CPU, so that the capacity shrinks under running jobs. A lapsed lease and its
  late end need one job, the booking of its place by another needs two.
  `QueueFactor` 0 and `MinDepth` 1 make the limit reachable with three jobs; that it
  follows the heartbeats is left to the proof.
* Requests: the limits are small and the lengths lie below, at and above each of
  them and of the markers; the arithmetic has no other constants.

The largest run has about 2.6 million distinct states; each takes below four
minutes on two cores.

What the properties leave out on purpose. `NoJobLost` exempts the jobs in `lost`,
`NoCapacityLeak` adds `leaked`, `Settles` exempts a lost job and a target whose
slots are all taken that way; `LedgerExact` and `SharesProtected` exempt the
targets in `broken`, `QueueBound` the jobs in `back`; `OneChild` allows one push for
each lapse of the lock: the code does these things, and section 4 says where.
`ProcessingIsOwned` is claimed until the first stop or interruption; afterwards an
id popped by a stopped worker stays on a list that nothing reads. `StreamEnds`
excludes a cancel together with a worker stop, and a scheduler stop;
`RootStreamEnds` excludes a cancel, a stop around the child's end, and a lapsed
lease or lock: these break them (section 4). `MirrorParity` excludes threads
on which requests overlapped or crashed, a mirror write failed or the list (also
by an import) was trimmed since the last snapshot (the database keeps all
messages, Redis the last `max_history`). `RestoreLeavesNoTrace` needs a history
within the budget and nothing beside the upload, and is about awaited uploads.
`NoTicketLeft` excludes the two failures of section 4. `DocumentsKept` says nothing
of the total trim of a prompt with odd texts. `RefreshCookieIsLive` excludes lost answers.
`ChangeEndsSessions` excludes `undone`. `PassMakesProgress` needs a job that every
live target would take. `SharesProtected` allows one token above the shares: the
shares are rounded, and those of a smaller reported capacity may leave more room
than those of the largest (a batch job finds room for 2 of 3 tokens, but for 1 of
4).

**Fairness.** Weak fairness only. The scheduler's and the workers' loops run
forever (`scheduler.py` and `worker.py` catch and log exceptions in the loop
body) and `docker-compose.yml` restarts stopped containers
(`restart: unless-stopped`), which justifies fairness of admission, reaper,
claim, start, heartbeat and of the worker's catalogue refresh. `process_job` ends
by its timeout and a request handler by those of its calls. Leases, heartbeat keys
and the catalogue key end by the clock, but a lease ends fairly only for a job
nobody attends to, and the catalogue key only while Ollama lists nothing and
nobody renews it. Nothing that users or failures do is fair: enqueue, cancel,
stops and the passing of deadlines may never happen.

## 4. Disagreements with the documentation

Each run is one that TLC must find violated; `PROJECT.json` quotes the line of the
document. QCC is `docs/QUEUE_CONCURRENCY_CONTROL_DIRECTION.md`, PSD
`docs/PARSER_STAGE_DESIGN.md`.

| Run | Property | What the code does |
|---|---|---|
| `steps_orphan` | `QuietJobIsFound` (QCC:93) | a lease renewal that read the record before its completion writes it back as running, outside the active set |
| `conversation_legacy` | `MigratedOnce` (`docs/ARCHITECTURE_en.md:215`) | two first reads of the default thread both import the old history; the sequential case is in `tests/test_chat_thread_backend.py:263` |

The models also have these behaviours, seen while modelling, without a run of
their own.

Job control:

* `claim_dispatch_job` tests no status: a job cancelled between the pop and the
  claim is set running (QCC:92, `llm_gateway.py:1759`); a job the reaper failed
  for good keeps its dispatch entry, and the worker that comes back runs it
  (QCC:94); such a job holds no reservation, so a target may execute more jobs
  than it has slots (QCC:48);
* a job is lost when its process stops, or Redis fails, inside `try_admit_job`
  between LREM pending and ZADD active; in the reaper's requeue (`:2166-2186`) or in
  the requeue of a kind mismatch (`:1721-1724`) between ZREM active and RPUSH
  pending; in the cancel of a queued job between LREM and the terminal save; in the
  claim of a stale entry between the save and ZADD (QCC:53; the variable `lost`);
* a reservation leaks when the process stops between the terminal save and the
  release (`:2054-2063` and its two siblings; the reaper only removes the id,
  `:2138-2140`), between the reservation and the save of an admission, and when a
  record expires in use (`:2135-2137`; QCC:53; the variable `leaked`); an admitted
  job that is lost keeps its own;
* a job that is ended or requeued again after its end, by a worker whose lease had
  lapsed or by the kind check, is released again: the counters of the target are
  then too low, the clamp at 0 hides it, and batch jobs may enter the shares of
  chat and siem (the variable `broken` of Admission);
* an error in `mark_job_completed` after its save lets `process_job`'s handler call
  `mark_job_failed`: a completed job becomes failed and is released a second time
  when the first release had been done;
* a stop between HINCRBY and the clamp leaves a negative counter until the next
  release; it only lowers the usage and is not modelled. A stop inside
  `renew_job_lease` leaves what a stop before or after it leaves;
* parking overwrites the mirrored end of a fast child (PSD:29,
  `llm_gateway.py:1581`); the parser's save of an old record erases an
  acknowledged cancel (QCC:92, `worker.py:758`);
* a queued job is not failed at its deadline (QCC:90);
* a claim that raced with the reaper's requeue, and a stop, leave a running record
  outside the active set, and its stream never ends (`StreamEnds` without
  `Disturbed`);
* a lease renewal erases the flag of a cancel it did not see (QCC:92);
* a worker that stops between the child's terminal save and the mirroring leaves
  the root running, and nothing repairs it (PSD:29); the raw files of a failed
  parse are not deleted (PSD:30);
* a job lock that lapses after 5 s under its holder lets a second coroutine push
  the child again (`llm_gateway.py:1513-1547`).

Admission:

* ids of expired records stay at the head of the scan window of
  `list_pending_candidates` and can fill it;
* `pick_target` ranks without regard to the kind of the job, so a job may be
  offered the same unsuitable target in every pass;
* batch jobs are never admitted on a CPU target of 8 tokens: the shares of chat
  and siem leave less than one batch job needs;
* the memory of a model's weights is reserved by the first job that loads it and
  released with that job, while a second one still runs on the warm model;
* the readiness probe (`llm_gateway.py:915–946`) names no target kind, which is
  then `cpu`: a cluster with gpu targets only is never ready, whereas
  `docs/ADMIN_en.md:112–118` speaks of chat capacity in general.

Conversations:

* a streamed upload, which is what the browser sends, is never put back: the user's
  message and what the worker stored stay when its job fails or is cancelled
  (`app.py:3039-3071`, `3174-3204`);
* restoring after a failed upload writes back the history that the budget had
  trimmed: longer threads lose their oldest messages; messages that arrived
  between are lost;
* an upload that timed out is restored, and the late answer of its job is appended
  after it;
* the job is enqueued before the user's message is appended, so the answer may
  precede the question;
* the database keeps all messages and Redis the newest 100: long threads fail the
  parity test and are served from Redis for good.

Texts and models:

* the total trim leaves the documents behind the first that does not fit out with
  their labels, and no marker says so (`llm_gateway.py:371-372`, `385`);
* the worker finds the documents by header and label lines: a question or a document
  that holds such a line changes the split, loses the text between the last divider
  and the header, or makes the prompt cut as a plain text;
* `truncate_text_preserving_ends` with a limit of marker + 1 returns limit + 1
  characters; a prompt that fits by itself is then cut although the history could
  have given way (the tests at `tests/test_context_governance.py:81` and `:112`
  use limits where this does not happen);
* the question is not appended when the last message of the history has the same
  content, even if that is the assistant's;
* losing the registry file switches from tiers to policy membership and widens
  what the validation user may use; with a registry, a model disabled in
  `policy.json` is still allowed by its tier (a test asks for this);
* the groups of a session are those of its last login; a session whose model was
  removed gets 404 until it switches;
* a slow request may store an older catalogue over a newer one; `CatalogSettles`
  shows that this heals.

Identities:

* a failure of `_create_krb5_config` leaves the empty cache file
  (`auth_kerberos.py:52-53`, `243-244`), and one of `kdestroy` and `os.remove`
  together, which is only logged, the ticket itself (`:198-203`);
* a revoked token may be accepted again within its last second;
* a request that found the administrator's key missing writes the environment's
  state later and can undo a rotation that was acknowledged in between (`undone`).

## 5. The proofs

Every theorem is about the specification the runs check and holds for every value
of the constants that its module's assumption admits. The assumptions give the
constants their types and keep the value `None` apart; only Admission assumes
finite sets (targets, racing requests, memory sizes), because it adds up over them.

| Module | Theorem | States |
|---|---|---|
| JobControlProofs | `TypeCorrect`, `NoJobIsLost`, `CapacityNeverLeaks`, `ReplaysAreBounded`, `ExecutionsStayCounted`, `ProcessingStaysOwned` | `TypeOK`, `NoJobLost`, `NoCapacityLeak`, `BoundedReplay`, `RunsAreCounted`, `ProcessingIsOwned` |
| JobStepsProofs | `TypeCorrect`, `DoneAfterSaveHolds` | `TypeOK`, `DoneAfterSave` |
| ParserChildProofs | `TypeCorrect`, `OneChildPushed`, `RawKept`, `CompletedOnlyByChild` | `TypeOK`, `OneChild`, `RawKeptForReplay`, `CompletedByChild` |
| | `KidEndStays` | the action property `KidEndIsFinal` of that module |
| AdmissionProofs | `LedgerStaysExact`, `CapacityRespected`, `SharesStayProtected`, `QueueStaysBounded`, `PassesMakeProgress` | `LedgerExact`, `TokensWithinCapacity`, `SharesProtected`, `QueueBound`, `PassMakesProgress` |
| SessionsProofs | `TypeCorrect`, `RevokedStaysRefused`, `RefreshCookieStaysLive`, `AuthTimeStaysALogin`, `TicketsDestroyed`, `LoginsStayBounded` | `TypeOK`, `RevokedIsRefused`, `RefreshCookieIsLive`, `AuthTimeIsALogin`, `NoTicketLeft`, `LoginsBounded` |
| LocalAdminProofs | `TypeCorrect`, `DashboardAfterRotation`, `SessionsEnded` | `TypeOK`, `DashboardNeedsRotation`, `ChangeEndsSessions` |
| ConversationProofs | `ConversationServesTheLog` | the refinement `ServesTheLog` |
| | `ConversationListsAll`, `RestoresLeaveNoTrace`, `ConversationMirrorParity` | `ListShowsAll`, `RestoreLeavesNoTrace`, `MirrorParity` |
| RequestProofs | `JobsStayWithinGroups` | the action property `WithinGroups` |
| | `RequestsWithinBudget`, `RequestsKeepNewestHistory`, `RequestBudgetsAgree`, `RequestHistoryYields`, `RequestDocumentsKept` | `WithinBudget`, `NewestHistory`, `BudgetsAgree`, `HistoryYields`, `DocumentsKept` |

**JobControl.** `TypeOK` is inductive; what needs an argument is that LREM keeps a
list a list over `Jobs` (`RemoveFirstShape`, through the least index) and that the
clamped counters stay naturals. `NoJobLost` is inductive relative to it: a step
changes one record, that one is found afterwards by the step's own push or ZADD, or
is added to `lost` when the step was interrupted before it, and every other job
keeps its place because LREM removes only occurrences of the step's job. The other
four count. `StepKind` reduces the actions to what the counts depend on (who
reserves, releases, moves an id, and `Breaks` for what an interrupted handler leaves),
and each invariant is shown once per kind of step:

* `Ledger`: a target's counter is at most the number of records that hold a
  reservation on it and the reservations in `leaked`. Every release follows a record
  that stops holding, except that the clamp at zero may forget one, which only
  lowers the counter; a record that stops holding without a release, by an
  interruption or by its expiry, is counted in `leaked`.
* `Replay`: executions so far, entries on dispatch lists, ids in hands and one for
  a queued record are together at most `retry_count + 1`. `BoundedReplay` alone is
  not inductive: a stale dispatch entry is a start that has not happened yet.
* `Begun`: the workers that execute a job are at most its starts; with `Replay` this
  gives `RunsAreCounted`.
* `One`, for `ProcessingIsOwned`: while nothing stopped or stalled, the id of a job
  is in one place only (a dispatch entry, a hand or a coroutine), a job that waits
  or lost its lease is in none, and the lease is kept while it runs.

`NoJobIsLost` holds at the grain of JobControl: a handler may be cut short anywhere,
but no other coroutine runs between two of its commands. At the grain of interleaved
commands the corresponding property is `QuietJobIsFound`, and it fails
(`steps_orphan`).

**JobSteps.** `SettledFirst`: a coroutine about to append the done event has saved a
terminal record, and the coroutines that write back a record they read earlier
hold a copy that is not terminal, so that no write can pass for a settlement.

**ParserChild.** `Locked` bounds the coroutines inside the locked section other
than the holder of the lock (`Strangers`) by the lapses, and with the pushes that
these may still do gives `OneChild`; `HandedOver` says which labels lie behind the
push. `CopiesBacked` says of every copy of the root that a later save may write back
that its link is true of the child and its completed status of an execution. It is
needed because the save of an old copy is harmless only for that reason. The number
of parser coroutines and of lapses is arbitrary. `KidEndStays` is claimed while the
lock has not lapsed: a second push writes the child's record anew.

**Admission.** The steps are reduced to a few forms (`Moves` changes one record and
releases what it held, `Drops` changes one without a release, `Cuts` reserves for
nobody). `LedgerExact` is inductive beside the types
(`Typed`): on a target outside `broken` every release is that of a job admitted
there, so the clamps at zero do not bind. Capacity needs no ledger: tokens and the
job counter are tested at the moment of a reservation and only fall otherwise,
however often they are released. The shares follow from the ledger, from the
admission test at that moment, and from sums that only shrink otherwise; they are
those of the capacity reported at that moment, which is why the rounding by one
token is part of the property: without it the induction step has the counterexample
of section 3. `QueueBound` needs the requests between their test and their push
counted as queued (`Room`). `PassMakesProgress` needs `Ahead`: in a calm pass the
target records are the current ones and, while nothing is admitted, every job that
could be admitted is still ahead of the scheduler. Sums, maxima and the filter of a list are recursive; what is needed of
them is proved from the absence of a least counterexample.

**Sessions.** `CookieOnItsWay` strengthens `RefreshCookieIsLive` by who revoked the
cookie (the request about to answer), and needs `Undelivered`: a token in an answer
on its way is in nobody else's hands. `KeyOutlivesToken` is the arithmetic of whole
seconds and ticks behind `RevokedIsRefused`. `WindowCounts` matches the k-th login
of a window, counted from the end, with a score in the limiter's set that is at
least as late. `NoTicketLeft` follows from the order of the handler's steps:
whatever fails between the creation of the cache and `destroy_ticket` leads to it.

**LocalAdmin.** `RotationDue` says of every state, stored or held by a request, that
it asks for the rotation unless the rotation was done, with the state about to be
written as the only exception; `HashesFresh` that a state about to be written
equals none in force or replaced; `ReplacedIsOver` rests on it. The proof found an
error in the model: the history variable `rotated` forgot a completed rotation on a
return to an environment whose state was still the one in Redis, and with two
restarts the property failed for that reason alone. The run has two restarts since.

**Conversation.** `Shaped` says what the scripts in `todo` may hold, and `Simulates`
shows for every command that its step is a step of ChatLog or leaves `log`, `asked`
and `answered` alone. The heart is the read cutover: the copy in the database is
served only when it equals the list just read (`Parity`), so what is answered is
the log of that moment. Storing several messages is one abstract append for each
of them: a push command carries the messages that remain.

`ListShowsAll` and `RestoreLeavesNoTrace` are about a request with nothing
beside it, and need to know what is left of its script. Every step is the start of
a request or a step of one process (`Step`), and changes only that process's script
and that request's variables (`Moves`); so `Solo` is inductive: while some request
is clean, at most one request is busy. `Flagged` orders the scripts (a command that
waits or ends a job is the last one; a job with commands has not ended). On top of
these, a clean request that lists goes through `Searching` (it may create the thread
and list again), `Registering` (it holds the set of threads with messages),
`Registered` and `Shown`, and one that restores through `Emptying`, `Refilling` and
`Refilled`, each phase with what it says of the lists. Neither property is
inductive without the phases, since between the read of the lists and their
registration nothing in the store tells that the work is on its way.

`MirrorParity` relates the rows of the database to the lists in Redis, and rests on
four things. The rows of a thread have one message per index (the unique index), so
that ordering them by index is a sequence, and inserting at `max + 1` appends to it.
What remains of a script is whole: `Whole` is the smallest set of scripts closed
under putting a block in front, a block being a command that changes neither copy
or a change of the list together with the change of its copy. A request that runs
alone is in one of five phases: `Resting` (the copies agree, or only the import of
the old layout is pending), `Appending` (a message is about to be stored),
`Appended` (the list has it, the copy does not), `Settling` (the next mirror command
writes what the list holds) and `Restocking` (a restoration pushes message by
message). And what its open transaction has read is still what the database holds
(`Current`). `ParityInv` joins these: the stored rows are well formed; at rest the
copies agree on every thread that has not diverged; a busy clean request is `Alone`,
that is in a phase and current; when the busy requests are not clean every thread
counts as diverged. The last conjunct is why overlap is an exception of the
property, and not of its proof: two transactions that read the same
`max(message_index)` do part the copies. `ParityInv` was checked with TLC before it
was proved.

**ModelAccess.** The handler in flight has the groups of the tokens it was sent
with, and no login or switch can change the tokens meanwhile; `AllowedIsOpen` and
`AllowedIsMarked` say what `get_allowed_models_for_user` returns.

**Budgets.** What each loop computes is shown for texts and lists of every length.
Induction comes from the well-foundedness of `<` on the naturals (`Induct`), applied
to a set of positions or of lists rather than to a predicate (`PrependInduct`,
`AppendInduct`). Each loop has a lemma that unfolds its recursion once, and a loop
invariant. `HistoryInv`: what is kept is a newest part of the valid messages, all
of them as long as characters remain; its characters and the remainder are together
the limit; and the loop applied to its own result, also with the white space at the
end of its oldest message gone, returns it, which is why the application and the
worker, who both apply it, agree (`BudgetsAgree`). `DocsInv`:
one non-empty entry, in order, for every document that has text, and a sum within
the limit plus one marker per document. `BlockInv`: the chunks kept are a prefix, at
most the last one shortened, within the limit. `TotalBudget` then says that the
prompt is shortened only when the history is gone, or is one character over its
room because of its own marker, and that the sum exceeds the total by one character
at most. `BudgetInv` carries this over the steps of a request: the record is what
the application computes from the input, and the messages sent are what the worker
computes from that record.

Only model-checked:

* all liveness (`Settles`, `StreamEnds`, `RootStreamEnds`, `CatalogSettles`):
  fairness and ENABLED are beyond the prover.

Every other property of the passing runs is stated by a theorem.

## 6. Plan

Done: JobControl, JobSteps, ParserChild, Admission, ModelAccess, Budgets,
Conversation with its abstract ChatLog, Sessions, LocalAdmin; the proofs of
section 5, which cover every safety property of the passing runs.

Models that could still be added: the readiness probe, the separate cutover of the
thread list, a stop of the application during a directory lookup.

Not modelled: the dashboard, health checks and metrics (they read what the other
parts keep and change nothing); the browser's rendering; the installer, the smoke
scripts and the parsing of settings (I/O; the settings appear as constants); text
extraction from uploaded files, the Kerberos and LDAP protocols and Ollama's token
stream (external, represented by their outcomes).
