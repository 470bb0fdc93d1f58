---------------------------- MODULE Conversation ----------------------------
(***************************************************************************)
(* The conversations of one user: the Redis chat store (AsyncChatStore of  *)
(* src/llm_gateway.py), its best-effort copy in the relational database    *)
(* (src/persistence) and the handlers of src/app.py and src/worker.py that *)
(* use both.  Dual write and the read cutover are switched on.             *)
(*                                                                         *)
(* A request runs a script of commands, one Redis or SQL round trip each;  *)
(* the commands of the requests, and of the worker's job that a request    *)
(* has enqueued, interleave.  A SQL transaction is a read and a commit:    *)
(* between the two other transactions may commit, and a commit that meets  *)
(* a unique index or a missing thread row is rolled back and only logged.  *)
(* Registry scores and message texts are left out; a message is who sent   *)
(* it for which request.                                                   *)
(***************************************************************************)
EXTENDS Integers, Sequences, FiniteSets, SequencesExt

CONSTANTS
    Requests,        \* requests that may be in flight at the same time
    Default, New,    \* the default thread and the thread a creation adds
    Old,             \* the history under the key of the old layout
    MaxHistory,      \* max_history of AsyncChatStore
    BudgetMessages,  \* MAX_HISTORY_MESSAGES of apply_history_budget
    Calls,           \* the handlers that requests call, and for which thread
    MaxActive,       \* bound: processes that run commands at the same time
    MaxUploads,      \* bound: requests with files that wait, ever started
    MaxStarts,       \* bound: requests ever started
    MaxFaults,       \* bound: crashes, failed mirror writes, requests that overlap
    None

Threads == {Default, New}
Roles == {"user", "assistant"}
Messages == [by : Requests, role : Roles] \cup ToSet(Old)
Procs == Requests \X {"web", "job"}

ASSUME ConversationAssumption ==
    /\ Default # New /\ None \notin Threads
    /\ Old \in Seq(ToSet(Old))
    /\ MaxHistory \in Nat \ {0} /\ BudgetMessages \in 0 .. MaxHistory
    /\ MaxActive \in Nat /\ MaxStarts \in Nat /\ MaxUploads \in Nat /\ MaxFaults \in Nat
    /\ Calls \subseteq {"chat", "stream", "files", "read", "create", "clear", "delete", "migrate"}
                    \X Threads

VARIABLES
    redis,      \* the list of each thread
    legacy,     \* the list under legacy_history_key
    registry,   \* members of thread_registry_key
    db,         \* of each thread, in the database: whether it has a row, its message rows
    todo,       \* the commands each process still runs
    seen,       \* what the running SQL transaction of each process has read
    thread,     \* the thread a request is about
    snap,       \* the history a request has read
    listed,     \* the thread ids a request has listed
    served,     \* the messages a read was answered with
    job,        \* the job of each request
    starts, uploads, faults,
    clean,      \* history: nothing has run beside this request
    restored,   \* history: the request has put the history back
    diverged    \* history: threads whose two copies may differ

vars == <<redis, legacy, registry, db, todo, seen, thread, snap, listed, served,
          job, starts, uploads, faults, clean, restored, diverged>>
store == <<redis, legacy, registry>>
request == <<thread, snap, listed, served, job, restored>>

Web(p) == <<p, "web">>
Job(p) == <<p, "job">>
Busy(p) == todo[Web(p)] # <<>> \/ job[p] \in {"queued", "running"}
Waits(p) == todo[Web(p)] # <<>> /\ Head(todo[Web(p)]).op \in {"wait", "wait_again"}
Active == {w \in Procs : todo[w] # <<>> /\ ~(w[2] = "web" /\ Waits(w[1]))}
Quiet == \A p \in Requests : ~Busy(p)

------------------------------------------------------------------------------
(* Data. *)

Newest(s) == SubSeq(s, IF Len(s) > MaxHistory THEN Len(s) - MaxHistory + 1 ELSE 1, Len(s))

\* apply_history_budget: the newest messages that fit.
Budgeted(s) == SubSeq(s, IF Len(s) > BudgetMessages THEN Len(s) - BudgetMessages + 1 ELSE 1,
                      Len(s))

\* get_messages: the rows in the order of their index.
InOrder(rows) ==
    [k \in 1 .. Cardinality(rows) |->
        (CHOOSE r \in rows : Cardinality({s \in rows : s.i < r.i}) = k - 1).m]
DbMessages(t) == InOrder(db[t].rows)

\* Before the thread is created and after delete_thread.
NoThread == [row |-> FALSE, rows |-> {}]

Snapshot(ms) == {[i |-> k - 1, m |-> ms[k]] : k \in DOMAIN ms}

\* compare_history_snapshot_to_messages
ParityByCount(source, copy) ==
    IF Len(source) = Len(copy) THEN "matched" ELSE "content_mismatch"
Parity(source, copy) ==
    CASE source = <<>> /\ copy = <<>> -> "empty_thread"
      [] source # <<>> /\ copy = <<>> -> "missing_in_db"
      [] source = <<>> /\ copy # <<>> -> "missing_in_source"
      [] OTHER -> IF source = copy THEN "matched" ELSE "content_mismatch"

------------------------------------------------------------------------------
(* Scripts: what a handler sends to the stores, in order. *)

Cmd(op, t, ms) == [op |-> op, t |-> t, ms |-> ms]
Do(op, t) == Cmd(op, t, <<>>)
Touching(ts) == Cmd("touch", ts, <<>>)     \* ZADD of these threads

Migrate(t) == IF t = Default THEN <<Do("look", t)>> ELSE <<>>
\* append_message for each of the messages; Push comes back for the rest of them.
StoreAll(t, ms) ==
    IF ms = <<>> THEN <<>> ELSE Migrate(t) \o <<Cmd("push", t, ms), Touching({t})>>
WriterAppend(t, m) == StoreAll(t, <<m>>) \o <<Cmd("mirror_append", t, <<m>>)>>
GetHistory(t) == Migrate(t) \o <<Do("read", t)>>
WriterClear(t) == <<Do("del", t), Touching({t}), Do("mirror_clear", t)>>
EnsureThread(t) == <<Touching({t}), Do("mirror_ensure", t)>>

\* replace_thread_snapshot, called by restore_chat_history.
WriterReplace(t, ms) ==
    <<Do("del", t), Touching({t})>> \o StoreAll(t, ms) \o <<Cmd("mirror_replace", t, ms)>>

\* list_threads; with no thread at all the caller adds "fallback" and lists again.
List(fallback) == <<Do("look", Default), Do("sync", None), Do("members", fallback)>>

User(p) == [by |-> p, role |-> "user"]
Assistant(p) == [by |-> p, role |-> "assistant"]

Ask(p, t) == <<Do("enqueue", t)>> \o WriterAppend(t, User(p))

\* "stream" is a request with files whose caller takes an event stream (what the
\* browser asks for): like "chat" it ends when the job is enqueued and the user's
\* message stored, and nothing is put back whatever becomes of the job.  "files"
\* is the same endpoint when it waits for the answer.
Handler(p, kind, t) ==
    CASE kind \in {"chat", "stream"} -> GetHistory(t) \o Ask(p, t)
      [] kind = "files"   -> GetHistory(t) \o Ask(p, t) \o <<Do("wait", t)>>
      [] kind = "read"    -> List(Default) \o <<Do("find", t)>>
      [] kind = "create"  -> EnsureThread(New) \o List(Default)
      [] kind = "clear"   -> WriterClear(t)
      [] kind = "delete"  -> <<Do("del", t), Do("zrem", t), Do("mirror_drop", t)>> \o List(New)
      [] kind = "migrate" -> <<Do("source", t)>>

\* Worker: every ending but a passed deadline appends to the thread, and only
\* then ends the job.
JobScriptMarkFirst(p, t, outcome) == <<Do(outcome, t)>> \o WriterAppend(t, Assistant(p))
JobScript(p, t, outcome) == WriterAppend(t, Assistant(p)) \o <<Do(outcome, t)>>

------------------------------------------------------------------------------
Init ==
    /\ redis = [t \in Threads |-> <<>>]
    /\ legacy = Old
    /\ registry = {}
    /\ db = [t \in Threads |-> NoThread]
    /\ todo = [w \in Procs |-> <<>>]
    /\ seen = [w \in Procs |-> None]
    /\ thread = [p \in Requests |-> None]
    /\ snap = [p \in Requests |-> <<>>]
    /\ listed = [p \in Requests |-> {}]
    /\ served = [p \in Requests |-> None]
    /\ job = [p \in Requests |-> "none"]
    /\ starts = 0 /\ uploads = 0 /\ faults = 0
    /\ clean = [p \in Requests |-> FALSE]
    /\ restored = [p \in Requests |-> FALSE]
    /\ diverged = IF Old = <<>> THEN {} ELSE {Default}

\* A request arrives; what the requests before it have read is forgotten.
Start(p, kind, t) ==
    /\ ~Busy(p) /\ starts < MaxStarts /\ Cardinality(Active) < MaxActive
    /\ kind = "files" => uploads < MaxUploads
    /\ Quiet \/ faults < MaxFaults
    /\ faults' = IF Quiet THEN faults ELSE faults + 1
    /\ starts' = starts + 1
    /\ uploads' = IF kind = "files" THEN uploads + 1 ELSE uploads
    /\ todo' = [todo EXCEPT ![Web(p)] = Handler(p, kind, t)]
    /\ thread' = [thread EXCEPT ![p] = t]
    /\ snap' = [snap EXCEPT ![p] = <<>>]
    /\ served' = [served EXCEPT ![p] = None]
    /\ listed' = [q \in Requests |-> {}]
    /\ restored' = [q \in Requests |-> FALSE]
    /\ job' = [job EXCEPT ![p] = "none"]
    /\ clean' = [q \in Requests |-> Quiet]
    /\ diverged' = IF Quiet THEN diverged ELSE Threads
    /\ UNCHANGED <<store, db, seen>>

Command(w) == Head(todo[w])
At(w, op) == todo[w] # <<>> /\ Command(w).op = op
Then(w, script) == todo' = [todo EXCEPT ![w] = script \o Tail(@)]

------------------------------------------------------------------------------
(* Redis commands. *)

\* _migrate_legacy_default_history_if_needed: the thread's own list first.
Look(w) ==
    /\ At(w, "look")
    /\ Then(w, IF redis[Default] # <<>> THEN <<Touching({Default})>> ELSE <<Do("legacy", Default)>>)
    /\ UNCHANGED <<store, db, seen, request, starts, uploads, faults, clean, diverged>>

ReadLegacy(w) ==
    /\ At(w, "legacy")
    /\ Then(w, IF legacy = <<>> THEN <<>>
               ELSE <<Cmd("import", Default, legacy), Touching({Default})>>)
    /\ UNCHANGED <<store, db, seen, request, starts, uploads, faults, clean, diverged>>

\* The pipeline: RPUSH, LTRIM, DEL in one transaction.
ImportLegacy(w) ==
    /\ At(w, "import")
    /\ LET full == redis[Default] \o Command(w).ms
       IN  /\ redis' = [redis EXCEPT ![Default] = Newest(full)]
           /\ diverged' = IF Len(full) > MaxHistory THEN diverged \cup {Default} ELSE diverged
    /\ legacy' = <<>>
    /\ Then(w, <<>>)
    /\ UNCHANGED <<registry, db, seen, request, starts, uploads, faults, clean>>

\* append_message; with more messages to store, the next append after it.
Push(w) ==
    /\ At(w, "push")
    /\ LET t == Command(w).t
           full == Append(redis[t], Head(Command(w).ms))
           rest == Tail(Command(w).ms)
       IN  /\ redis' = [redis EXCEPT ![t] = Newest(full)]
           /\ diverged' = IF Len(full) > MaxHistory THEN diverged \cup {t} ELSE diverged
           /\ Then(w, IF rest = <<>> THEN <<>>
                      ELSE <<Touching({t})>> \o Migrate(t) \o <<Cmd("push", t, rest)>>)
    /\ UNCHANGED <<legacy, registry, db, seen, request, starts, uploads, faults, clean>>

\* clear_history deletes the old layout's list with the default thread.
Delete(w) ==
    /\ At(w, "del")
    /\ redis' = [redis EXCEPT ![Command(w).t] = <<>>]
    /\ legacy' = IF Command(w).t = Default THEN <<>> ELSE legacy
    /\ Then(w, <<>>)
    /\ UNCHANGED <<registry, db, seen, request, starts, uploads, faults, clean, diverged>>

Touch(w) ==
    /\ At(w, "touch")
    /\ registry' = registry \cup Command(w).t
    /\ Then(w, <<>>)
    /\ UNCHANGED <<redis, legacy, db, seen, request, starts, uploads, faults, clean, diverged>>

ZRem(w) ==
    /\ At(w, "zrem")
    /\ registry' = registry \ {Command(w).t}
    /\ Then(w, <<>>)
    /\ UNCHANGED <<redis, legacy, db, seen, request, starts, uploads, faults, clean, diverged>>

\* get_history; a history that is not empty is put in the registry again.
Read(p) ==
    /\ At(Web(p), "read")
    /\ LET t == Command(Web(p)).t
       IN  /\ snap' = [snap EXCEPT ![p] = redis[t]]
           /\ Then(Web(p), IF redis[t] = <<>> THEN <<>> ELSE <<Touching({t})>>)
    /\ UNCHANGED <<store, db, seen, thread, listed, served, job, restored, starts, uploads, faults,
                   clean, diverged>>

\* _sync_thread_registry_from_existing_buckets
NonEmpty == {t \in Threads : redis[t] # <<>>}

SyncNothing(w) ==
    /\ At(w, "sync")
    /\ Then(w, <<>>)
    /\ UNCHANGED <<store, db, seen, request, starts, uploads, faults, clean, diverged>>
Sync(w) ==
    /\ At(w, "sync")
    /\ Then(w, <<Touching(NonEmpty)>>)
    /\ UNCHANGED <<store, db, seen, request, starts, uploads, faults, clean, diverged>>

\* The registry is read and every listed history once more (for its title).
\* With no thread the caller creates one and lists again.
Members(p) ==
    /\ At(Web(p), "members")
    /\ listed' = [listed EXCEPT ![p] = registry]
    /\ LET fallback == Command(Web(p)).t
       IN  Then(Web(p), IF registry = {} THEN EnsureThread(fallback) \o List(fallback)
                        ELSE <<Touching(NonEmpty \cap registry)>>)
    /\ UNCHANGED <<store, db, seen, thread, snap, served, job, restored, starts, uploads, faults,
                   clean, diverged>>

------------------------------------------------------------------------------
(* SQL transactions.  seen.row says whether the thread row was found, "gone" *)
(* once another transaction has deleted it; seen.rows are the rows found     *)
(* that still exist, seen.next the index after the largest one.              *)

MirrorOps == {"mirror_append", "mirror_clear", "mirror_drop", "mirror_replace",
              "mirror_ensure", "mirror_import"}
AtMirror(w) == todo[w] # <<>> /\ Command(w).op \in MirrorOps

NextIndex(rows) == IF rows = {} THEN 0 ELSE 1 + CHOOSE i \in {r.i : r \in rows} :
                                              \A r \in rows : r.i <= i
Seeing(t) == [row |-> IF db[t].row THEN "live" ELSE "none",
              rows |-> db[t].rows, next |-> NextIndex(db[t].rows)]

\* import_thread_snapshot writes nothing when the rows match already, clear
\* and drop write nothing without a thread row, and get-or-create with one.
NothingToDo(c, s) ==
    \/ c.op \in {"mirror_clear", "mirror_drop"} /\ s.row = "none"
    \/ c.op = "mirror_ensure" /\ s.row # "none"
    \/ c.op = "mirror_import" /\ s.row # "none" /\ InOrder(s.rows) = c.ms

MirrorRead(w) ==
    /\ AtMirror(w) /\ seen[w] = None
    /\ ~NothingToDo(Command(w), Seeing(Command(w).t))
    /\ seen' = [seen EXCEPT ![w] = Seeing(Command(w).t)]
    /\ UNCHANGED <<store, db, todo, request, starts, uploads, faults, clean, diverged>>

\* The rows a transaction deletes and inserts.
DeletesExceptClear(c, s) ==
    IF c.op \in {"mirror_replace", "mirror_drop", "mirror_import"} THEN s.rows ELSE {}
Deletes(c, s) ==
    IF c.op \in {"mirror_clear", "mirror_replace", "mirror_drop", "mirror_import"}
    THEN s.rows ELSE {}

Inserts(c, s) ==
    CASE c.op = "mirror_append" -> {[i |-> s.next, m |-> c.ms[1]]}
      [] c.op \in {"mirror_replace", "mirror_import"} -> Snapshot(c.ms)
      [] OTHER -> {}

\* The unique indexes and the foreign key.  A deletion of a row that is gone
\* already is no error, an update of a thread row that is gone is one.
Conflict(c, s) ==
    LET left == db[c.t].rows \ Deletes(c, s)
    IN  \/ s.row = "none" /\ db[c.t].row /\ c.op # "mirror_ensure"
        \/ s.row = "gone" /\ c.op # "mirror_drop"
        \/ \E r \in left, q \in Inserts(c, s) : r.i = q.i

\* What the other transactions still hold of what they have read.
SeenAfter(w, c, after) ==
    [v \in Procs |->
        IF v = w THEN None
        ELSE IF seen[v] = None \/ todo[v] = <<>> \/ Command(v).t # c.t THEN seen[v]
        ELSE [seen[v] EXCEPT !.rows = @ \cap (after.rows \ Inserts(c, seen[w])),
                             !.row = IF ~after.row /\ @ = "live" THEN "gone" ELSE @]]

\* A snapshot or a deletion that ran alone makes the two copies equal again.
Heals(w, c) == clean[w[1]] /\ c.op \notin {"mirror_append", "mirror_ensure"}

MirrorCommit(w) ==
    /\ AtMirror(w) /\ seen[w] # None
    /\ LET c == Command(w)
           s == seen[w]
       IN  /\ ~Conflict(c, s)
           /\ LET left == db[c.t].rows \ Deletes(c, s)
                  after == IF c.op # "mirror_drop"
                           THEN [row |-> TRUE, rows |-> left \cup Inserts(c, s)]
                           ELSE IF s.row = "gone" THEN db[c.t] ELSE NoThread
              IN  /\ db' = [db EXCEPT ![c.t] = after]
                  /\ seen' = SeenAfter(w, c, after)
           /\ diverged' = IF Heals(w, c) THEN diverged \ {c.t} ELSE diverged
    /\ Then(w, <<>>)
    /\ UNCHANGED <<store, request, starts, uploads, faults, clean>>

MirrorSkips(w) ==
    /\ AtMirror(w) /\ seen[w] = None
    /\ NothingToDo(Command(w), Seeing(Command(w).t))
    /\ diverged' = IF Heals(w, Command(w)) THEN diverged \ {Command(w).t} ELSE diverged
    /\ Then(w, <<>>)
    /\ UNCHANGED <<store, db, seen, request, starts, uploads, faults, clean>>

\* _mirror_best_effort logs the exception and goes on.
MirrorConflict(w) ==
    /\ AtMirror(w) /\ seen[w] # None
    /\ Conflict(Command(w), seen[w])
    /\ seen' = [seen EXCEPT ![w] = None]
    /\ diverged' = diverged \cup {Command(w).t}
    /\ Then(w, <<>>)
    /\ UNCHANGED <<store, db, request, starts, uploads, faults, clean>>

MirrorFails(w) ==
    /\ AtMirror(w) /\ faults < MaxFaults
    /\ faults' = faults + 1
    /\ seen' = [seen EXCEPT ![w] = None]
    /\ diverged' = diverged \cup {Command(w).t}
    /\ Then(w, <<>>)
    /\ UNCHANGED <<store, db, request, starts, uploads, clean>>

------------------------------------------------------------------------------
(* Reads. *)

\* get_chat_thread_messages answers 404 for a thread that is not listed.
Find(p) ==
    /\ At(Web(p), "find")
    /\ LET t == Command(Web(p)).t
       IN  Then(Web(p), IF t \in listed[p] THEN GetHistory(t) \o <<Do("serve", t)>> ELSE <<>>)
    /\ UNCHANGED <<store, db, seen, request, starts, uploads, faults, clean, diverged>>

\* resolve_thread_messages_for_read_response: the copy when it agrees with the
\* history just read, otherwise (or when the database fails) the history.
Serve(p) ==
    /\ At(Web(p), "serve")
    /\ LET copy == DbMessages(Command(Web(p)).t)
       IN  served' = [served EXCEPT ![p] =
                        IF Parity(snap[p], copy) \in {"matched", "empty_thread"}
                        THEN copy ELSE snap[p]]
    /\ Then(Web(p), <<>>)
    /\ UNCHANGED <<store, db, seen, thread, snap, listed, job, restored, starts, uploads, faults,
                   clean, diverged>>

\* The offline utility: the thread's list, then the one of the old layout.
Source(p) ==
    /\ At(Web(p), "source")
    /\ LET t == Command(Web(p)).t
       IN  Then(Web(p), IF redis[t] # <<>> THEN <<Cmd("mirror_import", t, redis[t])>>
                        ELSE IF t = Default THEN <<Do("source_legacy", t)>> ELSE <<>>)
    /\ UNCHANGED <<store, db, seen, request, starts, uploads, faults, clean, diverged>>

SourceLegacy(p) ==
    /\ At(Web(p), "source_legacy")
    /\ Then(Web(p), IF legacy = <<>> THEN <<>> ELSE <<Cmd("mirror_import", Default, legacy)>>)
    /\ UNCHANGED <<store, db, seen, request, starts, uploads, faults, clean, diverged>>

------------------------------------------------------------------------------
(* Jobs. *)

Enqueue(p) ==
    /\ At(Web(p), "enqueue")
    /\ job' = [job EXCEPT ![p] = "queued"]
    /\ Then(Web(p), <<>>)
    /\ UNCHANGED <<store, db, seen, thread, snap, listed, served, restored, starts, uploads, faults,
                   clean, diverged>>

\* The worker starts, with no transaction open; the request may still be storing the
\* user's message.
Endings == {"completed", "retry", "failed", "silent"}
JobRuns(p, outcome) ==
    /\ job[p] = "queued" /\ Cardinality(Active) < MaxActive
    /\ job' = [job EXCEPT ![p] = "running"]
    /\ todo' = [todo EXCEPT ![Job(p)] =
                    IF outcome = "silent" THEN <<Do("failed", thread[p])>>
                    ELSE JobScript(p, thread[p], outcome)]
    /\ seen' = [seen EXCEPT ![Job(p)] = None]
    /\ LET alone == todo[Web(p)] = <<>> \/ Waits(p)
       IN  /\ clean' = [clean EXCEPT ![p] = @ /\ alone]
           /\ diverged' = IF alone THEN diverged ELSE Threads
    /\ UNCHANGED <<store, db, thread, snap, listed, served, restored, starts, uploads, faults>>

JobEnds(p) ==
    /\ todo[Job(p)] # <<>> /\ Command(Job(p)).op \in {"completed", "retry", "failed"}
    /\ job' = [job EXCEPT ![p] = Command(Job(p)).op]
    /\ Then(Job(p), <<>>)
    /\ UNCHANGED <<store, db, seen, thread, snap, listed, served, restored, starts, uploads, faults,
                   clean, diverged>>

Restore(p) == WriterReplace(thread[p], Budgeted(snap[p]))

\* api_chat_with_files: an answer that asks for the file again is retried once
\* from the restored history, then replaced by a fixed answer.
Wait(p) ==
    /\ Waits(p) /\ Cardinality(Active) < MaxActive
    /\ job[p] \in {"completed", "retry", "failed"}
    /\ LET t == thread[p]
           again == At(Web(p), "wait_again")
       IN  Then(Web(p),
             CASE job[p] = "completed" -> <<>>
               [] job[p] = "failed" -> Restore(p)
               [] job[p] = "retry" /\ ~again ->
                    Restore(p) \o Ask(p, t) \o <<Do("wait_again", t)>>
               [] job[p] = "retry" /\ again ->
                    Restore(p) \o WriterAppend(t, User(p)) \o WriterAppend(t, Assistant(p)))
    /\ restored' = [restored EXCEPT ![p] = job[p] = "failed"]
    /\ UNCHANGED <<store, db, seen, thread, snap, listed, served, job, starts, uploads, faults, clean, diverged>>

\* wait_for_terminal_job gives up; the job goes on beside the restoration.
WaitTimesOut(p) ==
    /\ Waits(p) /\ Cardinality(Active) < MaxActive
    /\ job[p] \in {"queued", "running"}
    /\ Then(Web(p), Restore(p))
    /\ clean' = [clean EXCEPT ![p] = FALSE]
    /\ diverged' = Threads
    /\ UNCHANGED <<store, db, seen, request, starts, uploads, faults>>

------------------------------------------------------------------------------
(* Faults: the process dies or Redis does not answer.  A job comes back. *)
Crash(w) ==
    /\ todo[w] # <<>> /\ faults < MaxFaults
    /\ faults' = faults + 1
    /\ todo' = [todo EXCEPT ![w] = <<>>]
    /\ seen' = [seen EXCEPT ![w] = None]
    /\ job' = IF w[2] = "job" THEN [job EXCEPT ![w[1]] = "queued"] ELSE job
    /\ clean' = [clean EXCEPT ![w[1]] = FALSE]
    /\ diverged' = Threads
    /\ UNCHANGED <<store, db, thread, snap, listed, served, restored, starts, uploads>>

Next ==
    \/ \E p \in Requests, call \in Calls : Start(p, call[1], call[2])
    \/ \E w \in Procs :
          \/ Look(w) \/ ReadLegacy(w) \/ ImportLegacy(w) \/ Push(w) \/ Delete(w)
          \/ Touch(w) \/ ZRem(w) \/ Sync(w)
          \/ MirrorRead(w) \/ MirrorCommit(w) \/ MirrorSkips(w)
          \/ MirrorConflict(w) \/ MirrorFails(w) \/ Crash(w)
    \/ \E p \in Requests :
          \/ Read(p) \/ Members(p) \/ Find(p) \/ Serve(p) \/ Source(p) \/ SourceLegacy(p)
          \/ Enqueue(p) \/ JobEnds(p) \/ Wait(p) \/ WaitTimesOut(p)
    \/ \E p \in Requests, outcome \in Endings : JobRuns(p, outcome)

Spec == Init /\ [][Next]_vars
------------------------------------------------------------------------------
(* Properties. *)

\* A thread's copy in the database is the history the next read returns, unless
\* something that may part them has happened since the last snapshot, clear or
\* deletion: requests that overlapped, a failed mirror write, a trimmed list, a
\* crash in the middle of a script.
\* (The old layout's list counts as the default thread until it is imported.)
View(t) == IF t = Default /\ redis[t] = <<>> THEN legacy ELSE redis[t]
MirrorParity ==
    Quiet => \A t \in Threads \ diverged : DbMessages(t) = View(t)

\* A request that lists the threads, with nothing beside it, finds every thread
\* that holds messages, also after a crash between a push and its registration
\* (_sync_thread_registry_from_existing_buckets).
ListShowsAll ==
    \A p \in Requests : clean[p] /\ listed[p] # {} => NonEmpty \subseteq listed[p]

\* A file request that waits for its answer and puts the history back because the
\* job failed or was cancelled leaves the thread exactly as it found it, if the
\* history fits the budget and nothing ran beside it: the worker stores its answer
\* before it ends the job (restore_chat_history).  A streamed file request never
\* puts anything back: what it and its job have stored stays.
RestoreLeavesNoTrace ==
    \A p \in Requests :
        restored[p] /\ clean[p] /\ todo[Web(p)] = <<>> /\ Len(snap[p]) <= BudgetMessages
            => redis[thread[p]] = snap[p]

\* The history of the old layout enters the default thread at most once.
MigratedOnce ==
    \A k, l \in DOMAIN redis[Default] :
        redis[Default][k] = redis[Default][l] /\ redis[Default][k] \in ToSet(Old) => k = l

\* The dual write, its failures and the read cutover never change what the user
\* sees: the Redis lists alone are a ChatLog, and every read is answered with
\* the list as it was when the request read it, whichever copy served it.
Log == INSTANCE ChatLog WITH
          log <- redis, asked <- snap, answered <- served, NoMessages <- None,
          Messages <- Messages
ServesTheLog == Log!LogSpec
=============================================================================
