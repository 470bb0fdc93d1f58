------------------------- MODULE ConversationProofs -------------------------
(***************************************************************************)
(* Conversation implements ChatLog, for every set of requests and every    *)
(* bound: what the users read is the log of the thread at one moment, and  *)
(* the log is changed by appends, clears and the import alone.  A request  *)
(* that lists threads with nothing beside it finds every thread that holds *)
(* messages, a failed upload leaves the thread as it found it, and the     *)
(* copy in the database is the list unless something is known to have      *)
(* parted them.                                                            *)
(***************************************************************************)
EXTENDS Conversation, SequenceTheorems, FiniteSetTheorems, TLAPS

(* The commands a script may hold. *)
ThreadOps == {"del", "read", "members", "find", "serve", "source", "source_legacy"}
PlainOps == {"look", "legacy", "touch", "zrem", "sync", "enqueue", "wait", "wait_again",
             "completed", "retry", "failed"}
Commands ==
    [op : {"push"}, t : Threads, ms : Seq(Messages) \ {<<>>}]
        \cup [op : {"import"}, t : {Default}, ms : {Old}]
        \cup [op : ThreadOps, t : Threads, ms : {<<>>}]
        \cup [op : PlainOps \cup MirrorOps, t : Threads \cup {None} \cup SUBSET Threads,
              ms : Seq(Messages)]
Scripts == Seq(Commands)

\* The two histories that the list of the old layout can hold.
Histories == Seq(Messages)

\* The inductive invariant of the refinement: the commands still to run are well
\* formed, the stored and the read histories are histories, and a request that
\* runs, or has a job, is about a thread.
Shaped ==
    /\ redis \in [Threads -> Histories]
    /\ legacy \in {Old, <<>>}
    /\ todo \in [Procs -> Scripts]
    /\ snap \in [Requests -> Histories]
    /\ served \in [Requests -> Histories \cup {None}]
    /\ job \in [Requests -> {"none", "queued", "running", "completed", "retry", "failed"}]
    /\ thread \in [Requests -> Threads \cup {None}]
    /\ \A p \in Requests :
          thread[p] = None => job[p] = "none" /\ todo[Web(p)] = <<>> /\ todo[Job(p)] = <<>>

------------------------------------------------------------------------------
(* Histories. *)

\* The list of the old layout, and no messages, are histories.
LEMMA OldIsHistory == Old \in Histories /\ <<>> \in Histories
<1>1. Old \in Seq(ToSet(Old))
  BY ConversationAssumption
<1>2. ToSet(Old) \subseteq Messages
  BY DEF Messages
<1> QED
  BY <1>1, <1>2 DEF Histories

\* The newest messages of a history are a history.
LEMMA SubSeqKeeps ==
    ASSUME NEW s \in Histories, NEW n \in Nat
    PROVE  SubSeq(s, IF Len(s) > n THEN Len(s) - n + 1 ELSE 1, Len(s)) \in Histories
<1> DEFINE k == IF Len(s) > n THEN Len(s) - n + 1 ELSE 1
<1>1. Len(s) \in Nat
  BY DEF Histories
<1>2. k \in 1 .. Len(s) + 1
  BY <1>1
<1>3. \A i \in k .. Len(s) : i \in 1 .. Len(s)
  BY <1>1, <1>2
<1>4. SubSeq(s, k, Len(s)) \in Seq(Messages)
  BY <1>1, <1>2, <1>3 DEF Histories
<1> QED
  BY <1>4 DEF Histories

\* So is what a trim leaves.
LEMMA NewestKeeps == \A s \in Histories : Newest(s) \in Histories
BY SubSeqKeeps, ConversationAssumption DEF Newest

\* And what the budget leaves.
LEMMA BudgetedKeeps == \A s \in Histories : Budgeted(s) \in Histories
<1>1. BudgetMessages \in Nat
  BY ConversationAssumption
<1> QED
  BY <1>1, SubSeqKeeps DEF Budgeted

------------------------------------------------------------------------------
(* Scripts. *)

\* Joined scripts are a script.
LEMMA Joined == \A r, s \in Scripts : r \o s \in Scripts
BY DEF Scripts

\* Scripts of at most three commands.
LEMMA Short ==
    /\ <<>> \in Scripts
    /\ \A c \in Commands : <<c>> \in Scripts
    /\ \A c, d \in Commands : <<c, d>> \in Scripts
    /\ \A c, d, e \in Commands : <<c, d, e>> \in Scripts
BY DEF Scripts

\* The commands the handlers use.
LEMMA DoIsCommand ==
    /\ \A t \in Threads, op \in ThreadOps : Do(op, t) \in Commands
    /\ \A t \in Threads \cup {None}, op \in PlainOps \cup MirrorOps : Do(op, t) \in Commands
    /\ \A ts \in SUBSET Threads : Touching(ts) \in Commands
    /\ \A t \in Threads, ms \in Histories, op \in MirrorOps : Cmd(op, t, ms) \in Commands
    /\ \A t \in Threads, ms \in Histories : ms # <<>> => Cmd("push", t, ms) \in Commands
    /\ Cmd("import", Default, Old) \in Commands
<1>1. <<>> \in Seq(Messages)
  OBVIOUS
<1>2. ASSUME NEW t \in Threads, NEW op \in ThreadOps
      PROVE  Do(op, t) \in Commands
  BY DEF Do, Cmd, Commands
<1>3. ASSUME NEW t \in Threads \cup {None}, NEW op \in PlainOps \cup MirrorOps
      PROVE  Do(op, t) \in Commands
  BY <1>1 DEF Do, Cmd, Commands
<1>4. ASSUME NEW ts \in SUBSET Threads
      PROVE  Touching(ts) \in Commands
  BY <1>1 DEF Touching, Cmd, Commands, PlainOps
<1>5. ASSUME NEW t \in Threads, NEW ms \in Histories, NEW op \in MirrorOps
      PROVE  Cmd(op, t, ms) \in Commands
  BY DEF Cmd, Commands, Histories
<1>6. ASSUME NEW t \in Threads, NEW ms \in Histories, ms # <<>>
      PROVE  Cmd("push", t, ms) \in Commands
  BY <1>6 DEF Cmd, Commands, Histories
<1>7. Cmd("import", Default, Old) \in Commands
  BY DEF Cmd, Commands, Threads
<1> QED
  BY <1>2, <1>3, <1>4, <1>5, <1>6, <1>7

\* What a command holds, by its name.
LEMMA CommandHolds ==
    ASSUME NEW c \in Commands
    PROVE  /\ c.op = "push" => c.t \in Threads /\ c.ms \in Histories /\ c.ms # <<>>
           /\ c.op = "import" => c.t = Default /\ c.ms = Old
           /\ c.op \in ThreadOps => c.t \in Threads
BY DEF Commands, Histories, PlainOps, MirrorOps, ThreadOps

\* The scripts of the stores.
LEMMA StoreScripts ==
    ASSUME NEW t \in Threads
    PROVE  /\ Migrate(t) \in Scripts
           /\ GetHistory(t) \in Scripts
           /\ WriterClear(t) \in Scripts
           /\ \A m \in Messages : WriterAppend(t, m) \in Scripts
           /\ \A ms \in Histories : StoreAll(t, ms) \in Scripts
           /\ \A ms \in Histories : WriterReplace(t, ms) \in Scripts
<1>0. \A op \in PlainOps \cup MirrorOps : Do(op, t) \in Commands
  BY DoIsCommand
<1>1. Migrate(t) \in Scripts
  BY <1>0, Short DEF Migrate, PlainOps
<1>2. Touching({t}) \in Commands /\ Do("del", t) \in Commands /\ Do("read", t) \in Commands
  BY DoIsCommand DEF ThreadOps
<1>3. GetHistory(t) \in Scripts
  BY <1>1, <1>2, Short, Joined DEF GetHistory
<1>4. WriterClear(t) \in Scripts
  BY <1>0, <1>2, Short DEF WriterClear, MirrorOps
<1>5. ASSUME NEW ms \in Histories
      PROVE  StoreAll(t, ms) \in Scripts
  <2>1. ms # <<>> => <<Cmd("push", t, ms), Touching({t})>> \in Scripts
    BY <1>2, DoIsCommand, Short
  <2> QED
    BY <1>1, <2>1, Short, Joined DEF StoreAll
<1>6. ASSUME NEW m \in Messages
      PROVE  WriterAppend(t, m) \in Scripts
  <2>1. <<m>> \in Histories
    BY DEF Histories
  <2>2. <<Cmd("mirror_append", t, <<m>>)>> \in Scripts
    BY <2>1, DoIsCommand, Short DEF MirrorOps
  <2> QED
    BY <2>1, <2>2, <1>5, Joined DEF WriterAppend
<1>7. ASSUME NEW ms \in Histories
      PROVE  WriterReplace(t, ms) \in Scripts
  <2>1. <<Cmd("mirror_replace", t, ms)>> \in Scripts
    BY DoIsCommand, Short DEF MirrorOps
  <2>2. <<Do("del", t), Touching({t})>> \in Scripts
    BY <1>2, Short
  <2> QED
    BY <2>1, <2>2, <1>5, Joined DEF WriterReplace
<1> QED
  BY <1>1, <1>3, <1>4, <1>5, <1>6, <1>7

\* The scripts that list the threads.
LEMMA ListScripts ==
    ASSUME NEW t \in Threads
    PROVE  List(t) \in Scripts /\ EnsureThread(t) \in Scripts
<1>1. \A op \in PlainOps \cup MirrorOps :
          Do(op, t) \in Commands /\ Do(op, Default) \in Commands /\ Do(op, None) \in Commands
  BY DoIsCommand DEF Threads
<1>2. Do("members", t) \in Commands /\ Touching({t}) \in Commands
  BY DoIsCommand DEF ThreadOps
<1>3. List(t) \in Scripts
  BY <1>1, <1>2, Short DEF List, PlainOps
<1>4. EnsureThread(t) \in Scripts
  BY <1>1, <1>2, Short DEF EnsureThread, MirrorOps
<1> QED
  BY <1>3, <1>4

\* The scripts that requests and jobs start with.
LEMMA RequestScripts ==
    ASSUME NEW p \in Requests, NEW t \in Threads
    PROVE  /\ Ask(p, t) \in Scripts
           /\ WriterAppend(t, User(p)) \in Scripts
           /\ WriterAppend(t, Assistant(p)) \in Scripts
           /\ \A kind \in {"chat", "stream", "files", "read", "create", "clear", "delete", "migrate"} :
                 Handler(p, kind, t) \in Scripts
           /\ \A outcome \in Endings : outcome # "silent" => JobScript(p, t, outcome) \in Scripts
           /\ <<Do("failed", t)>> \in Scripts
<1>0. \A op \in PlainOps \cup MirrorOps : <<Do(op, t)>> \in Scripts
  BY DoIsCommand, Short
<1>1. User(p) \in Messages /\ Assistant(p) \in Messages
  BY DEF User, Assistant, Messages, Roles
<1>2. WriterAppend(t, User(p)) \in Scripts /\ WriterAppend(t, Assistant(p)) \in Scripts
  BY <1>1, StoreScripts
<1>3. Ask(p, t) \in Scripts
  BY <1>0, <1>2, Joined DEF Ask, PlainOps
<1>4. GetHistory(t) \in Scripts /\ WriterClear(t) \in Scripts
  BY StoreScripts
<1>5. /\ List(Default) \in Scripts /\ List(New) \in Scripts
      /\ EnsureThread(New) \in Scripts
  BY ListScripts DEF Threads
<1>6. Handler(p, "chat", t) \in Scripts /\ Handler(p, "stream", t) \in Scripts
  BY <1>3, <1>4, Joined DEF Handler
<1>7. Handler(p, "files", t) \in Scripts
  <2>1. Ask(p, t) \o <<Do("wait", t)>> \in Scripts
    BY <1>0, <1>3, Joined DEF PlainOps
  <2>2. GetHistory(t) \o Ask(p, t) \in Scripts
    BY <1>3, <1>4, Joined
  <2>3. <<Do("wait", t)>> \in Scripts
    BY <1>0 DEF PlainOps
  <2> QED
    BY <2>1, <2>2, <2>3, <1>4, Joined DEF Handler
<1>8. Handler(p, "read", t) \in Scripts
  <2>1. <<Do("find", t)>> \in Scripts
    BY DoIsCommand, Short DEF ThreadOps
  <2> QED
    BY <2>1, <1>5, Joined DEF Handler
<1>9. Handler(p, "create", t) \in Scripts
  BY <1>5, Joined DEF Handler
<1>10. Handler(p, "clear", t) \in Scripts
  BY <1>4 DEF Handler
<1>11. Handler(p, "delete", t) \in Scripts
  <2>1. Do("del", t) \in Commands /\ Do("zrem", t) \in Commands /\ Do("mirror_drop", t) \in Commands
    BY DoIsCommand DEF ThreadOps, PlainOps, MirrorOps
  <2>2. <<Do("del", t), Do("zrem", t), Do("mirror_drop", t)>> \in Scripts
    BY <2>1, Short
  <2> QED
    BY <2>2, <1>5, Joined DEF Handler
<1>12. Handler(p, "migrate", t) \in Scripts
  BY DoIsCommand, Short DEF Handler, ThreadOps
<1>13. \A outcome \in Endings : outcome # "silent" => JobScript(p, t, outcome) \in Scripts
  <2>1. \A outcome \in Endings : outcome # "silent" => <<Do(outcome, t)>> \in Scripts
    BY <1>0 DEF Endings, PlainOps
  <2> QED
    BY <2>1, <1>2, Joined DEF JobScript
<1>14. <<Do("failed", t)>> \in Scripts
  BY <1>0 DEF PlainOps
<1> QED
  BY <1>2, <1>3, <1>6, <1>7, <1>8, <1>9, <1>10, <1>11, <1>12, <1>13, <1>14

------------------------------------------------------------------------------
(* Steps. *)

\* A step of process w replaces its command by a script.
LEMMA ThenKeeps ==
    ASSUME Shaped, NEW w \in Procs, todo[w] # <<>>, NEW s \in Scripts, Then(w, s)
    PROVE  /\ todo' \in [Procs -> Scripts]
           /\ \A v \in Procs : todo[v] = <<>> => todo'[v] = <<>>
<1>1. todo[w] \in Scripts
  BY DEF Shaped
<1>2. Tail(todo[w]) \in Scripts
  BY <1>1 DEF Scripts
<1>3. s \o Tail(todo[w]) \in Scripts
  BY <1>2, Joined
<1> QED
  BY <1>3 DEF Shaped, Then

\* What a process runs next is a command.
LEMMA HeadIsCommand ==
    ASSUME Shaped, NEW w \in Procs, todo[w] # <<>>
    PROVE  Command(w) \in Commands
BY DEF Shaped, Scripts, Command

\* Most steps leave the logs and the requests alone and only replace a command.
LEMMA QuietStep ==
    ASSUME Shaped, NEW w \in Procs, todo[w] # <<>>, NEW s \in Scripts, Then(w, s),
           UNCHANGED <<redis, snap, served, job, thread>>, legacy' \in {legacy, <<>>}
    PROVE  Shaped'
<1>1. /\ todo' \in [Procs -> Scripts]
      /\ \A v \in Procs : todo[v] = <<>> => todo'[v] = <<>>
  BY ThenKeeps
<1>2. \A p \in Requests : Web(p) \in Procs /\ Job(p) \in Procs
  BY DEF Web, Job, Procs
<1> QED
  BY <1>1, <1>2 DEF Shaped

\* What every step has to show.
Simulates == Shaped' /\ (Log!LogNext \/ UNCHANGED <<redis, snap, served>>)

\* The steps the users do not see: the registry, the database, the old layout's
\* list before its import, and the choices of the scripts.
LEMMA UnseenStoreSteps ==
    ASSUME Shaped, NEW w \in Procs,
           \/ Look(w) \/ ReadLegacy(w) \/ Touch(w) \/ ZRem(w) \/ Sync(w)
           \/ MirrorRead(w) \/ MirrorCommit(w) \/ MirrorSkips(w)
           \/ MirrorConflict(w) \/ MirrorFails(w)
    PROVE  Simulates
<1>1. CASE Look(w)
  <2>1. <<Touching({Default})>> \in Scripts /\ <<Do("legacy", Default)>> \in Scripts
    BY DoIsCommand, Short DEF PlainOps, Threads
  <2>2. \E s \in Scripts : Then(w, s)
    BY <1>1, <2>1 DEF Look
  <2> QED
    BY <1>1, <2>2, QuietStep DEF Look, At, store, request, Simulates
<1>2. CASE ReadLegacy(w)
  <2>1. Touching({Default}) \in Commands /\ Cmd("import", Default, Old) \in Commands
    BY DoIsCommand DEF Threads
  <2>2. <<>> \in Scripts /\ <<Cmd("import", Default, Old), Touching({Default})>> \in Scripts
    BY <2>1, Short
  <2>3. \E s \in Scripts : Then(w, s)
    BY <1>2, <2>2 DEF ReadLegacy, Shaped
  <2> QED
    BY <1>2, <2>3, QuietStep DEF ReadLegacy, At, store, request, Simulates
<1>3. CASE Touch(w) \/ ZRem(w)
  BY <1>3, Short, QuietStep DEF Touch, ZRem, At, request, Simulates
<1>4. CASE Sync(w)
  <2>1. <<Touching(NonEmpty)>> \in Scripts
    BY DoIsCommand, Short DEF NonEmpty
  <2> QED
    BY <1>4, <2>1, QuietStep DEF Sync, At, store, request, Simulates
<1>5. CASE MirrorRead(w)
  BY <1>5 DEF MirrorRead, store, request, Simulates, Shaped
<1>6. CASE MirrorCommit(w)
  BY <1>6, Short, QuietStep DEF MirrorCommit, AtMirror, store, request, Simulates
<1>7. CASE MirrorSkips(w) \/ MirrorConflict(w) \/ MirrorFails(w)
  BY <1>7, Short, QuietStep
  DEF MirrorSkips, MirrorConflict, MirrorFails, AtMirror, store, request, Simulates
<1> QED
  BY <1>1, <1>2, <1>3, <1>4, <1>5, <1>6, <1>7

\* The choices of a request that lists or reads.
LEMMA UnseenRequestSteps ==
    ASSUME Shaped, NEW p \in Requests,
           Members(p) \/ Find(p) \/ Source(p) \/ SourceLegacy(p)
    PROVE  Simulates
<1> DEFINE w == Web(p)
           t == Command(w).t
<1>1. w \in Procs
  BY DEF Web, Procs
<1>2. todo[w] # <<>> /\ Command(w).op \in ThreadOps
  BY DEF Members, Find, Source, SourceLegacy, At, ThreadOps
<1>3. t \in Threads
  BY <1>1, <1>2, HeadIsCommand, CommandHolds
<1>4. <<>> \in Scripts
  BY Short
<1>5. CASE Members(p)
  <2>1. EnsureThread(t) \o List(t) \in Scripts
    BY <1>3, ListScripts, Joined
  <2>2. <<Touching(NonEmpty \cap registry)>> \in Scripts
    BY DoIsCommand, Short DEF NonEmpty
  <2>3. \E s \in Scripts : Then(w, s)
    BY <1>5, <2>1, <2>2 DEF Members
  <2> QED
    BY <1>1, <1>2, <1>5, <2>3, QuietStep DEF Members, store, Simulates
<1>6. CASE Find(p)
  <2>1. <<Do("serve", t)>> \in Scripts
    BY <1>3, DoIsCommand, Short DEF ThreadOps
  <2>2. GetHistory(t) \o <<Do("serve", t)>> \in Scripts
    BY <1>3, <2>1, StoreScripts, Joined
  <2>3. \E s \in Scripts : Then(w, s)
    BY <1>4, <1>6, <2>2 DEF Find
  <2> QED
    BY <1>1, <1>2, <1>6, <2>3, QuietStep DEF Find, store, request, Simulates
<1>7. CASE Source(p)
  <2>1. redis[t] \in Histories
    BY <1>3 DEF Shaped
  <2>2. <<Cmd("mirror_import", t, redis[t])>> \in Scripts
    BY <1>3, <2>1, DoIsCommand, Short DEF MirrorOps
  <2>3. <<Do("source_legacy", t)>> \in Scripts
    BY <1>3, DoIsCommand, Short DEF ThreadOps
  <2>4. \E s \in Scripts : Then(w, s)
    BY <1>4, <1>7, <2>2, <2>3 DEF Source
  <2> QED
    BY <1>1, <1>2, <1>7, <2>4, QuietStep DEF Source, store, request, Simulates
<1>8. CASE SourceLegacy(p)
  <2>1. legacy \in Histories /\ Default \in Threads
    BY OldIsHistory DEF Shaped, Threads
  <2>2. <<Cmd("mirror_import", Default, legacy)>> \in Scripts
    BY <2>1, DoIsCommand, Short DEF MirrorOps
  <2>3. \E s \in Scripts : Then(w, s)
    BY <1>4, <1>8, <2>2 DEF SourceLegacy
  <2> QED
    BY <1>1, <1>2, <1>8, <2>3, QuietStep DEF SourceLegacy, store, request, Simulates
<1> QED
  BY <1>5, <1>6, <1>7, <1>8

\* The steps that change a list.  A command of process w and a script in its
\* place keep everything but the lists well formed.
LEMMA ListStep ==
    ASSUME Shaped, NEW w \in Procs, todo[w] # <<>>, NEW s \in Scripts, Then(w, s),
           NEW t \in Threads, NEW ms \in Histories, redis' = [redis EXCEPT ![t] = ms],
           legacy' \in {legacy, <<>>}, UNCHANGED <<snap, served, job, thread>>
    PROVE  Shaped'
<1>1. /\ todo' \in [Procs -> Scripts]
      /\ \A v \in Procs : todo[v] = <<>> => todo'[v] = <<>>
  BY ThenKeeps
<1>2. \A p \in Requests : Web(p) \in Procs /\ Job(p) \in Procs
  BY DEF Web, Job, Procs
<1>3. redis' \in [Threads -> Histories]
  BY DEF Shaped
<1> QED
  BY <1>1, <1>2, <1>3 DEF Shaped

\* The import appends the old layout's messages.
LEMMA ImportStep ==
    ASSUME Shaped, NEW w \in Procs, ImportLegacy(w)
    PROVE  Simulates
<1>1. Command(w).ms = Old /\ todo[w] # <<>> /\ Default \in Threads
  BY HeadIsCommand, CommandHolds DEF ImportLegacy, At, Threads
<1>2. redis[Default] \in Histories
  BY <1>1 DEF Shaped
<1>3. Newest(redis[Default] \o Old) \in Histories
  <2>1. redis[Default] \o Old \in Histories
    BY <1>2, OldIsHistory DEF Histories
  <2> QED
    BY <2>1, NewestKeeps
<1>4. redis' = [redis EXCEPT ![Default] = Newest(redis[Default] \o Old)]
  BY <1>1 DEF ImportLegacy
<1>5. Shaped'
  BY <1>1, <1>3, <1>4, Short, ListStep DEF ImportLegacy, request
<1>6. Log!LogImport(Default)
  BY <1>4 DEF Log!LogImport, Log!Newest, Newest, ImportLegacy, request
<1> QED
  BY <1>1, <1>5, <1>6 DEF Simulates, Log!LogNext

\* A push appends one message.
LEMMA PushStep ==
    ASSUME Shaped, NEW w \in Procs, Push(w)
    PROVE  Simulates
<1> DEFINE t == Command(w).t
           m == Head(Command(w).ms)
           rest == Tail(Command(w).ms)
<1>1. todo[w] # <<>> /\ t \in Threads /\ Command(w).ms \in Histories /\ Command(w).ms # <<>>
  BY HeadIsCommand, CommandHolds DEF Push, At
<1>2. m \in Messages /\ rest \in Histories
  BY <1>1 DEF Histories
<1>3. redis[t] \in Histories
  BY <1>1 DEF Shaped
<1>4. Newest(Append(redis[t], m)) \in Histories
  <2>1. Append(redis[t], m) \in Histories
    BY <1>2, <1>3 DEF Histories
  <2> QED
    BY <2>1, NewestKeeps
<1>5. \E s \in Scripts : Then(w, s)
  <2>1. CASE rest = <<>>
    BY <2>1, Short DEF Push
  <2>2. CASE rest # <<>>
    <3>1. <<Touching({t})>> \in Scripts /\ <<Cmd("push", t, rest)>> \in Scripts
      BY <1>1, <1>2, <2>2, DoIsCommand, Short
    <3>2. Migrate(t) \in Scripts
      BY <1>1, StoreScripts
    <3>3. <<Touching({t})>> \o Migrate(t) \in Scripts
      BY <3>1, <3>2, Joined
    <3>4. (<<Touching({t})>> \o Migrate(t)) \o <<Cmd("push", t, rest)>> \in Scripts
      BY <3>1, <3>3, Joined
    <3> QED
      BY <2>2, <3>4 DEF Push
  <2> QED
    BY <2>1, <2>2
<1>6. redis' = [redis EXCEPT ![t] = Newest(Append(redis[t], m))]
  BY DEF Push
<1>7. Shaped'
  BY <1>1, <1>4, <1>5, <1>6, ListStep DEF Push, request
<1>8. Log!LogAppend(t, m)
  BY <1>6 DEF Log!LogAppend, Log!Newest, Newest, Push, request
<1> QED
  BY <1>1, <1>2, <1>7, <1>8 DEF Simulates, Log!LogNext

\* A deletion clears the log.
LEMMA DeleteStep ==
    ASSUME Shaped, NEW w \in Procs, Delete(w)
    PROVE  Simulates
<1>1. todo[w] # <<>> /\ Command(w).t \in Threads
  BY HeadIsCommand, CommandHolds DEF Delete, At, ThreadOps
<1>2. Shaped'
  BY <1>1, OldIsHistory, Short, ListStep DEF Delete, request
<1>3. Log!LogClear(Command(w).t)
  BY DEF Log!LogClear, Delete, request
<1> QED
  BY <1>1, <1>2, <1>3 DEF Simulates, Log!LogNext

\* The parity test lets the copy answer only when it is the history read.
LEMMA ParityIsEquality ==
    \A source, copy : Parity(source, copy) \in {"matched", "empty_thread"} => copy = source
BY DEF Parity

\* A read asks for the log, and the answer is what was asked for.
LEMMA ReadSteps ==
    ASSUME Shaped, NEW p \in Requests, Read(p) \/ Serve(p)
    PROVE  Simulates
<1>1. Web(p) \in Procs /\ \A q \in Requests : Web(q) \in Procs /\ Job(q) \in Procs
  BY DEF Web, Job, Procs
<1>2. todo[Web(p)] # <<>> /\ Command(Web(p)).t \in Threads
  BY <1>1, HeadIsCommand, CommandHolds DEF Read, Serve, At, ThreadOps
<1>3. CASE Read(p)
  <2> DEFINE t == Command(Web(p)).t
  <2>1. <<Touching({t})>> \in Scripts /\ <<>> \in Scripts
    BY <1>2, DoIsCommand, Short
  <2>2. \E s \in Scripts : Then(Web(p), s)
    BY <1>3, <2>1 DEF Read
  <2>3. /\ todo' \in [Procs -> Scripts]
        /\ \A v \in Procs : todo[v] = <<>> => todo'[v] = <<>>
    BY <1>1, <1>2, <2>2, ThenKeeps
  <2>4. snap' = [snap EXCEPT ![p] = redis[t]] /\ redis[t] \in Histories
    BY <1>2, <1>3 DEF Read, Shaped
  <2>5. Shaped'
    BY <1>1, <1>3, <2>3, <2>4 DEF Shaped, Read, store
  <2>6. Log!LogAsk(p, t)
    BY <1>3, <2>4 DEF Log!LogAsk, Read, store
  <2> QED
    BY <1>2, <2>5, <2>6 DEF Simulates, Log!LogNext
<1>4. CASE Serve(p)
  <2>1. /\ todo' \in [Procs -> Scripts]
        /\ \A v \in Procs : todo[v] = <<>> => todo'[v] = <<>>
    BY <1>1, <1>2, <1>4, Short, ThenKeeps DEF Serve
  <2>2. served' = [served EXCEPT ![p] = snap[p]]
    <3> DEFINE copy == DbMessages(Command(Web(p)).t)
               answer == IF Parity(snap[p], copy) \in {"matched", "empty_thread"}
                         THEN copy ELSE snap[p]
    <3>1. served' = [served EXCEPT ![p] = answer]
      BY <1>4 DEF Serve
    <3>2. answer = snap[p]
      <4> HIDE DEF copy
      <4> QED
        BY ParityIsEquality
    <3> HIDE DEF answer
    <3> QED
      BY <3>1, <3>2
  <2>3. Shaped'
    BY <1>1, <1>4, <2>1, <2>2 DEF Shaped, Serve, store
  <2>4. Log!LogAnswer(p)
    BY <1>4, <2>2 DEF Log!LogAnswer, Serve, store
  <2> QED
    BY <2>3, <2>4 DEF Simulates, Log!LogNext
<1> QED
  BY <1>3, <1>4

\* The steps of requests and jobs: the scripts and the thread a request is about.
LEMMA JobScriptSteps ==
    ASSUME Shaped, NEW p \in Requests,
           Enqueue(p) \/ JobEnds(p) \/ \E outcome \in Endings : JobRuns(p, outcome)
    PROVE  Simulates
<1>1. \A q \in Requests : Web(q) \in Procs /\ Job(q) \in Procs
  BY DEF Web, Job, Procs
<1>2. CASE Enqueue(p)
  <2>1. /\ todo' \in [Procs -> Scripts]
        /\ \A v \in Procs : todo[v] = <<>> => todo'[v] = <<>>
    BY <1>1, <1>2, Short, ThenKeeps DEF Enqueue, At
  <2>2. todo[Web(p)] # <<>>
    BY <1>2 DEF Enqueue, At
  <2>3. thread[p] # None
    BY <2>2 DEF Shaped
  <2> QED
    BY <1>1, <1>2, <2>1, <2>3 DEF Shaped, Simulates, Enqueue, store
<1>3. CASE JobEnds(p)
  <2>1. /\ todo' \in [Procs -> Scripts]
        /\ \A v \in Procs : todo[v] = <<>> => todo'[v] = <<>>
    BY <1>1, <1>3, Short, ThenKeeps DEF JobEnds
  <2>2. thread[p] # None
    BY <1>3 DEF Shaped, JobEnds
  <2>3. Command(Job(p)).op \in {"completed", "retry", "failed"}
    BY <1>3 DEF JobEnds
  <2> QED
    BY <1>1, <1>3, <2>1, <2>2, <2>3 DEF Shaped, Simulates, JobEnds, store
<1>4. ASSUME NEW outcome \in Endings, JobRuns(p, outcome)
      PROVE  Simulates
  <2>1. thread[p] \in Threads
    BY <1>4 DEF Shaped, JobRuns
  <2>2. /\ outcome # "silent" => JobScript(p, thread[p], outcome) \in Scripts
        /\ <<Do("failed", thread[p])>> \in Scripts
    BY <2>1, RequestScripts
  <2> DEFINE s == IF outcome = "silent" THEN <<Do("failed", thread[p])>>
                  ELSE JobScript(p, thread[p], outcome)
  <2>3. s \in Scripts
    BY <2>2
  <2>4. todo' = [todo EXCEPT ![Job(p)] = s]
    BY <1>4 DEF JobRuns
  <2> HIDE DEF s
  <2>5. todo' \in [Procs -> Scripts] /\ \A q \in Requests \ {p} :
            todo'[Job(q)] = todo[Job(q)] /\ todo'[Web(q)] = todo[Web(q)]
    BY <1>1, <2>3, <2>4 DEF Shaped, Web, Job
  <2>6. thread[p] # None
    BY <2>1, ConversationAssumption
  <2> QED
    BY <1>4, <2>5, <2>6 DEF Shaped, Simulates, JobRuns, store
<1> QED
  BY <1>2, <1>3, <1>4

\* A request that waited goes on with the restored history, or without.
LEMMA WaitSteps ==
    ASSUME Shaped, NEW p \in Requests, Wait(p) \/ WaitTimesOut(p)
    PROVE  Simulates
<1>1. Web(p) \in Procs /\ todo[Web(p)] # <<>>
  BY DEF Web, Procs, Wait, WaitTimesOut, Waits
<1>2. thread[p] \in Threads
  BY <1>1 DEF Shaped
<1>3. Restore(p) \in Scripts
  <2>1. Budgeted(snap[p]) \in Histories
    BY BudgetedKeeps DEF Shaped
  <2> QED
    BY <1>2, <2>1, StoreScripts DEF Restore
<1>4. CASE WaitTimesOut(p)
  BY <1>1, <1>3, <1>4, QuietStep DEF WaitTimesOut, store, request, Simulates
<1>5. CASE Wait(p)
  <2> DEFINE t == thread[p]
  <2>1. Ask(p, t) \in Scripts /\ <<Do("wait_again", t)>> \in Scripts
    BY <1>2, RequestScripts, DoIsCommand, Short DEF PlainOps
  <2>2. WriterAppend(t, User(p)) \in Scripts /\ WriterAppend(t, Assistant(p)) \in Scripts
    BY <1>2, RequestScripts
  <2>3. Restore(p) \o Ask(p, t) \o <<Do("wait_again", t)>> \in Scripts
    <3>1. Restore(p) \o Ask(p, t) \in Scripts
      BY <1>3, <2>1, Joined
    <3> QED
      BY <2>1, <3>1, Joined
  <2>4. Restore(p) \o WriterAppend(t, User(p)) \o WriterAppend(t, Assistant(p)) \in Scripts
    <3>1. Restore(p) \o WriterAppend(t, User(p)) \in Scripts
      BY <1>3, <2>2, Joined
    <3> QED
      BY <2>2, <3>1, Joined
  <2>5. <<>> \in Scripts
    BY Short
  <2>6. \E s \in Scripts : Then(Web(p), s)
    <3>1. CASE job[p] = "completed"
      BY <1>5, <2>5, <3>1 DEF Wait
    <3>2. CASE job[p] = "failed"
      BY <1>3, <1>5, <3>2 DEF Wait
    <3>3. CASE job[p] = "retry" /\ ~At(Web(p), "wait_again")
      BY <1>5, <2>3, <3>3 DEF Wait
    <3>4. CASE job[p] = "retry" /\ At(Web(p), "wait_again")
      BY <1>5, <2>4, <3>4 DEF Wait
    <3> QED
      BY <1>5, <3>1, <3>2, <3>3, <3>4 DEF Wait
  <2> QED
    BY <1>1, <1>5, <2>6, QuietStep DEF Wait, store, Simulates
<1> QED
  BY <1>4, <1>5

\* A request that starts forgets what was read before.
LEMMA StartStep ==
    ASSUME Shaped, NEW p \in Requests, NEW call \in Calls, Start(p, call[1], call[2])
    PROVE  Simulates
<1> DEFINE kind == call[1]
           t == call[2]
<1>1. /\ kind \in {"chat", "stream", "files", "read", "create", "clear", "delete", "migrate"}
      /\ t \in Threads
  BY ConversationAssumption
<1>2. Handler(p, kind, t) \in Scripts
  BY <1>1, RequestScripts
<1>3. \A q \in Requests : Web(q) \in Procs /\ Job(q) \in Procs
  BY DEF Web, Job, Procs
<1>4. todo' = [todo EXCEPT ![Web(p)] = Handler(p, kind, t)]
  BY DEF Start
<1>5. todo' \in [Procs -> Scripts] /\ \A q \in Requests \ {p} :
          todo'[Job(q)] = todo[Job(q)] /\ todo'[Web(q)] = todo[Web(q)]
  BY <1>2, <1>3, <1>4 DEF Shaped, Web, Job
<1>6. t # None
  BY <1>1, ConversationAssumption
<1>7. Shaped'
  BY <1>1, <1>5, <1>6, OldIsHistory DEF Shaped, Start, store
<1>8. Log!LogForget(p)
  BY DEF Log!LogForget, Start, store
<1> QED
  BY <1>7, <1>8 DEF Simulates, Log!LogNext

\* A process that dies changes no list.
LEMMA CrashStep ==
    ASSUME Shaped, NEW w \in Procs, Crash(w)
    PROVE  Simulates
<1>1. PICK q \in Requests, part \in {"web", "job"} : w = <<q, part>>
  BY DEF Procs
<1>2. w[1] = q /\ w[2] = part
  BY <1>1
<1>3. \A r \in Requests : Web(r) \in Procs /\ Job(r) \in Procs
  BY DEF Web, Job, Procs
<1>4. thread[q] # None
  BY <1>1, <1>2, <1>3 DEF Shaped, Crash, Web, Job
<1>5. /\ todo' \in [Procs -> Scripts]
      /\ \A v \in Procs : todo[v] = <<>> => todo'[v] = <<>>
  BY Short DEF Crash, Shaped
<1>6. job' \in {[job EXCEPT ![q] = "queued"], job}
  BY <1>2 DEF Crash
<1> QED
  BY <1>3, <1>4, <1>5, <1>6 DEF Shaped, Simulates, Crash, store

------------------------------------------------------------------------------
\* Every step of the implementation keeps the invariant and is a step of the log
\* or changes nothing of it.
LEMMA StepSimulates ==
    ASSUME Shaped, [Next]_vars
    PROVE  Simulates
<1>1. CASE UNCHANGED vars
  BY <1>1 DEF vars, Simulates, Shaped
<1>2. CASE Next
  BY <1>2, UnseenStoreSteps, UnseenRequestSteps, ImportStep, PushStep, DeleteStep, ReadSteps,
     JobScriptSteps, WaitSteps, StartStep, CrashStep DEF Next
<1> QED
  BY <1>1, <1>2

\* The initial states are initial states of the log.
LEMMA InitSimulates == Init => Shaped /\ Log!LogInit
<1> SUFFICES ASSUME Init
             PROVE  Shaped /\ Log!LogInit
  OBVIOUS
<1>1. \A q \in Requests : Web(q) \in Procs /\ Job(q) \in Procs
  BY DEF Web, Job, Procs
<1>2. todo \in [Procs -> Scripts] /\ \A w \in Procs : todo[w] = <<>>
  BY Short DEF Init
<1>3. /\ redis \in [Threads -> Histories] /\ snap \in [Requests -> Histories]
      /\ legacy \in {Old, <<>>} /\ served \in [Requests -> Histories \cup {None}]
  BY OldIsHistory DEF Init
<1>4. /\ job \in [Requests -> {"none", "queued", "running", "completed", "retry", "failed"}]
      /\ thread \in [Requests -> Threads \cup {None}]
      /\ \A p \in Requests : job[p] = "none"
  BY DEF Init
<1>5. Shaped
  BY <1>1, <1>2, <1>3, <1>4 DEF Shaped
<1>6. Log!LogInit
  BY DEF Init, Log!LogInit
<1> QED
  BY <1>5, <1>6

\* The dual write, its failures and the read cutover never change what users see,
\* for every number of requests, any length of the lists and any budget:
\* Conversation implements ChatLog (app.py, AsyncChatStore and persistence/).
THEOREM ConversationServesTheLog == Spec => ServesTheLog
<1>1. Init => Shaped /\ Log!LogInit
  BY InitSimulates
<1>2. Shaped /\ [Next]_vars => Shaped' /\ [Log!LogNext]_(Log!logVars)
  BY StepSimulates DEF Simulates, Log!logVars
<1> QED
  BY <1>1, <1>2, PTL DEF Spec, ServesTheLog, Log!LogSpec

------------------------------------------------------------------------------
(* Scripts, once more: what they hold and how they join. *)

AllOps(s, ops) == \A k \in DOMAIN s : s[k].op \in ops
Ends == {"wait", "wait_again", "completed", "retry", "failed"}
EndsLast(s) == \A k \in DOMAIN s : s[k].op \in Ends => k = Len(s)
QuietOps ==
    (ThreadOps \cup PlainOps \cup MirrorOps \cup {"push", "import"}) \ (Ends \cup {"members"})
FreeOps == QuietOps \cup Ends          \* every command but "members"
LongOps == QuietOps \cup {"members"}   \* every command but the last ones

\* What a joined script holds, and where.
LEMMA JoinHas ==
    ASSUME NEW r \in Scripts, NEW s \in Scripts
    PROVE  /\ r \o s \in Scripts
           /\ Len(r \o s) = Len(r) + Len(s)
           /\ \A k \in 1 .. Len(r) : (r \o s)[k] = r[k]
           /\ \A k \in 1 .. Len(r) + Len(s) : k > Len(r) => (r \o s)[k] = s[k - Len(r)]
BY DEF Scripts

\* A script is a finite sequence.
LEMMA ScriptLen ==
    ASSUME NEW s \in Scripts
    PROVE  Len(s) \in Nat /\ DOMAIN s = 1 .. Len(s)
BY DEF Scripts

\* A script without commands is the empty one.
LEMMA EmptyScript == \A s \in Scripts : Len(s) = 0 => s = <<>>
BY DEF Scripts

\* A joined script holds what its two parts hold.
LEMMA OpsJoin ==
    ASSUME NEW r \in Scripts, NEW s \in Scripts, NEW ops
    PROVE  AllOps(r \o s, ops) <=> AllOps(r, ops) /\ AllOps(s, ops)
<1>1. /\ Len(r) \in Nat /\ DOMAIN r = 1 .. Len(r)
      /\ Len(s) \in Nat /\ DOMAIN s = 1 .. Len(s)
      /\ DOMAIN (r \o s) = 1 .. Len(r) + Len(s)
  BY ScriptLen, JoinHas
<1>2. ASSUME AllOps(r \o s, ops)
      PROVE  AllOps(r, ops)
  BY <1>1, <1>2, JoinHas DEF AllOps
<1>3. ASSUME AllOps(r \o s, ops)
      PROVE  AllOps(s, ops)
  <2> SUFFICES ASSUME NEW k \in 1 .. Len(s)
               PROVE  s[k].op \in ops
    BY <1>1 DEF AllOps
  <2> DEFINE j == k + Len(r)
  <2>1. j \in 1 .. Len(r) + Len(s) /\ j > Len(r) /\ j - Len(r) = k
    BY <1>1
  <2>2. (r \o s)[j] = s[k]
    BY <2>1, JoinHas
  <2> QED
    BY <1>1, <1>3, <2>1, <2>2 DEF AllOps
<1>4. ASSUME AllOps(r, ops), AllOps(s, ops)
      PROVE  AllOps(r \o s, ops)
  <2> SUFFICES ASSUME NEW k \in 1 .. Len(r) + Len(s)
               PROVE  (r \o s)[k].op \in ops
    BY <1>1 DEF AllOps
  <2>1. CASE k <= Len(r)
    <3>1. k \in 1 .. Len(r)
      BY <1>1, <2>1
    <3> QED
      BY <1>1, <1>4, <3>1, JoinHas DEF AllOps
  <2>2. CASE k > Len(r)
    <3>1. k - Len(r) \in 1 .. Len(s)
      BY <1>1, <2>2
    <3> QED
      BY <1>1, <1>4, <2>2, <3>1, JoinHas DEF AllOps
  <2> QED
    BY <1>1, <2>1, <2>2
<1> QED
  BY <1>2, <1>3, <1>4

\* What scripts of at most three commands hold.
LEMMA OpsShort ==
    ASSUME NEW ops
    PROVE  /\ AllOps(<<>>, ops)
           /\ \A c : AllOps(<<c>>, ops) <=> c.op \in ops
           /\ \A c, d : AllOps(<<c, d>>, ops) <=> c.op \in ops /\ d.op \in ops
           /\ \A c, d, e : AllOps(<<c, d, e>>, ops) <=> c.op \in ops /\ d.op \in ops /\ e.op \in ops
<1>1. AllOps(<<>>, ops)
  BY DEF AllOps
<1>2. \A c : AllOps(<<c>>, ops) <=> c.op \in ops
  BY DEF AllOps
<1>3. \A c, d : AllOps(<<c, d>>, ops) <=> c.op \in ops /\ d.op \in ops
  BY DEF AllOps
<1>4. \A c, d, e : AllOps(<<c, d, e>>, ops) <=> c.op \in ops /\ d.op \in ops /\ e.op \in ops
  BY DEF AllOps
<1> QED
  BY <1>1, <1>2, <1>3, <1>4

\* What a script holds, it holds among more.
LEMMA OpsMore ==
    ASSUME NEW s, NEW ops, NEW more, AllOps(s, ops), ops \subseteq more
    PROVE  AllOps(s, more)
BY DEF AllOps

\* A script that is not empty is its first command and the rest.
LEMMA HeadTail ==
    ASSUME NEW s \in Scripts, s # <<>>
    PROVE  /\ Head(s) \in Commands /\ Tail(s) \in Scripts
           /\ s = <<Head(s)>> \o Tail(s)
           /\ Len(Tail(s)) = Len(s) - 1 /\ Len(s) >= 1
           /\ Head(s) = s[1]
           /\ \A k \in 1 .. Len(s) - 1 : Tail(s)[k] = s[k + 1]
BY DEF Scripts

\* The first command, and the rest, of what a script holds.
LEMMA OpsTail ==
    ASSUME NEW s \in Scripts, s # <<>>, NEW ops, AllOps(s, ops)
    PROVE  Head(s).op \in ops /\ AllOps(Tail(s), ops)
<1>1. <<Head(s)>> \in Scripts /\ Tail(s) \in Scripts /\ s = <<Head(s)>> \o Tail(s)
  BY HeadTail, Short
<1>2. AllOps(<<Head(s)>>, ops) /\ AllOps(Tail(s), ops)
  BY <1>1, OpsJoin
<1> QED
  BY <1>2, OpsShort

\* Joined scripts come apart at the first command.
LEMMA JoinTail ==
    ASSUME NEW r \in Scripts, r # <<>>, NEW s \in Scripts
    PROVE  r \o s # <<>> /\ Head(r \o s) = Head(r) /\ Tail(r \o s) = Tail(r) \o s
BY DEF Scripts

\* Joining is associative.
LEMMA JoinAssoc ==
    ASSUME NEW q \in Scripts, NEW r \in Scripts, NEW s \in Scripts
    PROVE  (q \o r) \o s = q \o (r \o s)
BY DEF Scripts

\* Joining with nothing changes nothing.
LEMMA JoinEmpty == \A s \in Scripts : <<>> \o s = s /\ s \o <<>> = s
BY DEF Scripts

\* The commands that end a script stay last.
LEMMA EndsJoin ==
    ASSUME NEW r \in Scripts, NEW s \in Scripts, AllOps(r, LongOps), EndsLast(s)
    PROVE  EndsLast(r \o s)
<1>1. /\ Len(r) \in Nat /\ DOMAIN r = 1 .. Len(r)
      /\ Len(s) \in Nat /\ DOMAIN s = 1 .. Len(s)
      /\ DOMAIN (r \o s) = 1 .. Len(r) + Len(s)
      /\ Len(r \o s) = Len(r) + Len(s)
  BY ScriptLen, JoinHas
<1> SUFFICES ASSUME NEW k \in 1 .. Len(r) + Len(s), (r \o s)[k].op \in Ends
             PROVE  k = Len(r) + Len(s)
  BY <1>1 DEF EndsLast
<1>2. LongOps \cap Ends = {}
  BY DEF LongOps, QuietOps, Ends
<1>3. k > Len(r)
  <2> SUFFICES ASSUME ~(k > Len(r))
               PROVE  FALSE
    OBVIOUS
  <2>1. k \in 1 .. Len(r)
    BY <1>1
  <2>2. (r \o s)[k].op \in LongOps
    BY <1>1, <2>1, JoinHas DEF AllOps
  <2> QED
    BY <1>2, <2>2
<1>4. k - Len(r) \in 1 .. Len(s) /\ (r \o s)[k] = s[k - Len(r)]
  BY <1>1, <1>3, JoinHas
<1>5. k - Len(r) = Len(s)
  BY <1>1, <1>4 DEF EndsLast
<1> QED
  BY <1>1, <1>5

\* A script of one command ends with its last command.
LEMMA EndsShort == EndsLast(<<>>) /\ \A c : EndsLast(<<c>>)
BY DEF EndsLast

\* So does a script without such a command.
LEMMA EndsNone ==
    ASSUME NEW s \in Scripts, AllOps(s, LongOps)
    PROVE  EndsLast(s)
<1>1. LongOps \cap Ends = {}
  BY DEF LongOps, QuietOps, Ends
<1> QED
  BY <1>1 DEF AllOps, EndsLast

\* A command that ends a script has nothing after it.
LEMMA EndsTail ==
    ASSUME NEW s \in Scripts, s # <<>>, EndsLast(s)
    PROVE  EndsLast(Tail(s)) /\ (Head(s).op \in Ends => Tail(s) = <<>>)
<1> DEFINE n == Len(s)
<1>1. n \in Nat /\ n >= 1 /\ DOMAIN s = 1 .. n
  BY ScriptLen, HeadTail
<1>2. Tail(s) \in Scripts /\ DOMAIN Tail(s) = 1 .. n - 1 /\ Len(Tail(s)) = n - 1
  BY ScriptLen, HeadTail
<1>3. Head(s) = s[1] /\ \A k \in 1 .. n - 1 : Tail(s)[k] = s[k + 1]
  BY HeadTail
<1>4. \A k \in 1 .. n : s[k].op \in Ends => k = n
  BY <1>1 DEF EndsLast
<1> HIDE DEF n
<1>5. \A k \in 1 .. n - 1 : Tail(s)[k].op \in Ends => k = n - 1
  BY <1>1, <1>3, <1>4
<1>6. EndsLast(Tail(s))
  BY <1>2, <1>5 DEF EndsLast
<1>7. ASSUME Head(s).op \in Ends
      PROVE  Tail(s) = <<>>
  <2>1. n - 1 = 0
    BY <1>1, <1>3, <1>4, <1>7
  <2>2. Len(Tail(s)) = 0
    BY <1>2, <2>1
  <2> QED
    BY <1>2, <2>2, EmptyScript
<1> QED
  BY <1>6, <1>7

\* What the scripts of the stores hold.
LEMMA StoreOps ==
    ASSUME NEW t \in Threads
    PROVE  /\ AllOps(Migrate(t), {"look"})
           /\ AllOps(GetHistory(t), {"look", "read"})
           /\ AllOps(WriterClear(t), QuietOps)
           /\ \A ms \in Histories : AllOps(StoreAll(t, ms), {"look", "push", "touch"})
           /\ \A m \in Messages : AllOps(WriterAppend(t, m), QuietOps)
           /\ \A ms \in Histories : AllOps(WriterReplace(t, ms), QuietOps)
<1>1. Migrate(t) \in Scripts /\ \A ms \in Histories : StoreAll(t, ms) \in Scripts
  BY StoreScripts
<1>2. AllOps(Migrate(t), {"look"})
  BY OpsShort DEF Migrate, Do, Cmd
<1>3. AllOps(GetHistory(t), {"look", "read"})
  <2>1. AllOps(Migrate(t), {"look", "read"})
    BY <1>2, OpsMore
  <2>2. AllOps(<<Do("read", t)>>, {"look", "read"})
    BY OpsShort DEF Do, Cmd
  <2>3. <<Do("read", t)>> \in Scripts
    BY DoIsCommand, Short DEF ThreadOps
  <2> QED
    BY <1>1, <2>1, <2>2, <2>3, OpsJoin DEF GetHistory
<1>4. AllOps(WriterClear(t), QuietOps)
  <2>1. /\ Do("del", t).op \in QuietOps /\ Touching({t}).op \in QuietOps
        /\ Do("mirror_clear", t).op \in QuietOps
    BY DEF Do, Cmd, Touching, QuietOps, ThreadOps, PlainOps, MirrorOps, Ends
  <2> QED
    BY <2>1, OpsShort DEF WriterClear
<1>5. ASSUME NEW ms \in Histories
      PROVE  AllOps(StoreAll(t, ms), {"look", "push", "touch"})
  <2>1. CASE ms = <<>>
    BY <2>1, OpsShort DEF StoreAll
  <2>2. CASE ms # <<>>
    <3>1. <<Cmd("push", t, ms), Touching({t})>> \in Scripts
      BY <2>2, DoIsCommand, Short
    <3>2. AllOps(<<Cmd("push", t, ms), Touching({t})>>, {"look", "push", "touch"})
      <4>1. Cmd("push", t, ms).op = "push" /\ Touching({t}).op = "touch"
        BY DEF Cmd, Touching
      <4> QED
        BY <4>1, OpsShort
    <3>3. AllOps(Migrate(t), {"look", "push", "touch"})
      BY <1>2, OpsMore
    <3> QED
      BY <1>1, <2>2, <3>1, <3>2, <3>3, OpsJoin DEF StoreAll
  <2> QED
    BY <2>1, <2>2
<1>6. {"look", "push", "touch"} \subseteq QuietOps
  BY DEF QuietOps, ThreadOps, PlainOps, MirrorOps, Ends
<1>7. \A ms \in Histories : AllOps(StoreAll(t, ms), QuietOps)
  BY <1>5, <1>6, OpsMore
<1>8. ASSUME NEW m \in Messages
      PROVE  AllOps(WriterAppend(t, m), QuietOps)
  <2>1. <<m>> \in Histories
    BY DEF Histories
  <2>2. <<Cmd("mirror_append", t, <<m>>)>> \in Scripts
    BY <2>1, DoIsCommand, Short DEF MirrorOps
  <2>3. Cmd("mirror_append", t, <<m>>).op \in QuietOps
    BY DEF Cmd, QuietOps, ThreadOps, PlainOps, MirrorOps, Ends
  <2>4. AllOps(<<Cmd("mirror_append", t, <<m>>)>>, QuietOps)
    BY <2>3, OpsShort
  <2> QED
    BY <1>1, <1>7, <2>1, <2>2, <2>4, OpsJoin DEF WriterAppend
<1>9. ASSUME NEW ms \in Histories
      PROVE  AllOps(WriterReplace(t, ms), QuietOps)
  <2>1. <<Cmd("mirror_replace", t, ms)>> \in Scripts
    BY DoIsCommand, Short DEF MirrorOps
  <2>2. <<Do("del", t), Touching({t})>> \in Scripts
    BY DoIsCommand, Short DEF ThreadOps
  <2>3. Cmd("mirror_replace", t, ms).op \in QuietOps /\ Do("del", t).op \in QuietOps
        /\ Touching({t}).op \in QuietOps
    BY DEF Do, Touching, Cmd, QuietOps, ThreadOps, PlainOps, MirrorOps, Ends
  <2>4. /\ AllOps(<<Cmd("mirror_replace", t, ms)>>, QuietOps)
        /\ AllOps(<<Do("del", t), Touching({t})>>, QuietOps)
    BY <2>3, OpsShort
  <2>5. /\ <<Do("del", t), Touching({t})>> \o StoreAll(t, ms) \in Scripts
        /\ AllOps(<<Do("del", t), Touching({t})>> \o StoreAll(t, ms), QuietOps)
    BY <1>1, <1>7, <2>2, <2>4, OpsJoin, JoinHas
  <2> QED
    BY <2>1, <2>4, <2>5, OpsJoin DEF WriterReplace
<1> QED
  BY <1>2, <1>3, <1>4, <1>5, <1>8, <1>9

\* The sets of commands, compared.
LEMMA OpSets ==
    /\ QuietOps \subseteq FreeOps /\ QuietOps \subseteq LongOps
    /\ "members" \notin FreeOps
    /\ Ends \subseteq FreeOps
    /\ LongOps \cap Ends = {}
    /\ {"look", "push", "touch", "read", "serve", "find", "sync", "del", "zrem", "enqueue",
        "legacy", "import", "source", "source_legacy"} \cup MirrorOps \subseteq QuietOps
BY DEF QuietOps, FreeOps, LongOps, ThreadOps, PlainOps, MirrorOps, Ends

\* What the scripts of requests hold.
LEMMA RequestOps ==
    ASSUME NEW p \in Requests, NEW t \in Threads
    PROVE  /\ AllOps(Ask(p, t), QuietOps)
           /\ AllOps(WriterAppend(t, User(p)), QuietOps)
           /\ AllOps(WriterAppend(t, Assistant(p)), QuietOps)
           /\ AllOps(List(t), LongOps) /\ AllOps(EnsureThread(t), QuietOps)
           /\ AllOps(GetHistory(t), QuietOps)
<1>1. User(p) \in Messages /\ Assistant(p) \in Messages
  BY DEF User, Assistant, Messages, Roles
<1>2. AllOps(WriterAppend(t, User(p)), QuietOps) /\ AllOps(WriterAppend(t, Assistant(p)), QuietOps)
  BY <1>1, StoreOps
<1>3. AllOps(Ask(p, t), QuietOps)
  <2>1. <<Do("enqueue", t)>> \in Scripts
    BY DoIsCommand, Short DEF PlainOps
  <2>2. AllOps(<<Do("enqueue", t)>>, QuietOps)
    BY OpSets, OpsShort DEF Do, Cmd
  <2> QED
    BY <1>2, <2>1, <2>2, RequestScripts, OpsJoin DEF Ask
<1>4. AllOps(List(t), LongOps)
  <2>1. /\ Do("look", Default).op \in LongOps /\ Do("sync", None).op \in LongOps
        /\ Do("members", t).op \in LongOps
    BY OpSets DEF Do, Cmd, LongOps
  <2> QED
    BY <2>1, OpsShort DEF List
<1>5. AllOps(EnsureThread(t), QuietOps)
  <2>1. Touching({t}).op \in QuietOps /\ Do("mirror_ensure", t).op \in QuietOps
    BY OpSets DEF Touching, Do, Cmd, MirrorOps
  <2> QED
    BY <2>1, OpsShort DEF EnsureThread
<1>6. AllOps(GetHistory(t), QuietOps)
  BY StoreOps, OpSets, OpsMore
<1> QED
  BY <1>2, <1>3, <1>4, <1>5, <1>6

\* The scripts a request starts with end with the commands that end them.
LEMMA HandlerEnds ==
    ASSUME NEW p \in Requests, NEW t \in Threads
    PROVE  /\ \A kind \in {"chat", "stream", "files", "read", "create", "clear", "delete", "migrate"} :
                 EndsLast(Handler(p, kind, t))
           /\ \A outcome \in Endings :
                 outcome # "silent" => EndsLast(JobScript(p, t, outcome))
<1>1. /\ AllOps(GetHistory(t), LongOps) /\ AllOps(Ask(p, t), LongOps)
      /\ AllOps(WriterClear(t), LongOps) /\ AllOps(WriterAppend(t, Assistant(p)), LongOps)
  BY RequestOps, StoreOps, OpSets, OpsMore
<1>2. /\ GetHistory(t) \in Scripts /\ Ask(p, t) \in Scripts /\ WriterClear(t) \in Scripts
      /\ WriterAppend(t, Assistant(p)) \in Scripts
  BY StoreScripts, RequestScripts
<1>3. GetHistory(t) \o Ask(p, t) \in Scripts /\ AllOps(GetHistory(t) \o Ask(p, t), LongOps)
  BY <1>1, <1>2, OpsJoin, JoinHas
<1>4. /\ AllOps(List(Default), LongOps) /\ AllOps(List(New), LongOps)
      /\ List(Default) \in Scripts /\ List(New) \in Scripts
      /\ AllOps(EnsureThread(New), LongOps) /\ EnsureThread(New) \in Scripts
  <2>1. Default \in Threads /\ New \in Threads
    BY DEF Threads
  <2> QED
    BY <2>1, RequestOps, ListScripts, OpSets, OpsMore
<1>5. EndsLast(Handler(p, "chat", t)) /\ EndsLast(Handler(p, "stream", t))
  BY <1>3, EndsNone DEF Handler
<1>6. EndsLast(Handler(p, "files", t))
  <2>1. <<Do("wait", t)>> \in Scripts
    BY DoIsCommand, Short DEF PlainOps
  <2> QED
    BY <1>3, <2>1, EndsShort, EndsJoin DEF Handler
<1>7. EndsLast(Handler(p, "read", t))
  <2>1. <<Do("find", t)>> \in Scripts
    BY DoIsCommand, Short DEF ThreadOps
  <2> QED
    BY <1>4, <2>1, EndsShort, EndsJoin DEF Handler
<1>8. EndsLast(Handler(p, "create", t))
  BY <1>4, EndsNone, EndsJoin DEF Handler
<1>9. EndsLast(Handler(p, "clear", t))
  BY <1>1, <1>2, EndsNone DEF Handler
<1>10. EndsLast(Handler(p, "delete", t))
  <2>1. <<Do("del", t), Do("zrem", t), Do("mirror_drop", t)>> \in Scripts
    <3>1. Do("del", t) \in Commands /\ Do("zrem", t) \in Commands /\ Do("mirror_drop", t) \in Commands
      BY DoIsCommand DEF ThreadOps, PlainOps, MirrorOps
    <3> QED
      BY <3>1, Short
  <2>2. AllOps(<<Do("del", t), Do("zrem", t), Do("mirror_drop", t)>>, LongOps)
    <3>1. /\ Do("del", t).op \in LongOps /\ Do("zrem", t).op \in LongOps
          /\ Do("mirror_drop", t).op \in LongOps
      BY OpSets DEF Do, Cmd, MirrorOps
    <3> QED
      BY <3>1, OpsShort
  <2>3. EndsLast(List(New))
    BY <1>4, EndsNone
  <2> QED
    BY <1>4, <2>1, <2>2, <2>3, EndsJoin DEF Handler
<1>11. EndsLast(Handler(p, "migrate", t))
  BY EndsShort DEF Handler
<1>12. ASSUME NEW outcome \in Endings, outcome # "silent"
       PROVE  EndsLast(JobScript(p, t, outcome))
  <2>1. <<Do(outcome, t)>> \in Scripts
    BY <1>12, DoIsCommand, Short DEF PlainOps, Endings
  <2> QED
    BY <1>1, <1>2, <2>1, EndsShort, EndsJoin DEF JobScript
<1> QED
  BY <1>5, <1>6, <1>7, <1>8, <1>9, <1>10, <1>11, <1>12

------------------------------------------------------------------------------
(* Steps of one process: what a step leaves alone. *)

\* The second part of the inductive invariant: the flags are per request, a
\* script ends with the command that waits or ends a job, and a job that has
\* commands has not ended.
Flagged ==
    /\ clean \in [Requests -> BOOLEAN]
    /\ restored \in [Requests -> BOOLEAN]
    /\ listed = [q \in Requests |-> listed[q]]
    /\ \A w \in Procs : EndsLast(todo[w])
    /\ \A p \in Requests : todo[Job(p)] # <<>> => job[p] \in {"queued", "running"}

\* A step of the request of process w leaves the other requests alone, and
\* changes the script of w only.
Same(q) ==
    /\ job'[q] = job[q] /\ listed'[q] = listed[q] /\ restored'[q] = restored[q]
    /\ snap'[q] = snap[q] /\ thread'[q] = thread[q] /\ clean'[q] = clean[q]
Moves(w) ==
    /\ Busy(w[1])
    /\ todo[w] # <<>> \/ w = Job(w[1])
    /\ \A q \in Requests \ {w[1]} : Same(q)
    /\ clean'[w[1]] => clean[w[1]]
    /\ \E s \in Scripts :
          /\ todo' = [todo EXCEPT ![w] = s]
          /\ EndsLast(s)
          /\ \/ At(w, "members")
             \/ listed' = listed /\ (AllOps(todo[w], FreeOps) => AllOps(s, FreeOps))
    /\ w = Job(w[1]) =>
          /\ job[w[1]] \in {"queued", "running"}
          /\ listed' = listed /\ restored' = restored /\ snap' = snap /\ thread' = thread
    /\ Flagged'

\* A request is in its process.
LEMMA ProcIs ==
    ASSUME NEW w \in Procs
    PROVE  w[1] \in Requests /\ (w = Web(w[1]) \/ w = Job(w[1]))
BY DEF Procs, Web, Job

\* The two processes of each request differ from all others.
LEMMA ProcsApart ==
    ASSUME NEW p \in Requests, NEW q \in Requests
    PROVE  /\ Web(p) \in Procs /\ Job(p) \in Procs /\ Web(p)[1] = p /\ Job(p)[1] = p
           /\ Web(p) # Job(q)
           /\ Web(p) = Web(q) => p = q
           /\ Job(p) = Job(q) => p = q
BY DEF Procs, Web, Job

\* A request whose process has commands is busy.
LEMMA BusyProc ==
    ASSUME Shaped, Flagged, NEW w \in Procs, todo[w] # <<>>
    PROVE  Busy(w[1]) /\ (w = Job(w[1]) => job[w[1]] \in {"queued", "running"})
BY ProcIs DEF Flagged, Busy

\* The script that a command is replaced by.
LEMMA ScriptMoves ==
    ASSUME Shaped, Flagged, NEW w \in Procs, todo[w] # <<>>, NEW sc \in Scripts, Then(w, sc),
           AllOps(sc, QuietOps)
    PROVE  \E s \in Scripts :
              /\ todo' = [todo EXCEPT ![w] = s]
              /\ EndsLast(s)
              /\ AllOps(todo[w], FreeOps) => AllOps(s, FreeOps)
<1> DEFINE s == sc \o Tail(todo[w])
<1>1. todo[w] \in Scripts /\ EndsLast(todo[w])
  BY DEF Shaped, Flagged
<1>2. Tail(todo[w]) \in Scripts /\ EndsLast(Tail(todo[w]))
  BY <1>1, HeadTail, EndsTail
<1>3. s \in Scripts /\ EndsLast(s)
  BY <1>2, OpSets, OpsMore, EndsJoin, JoinHas
<1>4. ASSUME AllOps(todo[w], FreeOps)
      PROVE  AllOps(s, FreeOps)
  <2>1. AllOps(Tail(todo[w]), FreeOps) /\ AllOps(sc, FreeOps)
    BY <1>1, <1>4, OpsTail, OpSets, OpsMore
  <2> QED
    BY <1>2, <2>1, OpsJoin
<1>5. todo' = [todo EXCEPT ![w] = s]
  BY DEF Then, Shaped
<1> QED
  BY <1>3, <1>4, <1>5

\* The invariant after a step that changes one script and leaves the jobs alone.
LEMMA FlaggedKept ==
    ASSUME Shaped, Flagged, NEW w \in Procs, todo[w] # <<>>, NEW s \in Scripts,
           todo' = [todo EXCEPT ![w] = s], EndsLast(s),
           clean' \in [Requests -> BOOLEAN], restored' \in [Requests -> BOOLEAN],
           listed' = [q \in Requests |-> listed'[q]], UNCHANGED job
    PROVE  Flagged'
<1>1. \A v \in Procs : EndsLast(todo'[v])
  BY DEF Flagged, Shaped
<1>2. \A p \in Requests : todo'[Job(p)] # <<>> => todo[Job(p)] # <<>>
  BY ProcsApart DEF Shaped
<1> QED
  BY <1>1, <1>2 DEF Flagged

\* The steps of the stores, and those of a request that only replace a command.
LEMMA PlainMoves ==
    ASSUME Shaped, Flagged, NEW w \in Procs, todo[w] # <<>>, NEW sc \in Scripts, Then(w, sc),
           AllOps(sc, QuietOps),
           UNCHANGED <<job, listed, restored, clean, thread>>,
           snap' = snap \/ (w = Web(w[1]) /\ \E h : snap' = [snap EXCEPT ![w[1]] = h])
    PROVE  Moves(w)
<1>1. PICK s \in Scripts :
              /\ todo' = [todo EXCEPT ![w] = s]
              /\ EndsLast(s)
              /\ AllOps(todo[w], FreeOps) => AllOps(s, FreeOps)
  BY ScriptMoves
<1>2. Flagged'
  BY <1>1, FlaggedKept DEF Flagged
<1>3. Busy(w[1]) /\ (w = Job(w[1]) => job[w[1]] \in {"queued", "running"})
  BY BusyProc
<1>4. w[1] \in Requests /\ Web(w[1]) # Job(w[1])
  BY ProcIs, ProcsApart
<1>5. \A q \in Requests \ {w[1]} : Same(q)
  BY DEF Same, Shaped
<1>6. w = Job(w[1]) => snap' = snap
  BY <1>4
<1> QED
  BY <1>1, <1>2, <1>3, <1>5, <1>6 DEF Moves

\* The steps of the stores.
LEMMA StoreMoves ==
    ASSUME Shaped, Flagged, NEW w \in Procs,
           \/ Look(w) \/ ReadLegacy(w) \/ ImportLegacy(w) \/ Delete(w) \/ Touch(w) \/ ZRem(w)
           \/ Sync(w) \/ MirrorCommit(w) \/ MirrorSkips(w) \/ MirrorConflict(w) \/ MirrorFails(w)
    PROVE  Moves(w)
<1>1. todo[w] # <<>>
  BY DEF Look, ReadLegacy, ImportLegacy, Delete, Touch, ZRem, Sync, MirrorCommit, MirrorSkips,
         MirrorConflict, MirrorFails, At, AtMirror
<1>2. UNCHANGED <<job, listed, restored, clean, thread, snap>>
  BY DEF Look, ReadLegacy, ImportLegacy, Delete, Touch, ZRem, Sync, MirrorCommit, MirrorSkips,
         MirrorConflict, MirrorFails, request
<1>3. \E sc \in Scripts : Then(w, sc) /\ AllOps(sc, QuietOps)
  <2>1. <<>> \in Scripts /\ AllOps(<<>>, QuietOps)
    BY Short, OpsShort
  <2>2. \A ts \in SUBSET Threads :
            <<Touching(ts)>> \in Scripts /\ AllOps(<<Touching(ts)>>, QuietOps)
    <3>1. \A ts \in SUBSET Threads : Touching(ts).op \in QuietOps
      BY OpSets DEF Touching, Cmd
    <3> QED
      BY <3>1, DoIsCommand, Short, OpsShort
  <2>3. CASE Look(w)
    <3>1. Do("legacy", Default).op \in QuietOps /\ {Default} \in SUBSET Threads
      BY OpSets DEF Do, Cmd, Threads
    <3>2. <<Do("legacy", Default)>> \in Scripts /\ AllOps(<<Do("legacy", Default)>>, QuietOps)
      BY <3>1, DoIsCommand, Short, OpsShort DEF PlainOps, Threads
    <3> QED
      BY <2>2, <2>3, <3>1, <3>2 DEF Look
  <2>4. CASE ReadLegacy(w)
    <3>1. /\ Cmd("import", Default, Old).op \in QuietOps /\ Touching({Default}).op \in QuietOps
          /\ Cmd("import", Default, Old) \in Commands /\ Touching({Default}) \in Commands
      BY OpSets, DoIsCommand DEF Touching, Cmd, Threads
    <3>2. LET sc == <<Cmd("import", Default, Old), Touching({Default})>>
          IN  sc \in Scripts /\ AllOps(sc, QuietOps)
      BY <3>1, Short, OpsShort
    <3> QED
      BY <2>1, <2>4, <3>2 DEF ReadLegacy, Shaped
  <2>5. CASE Sync(w)
    BY <2>2, <2>5 DEF Sync, NonEmpty
  <2> QED
    BY <2>1, <2>3, <2>4, <2>5
    DEF ImportLegacy, Delete, Touch, ZRem, MirrorCommit, MirrorSkips, MirrorConflict, MirrorFails
<1> QED
  BY <1>1, <1>2, <1>3, PlainMoves

\* The read of a SQL transaction leaves the script alone.
LEMMA MirrorReadMoves ==
    ASSUME Shaped, Flagged, NEW w \in Procs, MirrorRead(w)
    PROVE  Moves(w)
<1>1. todo[w] # <<>> /\ todo[w] \in Scripts /\ EndsLast(todo[w])
  BY DEF MirrorRead, AtMirror, Shaped, Flagged
<1>2. UNCHANGED <<job, listed, restored, clean, thread, snap, todo>>
  BY DEF MirrorRead, request
<1>3. todo' = [todo EXCEPT ![w] = todo[w]]
  BY <1>2 DEF Shaped
<1>4. Flagged'
  BY <1>2 DEF Flagged
<1>5. Busy(w[1]) /\ (w = Job(w[1]) => job[w[1]] \in {"queued", "running"})
  BY <1>1, BusyProc
<1> QED
  BY <1>1, <1>2, <1>3, <1>4, <1>5 DEF Moves, Same

\* A push comes back for the rest of its messages.
LEMMA PushMoves ==
    ASSUME Shaped, Flagged, NEW w \in Procs, Push(w)
    PROVE  Moves(w)
<1> DEFINE t == Command(w).t
           rest == Tail(Command(w).ms)
           more == <<Touching({t})>> \o Migrate(t) \o <<Cmd("push", t, rest)>>
<1>1. todo[w] # <<>> /\ t \in Threads /\ Command(w).ms \in Histories /\ Command(w).ms # <<>>
  BY HeadIsCommand, CommandHolds DEF Push, At
<1>2. rest \in Histories
  BY <1>1 DEF Histories
<1>3. UNCHANGED <<job, listed, restored, clean, thread, snap>>
  BY DEF Push, request
<1>4. ASSUME rest # <<>>
      PROVE  more \in Scripts /\ AllOps(more, QuietOps)
  <2>1. <<Touching({t})>> \in Scripts /\ <<Cmd("push", t, rest)>> \in Scripts /\ Migrate(t) \in Scripts
    BY <1>1, <1>2, <1>4, DoIsCommand, Short, StoreScripts
  <2>2. Touching({t}).op \in QuietOps /\ Cmd("push", t, rest).op \in QuietOps
    BY OpSets DEF Touching, Cmd
  <2>3. AllOps(<<Touching({t})>>, QuietOps) /\ AllOps(<<Cmd("push", t, rest)>>, QuietOps)
    BY <2>2, OpsShort
  <2>4. AllOps(Migrate(t), QuietOps)
    BY <1>1, StoreOps, OpSets, OpsMore
  <2>5. /\ <<Touching({t})>> \o Migrate(t) \in Scripts
        /\ AllOps(<<Touching({t})>> \o Migrate(t), QuietOps)
    BY <2>1, <2>3, <2>4, OpsJoin, JoinHas
  <2> QED
    BY <2>1, <2>3, <2>5, OpsJoin, JoinHas
<1>5. <<>> \in Scripts /\ AllOps(<<>>, QuietOps)
  BY Short, OpsShort
<1>6. Then(w, IF rest = <<>> THEN <<>> ELSE more)
  BY DEF Push
<1>7. \E sc \in Scripts : Then(w, sc) /\ AllOps(sc, QuietOps)
  <2> HIDE DEF more, rest
  <2>1. CASE rest = <<>>
    BY <1>5, <1>6, <2>1
  <2>2. CASE rest # <<>>
    BY <1>4, <1>6, <2>2
  <2> QED
    BY <2>1, <2>2
<1> QED
  BY <1>1, <1>3, <1>7, PlainMoves

\* The steps of a read and of the offline utility.
LEMMA ReadMoves ==
    ASSUME Shaped, Flagged, NEW p \in Requests,
           Read(p) \/ Find(p) \/ Serve(p) \/ Source(p) \/ SourceLegacy(p)
    PROVE  Moves(Web(p))
<1> DEFINE w == Web(p)
           t == Command(w).t
<1>1. w \in Procs /\ w[1] = p
  BY ProcsApart
<1>2. todo[w] # <<>> /\ Command(w).op \in ThreadOps
  BY DEF Read, Find, Serve, Source, SourceLegacy, At, ThreadOps
<1>3. t \in Threads /\ Default \in Threads
  BY <1>1, <1>2, HeadIsCommand, CommandHolds DEF Threads
<1>4. UNCHANGED <<job, listed, restored, clean, thread>>
  BY DEF Read, Find, Serve, Source, SourceLegacy, request
<1>5. snap' = snap \/ (w = Web(w[1]) /\ \E h : snap' = [snap EXCEPT ![w[1]] = h])
  BY <1>1 DEF Read, Find, Serve, Source, SourceLegacy, request
<1>6. <<>> \in Scripts /\ AllOps(<<>>, QuietOps)
  BY Short, OpsShort
<1>7. \E sc \in Scripts : Then(w, sc) /\ AllOps(sc, QuietOps)
  <2>1. CASE Read(p)
    <3>1. Touching({t}).op \in QuietOps /\ Touching({t}) \in Commands
      BY <1>3, OpSets, DoIsCommand DEF Touching, Cmd
    <3>2. <<Touching({t})>> \in Scripts /\ AllOps(<<Touching({t})>>, QuietOps)
      BY <3>1, Short, OpsShort
    <3> QED
      BY <1>6, <2>1, <3>2 DEF Read
  <2>2. CASE Find(p)
    <3>1. Do("serve", t).op \in QuietOps /\ Do("serve", t) \in Commands
      BY <1>3, OpSets, DoIsCommand DEF Do, Cmd, ThreadOps
    <3>2. <<Do("serve", t)>> \in Scripts /\ AllOps(<<Do("serve", t)>>, QuietOps)
      BY <3>1, Short, OpsShort
    <3>3. GetHistory(t) \in Scripts /\ AllOps(GetHistory(t), QuietOps)
      BY <1>3, StoreScripts, RequestOps
    <3>4. /\ GetHistory(t) \o <<Do("serve", t)>> \in Scripts
          /\ AllOps(GetHistory(t) \o <<Do("serve", t)>>, QuietOps)
      BY <3>2, <3>3, OpsJoin, JoinHas
    <3> QED
      BY <1>6, <2>2, <3>4 DEF Find
  <2>3. CASE Serve(p)
    BY <1>6, <2>3 DEF Serve
  <2>4. CASE Source(p)
    <3>1. redis[t] \in Histories
      BY <1>3 DEF Shaped
    <3>2. /\ Cmd("mirror_import", t, redis[t]).op \in QuietOps
          /\ Do("source_legacy", t).op \in QuietOps
      BY OpSets DEF Do, Cmd, MirrorOps
    <3>3. /\ Cmd("mirror_import", t, redis[t]) \in Commands
          /\ Do("source_legacy", t) \in Commands
      BY <1>3, <3>1, DoIsCommand DEF MirrorOps, ThreadOps
    <3>4. /\ <<Cmd("mirror_import", t, redis[t])>> \in Scripts
          /\ AllOps(<<Cmd("mirror_import", t, redis[t])>>, QuietOps)
          /\ <<Do("source_legacy", t)>> \in Scripts
          /\ AllOps(<<Do("source_legacy", t)>>, QuietOps)
      BY <3>2, <3>3, Short, OpsShort
    <3> QED
      BY <1>6, <2>4, <3>4 DEF Source
  <2>5. CASE SourceLegacy(p)
    <3>1. legacy \in Histories
      BY OldIsHistory DEF Shaped
    <3>2. Cmd("mirror_import", Default, legacy).op \in QuietOps
      BY OpSets DEF Do, Cmd, MirrorOps
    <3>3. Cmd("mirror_import", Default, legacy) \in Commands
      BY <1>3, <3>1, DoIsCommand DEF MirrorOps
    <3>4. /\ <<Cmd("mirror_import", Default, legacy)>> \in Scripts
          /\ AllOps(<<Cmd("mirror_import", Default, legacy)>>, QuietOps)
      BY <3>2, <3>3, Short, OpsShort
    <3> QED
      BY <1>6, <2>5, <3>4 DEF SourceLegacy
  <2> QED
    BY <2>1, <2>2, <2>3, <2>4, <2>5
<1> HIDE DEF w
<1>8. Moves(w)
  BY <1>1, <1>2, <1>4, <1>5, <1>7, PlainMoves
<1> QED
  BY <1>8 DEF w

\* A request that enqueues its job.
LEMMA EnqueueMoves ==
    ASSUME Shaped, Flagged, NEW p \in Requests, Enqueue(p)
    PROVE  Moves(Web(p))
<1> DEFINE w == Web(p)
<1>1. w \in Procs /\ w[1] = p /\ w # Job(w[1])
  BY ProcsApart
<1>2. todo[w] # <<>> /\ Then(w, <<>>)
  BY DEF Enqueue, At
<1>3. PICK s \in Scripts :
              /\ todo' = [todo EXCEPT ![w] = s]
              /\ EndsLast(s)
              /\ AllOps(todo[w], FreeOps) => AllOps(s, FreeOps)
  BY <1>1, <1>2, ScriptMoves, Short, OpsShort
<1>4. UNCHANGED <<listed, restored, clean, thread, snap>> /\ job' = [job EXCEPT ![p] = "queued"]
  BY DEF Enqueue
<1>5. Busy(w[1])
  BY <1>1, <1>2, BusyProc
<1>6. Flagged'
  <2>1. \A v \in Procs : EndsLast(todo'[v])
    BY <1>3 DEF Flagged, Shaped
  <2>2. \A q \in Requests : todo'[Job(q)] = todo[Job(q)]
    BY <1>1, <1>3, ProcsApart DEF Shaped
  <2>3. \A q \in Requests : job'[q] = IF q = p THEN "queued" ELSE job[q]
    BY <1>4 DEF Shaped
  <2> QED
    BY <1>4, <2>1, <2>2, <2>3 DEF Flagged
<1>7. \A q \in Requests \ {w[1]} : Same(q)
  BY <1>1, <1>4 DEF Same, Shaped
<1> HIDE DEF w
<1>8. Moves(w)
  BY <1>1, <1>2, <1>3, <1>4, <1>5, <1>6, <1>7 DEF Moves
<1> QED
  BY <1>8 DEF w

\* The registry is read; the request may list again.
LEMMA MembersMoves ==
    ASSUME Shaped, Flagged, NEW p \in Requests, Members(p)
    PROVE  Moves(Web(p))
<1> DEFINE w == Web(p)
           t == Command(w).t
           sc == IF registry = {} THEN EnsureThread(t) \o List(t)
                 ELSE <<Touching(NonEmpty \cap registry)>>
           s == sc \o Tail(todo[w])
<1>1. w \in Procs /\ w[1] = p /\ w # Job(w[1])
  BY ProcsApart
<1>2. todo[w] # <<>> /\ At(w, "members")
  BY DEF Members, At
<1>3. t \in Threads
  BY <1>1, <1>2, HeadIsCommand, CommandHolds DEF At, ThreadOps
<1>4. sc \in Scripts /\ AllOps(sc, LongOps)
  <2>1. EnsureThread(t) \o List(t) \in Scripts /\ AllOps(EnsureThread(t) \o List(t), LongOps)
    <3>1. List(t) \in Scripts /\ EnsureThread(t) \in Scripts
      BY <1>3, ListScripts
    <3>2. AllOps(List(t), LongOps) /\ AllOps(EnsureThread(t), LongOps)
      BY <1>3, RequestOps, OpSets, OpsMore
    <3> QED
      BY <3>1, <3>2, OpsJoin, JoinHas
  <2>2. Touching(NonEmpty \cap registry).op \in LongOps
    BY OpSets DEF Touching, Cmd
  <2>3. /\ <<Touching(NonEmpty \cap registry)>> \in Scripts
        /\ AllOps(<<Touching(NonEmpty \cap registry)>>, LongOps)
    BY <2>2, DoIsCommand, Short, OpsShort DEF NonEmpty
  <2> QED
    BY <2>1, <2>3
<1>5. todo' = [todo EXCEPT ![w] = s]
  BY DEF Members, Then
<1>6. todo[w] \in Scripts /\ EndsLast(todo[w])
  BY <1>1 DEF Shaped, Flagged
<1> HIDE DEF sc
<1>7. s \in Scripts /\ EndsLast(s)
  BY <1>2, <1>4, <1>6, HeadTail, EndsTail, EndsJoin, JoinHas
<1>8. UNCHANGED <<restored, clean, thread, snap, job>> /\ listed' = [listed EXCEPT ![p] = registry]
  BY DEF Members
<1> HIDE DEF s, w
<1>9. Flagged'
  BY <1>1, <1>2, <1>5, <1>7, <1>8, FlaggedKept DEF Flagged
<1>10. Busy(w[1])
  BY <1>1, <1>2, BusyProc
<1>11. \A q \in Requests \ {w[1]} : Same(q)
  BY <1>1, <1>8 DEF Same, Flagged
<1>12. Moves(w)
  BY <1>1, <1>2, <1>5, <1>7, <1>8, <1>9, <1>10, <1>11 DEF Moves
<1> QED
  BY <1>12 DEF w

\* A request that waits for its job has nothing else to do.
LEMMA WaitMoves ==
    ASSUME Shaped, Flagged, NEW p \in Requests, Wait(p) \/ WaitTimesOut(p)
    PROVE  Moves(Web(p))
<1> DEFINE w == Web(p)
           t == thread[p]
<1>1. w \in Procs /\ w[1] = p /\ w # Job(w[1])
  BY ProcsApart
<1>2. todo[w] # <<>> /\ Head(todo[w]).op \in {"wait", "wait_again"}
  BY DEF Wait, WaitTimesOut, Waits
<1>3. t \in Threads /\ todo[w] \in Scripts /\ EndsLast(todo[w])
  BY <1>1, <1>2 DEF Shaped, Flagged
<1>4. Tail(todo[w]) = <<>>
  BY <1>2, <1>3, EndsTail DEF Ends
<1>5. Restore(p) \in Scripts /\ AllOps(Restore(p), QuietOps)
  <2>1. Budgeted(snap[p]) \in Histories
    BY BudgetedKeeps DEF Shaped
  <2> QED
    BY <1>3, <2>1, StoreScripts, StoreOps DEF Restore
<1>6. \A s \in Scripts : AllOps(s, QuietOps) => EndsLast(s) /\ AllOps(s, FreeOps)
  BY EndsNone, OpSets, OpsMore
<1>7. /\ Ask(p, t) \in Scripts /\ AllOps(Ask(p, t), QuietOps)
      /\ WriterAppend(t, User(p)) \in Scripts /\ AllOps(WriterAppend(t, User(p)), QuietOps)
      /\ WriterAppend(t, Assistant(p)) \in Scripts /\ AllOps(WriterAppend(t, Assistant(p)), QuietOps)
  BY <1>3, RequestScripts, RequestOps
<1> DEFINE again == Restore(p) \o Ask(p, t) \o <<Do("wait_again", t)>>
           fixed == Restore(p) \o WriterAppend(t, User(p)) \o WriterAppend(t, Assistant(p))
<1>8. again \in Scripts /\ EndsLast(again) /\ AllOps(again, FreeOps)
  <2>1. Restore(p) \o Ask(p, t) \in Scripts /\ AllOps(Restore(p) \o Ask(p, t), QuietOps)
    BY <1>5, <1>7, OpsJoin, JoinHas
  <2>2. <<Do("wait_again", t)>> \in Scripts /\ EndsLast(<<Do("wait_again", t)>>)
    BY <1>3, DoIsCommand, Short, EndsShort DEF PlainOps
  <2>3. Do("wait_again", t).op \in FreeOps
    BY OpSets DEF Do, Cmd, Ends
  <2>4. AllOps(<<Do("wait_again", t)>>, FreeOps)
    BY <2>3, OpsShort
  <2>5. AllOps(Restore(p) \o Ask(p, t), LongOps) /\ AllOps(Restore(p) \o Ask(p, t), FreeOps)
    BY <2>1, OpSets, OpsMore
  <2> QED
    BY <2>1, <2>2, <2>4, <2>5, OpsJoin, JoinHas, EndsJoin
<1>9. fixed \in Scripts /\ EndsLast(fixed) /\ AllOps(fixed, FreeOps)
  <2>1. /\ Restore(p) \o WriterAppend(t, User(p)) \in Scripts
        /\ AllOps(Restore(p) \o WriterAppend(t, User(p)), QuietOps)
    BY <1>5, <1>7, OpsJoin, JoinHas
  <2>2. fixed \in Scripts /\ AllOps(fixed, QuietOps)
    BY <1>7, <2>1, OpsJoin, JoinHas
  <2> QED
    BY <1>6, <2>2
<1>10. <<>> \in Scripts /\ EndsLast(<<>>) /\ AllOps(<<>>, FreeOps)
  BY Short, EndsShort, OpsShort
<1>11. \E s \in Scripts : Then(w, s) /\ EndsLast(s) /\ AllOps(s, FreeOps)
  <2>1. CASE WaitTimesOut(p)
    BY <1>5, <1>6, <2>1 DEF WaitTimesOut
  <2>2. CASE Wait(p)
    <3> HIDE DEF again, fixed
    <3>1. CASE job[p] = "completed"
      BY <1>10, <2>2, <3>1 DEF Wait
    <3>2. CASE job[p] = "failed"
      BY <1>5, <1>6, <2>2, <3>2 DEF Wait
    <3>3. CASE job[p] = "retry" /\ ~At(w, "wait_again")
      BY <1>8, <2>2, <3>3 DEF Wait, again
    <3>4. CASE job[p] = "retry" /\ At(w, "wait_again")
      BY <1>9, <2>2, <3>4 DEF Wait, fixed
    <3> QED
      BY <2>2, <3>1, <3>2, <3>3, <3>4 DEF Wait
  <2> QED
    BY <2>1, <2>2
<1>12. PICK s \in Scripts : Then(w, s) /\ EndsLast(s) /\ AllOps(s, FreeOps)
  BY <1>11
<1>13. todo' = [todo EXCEPT ![w] = s]
  BY <1>4, <1>12, JoinEmpty DEF Then
<1>14. /\ UNCHANGED <<thread, snap, job, listed>>
       /\ restored' \in [Requests -> BOOLEAN] /\ clean' \in [Requests -> BOOLEAN]
       /\ \A q \in Requests \ {p} : restored'[q] = restored[q] /\ clean'[q] = clean[q]
       /\ clean'[p] => clean[p]
  BY DEF Wait, WaitTimesOut, request, Flagged
<1> HIDE DEF w
<1>15. Flagged'
  BY <1>1, <1>2, <1>12, <1>13, <1>14, FlaggedKept DEF Flagged
<1>16. Busy(w[1])
  BY <1>1, <1>2, BusyProc
<1>17. Moves(w)
  BY <1>1, <1>2, <1>12, <1>13, <1>14, <1>15, <1>16 DEF Moves, Same
<1> QED
  BY <1>17 DEF w

\* The worker starts the job.
LEMMA JobRunsMoves ==
    ASSUME Shaped, Flagged, NEW p \in Requests, NEW outcome \in Endings, JobRuns(p, outcome)
    PROVE  Moves(Job(p))
<1> DEFINE w == Job(p)
           s == IF outcome = "silent" THEN <<Do("failed", thread[p])>>
                ELSE JobScript(p, thread[p], outcome)
<1>1. w \in Procs /\ w[1] = p /\ w = Job(w[1])
  BY ProcsApart
<1>2. thread[p] \in Threads /\ job[p] = "queued"
  BY DEF Shaped, JobRuns
<1>3. s \in Scripts
  BY <1>2, RequestScripts
<1>4. EndsLast(s)
  BY <1>2, HandlerEnds, EndsShort
<1>5. AllOps(s, FreeOps)
  <2>1. CASE outcome = "silent"
    <3>1. Do("failed", thread[p]).op \in FreeOps
      BY OpSets DEF Do, Cmd, Ends
    <3> QED
      BY <2>1, <3>1, OpsShort
  <2>2. CASE outcome # "silent"
    <3>1. <<Do(outcome, thread[p])>> \in Scripts
      BY <1>2, <2>2, DoIsCommand, Short DEF PlainOps, Endings
    <3>2. Do(outcome, thread[p]).op \in FreeOps
      BY <2>2, OpSets DEF Do, Cmd, Ends, Endings
    <3>3. AllOps(<<Do(outcome, thread[p])>>, FreeOps)
      BY <3>2, OpsShort
    <3>4. /\ WriterAppend(thread[p], Assistant(p)) \in Scripts
          /\ AllOps(WriterAppend(thread[p], Assistant(p)), FreeOps)
      BY <1>2, RequestScripts, RequestOps, OpSets, OpsMore
    <3> QED
      BY <2>2, <3>1, <3>3, <3>4, OpsJoin DEF JobScript
  <2> QED
    BY <2>1, <2>2
<1>6. todo' = [todo EXCEPT ![w] = s] /\ job' = [job EXCEPT ![p] = "running"]
  BY DEF JobRuns
<1>7. UNCHANGED <<thread, snap, listed, restored>>
  BY DEF JobRuns
<1> HIDE DEF s, w
<1>8. /\ clean' \in [Requests -> BOOLEAN]
      /\ \A q \in Requests \ {p} : clean'[q] = clean[q]
      /\ clean'[p] => clean[p]
  BY DEF JobRuns, Flagged
<1>9. Flagged'
  <2>1. \A v \in Procs : EndsLast(todo'[v])
    BY <1>3, <1>4, <1>6 DEF Flagged, Shaped
  <2>2. \A q \in Requests \ {p} : job'[q] = job[q] /\ todo'[Job(q)] = todo[Job(q)]
    BY <1>6, ProcsApart DEF Shaped, w
  <2>3. job'[p] = "running"
    BY <1>6 DEF Shaped
  <2> QED
    BY <1>7, <1>8, <2>1, <2>2, <2>3 DEF Flagged
<1>10. Busy(w[1])
  BY <1>1, <1>2 DEF Busy
<1>11. \A q \in Requests \ {w[1]} : Same(q)
  BY <1>1, <1>6, <1>7, <1>8 DEF Same, Shaped
<1>12. Moves(w)
  BY <1>1, <1>2, <1>3, <1>4, <1>5, <1>6, <1>7, <1>8, <1>9, <1>10, <1>11 DEF Moves
<1> QED
  BY <1>12 DEF w

\* The worker ends the job, with its last command.
LEMMA JobEndsMoves ==
    ASSUME Shaped, Flagged, NEW p \in Requests, JobEnds(p)
    PROVE  Moves(Job(p))
<1> DEFINE w == Job(p)
<1>1. w \in Procs /\ w[1] = p /\ w = Job(w[1])
  BY ProcsApart
<1>2. todo[w] # <<>> /\ todo[w] \in Scripts /\ EndsLast(todo[w]) /\ Head(todo[w]).op \in Ends
  BY <1>1 DEF JobEnds, Shaped, Flagged, Command, Ends
<1>3. Tail(todo[w]) = <<>>
  BY <1>2, EndsTail
<1>4. todo' = [todo EXCEPT ![w] = <<>>]
  BY <1>3, Short, JoinEmpty DEF JobEnds, Then
<1>5. <<>> \in Scripts /\ EndsLast(<<>>) /\ AllOps(<<>>, FreeOps)
  BY Short, EndsShort, OpsShort
<1>6. /\ UNCHANGED <<thread, snap, listed, restored, clean>>
      /\ \E e : job' = [job EXCEPT ![p] = e]
  BY DEF JobEnds
<1>7. Busy(w[1]) /\ job[w[1]] \in {"queued", "running"}
  BY <1>1, <1>2, BusyProc
<1> HIDE DEF w
<1>8. Flagged'
  <2>1. \A v \in Procs : EndsLast(todo'[v])
    BY <1>4, <1>5 DEF Flagged, Shaped
  <2>2. \A q \in Requests \ {p} : job'[q] = job[q] /\ todo'[Job(q)] = todo[Job(q)]
    BY <1>4, <1>6, ProcsApart DEF Shaped, w
  <2>3. todo'[Job(p)] = <<>>
    BY <1>1, <1>4 DEF Shaped, w
  <2> QED
    BY <1>6, <2>1, <2>2, <2>3 DEF Flagged
<1>9. \A q \in Requests \ {w[1]} : Same(q)
  BY <1>1, <1>6 DEF Same, Shaped
<1>10. Moves(w)
  BY <1>1, <1>4, <1>5, <1>6, <1>7, <1>8, <1>9 DEF Moves
<1> QED
  BY <1>10 DEF w

\* A process dies; its request has not run alone.
LEMMA CrashMoves ==
    ASSUME Shaped, Flagged, NEW w \in Procs, Crash(w)
    PROVE  Moves(w) /\ ~clean'[w[1]]
<1>1. w[1] \in Requests /\ (w = Web(w[1]) \/ w = Job(w[1])) /\ (w[2] = "job" <=> w = Job(w[1]))
  BY DEF Procs, Web, Job
<1>2. todo[w] # <<>> /\ todo' = [todo EXCEPT ![w] = <<>>]
  BY DEF Crash
<1>3. <<>> \in Scripts /\ EndsLast(<<>>) /\ AllOps(<<>>, FreeOps)
  BY Short, EndsShort, OpsShort
<1>4. UNCHANGED <<thread, snap, listed, restored>> /\ clean' = [clean EXCEPT ![w[1]] = FALSE]
  BY DEF Crash
<1>5. job' \in {[job EXCEPT ![w[1]] = "queued"], job}
  BY DEF Crash
<1>6. Busy(w[1]) /\ (w = Job(w[1]) => job[w[1]] \in {"queued", "running"})
  BY <1>2, BusyProc
<1>7. Flagged'
  <2>1. \A v \in Procs : EndsLast(todo'[v])
    BY <1>2, <1>3 DEF Flagged, Shaped
  <2>2. \A q \in Requests : todo'[Job(q)] # <<>> => todo[Job(q)] # <<>>
    BY <1>2, ProcsApart DEF Shaped
  <2>3. \A q \in Requests : job[q] \in {"queued", "running"} => job'[q] \in {"queued", "running"}
    BY <1>5 DEF Shaped
  <2>4. clean' \in [Requests -> BOOLEAN]
    BY <1>1, <1>4 DEF Flagged
  <2> QED
    BY <1>4, <2>1, <2>2, <2>3, <2>4 DEF Flagged
<1>8. \A q \in Requests \ {w[1]} : Same(q)
  <2> TAKE q \in Requests \ {w[1]}
  <2>1. job'[q] = job[q]
    BY <1>1, <1>5 DEF Shaped
  <2>2. clean'[q] = clean[q]
    BY <1>1, <1>4 DEF Flagged
  <2> QED
    BY <1>4, <2>1, <2>2 DEF Same
<1>9. ~clean'[w[1]]
  BY <1>1, <1>4 DEF Flagged
<1> QED
  BY <1>2, <1>3, <1>4, <1>6, <1>7, <1>8, <1>9 DEF Moves

------------------------------------------------------------------------------
(* Requests that run alone. *)

\* The steps of process w.
Step(w) ==
    \/ Look(w) \/ ReadLegacy(w) \/ ImportLegacy(w) \/ Push(w) \/ Delete(w)
    \/ Touch(w) \/ ZRem(w) \/ Sync(w)
    \/ MirrorRead(w) \/ MirrorCommit(w) \/ MirrorSkips(w)
    \/ MirrorConflict(w) \/ MirrorFails(w) \/ Crash(w)
    \/ \E p \in Requests : w = Web(p) /\
          \/ Read(p) \/ Members(p) \/ Find(p) \/ Serve(p) \/ Source(p) \/ SourceLegacy(p)
          \/ Enqueue(p) \/ Wait(p) \/ WaitTimesOut(p)
    \/ \E p \in Requests : w = Job(p) /\
          \/ JobEnds(p)
          \/ \E outcome \in Endings : JobRuns(p, outcome)

\* Every step starts a request or is a step of a process.
LEMMA NextIsStep ==
    ASSUME Next
    PROVE  \/ \E p \in Requests, call \in Calls : Start(p, call[1], call[2])
           \/ \E w \in Procs : Step(w)
BY ProcsApart DEF Next, Step

\* Every step of a process leaves the other requests alone.
LEMMA StepMoves ==
    ASSUME Shaped, Flagged, NEW w \in Procs, Step(w)
    PROVE  Moves(w)
BY StoreMoves, PushMoves, MirrorReadMoves, ReadMoves, EnqueueMoves, MembersMoves, WaitMoves,
   JobRunsMoves, JobEndsMoves, CrashMoves DEF Step

\* While some request may have run alone, at most one request has anything to do,
\* a listing or a restored history to show.
Solo ==
    (\E p \in Requests : clean[p]) =>
        \E r \in Requests : \A q \in Requests \ {r} :
            ~Busy(q) /\ listed[q] = {} /\ ~restored[q]

\* What a step of another request leaves of a request that ran alone.
LEMMA OthersAreIdle ==
    ASSUME Shaped, Flagged, Solo, NEW w \in Procs, Moves(w), NEW p \in Requests, clean[p],
           NEW q \in Requests, q # w[1]
    PROVE  /\ ~Busy(q) /\ listed[q] = {} /\ ~restored[q]
           /\ todo'[Web(q)] = todo[Web(q)] /\ todo'[Job(q)] = todo[Job(q)]
           /\ Same(q)
<1>1. PICK r \in Requests : \A v \in Requests \ {r} :
            ~Busy(v) /\ listed[v] = {} /\ ~restored[v]
  BY DEF Solo
<1>2. w[1] \in Requests /\ Busy(w[1])
  BY ProcIs DEF Moves
<1>3. r = w[1]
  BY <1>1, <1>2
<1>4. w # Web(q) /\ w # Job(q) /\ Web(q) \in Procs /\ Job(q) \in Procs
  BY ProcIs, ProcsApart
<1>5. todo'[Web(q)] = todo[Web(q)] /\ todo'[Job(q)] = todo[Job(q)]
  BY <1>4 DEF Moves, Shaped
<1>6. Same(q)
  BY DEF Moves
<1> QED
  BY <1>1, <1>3, <1>5, <1>6

\* A step of a process keeps at most one request awake.
LEMMA SoloKept ==
    ASSUME Shaped, Flagged, Solo, NEW w \in Procs, Moves(w)
    PROVE  Solo'
<1> SUFFICES ASSUME NEW p \in Requests, clean'[p]
             PROVE  \E r \in Requests : \A q \in Requests \ {r} :
                        ~Busy(q)' /\ listed'[q] = {} /\ ~restored'[q]
  BY DEF Solo
<1>1. clean[p]
  BY DEF Moves, Same
<1>2. w[1] \in Requests
  BY ProcIs
<1>3. ASSUME NEW q \in Requests \ {w[1]}
      PROVE  ~Busy(q)' /\ listed'[q] = {} /\ ~restored'[q]
  <2>1. /\ ~Busy(q) /\ listed[q] = {} /\ ~restored[q]
        /\ todo'[Web(q)] = todo[Web(q)]
        /\ Same(q)
    BY <1>1, OthersAreIdle
  <2> QED
    BY <2>1 DEF Busy, Same
<1> QED
  BY <1>2, <1>3

\* A request that starts: alone only when nothing else has anything to do.
LEMMA StartFacts ==
    ASSUME Shaped, Flagged, NEW p \in Requests, NEW call \in Calls, Start(p, call[1], call[2])
    PROVE  /\ Flagged' /\ Solo'
           /\ todo'[Web(p)] = Handler(p, call[1], call[2])
           /\ job'[p] = "none"
           /\ \A q \in Requests : listed'[q] = {} /\ ~restored'[q]
           /\ \A q \in Requests : clean'[q] => ~Busy(q)
           /\ \A q \in Requests \ {p} : todo'[Web(q)] = todo[Web(q)] /\ job'[q] = job[q]
<1>1. /\ call[1] \in {"chat", "stream", "files", "read", "create", "clear", "delete", "migrate"}
      /\ call[2] \in Threads
  BY ConversationAssumption
<1> DEFINE h == Handler(p, call[1], call[2])
<1>2. h \in Scripts /\ EndsLast(h)
  BY <1>1, RequestScripts, HandlerEnds
<1>3. todo' = [todo EXCEPT ![Web(p)] = h]
  BY DEF Start
<1> HIDE DEF h
<1>4. \A q \in Requests : todo'[Job(q)] = todo[Job(q)]
  BY <1>3, ProcsApart DEF Shaped
<1>5. \A q \in Requests \ {p} : todo'[Web(q)] = todo[Web(q)]
  BY <1>3, ProcsApart DEF Shaped
<1>6. todo'[Web(p)] = h
  BY <1>3, ProcsApart DEF Shaped
<1>7. \A v \in Procs : EndsLast(todo'[v])
  BY <1>2, <1>3 DEF Shaped, Flagged
<1>8. job' = [job EXCEPT ![p] = "none"] /\ ~Busy(p)
  BY DEF Start
<1>9. job'[p] = "none" /\ \A q \in Requests \ {p} : job'[q] = job[q]
  BY <1>8 DEF Shaped
<1>10. todo[Job(p)] = <<>>
  BY <1>8 DEF Flagged, Busy
<1>11. /\ listed' = [q \in Requests |-> {}] /\ restored' = [q \in Requests |-> FALSE]
       /\ clean' = [q \in Requests |-> Quiet]
  BY DEF Start
<1>12. \A q \in Requests : listed'[q] = {} /\ ~restored'[q]
  BY <1>11
<1>13. \A q \in Requests : clean'[q] => ~Busy(q)
  BY <1>11 DEF Quiet
<1>14. clean' \in [Requests -> BOOLEAN] /\ restored' \in [Requests -> BOOLEAN]
  BY <1>11 DEF Quiet
<1>15. listed' = [q \in Requests |-> listed'[q]]
  BY <1>11
<1>16. Flagged'
  BY <1>4, <1>7, <1>9, <1>10, <1>14, <1>15 DEF Flagged
<1>17. Solo'
  <2> SUFFICES ASSUME NEW o \in Requests, clean'[o]
               PROVE  \A q \in Requests \ {p} : ~Busy(q)' /\ listed'[q] = {} /\ ~restored'[q]
    BY DEF Solo
  <2>1. Quiet
    BY <1>11
  <2>2. \A q \in Requests \ {p} : ~Busy(q)'
    BY <1>5, <1>9, <2>1 DEF Quiet, Busy
  <2> QED
    BY <1>12, <2>2
<1> QED
  BY <1>5, <1>6, <1>9, <1>12, <1>13, <1>16, <1>17 DEF h

------------------------------------------------------------------------------
(* Listing the threads. *)

Imported == redis[Default] # <<>> \/ legacy = <<>>
ImportOps == {"look", "legacy", "import"}
PreOps == {"del", "zrem", "mirror_drop", "touch", "mirror_ensure"} \cup ImportOps
ReadOps == {"touch", "find", "look", "read", "serve"}

\* What a request does after it has read the registry.
Rests == {<<>>} \cup {<<Do("find", t)>> : t \in Threads}
Reading(f, rest) == <<Do("members", f)>> \o rest
Listing(f, rest) == <<Do("sync", None)>> \o Reading(f, rest)

\* Where a request that lists the threads stands: before the search for threads
\* that are not registered, between the search and the registration, before the
\* registry is read, and after it.
Searching(s) ==
    \E pre \in Scripts, f \in Threads, rest \in Rests :
        /\ s = pre \o Listing(f, rest)
        /\ AllOps(pre, PreOps)
        /\ Imported \/ ~AllOps(pre, PreOps \ ImportOps)
Registering(s) ==
    \E ts \in SUBSET Threads, f \in Threads, rest \in Rests :
        /\ s = <<Touching(ts)>> \o Reading(f, rest)
        /\ Imported /\ NonEmpty \subseteq registry \cup ts
Registered(s) ==
    \E f \in Threads, rest \in Rests :
        s = Reading(f, rest) /\ Imported /\ NonEmpty \subseteq registry
Shown(s, ts) ==
    /\ NonEmpty \subseteq ts /\ Imported
    /\ AllOps(s, ReadOps) \/ (legacy = <<>> /\ AllOps(s, ReadOps \cup {"legacy"}))

ListsNothing(p) == listed[p] = {} /\ AllOps(todo[Web(p)], FreeOps)
Lists(p) ==
    /\ job[p] = "none"
    /\ \/ listed[p] = {} /\ \/ Searching(todo[Web(p)])
                            \/ Registering(todo[Web(p)])
                            \/ Registered(todo[Web(p)])
       \/ Shown(todo[Web(p)], listed[p])
ListInv == \A p \in Requests : clean[p] => ListsNothing(p) \/ Lists(p)

\* The parts of a listing are scripts.
LEMMA RestScripts ==
    ASSUME NEW f \in Threads, NEW rest \in Rests
    PROVE  /\ rest \in Scripts /\ AllOps(rest, ReadOps)
           /\ <<Do("members", f)>> \in Scripts /\ <<Do("sync", None)>> \in Scripts
           /\ Reading(f, rest) \in Scripts /\ Listing(f, rest) \in Scripts
<1>1. \A t \in Threads : Do("find", t) \in Commands /\ Do("members", t) \in Commands
  BY DoIsCommand DEF ThreadOps
<1>2. Do("sync", None) \in Commands
  BY DoIsCommand DEF PlainOps
<1>3. rest \in Scripts
  BY <1>1, Short DEF Rests
<1>4. <<Do("members", f)>> \in Scripts /\ <<Do("sync", None)>> \in Scripts
  BY <1>1, <1>2, Short
<1>5. AllOps(rest, ReadOps)
  <2>1. \A t \in Threads : Do("find", t).op \in ReadOps
    BY DEF Do, Cmd, ReadOps
  <2> QED
    BY <2>1, OpsShort DEF Rests
<1>6. Reading(f, rest) \in Scripts
  BY <1>3, <1>4, JoinHas DEF Reading
<1> QED
  BY <1>3, <1>4, <1>5, <1>6, JoinHas DEF Listing

\* The first command of a script that begins with one command.
LEMMA FirstOf ==
    ASSUME NEW c \in Commands, NEW s \in Scripts
    PROVE  <<c>> \o s # <<>> /\ Head(<<c>> \o s) = c /\ Tail(<<c>> \o s) = s
BY DEF Scripts

\* The listing requests, when they start.
LEMMA HandlerLists ==
    ASSUME NEW p \in Requests, NEW t \in Threads
    PROVE  /\ \A kind \in {"chat", "stream", "files", "clear", "migrate"} : AllOps(Handler(p, kind, t), FreeOps)
           /\ \A kind \in {"read", "create", "delete"} : Searching(Handler(p, kind, t))
<1>1. /\ AllOps(GetHistory(t), FreeOps) /\ AllOps(Ask(p, t), FreeOps)
      /\ AllOps(WriterClear(t), FreeOps)
  BY RequestOps, StoreOps, OpSets, OpsMore
<1>2. /\ GetHistory(t) \in Scripts /\ Ask(p, t) \in Scripts /\ WriterClear(t) \in Scripts
  BY StoreScripts, RequestScripts
<1>3. GetHistory(t) \o Ask(p, t) \in Scripts /\ AllOps(GetHistory(t) \o Ask(p, t), FreeOps)
  BY <1>1, <1>2, OpsJoin, JoinHas
<1>4. AllOps(Handler(p, "chat", t), FreeOps) /\ AllOps(Handler(p, "stream", t), FreeOps)
  BY <1>3 DEF Handler
<1>5. AllOps(Handler(p, "files", t), FreeOps)
  <2>1. <<Do("wait", t)>> \in Scripts
    BY DoIsCommand, Short DEF PlainOps
  <2>2. Do("wait", t).op \in FreeOps
    BY OpSets DEF Do, Cmd, Ends
  <2>3. AllOps(<<Do("wait", t)>>, FreeOps)
    BY <2>2, OpsShort
  <2> QED
    BY <1>3, <2>1, <2>3, OpsJoin DEF Handler
<1>6. AllOps(Handler(p, "clear", t), FreeOps)
  BY <1>1 DEF Handler
<1>7. AllOps(Handler(p, "migrate", t), FreeOps)
  <2>1. Do("source", t).op \in FreeOps
    BY OpSets DEF Do, Cmd
  <2> QED
    BY <2>1, OpsShort DEF Handler
<1> DEFINE look == <<Do("look", Default)>>
<1>8. /\ look \in Scripts /\ AllOps(look, PreOps) /\ ~AllOps(look, PreOps \ ImportOps)
  <2>1. Do("look", Default).op = "look"
    BY DEF Do, Cmd
  <2>2. Do("look", Default) \in Commands
    BY DoIsCommand DEF PlainOps, Threads
  <2> QED
    BY <2>1, <2>2, Short, OpsShort DEF PreOps, ImportOps
<1>9. \A f \in Threads : List(f) = look \o Listing(f, <<>>)
  BY DEF List, Listing, Reading
<1>10. <<>> \in Rests /\ <<Do("find", t)>> \in Rests /\ Default \in Threads /\ New \in Threads
  BY DEF Rests, Threads
<1> HIDE DEF look
<1>11. Searching(Handler(p, "read", t))
  <2>1. Handler(p, "read", t) = look \o Listing(Default, <<Do("find", t)>>)
    BY DEF Handler, List, Listing, Reading, look
  <2> QED
    BY <1>8, <1>10, <2>1 DEF Searching
<1>12. ASSUME NEW before \in Scripts, AllOps(before, PreOps), NEW f \in Threads
       PROVE  Searching(before \o List(f))
  <2>1. before \o List(f) = (before \o look) \o Listing(f, <<>>)
    <3>1. Listing(f, <<>>) \in Scripts
      BY <1>10, RestScripts
    <3>2. (before \o look) \o Listing(f, <<>>) = before \o (look \o Listing(f, <<>>))
      BY <1>8, <3>1, JoinAssoc
    <3>3. List(f) = look \o Listing(f, <<>>)
      BY <1>9
    <3> QED
      BY <3>2, <3>3
  <2>2. before \o look \in Scripts /\ AllOps(before \o look, PreOps)
    BY <1>8, <1>12, OpsJoin, JoinHas
  <2>3. ~AllOps(before \o look, PreOps \ ImportOps)
    BY <1>8, OpsJoin
  <2> QED
    BY <1>10, <2>1, <2>2, <2>3 DEF Searching
<1>13. Searching(Handler(p, "create", t))
  <2>1. EnsureThread(New) \in Scripts
    BY <1>10, ListScripts
  <2>2. Touching({New}).op \in PreOps /\ Do("mirror_ensure", New).op \in PreOps
    BY DEF Touching, Do, Cmd, PreOps
  <2>3. AllOps(EnsureThread(New), PreOps)
    BY <2>2, OpsShort DEF EnsureThread
  <2> QED
    BY <1>10, <1>12, <2>1, <2>3 DEF Handler
<1>14. Searching(Handler(p, "delete", t))
  <2> DEFINE before == <<Do("del", t), Do("zrem", t), Do("mirror_drop", t)>>
  <2>1. Do("del", t) \in Commands /\ Do("zrem", t) \in Commands /\ Do("mirror_drop", t) \in Commands
    BY DoIsCommand DEF ThreadOps, PlainOps, MirrorOps
  <2>2. Do("del", t).op \in PreOps /\ Do("zrem", t).op \in PreOps /\ Do("mirror_drop", t).op \in PreOps
    BY DEF Do, Cmd, PreOps
  <2>3. before \in Scripts /\ AllOps(before, PreOps)
    BY <2>1, <2>2, Short, OpsShort
  <2> QED
    BY <1>10, <1>12, <2>3 DEF Handler
<1> QED
  BY <1>4, <1>5, <1>6, <1>7, <1>11, <1>13, <1>14

\* What the script of a process becomes.
LEMMA ThenBecomes ==
    ASSUME Shaped, NEW w \in Procs, todo[w] # <<>>, NEW sc, Then(w, sc)
    PROVE  todo'[w] = sc \o Tail(todo[w])
BY DEF Shaped, Then

\* What a command of the search does to the lists and the script.
LEMMA SearchCommand ==
    ASSUME Shaped, NEW p \in Requests, Step(Web(p)), ~Crash(Web(p)), ~MirrorRead(Web(p)),
           todo[Web(p)] # <<>>, Head(todo[Web(p)]).op \in PreOps
    PROVE  \E sc \in Scripts :
              /\ todo'[Web(p)] = sc \o Tail(todo[Web(p)])
              /\ AllOps(sc, PreOps)
              /\ \/ Imported'
                 \/ Head(todo[Web(p)]).op \notin ImportOps /\ (Imported <=> Imported')
                 \/ ~AllOps(sc, PreOps \ ImportOps)
              /\ UNCHANGED <<job, listed>>
<1> DEFINE w == Web(p)
<1>1. w \in Procs /\ \A q \in Requests : w # Job(q) /\ (w = Web(q) => q = p)
  BY ProcsApart
<1>2. Head(todo[w]).op \notin {"push", "sync", "read", "members", "find", "serve", "source",
              "source_legacy", "enqueue", "wait", "wait_again", "completed", "retry", "failed"}
  BY DEF PreOps, ImportOps
<1>3. \/ Look(w) \/ ReadLegacy(w) \/ ImportLegacy(w) \/ Delete(w) \/ Touch(w) \/ ZRem(w)
      \/ MirrorCommit(w) \/ MirrorSkips(w) \/ MirrorConflict(w) \/ MirrorFails(w)
  BY <1>1, <1>2
  DEF Step, At, Command, Push, Sync, Read, Members, Find, Serve, Source, SourceLegacy, Enqueue,
      Wait, WaitTimesOut, Waits
<1>4. UNCHANGED <<job, listed>>
  BY <1>3 DEF Look, ReadLegacy, ImportLegacy, Delete, Touch, ZRem, MirrorCommit, MirrorSkips,
         MirrorConflict, MirrorFails, request
<1>5. <<>> \in Scripts /\ AllOps(<<>>, PreOps)
  BY Short, OpsShort
<1>6. CASE Look(w)
  <2>1. CASE redis[Default] # <<>>
    <3>1. Touching({Default}).op \in PreOps /\ Touching({Default}) \in Commands
      BY DoIsCommand DEF Touching, Cmd, PreOps, Threads
    <3>2. <<Touching({Default})>> \in Scripts /\ AllOps(<<Touching({Default})>>, PreOps)
      BY <3>1, Short, OpsShort
    <3>3. Then(w, <<Touching({Default})>>) /\ UNCHANGED redis
      BY <1>6, <2>1 DEF Look, store
    <3>4. Imported'
      BY <2>1, <3>3 DEF Imported
    <3> QED
      BY <1>1, <1>4, <3>2, <3>3, <3>4, ThenBecomes
  <2>2. CASE redis[Default] = <<>>
    <3>1. Do("legacy", Default).op = "legacy" /\ Do("legacy", Default) \in Commands
      BY DoIsCommand DEF Do, Cmd, PlainOps, Threads
    <3> DEFINE sc == <<Do("legacy", Default)>>
    <3>2. sc \in Scripts /\ AllOps(sc, PreOps) /\ ~AllOps(sc, PreOps \ ImportOps)
      BY <3>1, Short, OpsShort DEF PreOps, ImportOps
    <3>3. Then(w, sc)
      BY <1>6, <2>2 DEF Look
    <3> HIDE DEF sc
    <3> QED
      BY <1>1, <1>4, <3>2, <3>3, ThenBecomes
  <2> QED
    BY <2>1, <2>2
<1>7. CASE ReadLegacy(w)
  <2>1. CASE legacy = <<>>
    <3>1. Then(w, <<>>) /\ UNCHANGED legacy
      BY <1>7, <2>1 DEF ReadLegacy, store
    <3>2. Imported'
      BY <2>1, <3>1 DEF Imported
    <3> QED
      BY <1>1, <1>4, <1>5, <3>1, <3>2, ThenBecomes
  <2>2. CASE legacy # <<>>
    <3> DEFINE sc == <<Cmd("import", Default, legacy), Touching({Default})>>
    <3>0. legacy = Old
      BY <2>2 DEF Shaped
    <3>1. /\ Cmd("import", Default, legacy).op = "import" /\ Touching({Default}).op = "touch"
          /\ Cmd("import", Default, legacy) \in Commands /\ Touching({Default}) \in Commands
      BY <3>0, DoIsCommand DEF Touching, Cmd, Threads
    <3>2. sc \in Scripts /\ AllOps(sc, PreOps) /\ ~AllOps(sc, PreOps \ ImportOps)
      BY <3>1, Short, OpsShort DEF PreOps, ImportOps
    <3>3. Then(w, sc)
      BY <1>7, <2>2 DEF ReadLegacy
    <3> HIDE DEF sc
    <3> QED
      BY <1>1, <1>4, <3>2, <3>3, ThenBecomes
  <2> QED
    BY <2>1, <2>2
<1>8. CASE ImportLegacy(w)
  <2>1. Then(w, <<>>) /\ legacy' = <<>>
    BY <1>8 DEF ImportLegacy
  <2>2. Imported'
    BY <2>1 DEF Imported
  <2> QED
    BY <1>1, <1>4, <1>5, <2>1, <2>2, ThenBecomes
<1>9. CASE Delete(w)
  <2>1. Then(w, <<>>)
    BY <1>9 DEF Delete
  <2>2. Imported' \/ (Head(todo[w]).op \notin ImportOps /\ (Imported <=> Imported'))
    <3>1. Command(w).t \in Threads /\ Head(todo[w]).op \notin ImportOps
      BY <1>1, <1>9, HeadIsCommand, CommandHolds DEF Delete, At, ThreadOps, ImportOps, Command
    <3>2. CASE Command(w).t = Default
      BY <1>9, <3>2 DEF Delete, Imported
    <3>3. CASE Command(w).t # Default
      <4>1. legacy' = legacy /\ redis'[Default] = redis[Default]
        BY <1>9, <3>1, <3>3 DEF Delete, Shaped, Threads
      <4> QED
        BY <3>1, <4>1 DEF Imported
    <3> QED
      BY <3>2, <3>3
  <2> QED
    BY <1>1, <1>4, <1>5, <2>1, <2>2, ThenBecomes
<1>10. CASE \/ Touch(w) \/ ZRem(w) \/ MirrorCommit(w) \/ MirrorSkips(w) \/ MirrorConflict(w)
            \/ MirrorFails(w)
  <2>1. Then(w, <<>>) /\ UNCHANGED <<redis, legacy>>
    BY <1>10 DEF Touch, ZRem, MirrorCommit, MirrorSkips, MirrorConflict, MirrorFails, store
  <2>2. Head(todo[w]).op \notin ImportOps
    BY <1>10 DEF Touch, ZRem, MirrorCommit, MirrorSkips, MirrorConflict, MirrorFails, At, AtMirror,
                 Command, MirrorOps, ImportOps
  <2>3. Imported <=> Imported'
    BY <2>1 DEF Imported
  <2> QED
    BY <1>1, <1>4, <1>5, <2>1, <2>2, <2>3, ThenBecomes
<1> QED
  BY <1>3, <1>6, <1>7, <1>8, <1>9, <1>10

\* Before the search for threads: the import is still to come, or is done.
LEMMA SearchGoesOn ==
    ASSUME Shaped, NEW p \in Requests, Step(Web(p)), ~Crash(Web(p)), ~MirrorRead(Web(p)),
           NEW pre \in Scripts, NEW f \in Threads, NEW rest \in Rests,
           todo[Web(p)] = pre \o Listing(f, rest), pre # <<>>, AllOps(pre, PreOps),
           Imported \/ ~AllOps(pre, PreOps \ ImportOps)
    PROVE  Searching(todo[Web(p)])' /\ UNCHANGED <<job, listed>>
<1> DEFINE w == Web(p)
           suf == Listing(f, rest)
           s == todo[w]
<1>0. suf \in Scripts
  BY RestScripts
<1> HIDE DEF suf
<1>1. s # <<>> /\ Head(s) = Head(pre) /\ Tail(s) = Tail(pre) \o suf
  <2>1. s = pre \o suf
    BY DEF suf
  <2> QED
    BY <1>0, <2>1, JoinTail
<1>2. Head(pre).op \in PreOps /\ AllOps(Tail(pre), PreOps) /\ Tail(pre) \in Scripts
  BY OpsTail, HeadTail
<1>3. PICK sc \in Scripts :
              /\ todo'[w] = sc \o Tail(s)
              /\ AllOps(sc, PreOps)
              /\ \/ Imported'
                 \/ Head(s).op \notin ImportOps /\ (Imported <=> Imported')
                 \/ ~AllOps(sc, PreOps \ ImportOps)
              /\ UNCHANGED <<job, listed>>
  BY <1>1, <1>2, SearchCommand
<1> DEFINE before == sc \o Tail(pre)
<1>4. todo'[w] = before \o suf
  <2>1. sc \o (Tail(pre) \o suf) = before \o suf
    BY <1>0, <1>2, JoinAssoc
  <2> QED
    BY <1>1, <1>3, <2>1
<1>5. before \in Scripts /\ AllOps(before, PreOps)
  BY <1>2, <1>3, OpsJoin, JoinHas
<1>6. Imported' \/ ~AllOps(before, PreOps \ ImportOps)
  <2>1. ASSUME ~Imported', AllOps(before, PreOps \ ImportOps)
        PROVE  FALSE
    <3>1. AllOps(sc, PreOps \ ImportOps) /\ AllOps(Tail(pre), PreOps \ ImportOps)
      BY <1>2, <2>1, OpsJoin
    <3>2. Head(pre).op \notin ImportOps /\ ~Imported
      BY <1>1, <1>3, <2>1, <3>1
    <3>3. AllOps(<<Head(pre)>>, PreOps \ ImportOps)
      BY <1>2, <3>2, OpsShort
    <3>4. pre = <<Head(pre)>> \o Tail(pre) /\ <<Head(pre)>> \in Scripts
      BY HeadTail, Short
    <3>5. AllOps(pre, PreOps \ ImportOps)
      <4>1. AllOps(<<Head(pre)>> \o Tail(pre), PreOps \ ImportOps)
        BY <1>2, <3>1, <3>3, <3>4, OpsJoin
      <4> QED
        BY <3>4, <4>1
    <3> QED
      BY <3>2, <3>5
  <2> QED
    BY <2>1
<1> HIDE DEF before
<1>7. Searching(todo[w])'
  BY <1>4, <1>5, <1>6 DEF Searching, suf
<1> QED
  BY <1>3, <1>7

\* Which step a command takes, for the commands that list and read.
LEMMA ListCommand ==
    ASSUME NEW p \in Requests, Step(Web(p)), ~Crash(Web(p)), todo[Web(p)] # <<>>
    PROVE  /\ Head(todo[Web(p)]).op = "sync" => Sync(Web(p))
           /\ Head(todo[Web(p)]).op = "touch" => Touch(Web(p))
           /\ Head(todo[Web(p)]).op = "members" => Members(p)
           /\ Head(todo[Web(p)]).op = "look" => Look(Web(p))
           /\ Head(todo[Web(p)]).op = "legacy" => ReadLegacy(Web(p))
           /\ Head(todo[Web(p)]).op = "find" => Find(p)
           /\ Head(todo[Web(p)]).op = "read" => Read(p)
           /\ Head(todo[Web(p)]).op = "serve" => Serve(p)
           /\ Head(todo[Web(p)]).op = "push" => Push(Web(p))
           /\ Head(todo[Web(p)]).op = "del" => Delete(Web(p))
           /\ Head(todo[Web(p)]).op = "import" => ImportLegacy(Web(p))
           /\ Head(todo[Web(p)]).op \in MirrorOps =>
                 \/ MirrorRead(Web(p)) \/ MirrorCommit(Web(p)) \/ MirrorSkips(Web(p))
                 \/ MirrorConflict(Web(p)) \/ MirrorFails(Web(p))
<1>1. \A q \in Requests : Web(p) # Job(q) /\ (Web(p) = Web(q) => q = p)
  BY ProcsApart
<1> DEFINE w == Web(p)
           op == Head(todo[w]).op
<1>2. /\ Look(w) => op = "look"
      /\ ReadLegacy(w) => op = "legacy"
      /\ ImportLegacy(w) => op = "import"
      /\ Push(w) => op = "push"
      /\ Delete(w) => op = "del"
      /\ Touch(w) => op = "touch"
      /\ ZRem(w) => op = "zrem"
      /\ Sync(w) => op = "sync"
      /\ MirrorRead(w) \/ MirrorCommit(w) \/ MirrorSkips(w) \/ MirrorConflict(w) \/ MirrorFails(w)
            => op \in MirrorOps
  BY DEF Look, ReadLegacy, ImportLegacy, Push, Delete, Touch, ZRem, Sync, MirrorRead, MirrorCommit,
         MirrorSkips, MirrorConflict, MirrorFails, At, AtMirror, Command
<1>3. /\ Read(p) => op = "read"
      /\ Members(p) => op = "members"
      /\ Find(p) => op = "find"
      /\ Serve(p) => op = "serve"
      /\ Source(p) => op = "source"
      /\ SourceLegacy(p) => op = "source_legacy"
      /\ Enqueue(p) => op = "enqueue"
      /\ Wait(p) \/ WaitTimesOut(p) => op \in {"wait", "wait_again"}
  BY DEF Read, Members, Find, Serve, Source, SourceLegacy, Enqueue, Wait, WaitTimesOut, Waits, At,
         Command
<1>4. \/ Look(w) \/ ReadLegacy(w) \/ ImportLegacy(w) \/ Push(w) \/ Delete(w)
      \/ Touch(w) \/ ZRem(w) \/ Sync(w)
      \/ MirrorRead(w) \/ MirrorCommit(w) \/ MirrorSkips(w)
      \/ MirrorConflict(w) \/ MirrorFails(w)
      \/ Read(p) \/ Members(p) \/ Find(p) \/ Serve(p) \/ Source(p) \/ SourceLegacy(p)
      \/ Enqueue(p) \/ Wait(p) \/ WaitTimesOut(p)
  BY <1>1 DEF Step
<1> HIDE DEF op, w
<1>5. /\ op = "sync" => Sync(w)
      /\ op = "touch" => Touch(w)
      /\ op = "members" => Members(p)
      /\ op = "look" => Look(w)
      /\ op = "legacy" => ReadLegacy(w)
      /\ op = "find" => Find(p)
      /\ op = "read" => Read(p)
      /\ op = "serve" => Serve(p)
      /\ op = "push" => Push(w)
      /\ op = "del" => Delete(w)
      /\ op = "import" => ImportLegacy(w)
      /\ op \in MirrorOps =>
            MirrorRead(w) \/ MirrorCommit(w) \/ MirrorSkips(w) \/ MirrorConflict(w) \/ MirrorFails(w)
  BY <1>2, <1>3, <1>4 DEF MirrorOps
<1> QED
  BY <1>5 DEF op, w

\* The search collects the threads that hold messages.
LEMMA SearchStep ==
    ASSUME Shaped, NEW p \in Requests, Step(Web(p)), ~Crash(Web(p)), ~MirrorRead(Web(p)),
           Searching(todo[Web(p)])
    PROVE  /\ Searching(todo[Web(p)])' \/ Registering(todo[Web(p)])'
           /\ UNCHANGED <<job, listed>>
<1>1. PICK pre \in Scripts, f \in Threads, rest \in Rests :
        /\ todo[Web(p)] = pre \o Listing(f, rest)
        /\ AllOps(pre, PreOps)
        /\ Imported \/ ~AllOps(pre, PreOps \ ImportOps)
  BY DEF Searching
<1>2. CASE pre # <<>>
  BY <1>1, <1>2, SearchGoesOn
<1>3. CASE pre = <<>>
  <2> DEFINE w == Web(p)
  <2>0. w \in Procs
    BY ProcsApart
  <2>1. /\ Do("sync", None) \in Commands /\ Do("sync", None).op = "sync"
        /\ Reading(f, rest) \in Scripts /\ Listing(f, rest) \in Scripts
    BY RestScripts, DoIsCommand DEF PlainOps, Do, Cmd
  <2>2. todo[w] = Listing(f, rest)
    BY <1>1, <1>3, <2>1, JoinEmpty
  <2>3. todo[w] # <<>> /\ Head(todo[w]).op = "sync" /\ Tail(todo[w]) = Reading(f, rest)
    BY <2>1, <2>2, FirstOf DEF Listing
  <2>4. Sync(w)
    BY <2>3, ListCommand
  <2>5. /\ todo'[w] = <<Touching(NonEmpty)>> \o Reading(f, rest)
        /\ UNCHANGED <<redis, legacy, registry, job, listed>>
    BY <2>0, <2>3, <2>4, ThenBecomes DEF Sync, store, request
  <2>6. Imported
    BY <1>1, <1>3, OpsShort
  <2>7. Imported' /\ NonEmpty' = NonEmpty
    BY <2>5, <2>6 DEF Imported, NonEmpty
  <2>8. NonEmpty \in SUBSET Threads
    BY DEF NonEmpty
  <2>9. NonEmpty' \subseteq registry' \cup NonEmpty
    BY <2>7
  <2> QED
    BY <2>5, <2>7, <2>8, <2>9 DEF Registering
<1> QED
  BY <1>2, <1>3

\* They are registered before the registry is read.
LEMMA RegisterStep ==
    ASSUME Shaped, NEW p \in Requests, Step(Web(p)), ~Crash(Web(p)),
           Registering(todo[Web(p)])
    PROVE  Registered(todo[Web(p)])' /\ UNCHANGED <<job, listed>>
<1> DEFINE w == Web(p)
<1>0. w \in Procs
  BY ProcsApart
<1>1. PICK ts \in SUBSET Threads, f \in Threads, rest \in Rests :
        /\ todo[w] = <<Touching(ts)>> \o Reading(f, rest)
        /\ Imported /\ NonEmpty \subseteq registry \cup ts
  BY DEF Registering
<1>2. /\ Touching(ts) \in Commands /\ Touching(ts).op = "touch" /\ Touching(ts).t = ts
      /\ Reading(f, rest) \in Scripts
  BY RestScripts, DoIsCommand DEF Touching, Cmd
<1>3. todo[w] # <<>> /\ Head(todo[w]) = Touching(ts) /\ Tail(todo[w]) = Reading(f, rest)
  BY <1>1, <1>2, FirstOf
<1>4. Touch(w)
  BY <1>2, <1>3, ListCommand
<1>5. todo'[w] = <<>> \o Reading(f, rest)
  BY <1>0, <1>3, <1>4, ThenBecomes DEF Touch
<1>6. todo'[w] = Reading(f, rest)
  BY <1>2, <1>5, JoinEmpty
<1>7. registry' = registry \cup ts /\ UNCHANGED <<redis, legacy, job, listed>>
  BY <1>2, <1>3, <1>4 DEF Touch, Command, request
<1>8. Imported' /\ NonEmpty' \subseteq registry'
  BY <1>1, <1>7 DEF Imported, NonEmpty
<1> QED
  BY <1>6, <1>7, <1>8 DEF Registered

\* The registry that is read holds them; an empty one starts the listing again.
LEMMA MembersStep ==
    ASSUME Shaped, Flagged, NEW p \in Requests, Step(Web(p)), ~Crash(Web(p)),
           Registered(todo[Web(p)])
    PROVE  \/ Searching(todo[Web(p)])' /\ listed'[p] = {} /\ job' = job
           \/ Shown(todo[Web(p)], listed[p])' /\ job' = job
<1> DEFINE w == Web(p)
<1>0. w \in Procs
  BY ProcsApart
<1>1. PICK f \in Threads, rest \in Rests :
        todo[w] = Reading(f, rest) /\ Imported /\ NonEmpty \subseteq registry
  BY DEF Registered
<1>2. /\ Do("members", f) \in Commands /\ Do("members", f).op = "members" /\ Do("members", f).t = f
      /\ rest \in Scripts /\ AllOps(rest, ReadOps)
      /\ Listing(f, rest) \in Scripts /\ Listing(f, <<>>) \in Scripts
  BY RestScripts, DoIsCommand DEF ThreadOps, Do, Cmd, Rests
<1>3. todo[w] # <<>> /\ Head(todo[w]) = Do("members", f) /\ Tail(todo[w]) = rest
  BY <1>1, <1>2, FirstOf DEF Reading
<1>4. Members(p) /\ Command(w).t = f
  BY <1>2, <1>3, ListCommand DEF Command
<1>5. listed'[p] = registry /\ UNCHANGED <<redis, legacy, registry, job>>
  BY <1>4 DEF Members, Flagged, store
<1>6. Imported' /\ NonEmpty' = NonEmpty
  BY <1>1, <1>5 DEF Imported, NonEmpty
<1>7. CASE registry = {}
  <2> DEFINE before == <<Touching({f}), Do("mirror_ensure", f), Do("look", Default)>>
  <2>1. Then(w, EnsureThread(f) \o List(f))
    BY <1>4, <1>7 DEF Members
  <2>2. todo'[w] = (EnsureThread(f) \o List(f)) \o rest
    BY <1>0, <1>3, <2>1, ThenBecomes
  <2>3. (EnsureThread(f) \o List(f)) \o rest = before \o Listing(f, rest)
    <3> DEFINE mid == <<Do("sync", None), Do("members", f)>>
    <3>1. EnsureThread(f) \o List(f) = before \o mid
      BY DEF EnsureThread, List
    <3>2. /\ before \in Scripts /\ mid \in Scripts
          /\ <<Do("sync", None)>> \in Scripts /\ <<Do("members", f)>> \in Scripts
      <4>1. /\ Touching({f}) \in Commands /\ Do("mirror_ensure", f) \in Commands
            /\ Do("look", Default) \in Commands /\ Do("sync", None) \in Commands
        BY DoIsCommand DEF MirrorOps, PlainOps, Threads
      <4> QED
        BY <1>2, <4>1, Short
    <3>3. mid = <<Do("sync", None)>> \o <<Do("members", f)>>
      OBVIOUS
    <3> HIDE DEF before, mid
    <3>4. (before \o mid) \o rest = before \o (mid \o rest)
      <4>1. before \in Scripts /\ mid \in Scripts /\ rest \in Scripts
        BY <1>2, <3>2
      <4> QED
        BY <4>1, JoinAssoc
    <3>5. (<<Do("sync", None)>> \o <<Do("members", f)>>) \o rest = Listing(f, rest)
      BY <1>2, <3>2, JoinAssoc DEF Listing, Reading
    <3>6. mid \o rest = Listing(f, rest)
      BY <3>3, <3>5
    <3> QED
      BY <3>1, <3>4, <3>6
  <2>4. before \in Scripts /\ AllOps(before, PreOps)
    <3>1. /\ Touching({f}) \in Commands /\ Do("mirror_ensure", f) \in Commands
          /\ Do("look", Default) \in Commands
      BY DoIsCommand DEF MirrorOps, PlainOps, Threads
    <3>2. /\ Touching({f}).op \in PreOps /\ Do("mirror_ensure", f).op \in PreOps
          /\ Do("look", Default).op \in PreOps
      BY DEF Touching, Do, Cmd, PreOps, ImportOps
    <3> QED
      BY <3>1, <3>2, Short, OpsShort
  <2> HIDE DEF before
  <2>5. todo'[w] = before \o Listing(f, rest)
    BY <2>2, <2>3
  <2>6. Searching(todo[w])'
    BY <1>6, <2>4, <2>5 DEF Searching
  <2> QED
    BY <1>5, <1>7, <2>6
<1>8. CASE registry # {}
  <2> DEFINE touch == Touching(NonEmpty \cap registry)
  <2>1. touch \in Commands /\ touch.op \in ReadOps
    <3>1. NonEmpty \cap registry \in SUBSET Threads
      BY DEF NonEmpty
    <3> QED
      BY <3>1, DoIsCommand DEF Touching, Cmd, ReadOps
  <2>2. Then(w, <<touch>>)
    BY <1>4, <1>8 DEF Members
  <2> HIDE DEF touch
  <2>3. todo'[w] = <<touch>> \o rest
    BY <1>0, <1>3, <2>2, ThenBecomes
  <2>4. AllOps(<<touch>> \o rest, ReadOps)
    BY <1>2, <2>1, Short, OpsShort, OpsJoin
  <2>5. NonEmpty' \subseteq listed'[p]
    BY <1>1, <1>5, <1>6
  <2> QED
    BY <1>5, <1>6, <2>3, <2>4, <2>5 DEF Shown
<1> QED
  BY <1>7, <1>8

\* After the registry is read the request only registers and reads.
LEMMA ShownStep ==
    ASSUME Shaped, NEW p \in Requests, Step(Web(p)), ~Crash(Web(p)),
           todo[Web(p)] # <<>>, Shown(todo[Web(p)], listed[p])
    PROVE  Shown(todo[Web(p)], listed[p])' /\ UNCHANGED <<job, listed>>
<1> DEFINE w == Web(p)
           s == todo[w]
           ops == IF legacy = <<>> THEN ReadOps \cup {"legacy"} ELSE ReadOps
           t == Command(w).t
<1>0. w \in Procs /\ s \in Scripts /\ s # <<>>
  BY ProcsApart DEF Shaped
<1>1. AllOps(s, ops) /\ NonEmpty \subseteq listed[p] /\ Imported
  <2>1. ReadOps \subseteq ReadOps \cup {"legacy"}
    OBVIOUS
  <2> QED
    BY <2>1, OpsMore DEF Shown
<1>2. Head(s).op \in ops /\ AllOps(Tail(s), ops) /\ Tail(s) \in Scripts
  <2> HIDE DEF ops, s
  <2> QED
    BY <1>0, <1>1, OpsTail, HeadTail
<1>3. \/ Touch(w) \/ Look(w) \/ Find(p) \/ Read(p) \/ Serve(p)
      \/ ReadLegacy(w) /\ legacy = <<>>
  BY <1>0, <1>2, ListCommand DEF ReadOps
<1>4. UNCHANGED <<job, listed, redis, legacy>>
  BY <1>3 DEF Touch, Look, Find, Read, Serve, ReadLegacy, store, request
<1>5. \E sc \in Scripts : Then(w, sc) /\ AllOps(sc, ops)
  <2>0. <<>> \in Scripts /\ AllOps(<<>>, ops)
    BY Short, OpsShort
  <2>1. "touch" \in ops /\ "look" \in ops /\ "read" \in ops /\ "serve" \in ops
        /\ (legacy = <<>> => "legacy" \in ops)
    BY DEF ReadOps
  <2>2. \A ts \in SUBSET Threads : <<Touching(ts)>> \in Scripts /\ AllOps(<<Touching(ts)>>, ops)
    <3>1. \A ts \in SUBSET Threads : Touching(ts) \in Commands /\ Touching(ts).op \in ops
      BY <2>1, DoIsCommand DEF Touching, Cmd
    <3> HIDE DEF ops
    <3> QED
      BY <3>1, Short, OpsShort
  <2>3. CASE Touch(w)
    BY <2>0, <2>3 DEF Touch
  <2>4. CASE Look(w)
    <3>1. CASE redis[Default] # <<>>
      <4>1. {Default} \in SUBSET Threads
        BY DEF Threads
      <4> QED
        BY <2>2, <2>4, <3>1, <4>1 DEF Look
    <3>2. CASE redis[Default] = <<>>
      <4>1. legacy = <<>>
        BY <1>1, <3>2 DEF Imported
      <4>2. Do("legacy", Default) \in Commands /\ Do("legacy", Default).op \in ops
        BY <2>1, <4>1, DoIsCommand DEF Do, Cmd, PlainOps, Threads
      <4> HIDE DEF ops
      <4>3. <<Do("legacy", Default)>> \in Scripts /\ AllOps(<<Do("legacy", Default)>>, ops)
        BY <4>2, Short, OpsShort
      <4> QED
        BY <2>4, <3>2, <4>3 DEF Look
    <3> QED
      BY <3>1, <3>2
  <2>5. CASE Find(p)
    <3>1. t \in Threads
      BY <1>0, <2>5, HeadIsCommand, CommandHolds DEF Find, At, ThreadOps
    <3>2. Do("serve", t) \in Commands /\ Do("serve", t).op \in ops
      BY <2>1, <3>1, DoIsCommand DEF Do, Cmd, ThreadOps
    <3>3. GetHistory(t) \in Scripts /\ AllOps(GetHistory(t), {"look", "read"})
      BY <3>1, StoreScripts, StoreOps
    <3>4. {"look", "read"} \subseteq ops
      BY <2>1
    <3> HIDE DEF ops, t
    <3>5. AllOps(GetHistory(t), ops)
      BY <3>3, <3>4, OpsMore
    <3>6. <<Do("serve", t)>> \in Scripts /\ AllOps(<<Do("serve", t)>>, ops)
      BY <3>2, Short, OpsShort
    <3>7. /\ GetHistory(t) \o <<Do("serve", t)>> \in Scripts
          /\ AllOps(GetHistory(t) \o <<Do("serve", t)>>, ops)
      BY <3>3, <3>5, <3>6, OpsJoin, JoinHas
    <3>8. Then(w, GetHistory(t) \o <<Do("serve", t)>>) \/ Then(w, <<>>)
      BY <2>5 DEF Find, t
    <3> QED
      BY <2>0, <3>7, <3>8
  <2>6. CASE Read(p)
    <3>1. {t} \in SUBSET Threads
      BY <1>0, <2>6, HeadIsCommand, CommandHolds DEF Read, At, ThreadOps
    <3>2. Then(w, <<Touching({t})>>) \/ Then(w, <<>>)
      BY <2>6 DEF Read
    <3> QED
      BY <2>0, <2>2, <3>1, <3>2
  <2>7. CASE Serve(p)
    BY <2>0, <2>7 DEF Serve
  <2>8. CASE ReadLegacy(w) /\ legacy = <<>>
    BY <2>0, <2>8 DEF ReadLegacy
  <2> QED
    BY <1>3, <2>3, <2>4, <2>5, <2>6, <2>7, <2>8
<1>6. PICK sc \in Scripts : Then(w, sc) /\ AllOps(sc, ops)
  BY <1>5
<1>7. todo'[w] = sc \o Tail(s)
  BY <1>0, <1>6, ThenBecomes
<1>8. AllOps(todo'[w], ops)
  <2> HIDE DEF ops, s
  <2> QED
    BY <1>2, <1>6, <1>7, OpsJoin
<1>9. NonEmpty' \subseteq listed'[p] /\ Imported'
  BY <1>1, <1>4 DEF NonEmpty, Imported
<1>10. Shown(todo[w], listed[p])'
  BY <1>4, <1>8, <1>9 DEF Shown
<1> QED
  BY <1>4, <1>10

\* A listing step of a request that runs alone.
LEMMA ListsKept ==
    ASSUME Shaped, Flagged, NEW p \in Requests, Step(Web(p)), ~Crash(Web(p)), todo[Web(p)] # <<>>,
           Lists(p)
    PROVE  Lists(p)'
<1> DEFINE w == Web(p)
<1>1. CASE MirrorRead(w)
  <2>1. UNCHANGED <<redis, legacy, registry, todo, job, listed>>
    BY <1>1 DEF MirrorRead, store, request
  <2>2. Imported' = Imported /\ NonEmpty' = NonEmpty
    BY <2>1 DEF Imported, NonEmpty
  <2>3. Searching(todo[w])' = Searching(todo[w])
    BY <2>1, <2>2 DEF Searching
  <2>4. Registering(todo[w])' = Registering(todo[w])
    BY <2>1, <2>2 DEF Registering
  <2>5. Registered(todo[w])' = Registered(todo[w])
    BY <2>1, <2>2 DEF Registered
  <2>6. Shown(todo[w], listed[p])' = Shown(todo[w], listed[p])
    BY <2>1, <2>2 DEF Shown
  <2> QED
    BY <2>1, <2>3, <2>4, <2>5, <2>6 DEF Lists
<1>2. CASE ~MirrorRead(w)
  <2>1. CASE listed[p] = {} /\ Searching(todo[w])
    BY <1>2, <2>1, SearchStep DEF Lists
  <2>2. CASE listed[p] = {} /\ Registering(todo[w])
    BY <2>2, RegisterStep DEF Lists
  <2>3. CASE Registered(todo[w])
    BY <2>3, MembersStep DEF Lists
  <2>4. CASE Shown(todo[w], listed[p])
    BY <2>4, ShownStep DEF Lists
  <2> QED
    BY <2>1, <2>2, <2>3, <2>4 DEF Lists
<1> QED
  BY <1>1, <1>2

\* Every step of a process keeps the listing invariant.
LEMMA ListKept ==
    ASSUME Shaped, Flagged, Solo, ListInv, NEW w \in Procs, Step(w)
    PROVE  ListInv'
<1> SUFFICES ASSUME NEW p \in Requests, clean'[p]
             PROVE  ListsNothing(p)' \/ Lists(p)'
  BY DEF ListInv
<1>1. Moves(w)
  BY StepMoves
<1>2. w[1] \in Requests /\ (w = Web(w[1]) \/ w = Job(w[1]))
  BY ProcIs
<1>3. clean[p]
  BY <1>1, <1>2 DEF Moves, Same
<1>4. ListsNothing(p) \/ Lists(p)
  BY <1>3 DEF ListInv
<1>5. CASE p # w[1]
  <2>1. ~Busy(p) /\ listed[p] = {} /\ todo'[Web(p)] = todo[Web(p)] /\ Same(p)
    BY <1>1, <1>3, <1>5, OthersAreIdle
  <2>2. todo'[Web(p)] = <<>> /\ listed'[p] = {}
    BY <2>1 DEF Busy, Same
  <2> QED
    BY <2>2, OpsShort DEF ListsNothing
<1>6. CASE p = w[1] /\ w = Job(p)
  <2>1. job[p] \in {"queued", "running"} /\ listed' = listed
    BY <1>1, <1>6 DEF Moves
  <2>2. ListsNothing(p)
    BY <1>4, <2>1 DEF Lists
  <2>3. todo'[Web(p)] = todo[Web(p)]
    BY <1>1, <1>6, ProcsApart DEF Moves, Shaped
  <2> QED
    BY <2>1, <2>2, <2>3 DEF ListsNothing
<1>7. CASE p = w[1] /\ w = Web(p)
  <2>1. Web(p) # Job(p) /\ Web(p) \in Procs
    BY ProcsApart
  <2>2. todo[Web(p)] # <<>>
    BY <1>1, <1>7, <2>1 DEF Moves
  <2>3. ~Crash(Web(p))
    BY <1>7, CrashMoves
  <2>4. CASE ListsNothing(p)
    <3>1. ~At(Web(p), "members")
      <4>1. Head(todo[Web(p)]).op \in FreeOps
        BY <2>1, <2>2, <2>4, OpsTail DEF ListsNothing, Shaped
      <4> QED
        BY <4>1, OpSets DEF At, Command
    <3>2. listed' = listed /\ AllOps(todo'[Web(p)], FreeOps)
      BY <1>1, <1>7, <2>1, <2>4, <3>1 DEF Moves, ListsNothing, Shaped
    <3> QED
      BY <2>4, <3>2 DEF ListsNothing
  <2>5. CASE Lists(p)
    BY <1>7, <2>2, <2>3, <2>5, ListsKept
  <2> QED
    BY <1>4, <2>4, <2>5
<1> QED
  BY <1>2, <1>5, <1>6, <1>7

\* So does the start of a request.
LEMMA ListStart ==
    ASSUME Shaped, Flagged, NEW p \in Requests, NEW call \in Calls, Start(p, call[1], call[2])
    PROVE  ListInv'
<1> DEFINE kind == call[1]
           t == call[2]
<1>1. /\ kind \in {"chat", "stream", "files", "read", "create", "clear", "delete", "migrate"}
      /\ t \in Threads
  BY ConversationAssumption
<1>2. /\ todo'[Web(p)] = Handler(p, kind, t) /\ job'[p] = "none" /\ listed'[p] = {}
      /\ \A q \in Requests : clean'[q] => ~Busy(q)
      /\ \A q \in Requests \ {p} : todo'[Web(q)] = todo[Web(q)] /\ listed'[q] = {}
  BY StartFacts
<1> SUFFICES ASSUME NEW q \in Requests, clean'[q]
             PROVE  ListsNothing(q)' \/ Lists(q)'
  BY DEF ListInv
<1>3. CASE q # p
  <2>1. todo'[Web(q)] = <<>> /\ listed'[q] = {}
    BY <1>2, <1>3 DEF Busy
  <2> QED
    BY <2>1, OpsShort DEF ListsNothing
<1>4. CASE q = p
  <2>1. CASE kind \in {"chat", "stream", "files", "clear", "migrate"}
    BY <1>1, <1>2, <1>4, <2>1, HandlerLists DEF ListsNothing
  <2>2. CASE kind \in {"read", "create", "delete"}
    <3> DEFINE h == Handler(p, kind, t)
    <3>1. Searching(h)
      BY <1>1, <2>2, HandlerLists
    <3>2. UNCHANGED <<redis, legacy>>
      BY DEF Start, store
    <3> HIDE DEF h
    <3>3. Imported' = Imported
      BY <3>2 DEF Imported
    <3>4. todo'[Web(p)] = h
      BY <1>2 DEF h
    <3>5. Searching(todo[Web(p)])'
      BY <3>1, <3>3, <3>4 DEF Searching
    <3> QED
      BY <1>2, <1>4, <3>5 DEF Lists
  <2> QED
    BY <1>1, <2>1, <2>2
<1> QED
  BY <1>3, <1>4

------------------------------------------------------------------------------
(* Putting the history back. *)

MirrorsLast == {"touch", "mirror_replace"}
BeforePush(t) == IF t = Default THEN {"touch", "look", "legacy"} ELSE {"touch"}

\* Where a request that puts the history back stands: before the deletion,
\* between the deletion and the last push, and after it.
Emptying(p) == todo[Web(p)] = WriterReplace(thread[p], snap[p])
Refilling(p) ==
    \E pre \in Scripts, post \in Scripts, ms \in Histories :
        /\ ms # <<>> /\ redis[thread[p]] \o ms = snap[p]
        /\ todo[Web(p)] = pre \o (<<Cmd("push", thread[p], ms)>> \o post)
        /\ AllOps(pre, BeforePush(thread[p])) /\ AllOps(post, MirrorsLast)
        /\ thread[p] = Default => legacy = <<>>
Refilled(p) == redis[thread[p]] = snap[p] /\ AllOps(todo[Web(p)], MirrorsLast)
PutsBack(p) ==
    /\ thread[p] \in Threads
    /\ job[p] \notin {"queued", "running"}
    /\ Emptying(p) \/ Refilling(p) \/ Refilled(p)

\* Histories grow at their end.
LEMMA HistoryFacts ==
    /\ \A s \in Histories : Len(s) \in Nat /\ <<>> \o s = s /\ s \o <<>> = s
    /\ \A s \in Histories : s # <<>> => Head(s) \in Messages /\ Tail(s) \in Histories
    /\ \A s, r \in Histories : s \o r \in Histories /\ Len(s \o r) = Len(s) + Len(r)
    /\ \A s, r \in Histories : r # <<>> => Append(s, Head(r)) \o Tail(r) = s \o r
    /\ \A s \in Histories, m \in Messages : Append(s, m) \in Histories /\ Len(Append(s, m)) = Len(s) + 1
<1>1. \A s \in Histories : Len(s) \in Nat /\ <<>> \o s = s /\ s \o <<>> = s
  BY DEF Histories
<1>2. \A s \in Histories : s # <<>> => Head(s) \in Messages /\ Tail(s) \in Histories
  BY DEF Histories
<1>3. \A s, r \in Histories : s \o r \in Histories /\ Len(s \o r) = Len(s) + Len(r)
  BY DEF Histories
<1>4. \A s, r \in Histories : r # <<>> => Append(s, Head(r)) \o Tail(r) = s \o r
  BY DEF Histories
<1>5. \A s \in Histories, m \in Messages : Append(s, m) \in Histories /\ Len(Append(s, m)) = Len(s) + 1
  BY DEF Histories
<1> QED
  BY <1>1, <1>2, <1>3, <1>4, <1>5

\* A history within the limit is kept whole.
LEMMA WholeHistory ==
    ASSUME NEW s \in Histories
    PROVE  /\ Len(s) <= MaxHistory => Newest(s) = s
           /\ Len(s) <= BudgetMessages => Budgeted(s) = s
<1> DEFINE n == Len(s)
           m == MaxHistory
           b == BudgetMessages
<1>1. n \in Nat /\ m \in Nat /\ b \in Nat
  BY ConversationAssumption, HistoryFacts
<1>2. SubSeq(s, 1, n) = s
  BY SubSeqFull DEF Histories
<1>3. Newest(s) = SubSeq(s, IF n > m THEN n - m + 1 ELSE 1, n)
  BY DEF Newest
<1>4. Budgeted(s) = SubSeq(s, IF n > b THEN n - b + 1 ELSE 1, n)
  BY DEF Budgeted
<1> HIDE DEF n, m, b
<1>5. (n <= m => ~(n > m)) /\ (n <= b => ~(n > b))
  BY <1>1
<1>6. (n <= m => Newest(s) = s) /\ (n <= b => Budgeted(s) = s)
  BY <1>2, <1>3, <1>4, <1>5
<1> QED
  BY <1>6 DEF n, m, b

\* The script of a restoration, command by command.
LEMMA ReplaceScript ==
    ASSUME NEW t \in Threads, NEW ms \in Histories
    PROVE  WriterReplace(t, ms)
              = <<Do("del", t)>> \o
                (<<Touching({t})>> \o (StoreAll(t, ms) \o <<Cmd("mirror_replace", t, ms)>>))
<1> DEFINE a == <<Do("del", t)>>
           b == <<Touching({t})>>
           c == StoreAll(t, ms)
           d == <<Cmd("mirror_replace", t, ms)>>
           ab == a \o b
           cd == c \o d
<1>1. a \in Scripts /\ b \in Scripts
  BY DoIsCommand, Short DEF ThreadOps
<1>2. c \in Scripts
  BY StoreScripts
<1>3. d \in Scripts
  BY DoIsCommand, Short DEF MirrorOps
<1>4. <<Do("del", t), Touching({t})>> = ab
  OBVIOUS
<1>5. WriterReplace(t, ms) = (ab \o c) \o d
  BY <1>4 DEF WriterReplace
<1> HIDE DEF a, b, c, d
<1>6. ab \in Scripts /\ cd \in Scripts
  BY <1>1, <1>2, <1>3, JoinHas
<1>7. ab \o cd = a \o (b \o cd)
  <2> HIDE DEF cd
  <2> QED
    BY <1>1, <1>6, JoinAssoc
<1>8. (ab \o c) \o d = ab \o cd
  <2> HIDE DEF ab
  <2> QED
    BY <1>2, <1>3, <1>6, JoinAssoc
<1> HIDE DEF ab, cd
<1>9. WriterReplace(t, ms) = a \o (b \o cd)
  BY <1>5, <1>7, <1>8
<1> QED
  BY <1>9 DEF a, b, c, d, cd

\* The deletion: nothing is left in the list, nor under the old key.
LEMMA EmptyingStep ==
    ASSUME Shaped, NEW p \in Requests, Step(Web(p)), ~Crash(Web(p)),
           PutsBack(p), Emptying(p)
    PROVE  PutsBack(p)' /\ snap' = snap
<1> DEFINE w == Web(p)
           t == thread[p]
           ms == snap[p]
           rest == <<Touching({t})>> \o (StoreAll(t, ms) \o <<Cmd("mirror_replace", t, ms)>>)
           last == <<Cmd("mirror_replace", t, ms)>>
<1>0. w \in Procs /\ t \in Threads /\ ms \in Histories /\ job[p] \notin {"queued", "running"}
  BY ProcsApart DEF PutsBack, Shaped
<1>1. /\ Do("del", t) \in Commands /\ Do("del", t).op = "del" /\ Do("del", t).t = t
      /\ Touching({t}) \in Commands /\ Touching({t}).op = "touch"
      /\ Cmd("mirror_replace", t, ms) \in Commands
      /\ Cmd("mirror_replace", t, ms).op = "mirror_replace"
  <2>1. Do("del", t) \in Commands /\ Touching({t}) \in Commands
    BY <1>0, DoIsCommand DEF ThreadOps
  <2>2. Cmd("mirror_replace", t, ms) \in Commands
    BY <1>0, DoIsCommand DEF MirrorOps
  <2> QED
    BY <2>1, <2>2 DEF Do, Touching, Cmd
<1>2. /\ <<Do("del", t)>> \in Scripts /\ <<Touching({t})>> \in Scripts
      /\ last \in Scripts
      /\ <<Do("del", t), Touching({t})>> \in Scripts
      /\ AllOps(last, MirrorsLast)
      /\ AllOps(<<Touching({t})>>, MirrorsLast) /\ AllOps(<<Touching({t})>>, BeforePush(t))
  BY <1>1, Short, OpsShort DEF MirrorsLast, BeforePush
<1>3. StoreAll(t, ms) \in Scripts /\ Migrate(t) \in Scripts
  BY <1>0, StoreScripts
<1>4. rest \in Scripts
  BY <1>2, <1>3, JoinHas
<1>5. todo[w] = <<Do("del", t)>> \o rest
  BY <1>0, ReplaceScript DEF Emptying
<1>6. todo[w] # <<>> /\ Head(todo[w]) = Do("del", t) /\ Tail(todo[w]) = rest
  <2> HIDE DEF rest, w
  <2> QED
    BY <1>1, <1>4, <1>5, FirstOf
<1>7. Delete(w) /\ Command(w).t = t
  BY <1>1, <1>6, ListCommand DEF Command
<1>8. /\ redis'[t] = <<>> /\ (t = Default => legacy' = <<>>)
      /\ UNCHANGED <<job, thread, snap>>
  BY <1>0, <1>7 DEF Delete, request, Shaped
<1>9. todo'[w] = rest
  <2>1. todo'[w] = <<>> \o Tail(todo[w])
    BY <1>0, <1>6, <1>7, ThenBecomes DEF Delete
  <2> HIDE DEF rest
  <2> QED
    BY <1>4, <1>6, <2>1, JoinEmpty
<1>10. CASE ms = <<>>
  <2>1. StoreAll(t, ms) = <<>>
    BY <1>10 DEF StoreAll
  <2>2. rest = <<Touching({t})>> \o last
    BY <1>2, <2>1, JoinEmpty
  <2>3. AllOps(rest, MirrorsLast)
    <3> HIDE DEF last, rest
    <3>1. AllOps(<<Touching({t})>> \o last, MirrorsLast)
      BY <1>2, OpsJoin
    <3> QED
      BY <2>2, <3>1
  <2>4. Refilled(p)'
    BY <1>8, <1>9, <1>10, <2>3 DEF Refilled
  <2> QED
    BY <1>0, <1>8, <2>4 DEF PutsBack
<1>11. CASE ms # <<>>
  <2> DEFINE pre == <<Touching({t})>> \o Migrate(t)
             push == <<Cmd("push", t, ms)>>
             touch == <<Touching({t})>>
             post == touch \o last
  <2>1. push \in Scripts
    BY <1>0, <1>11, DoIsCommand, Short
  <2>2. <<Cmd("push", t, ms), Touching({t})>> = push \o touch
    OBVIOUS
  <2>3. StoreAll(t, ms) = Migrate(t) \o (push \o touch)
    BY <1>11, <2>2 DEF StoreAll
  <2>4. touch \in Scripts /\ Migrate(t) \in Scripts /\ last \in Scripts
    BY <1>2, <1>3
  <2>5. rest = touch \o ((Migrate(t) \o (push \o touch)) \o last)
    BY <2>3
  <2>6. AllOps(touch, MirrorsLast) /\ AllOps(last, MirrorsLast) /\ AllOps(touch, BeforePush(t))
    BY <1>2
  <2>7. AllOps(Migrate(t), BeforePush(t))
    <3>1. CASE t = Default
      BY <1>0, <3>1, StoreOps, OpsMore DEF BeforePush
    <3>2. CASE t # Default
      BY <3>2, OpsShort DEF Migrate
    <3> QED
      BY <3>1, <3>2
  <2>8. pre = touch \o Migrate(t)
    OBVIOUS
  <2> HIDE DEF touch, push, last, pre, rest
  <2>9. rest = pre \o (push \o post)
    <3>1. push \o touch \in Scripts /\ touch \o last \in Scripts /\ push \o (touch \o last) \in Scripts
      BY <2>1, <2>4, JoinHas
    <3>2. (Migrate(t) \o (push \o touch)) \o last = Migrate(t) \o ((push \o touch) \o last)
      <4>1. Migrate(t) \in Scripts /\ push \o touch \in Scripts /\ last \in Scripts
        BY ONLY <2>4, <3>1
      <4> QED
        BY ONLY <4>1, JoinAssoc, Zenon
    <3>3. (push \o touch) \o last = push \o (touch \o last)
      BY ONLY <2>1, <2>4, JoinAssoc, Zenon
    <3>4. touch \o (Migrate(t) \o (push \o (touch \o last)))
            = (touch \o Migrate(t)) \o (push \o (touch \o last))
      <4>1. touch \in Scripts /\ Migrate(t) \in Scripts /\ push \o (touch \o last) \in Scripts
        BY ONLY <2>4, <3>1
      <4> QED
        BY ONLY <4>1, JoinAssoc, Zenon
    <3> QED
      BY <2>5, <2>8, <3>2, <3>3, <3>4
  <2>10. pre \in Scripts /\ post \in Scripts /\ AllOps(pre, BeforePush(t)) /\ AllOps(post, MirrorsLast)
    BY <2>4, <2>6, <2>7, <2>8, OpsJoin, JoinHas
  <2>11. redis'[t] \o ms = ms
    BY <1>0, <1>8, HistoryFacts
  <2> HIDE DEF post
  <2>12. Refilling(p)'
    BY <1>0, <1>8, <1>9, <1>11, <2>9, <2>10, <2>11 DEF Refilling, push
  <2> QED
    BY <1>0, <1>8, <2>12 DEF PutsBack
<1> QED
  BY <1>8, <1>10, <1>11

\* Between the deletion and the push: registrations, and a look for the old
\* layout's list, which is gone.
LEMMA RefillingOn ==
    ASSUME Shaped, NEW p \in Requests, Step(Web(p)), ~Crash(Web(p)), PutsBack(p),
           NEW pre \in Scripts, NEW post \in Scripts, NEW ms \in Histories,
           ms # <<>>, redis[thread[p]] \o ms = snap[p],
           todo[Web(p)] = pre \o (<<Cmd("push", thread[p], ms)>> \o post),
           AllOps(pre, BeforePush(thread[p])), AllOps(post, MirrorsLast),
           thread[p] = Default => legacy = <<>>, pre # <<>>
    PROVE  PutsBack(p)' /\ snap' = snap
<1> DEFINE w == Web(p)
           t == thread[p]
           suf == <<Cmd("push", t, ms)>> \o post
           ops == BeforePush(t)
<1>0. w \in Procs /\ t \in Threads /\ job[p] \notin {"queued", "running"}
  BY ProcsApart DEF PutsBack
<1>1. <<Cmd("push", t, ms)>> \in Scripts
  BY <1>0, DoIsCommand, Short
<1>2. suf \in Scripts /\ todo[w] = pre \o suf
  BY <1>1, JoinHas
<1> HIDE DEF suf
<1>3. todo[w] # <<>> /\ Head(todo[w]) = Head(pre) /\ Tail(todo[w]) = Tail(pre) \o suf
  <2>1. pre \o suf # <<>> /\ Head(pre \o suf) = Head(pre) /\ Tail(pre \o suf) = Tail(pre) \o suf
    BY <1>2, JoinTail
  <2> QED
    BY <1>2, <2>1
<1>4. Head(pre).op \in ops /\ AllOps(Tail(pre), ops) /\ Tail(pre) \in Scripts
  BY OpsTail, HeadTail
<1>5. Touch(w) \/ (t = Default /\ legacy = <<>> /\ (Look(w) \/ ReadLegacy(w)))
  BY <1>3, <1>4, ListCommand DEF BeforePush
<1>6. UNCHANGED <<redis, legacy, job, thread, snap>>
  BY <1>5 DEF Touch, Look, ReadLegacy, store, request
<1>7. \E sc \in Scripts : Then(w, sc) /\ AllOps(sc, ops)
  <2>1. <<>> \in Scripts /\ AllOps(<<>>, ops)
    BY Short, OpsShort
  <2>2. CASE Touch(w)
    BY <2>1, <2>2 DEF Touch
  <2>3. CASE t = Default /\ Look(w)
    <3>1. /\ Touching({Default}) \in Commands /\ Touching({Default}).op \in ops
          /\ Do("legacy", Default) \in Commands /\ Do("legacy", Default).op \in ops
      BY <2>3, DoIsCommand DEF Touching, Do, Cmd, BeforePush, PlainOps, Threads
    <3> HIDE DEF ops
    <3>2. /\ <<Touching({Default})>> \in Scripts /\ AllOps(<<Touching({Default})>>, ops)
          /\ <<Do("legacy", Default)>> \in Scripts /\ AllOps(<<Do("legacy", Default)>>, ops)
      BY <3>1, Short, OpsShort
    <3> QED
      BY <2>3, <3>2 DEF Look
  <2>4. CASE legacy = <<>> /\ ReadLegacy(w)
    BY <2>1, <2>4 DEF ReadLegacy
  <2> QED
    BY <1>5, <2>2, <2>3, <2>4
<1>8. PICK sc \in Scripts : Then(w, sc) /\ AllOps(sc, ops)
  BY <1>7
<1> DEFINE before == sc \o Tail(pre)
<1> HIDE DEF ops
<1>9. todo'[w] = sc \o (Tail(pre) \o suf)
  BY <1>0, <1>3, <1>8, ThenBecomes
<1>10. sc \o (Tail(pre) \o suf) = before \o suf
  BY <1>2, <1>4, <1>8, JoinAssoc
<1>11. before \in Scripts /\ AllOps(before, ops)
  BY <1>4, <1>8, OpsJoin, JoinHas
<1> HIDE DEF before
<1>12. todo'[w] = before \o suf
  BY <1>9, <1>10
<1>13. Refilling(p)'
  BY <1>0, <1>6, <1>11, <1>12 DEF Refilling, suf, ops
<1> QED
  BY <1>0, <1>6, <1>13 DEF PutsBack

\* The push itself: the list grows by the first of the messages still to come, and
\* is short enough to be kept whole.
LEMMA RefillingPush ==
    ASSUME Shaped, NEW p \in Requests, Step(Web(p)), ~Crash(Web(p)), PutsBack(p),
           Len(snap[p]) <= BudgetMessages,
           NEW post \in Scripts, NEW ms \in Histories,
           ms # <<>>, redis[thread[p]] \o ms = snap[p],
           todo[Web(p)] = <<Cmd("push", thread[p], ms)>> \o post,
           AllOps(post, MirrorsLast),
           thread[p] = Default => legacy = <<>>
    PROVE  PutsBack(p)' /\ snap' = snap
<1> DEFINE w == Web(p)
           t == thread[p]
           c == Cmd("push", t, ms)
           full == Append(redis[t], Head(ms))
           rest == Tail(ms)
<1>0. w \in Procs /\ t \in Threads /\ job[p] \notin {"queued", "running"}
  BY ProcsApart DEF PutsBack
<1>1. c \in Commands /\ c.op = "push" /\ c.t = t /\ c.ms = ms
  BY <1>0, DoIsCommand DEF Cmd
<1>2. todo[w] # <<>> /\ Head(todo[w]) = c /\ Tail(todo[w]) = post
  <2> HIDE DEF c
  <2>1. todo[w] = <<c>> \o post
    BY DEF c
  <2> QED
    BY <1>1, <2>1, FirstOf
<1>3. Push(w) /\ Command(w) = c
  BY <1>1, <1>2, ListCommand DEF Command
<1>4. redis[t] \in Histories /\ snap[p] \in Histories
  BY <1>0 DEF Shaped
<1>5. /\ full \in Histories /\ rest \in Histories /\ full \o rest = snap[p]
      /\ Len(full) + Len(rest) = Len(snap[p])
      /\ Len(full) \in Nat /\ Len(rest) \in Nat
  <2>1. full \in Histories /\ rest \in Histories
    BY <1>4, HistoryFacts
  <2>2. full \o rest = snap[p]
    BY <1>4, HistoryFacts
  <2> HIDE DEF full, rest
  <2> QED
    BY <2>1, <2>2, HistoryFacts
<1>6. Newest(full) = full
  <2> DEFINE a == Len(full)
             b == Len(rest)
             n == Len(snap[p])
             m == MaxHistory
             k == BudgetMessages
  <2>1. a + b = n /\ a \in Nat /\ b \in Nat /\ n <= k /\ m \in Nat /\ k \in 0 .. m
    BY <1>5, ConversationAssumption
  <2> HIDE DEF a, b, n, m, k
  <2>2. a <= m
    BY <2>1
  <2> HIDE DEF full
  <2>3. Len(full) <= MaxHistory
    BY <2>2 DEF a, m
  <2> QED
    BY <1>5, <2>3, WholeHistory
<1>7. /\ redis' = [redis EXCEPT ![t] = full]
      /\ UNCHANGED <<legacy, job, thread, snap>>
      /\ Then(w, IF rest = <<>> THEN <<>>
                 ELSE <<Touching({t})>> \o Migrate(t) \o <<Cmd("push", t, rest)>>)
  BY <1>1, <1>3, <1>6 DEF Push, request
<1> HIDE DEF full, c
<1>8. redis'[t] = full
  BY <1>0, <1>7 DEF Shaped
<1>9. CASE rest = <<>>
  <2>1. full = snap[p]
    BY <1>5, <1>9, HistoryFacts
  <2>2. todo'[w] = <<>> \o post
    BY <1>0, <1>2, <1>7, <1>9, ThenBecomes
  <2>3. todo'[w] = post
    BY <2>2, JoinEmpty
  <2>4. Refilled(p)'
    BY <1>7, <1>8, <2>1, <2>3 DEF Refilled
  <2> QED
    BY <1>0, <1>7, <2>4 DEF PutsBack
<1>10. CASE rest # <<>>
  <2> DEFINE touch == <<Touching({t})>>
             pre == touch \o Migrate(t)
             push == <<Cmd("push", t, rest)>>
  <2> HIDE DEF rest
  <2>1. touch \in Scripts /\ push \in Scripts /\ Migrate(t) \in Scripts
    BY <1>0, <1>5, <1>10, DoIsCommand, Short, StoreScripts
  <2>2. Touching({t}).op \in BeforePush(t)
    BY DEF Touching, Cmd, BeforePush
  <2>3. AllOps(touch, BeforePush(t))
    BY <2>2, OpsShort
  <2>4. AllOps(Migrate(t), BeforePush(t))
    <3>1. CASE t = Default
      BY <1>0, <3>1, StoreOps, OpsMore DEF BeforePush
    <3>2. CASE t # Default
      BY <3>2, OpsShort DEF Migrate
    <3> QED
      BY <3>1, <3>2
  <2>5. Then(w, pre \o push)
    BY <1>7, <1>10
  <2> HIDE DEF touch, push
  <2>6. pre \in Scripts /\ AllOps(pre, BeforePush(t))
    BY <2>1, <2>3, <2>4, OpsJoin, JoinHas
  <2>7. todo'[w] = (pre \o push) \o post
    BY <1>0, <1>2, <2>5, ThenBecomes
  <2> HIDE DEF pre
  <2>8. todo'[w] = pre \o (push \o post)
    <3>1. pre \in Scripts /\ push \in Scripts /\ post \in Scripts
      BY <2>1, <2>6
    <3>2. (pre \o push) \o post = pre \o (push \o post)
      BY ONLY <3>1, JoinAssoc, Zenon
    <3> QED
      BY ONLY <2>7, <3>2, Zenon
  <2>9. Refilling(p)'
    BY <1>5, <1>7, <1>8, <1>10, <2>6, <2>8 DEF Refilling, push
  <2> QED
    BY <1>0, <1>7, <2>9 DEF PutsBack
<1> QED
  BY <1>7, <1>9, <1>10

\* The last push is done: only the registry and the copy are still written.
LEMMA RefilledStep ==
    ASSUME Shaped, NEW p \in Requests, Step(Web(p)), ~Crash(Web(p)), todo[Web(p)] # <<>>,
           PutsBack(p), Refilled(p)
    PROVE  PutsBack(p)' /\ snap' = snap
<1> DEFINE w == Web(p)
           s == todo[w]
<1>0. w \in Procs /\ s \in Scripts /\ s # <<>> /\ AllOps(s, MirrorsLast)
  BY ProcsApart DEF Shaped, Refilled
<1>1. Head(s).op \in MirrorsLast /\ AllOps(Tail(s), MirrorsLast) /\ Tail(s) \in Scripts
  <2> HIDE DEF s
  <2> QED
    BY <1>0, OpsTail, HeadTail
<1>2. \/ Touch(w) \/ MirrorRead(w) \/ MirrorCommit(w) \/ MirrorSkips(w)
      \/ MirrorConflict(w) \/ MirrorFails(w)
  BY <1>0, <1>1, ListCommand DEF MirrorsLast, MirrorOps
<1>3. UNCHANGED <<redis, job, thread, snap>>
  BY <1>2 DEF Touch, MirrorRead, MirrorCommit, MirrorSkips, MirrorConflict, MirrorFails, store, request
<1>4. AllOps(todo'[w], MirrorsLast)
  <2>1. CASE MirrorRead(w)
    BY <1>0, <2>1 DEF MirrorRead
  <2>2. CASE ~MirrorRead(w)
    <3>1. Then(w, <<>>)
      BY <1>2, <2>2 DEF Touch, MirrorCommit, MirrorSkips, MirrorConflict, MirrorFails
    <3>2. todo'[w] = <<>> \o Tail(s)
      BY <1>0, <3>1, ThenBecomes
    <3>3. todo'[w] = Tail(s)
      BY <1>1, <3>2, JoinEmpty
    <3> QED
      BY <1>1, <3>3
  <2> QED
    BY <2>1, <2>2
<1>5. Refilled(p)'
  BY <1>3, <1>4 DEF Refilled, PutsBack
<1> QED
  BY <1>3, <1>5 DEF PutsBack

\* Every step of a restoration that runs alone is one of these.
LEMMA PutsBackKept ==
    ASSUME Shaped, NEW p \in Requests, Step(Web(p)), ~Crash(Web(p)), todo[Web(p)] # <<>>,
           PutsBack(p), Len(snap[p]) <= BudgetMessages
    PROVE  PutsBack(p)' /\ snap' = snap
<1>1. CASE Emptying(p)
  BY <1>1, EmptyingStep
<1>2. CASE Refilling(p)
  <2>1. PICK pre \in Scripts, post \in Scripts, ms \in Histories :
        /\ ms # <<>> /\ redis[thread[p]] \o ms = snap[p]
        /\ todo[Web(p)] = pre \o (<<Cmd("push", thread[p], ms)>> \o post)
        /\ AllOps(pre, BeforePush(thread[p])) /\ AllOps(post, MirrorsLast)
        /\ thread[p] = Default => legacy = <<>>
    BY <1>2 DEF Refilling
  <2>2. CASE pre # <<>>
    BY <2>1, <2>2, RefillingOn
  <2>3. CASE pre = <<>>
    <3>1. <<Cmd("push", thread[p], ms)>> \in Scripts
      BY <2>1, DoIsCommand, Short DEF PutsBack
    <3> DEFINE suf == <<Cmd("push", thread[p], ms)>> \o post
    <3>2. suf \in Scripts
      BY <3>1, JoinHas
    <3>3. todo[Web(p)] = suf
      BY <2>1, <2>3, <3>2, JoinEmpty
    <3> QED
      BY <2>1, <3>3, RefillingPush
  <2> QED
    BY <2>2, <2>3
<1>3. CASE Refilled(p)
  BY <1>3, RefilledStep
<1> QED
  BY <1>1, <1>2, <1>3 DEF PutsBack

\* A failed job starts the restoration.
LEMMA WaitRestores ==
    ASSUME Shaped, Flagged, NEW p \in Requests, Wait(p), restored'[p]
    PROVE  /\ todo'[Web(p)] = Restore(p) /\ job[p] = "failed"
           /\ UNCHANGED <<thread, snap, job>> /\ thread[p] \in Threads
<1>1. restored' = [restored EXCEPT ![p] = (job[p] = "failed")] /\ UNCHANGED <<thread, snap, job>>
  BY DEF Wait
<1>2. job[p] = "failed"
  BY <1>1 DEF Flagged
<1>3. Then(Web(p), Restore(p))
  BY <1>2 DEF Wait
<1>4. todo[Web(p)] # <<>> /\ Head(todo[Web(p)]).op \in Ends
  BY DEF Wait, Waits, Ends
<1>5. Web(p) \in Procs /\ todo[Web(p)] \in Scripts /\ EndsLast(todo[Web(p)])
  BY ProcsApart DEF Shaped, Flagged
<1>6. Tail(todo[Web(p)]) = <<>>
  BY <1>4, <1>5, EndsTail
<1>7. thread[p] \in Threads
  BY <1>4 DEF Shaped
<1>8. Restore(p) \in Scripts
  <2>1. Budgeted(snap[p]) \in Histories
    BY BudgetedKeeps DEF Shaped
  <2> QED
    BY <1>7, <2>1, StoreScripts DEF Restore
<1>9. todo'[Web(p)] = Restore(p) \o <<>>
  BY <1>3, <1>4, <1>5, <1>6, ThenBecomes
<1> QED
  BY <1>1, <1>2, <1>7, <1>8, <1>9, JoinEmpty

\* The commands of a restoration.
RestoreOps == {"del", "touch", "look", "legacy", "import", "push", "mirror_replace"}

\* What the script of a restoration holds.
LEMMA ReplaceOps ==
    ASSUME NEW t \in Threads, NEW ms \in Histories
    PROVE  AllOps(WriterReplace(t, ms), RestoreOps)
<1>1. <<Do("del", t), Touching({t})>> \in Scripts
  BY DoIsCommand, Short DEF ThreadOps
<1>2. <<Cmd("mirror_replace", t, ms)>> \in Scripts
  BY DoIsCommand, Short DEF MirrorOps
<1>3. /\ Do("del", t).op \in RestoreOps /\ Touching({t}).op \in RestoreOps
      /\ Cmd("mirror_replace", t, ms).op \in RestoreOps
  BY DEF Do, Touching, Cmd, RestoreOps
<1>4. /\ AllOps(<<Do("del", t), Touching({t})>>, RestoreOps)
      /\ AllOps(<<Cmd("mirror_replace", t, ms)>>, RestoreOps)
  BY <1>3, OpsShort
<1>5. StoreAll(t, ms) \in Scripts /\ AllOps(StoreAll(t, ms), RestoreOps)
  <2>1. {"look", "push", "touch"} \subseteq RestoreOps
    BY DEF RestoreOps
  <2> QED
    BY <2>1, StoreScripts, StoreOps, OpsMore
<1>6. /\ <<Do("del", t), Touching({t})>> \o StoreAll(t, ms) \in Scripts
      /\ AllOps(<<Do("del", t), Touching({t})>> \o StoreAll(t, ms), RestoreOps)
  BY <1>1, <1>4, <1>5, OpsJoin, JoinHas
<1> QED
  BY <1>2, <1>4, <1>6, OpsJoin DEF WriterReplace

\* A restoration stays one, and reads no history.
LEMMA RestoreCommand ==
    ASSUME Shaped, NEW p \in Requests, Step(Web(p)), ~Crash(Web(p)), todo[Web(p)] # <<>>,
           AllOps(todo[Web(p)], RestoreOps)
    PROVE  AllOps(todo'[Web(p)], RestoreOps) /\ UNCHANGED <<snap, restored>>
<1> DEFINE w == Web(p)
           s == todo[w]
           t == Command(w).t
<1>0. w \in Procs /\ s \in Scripts /\ s # <<>> /\ AllOps(s, RestoreOps)
  BY ProcsApart DEF Shaped
<1>1. Head(s).op \in RestoreOps /\ AllOps(Tail(s), RestoreOps) /\ Tail(s) \in Scripts
  <2> HIDE DEF s
  <2> QED
    BY <1>0, OpsTail, HeadTail
<1>2. \/ Delete(w) \/ Touch(w) \/ Look(w) \/ ReadLegacy(w) \/ ImportLegacy(w) \/ Push(w)
      \/ MirrorRead(w) \/ MirrorCommit(w) \/ MirrorSkips(w) \/ MirrorConflict(w) \/ MirrorFails(w)
  BY <1>0, <1>1, ListCommand DEF RestoreOps, MirrorOps
<1>3. UNCHANGED <<snap, restored>>
  BY <1>2 DEF Delete, Touch, Look, ReadLegacy, ImportLegacy, Push, MirrorRead, MirrorCommit,
              MirrorSkips, MirrorConflict, MirrorFails, request
<1>4. CASE MirrorRead(w)
  BY <1>3, <1>4 DEF MirrorRead
<1>5. CASE ~MirrorRead(w)
  <2>0. <<>> \in Scripts /\ AllOps(<<>>, RestoreOps)
    BY Short, OpsShort
  <2>1. \E sc \in Scripts : Then(w, sc) /\ AllOps(sc, RestoreOps)
    <3>1. CASE Look(w)
      <4>1. /\ Touching({Default}) \in Commands /\ Touching({Default}).op \in RestoreOps
            /\ Do("legacy", Default) \in Commands /\ Do("legacy", Default).op \in RestoreOps
        BY DoIsCommand DEF Touching, Do, Cmd, RestoreOps, PlainOps, Threads
      <4>2. /\ <<Touching({Default})>> \in Scripts /\ AllOps(<<Touching({Default})>>, RestoreOps)
            /\ <<Do("legacy", Default)>> \in Scripts /\ AllOps(<<Do("legacy", Default)>>, RestoreOps)
        BY <4>1, Short, OpsShort
      <4> QED
        BY <3>1, <4>2 DEF Look
    <3>2. CASE ReadLegacy(w)
      <4>1. /\ Cmd("import", Default, Old) \in Commands /\ Cmd("import", Default, Old).op \in RestoreOps
            /\ Touching({Default}) \in Commands /\ Touching({Default}).op \in RestoreOps
        BY DoIsCommand DEF Touching, Cmd, RestoreOps, Threads
      <4>2. LET sc == <<Cmd("import", Default, Old), Touching({Default})>>
            IN  sc \in Scripts /\ AllOps(sc, RestoreOps)
        BY <4>1, Short, OpsShort
      <4> QED
        BY <2>0, <3>2, <4>2 DEF ReadLegacy, Shaped
    <3>3. CASE Push(w)
      <4> DEFINE rest == Tail(Command(w).ms)
                 touch == <<Touching({t})>>
                 push == <<Cmd("push", t, rest)>>
      <4>1. t \in Threads /\ Command(w).ms \in Histories /\ Command(w).ms # <<>>
        BY <1>0, <3>3, HeadIsCommand, CommandHolds DEF Push, At
      <4>2. rest \in Histories
        BY <4>1, HistoryFacts
      <4>3. Then(w, IF rest = <<>> THEN <<>> ELSE (touch \o Migrate(t)) \o push)
        BY <3>3 DEF Push
      <4> HIDE DEF rest, t
      <4>4. CASE rest = <<>>
        BY <2>0, <4>3, <4>4
      <4>5. CASE rest # <<>>
        <5>1. Touching({t}).op \in RestoreOps /\ Cmd("push", t, rest).op \in RestoreOps
          BY DEF Touching, Cmd, RestoreOps
        <5>2. touch \in Scripts /\ push \in Scripts /\ Migrate(t) \in Scripts
          BY <4>1, <4>2, <4>5, DoIsCommand, Short, StoreScripts
        <5>3. AllOps(touch, RestoreOps) /\ AllOps(push, RestoreOps)
          BY <5>1, OpsShort
        <5>4. AllOps(Migrate(t), RestoreOps)
          BY <4>1, StoreOps, OpsMore DEF RestoreOps
        <5> HIDE DEF touch, push
        <5>5. touch \o Migrate(t) \in Scripts /\ AllOps(touch \o Migrate(t), RestoreOps)
          BY <5>2, <5>3, <5>4, OpsJoin, JoinHas
        <5>6. /\ (touch \o Migrate(t)) \o push \in Scripts
              /\ AllOps((touch \o Migrate(t)) \o push, RestoreOps)
          BY <5>2, <5>3, <5>5, OpsJoin, JoinHas
        <5> QED
          BY <4>3, <4>5, <5>6
      <4> QED
        BY <4>4, <4>5
    <3> QED
      BY <1>2, <1>5, <2>0, <3>1, <3>2, <3>3
      DEF Delete, Touch, ImportLegacy, MirrorCommit, MirrorSkips, MirrorConflict, MirrorFails
  <2>2. PICK sc \in Scripts : Then(w, sc) /\ AllOps(sc, RestoreOps)
    BY <2>1
  <2>3. todo'[w] = sc \o Tail(s)
    BY <1>0, <2>2, ThenBecomes
  <2>4. AllOps(sc \o Tail(s), RestoreOps)
    <3> HIDE DEF s
    <3> QED
      BY <1>1, <2>2, OpsJoin
  <2> QED
    BY <1>3, <2>3, <2>4
<1> QED
  BY <1>4, <1>5

RestoreInv ==
    \A p \in Requests : restored[p] =>
        /\ AllOps(todo[Web(p)], RestoreOps)
        /\ clean[p] /\ Len(snap[p]) <= BudgetMessages => PutsBack(p)

\* Only the end of a wait marks a request, and only a read changes its history.
LEMMA WaitMarks ==
    ASSUME Shaped, Flagged, NEW p \in Requests, Step(Web(p)), ~Wait(p)
    PROVE  restored' = restored
BY ProcsApart
DEF Step, Look, ReadLegacy, ImportLegacy, Push, Delete, Touch, ZRem, Sync, MirrorRead, MirrorCommit,
    MirrorSkips, MirrorConflict, MirrorFails, Crash, Read, Members, Find, Serve, Source,
    SourceLegacy, Enqueue, WaitTimesOut, request

\* Every step of a process keeps the invariant of the restoration.
LEMMA RestoreKept ==
    ASSUME Shaped, Flagged, Solo, RestoreInv, NEW w \in Procs, Step(w)
    PROVE  RestoreInv'
<1> SUFFICES ASSUME NEW p \in Requests, restored'[p]
             PROVE  /\ AllOps(todo'[Web(p)], RestoreOps)
                    /\ clean'[p] /\ Len(snap'[p]) <= BudgetMessages => PutsBack(p)'
  BY DEF RestoreInv
<1>1. Moves(w)
  BY StepMoves
<1>2. w[1] \in Requests /\ (w = Web(w[1]) \/ w = Job(w[1]))
  BY ProcIs
<1>3. clean'[p] => clean[p]
  BY <1>1, <1>2 DEF Moves, Same
<1>4. CASE p # w[1]
  <2>1. restored[p]
    BY <1>1, <1>4 DEF Moves, Same
  <2>2. w # Web(p) /\ Web(p) \in Procs
    BY <1>2, <1>4, ProcsApart
  <2>3. todo'[Web(p)] = todo[Web(p)]
    BY <1>1, <2>2 DEF Moves, Shaped
  <2>4. ~clean'[p]
    BY <1>1, <1>3, <1>4, <2>1, OthersAreIdle
  <2> QED
    BY <2>1, <2>3, <2>4 DEF RestoreInv
<1>5. CASE p = w[1] /\ w = Job(p)
  <2>1. job[p] \in {"queued", "running"} /\ restored' = restored /\ snap' = snap
    BY <1>1, <1>5 DEF Moves
  <2>2. w # Web(p) /\ Web(p) \in Procs
    BY <1>5, ProcsApart
  <2>3. todo'[Web(p)] = todo[Web(p)]
    BY <1>1, <2>2 DEF Moves, Shaped
  <2>4. clean[p] /\ Len(snap[p]) <= BudgetMessages => FALSE
    BY <2>1 DEF RestoreInv, PutsBack
  <2> QED
    BY <1>3, <2>1, <2>3, <2>4 DEF RestoreInv
<1>6. CASE p = w[1] /\ w = Web(p)
  <2>1. Web(p) # Job(p) /\ Web(p) \in Procs
    BY ProcsApart
  <2>2. todo[Web(p)] # <<>>
    BY <1>1, <1>6, <2>1 DEF Moves
  <2>3. CASE Crash(Web(p))
    <3>1. todo'[Web(p)] = <<>> /\ ~clean'[p]
      BY <1>6, <2>1, <2>3, CrashMoves DEF Crash, Shaped
    <3> QED
      BY <3>1, OpsShort
  <2>4. CASE Wait(p)
    <3>1. /\ todo'[Web(p)] = Restore(p) /\ job[p] = "failed"
          /\ UNCHANGED <<thread, snap, job>> /\ thread[p] \in Threads
      BY <2>4, WaitRestores
    <3>2. snap[p] \in Histories
      BY DEF Shaped
    <3>3. AllOps(todo'[Web(p)], RestoreOps)
      BY <3>1, <3>2, BudgetedKeeps, ReplaceOps DEF Restore
    <3>4. ASSUME Len(snap'[p]) <= BudgetMessages
          PROVE  PutsBack(p)'
      <4>1. Budgeted(snap[p]) = snap[p]
        BY <3>1, <3>2, <3>4, WholeHistory
      <4>2. Emptying(p)'
        BY <3>1, <4>1 DEF Emptying, Restore
      <4> QED
        BY <3>1, <4>2 DEF PutsBack
    <3> QED
      BY <3>3, <3>4
  <2>5. CASE ~Crash(Web(p)) /\ ~Wait(p)
    <3>1. restored[p]
      BY <1>6, <2>5, WaitMarks
    <3>2. AllOps(todo[Web(p)], RestoreOps)
      BY <3>1 DEF RestoreInv
    <3>3. AllOps(todo'[Web(p)], RestoreOps) /\ snap' = snap
      BY <1>6, <2>2, <2>5, <3>2, RestoreCommand
    <3>4. ASSUME clean'[p], Len(snap'[p]) <= BudgetMessages
          PROVE  PutsBack(p)'
      <4>1. PutsBack(p) /\ Len(snap[p]) <= BudgetMessages
        BY <1>3, <3>1, <3>3, <3>4 DEF RestoreInv
      <4> QED
        BY <1>6, <2>2, <2>5, <4>1, PutsBackKept
    <3> QED
      BY <3>3, <3>4
  <2> QED
    BY <2>3, <2>4, <2>5
<1> QED
  BY <1>2, <1>4, <1>5, <1>6

------------------------------------------------------------------------------
\* The inductive invariant of both properties.
ConvInv == Shaped /\ Flagged /\ Solo /\ ListInv /\ RestoreInv

\* The invariant holds when the system starts.
LEMMA InitConv == Init => ConvInv
<1> SUFFICES ASSUME Init
             PROVE  ConvInv
  OBVIOUS
<1>1. Shaped
  BY InitSimulates
<1>2. \A w \in Procs : todo[w] = <<>>
  BY DEF Init
<1>3. /\ clean = [p \in Requests |-> FALSE] /\ restored = [p \in Requests |-> FALSE]
      /\ listed = [p \in Requests |-> {}]
  BY DEF Init
<1>4. \A w \in Procs : EndsLast(todo[w])
  BY <1>2, EndsShort
<1>5. \A p \in Requests : todo[Job(p)] = <<>>
  BY <1>2, ProcsApart
<1>6. Flagged
  BY <1>3, <1>4, <1>5 DEF Flagged
<1>7. Solo /\ ListInv /\ RestoreInv
  BY <1>3 DEF Solo, ListInv, RestoreInv
<1> QED
  BY <1>1, <1>6, <1>7 DEF ConvInv

\* Every step keeps the invariant.
LEMMA NextConv ==
    ASSUME ConvInv, [Next]_vars
    PROVE  ConvInv'
<1>1. Shaped'
  BY StepSimulates DEF ConvInv, Simulates
<1>2. CASE UNCHANGED vars
  <2>1. UNCHANGED <<redis, legacy, registry, todo, thread, snap, listed, job, clean, restored>>
    BY <1>2 DEF vars
  <2>2. Flagged'
    BY <2>1 DEF ConvInv, Flagged
  <2>3. Solo'
    BY <2>1 DEF ConvInv, Solo, Busy
  <2>4. \A p \in Requests : Lists(p)' = Lists(p) /\ ListsNothing(p)' = ListsNothing(p)
    BY <2>1 DEF Lists, ListsNothing, Searching, Registering, Registered, Shown, Imported, NonEmpty
  <2>5. ListInv'
    BY <2>1, <2>4 DEF ConvInv, ListInv
  <2>6. \A p \in Requests : PutsBack(p)' = PutsBack(p)
    BY <2>1 DEF PutsBack, Emptying, Refilling, Refilled
  <2>7. RestoreInv'
    BY <2>1, <2>6 DEF ConvInv, RestoreInv
  <2> QED
    BY <1>1, <2>2, <2>3, <2>5, <2>7 DEF ConvInv
<1>3. ASSUME NEW p \in Requests, NEW call \in Calls, Start(p, call[1], call[2])
      PROVE  ConvInv'
  <2>1. /\ Flagged' /\ Solo' /\ \A q \in Requests : ~restored'[q]
    BY <1>3, StartFacts DEF ConvInv
  <2>2. ListInv'
    BY <1>3, ListStart DEF ConvInv
  <2>3. RestoreInv'
    BY <2>1 DEF RestoreInv
  <2> QED
    BY <1>1, <2>1, <2>2, <2>3 DEF ConvInv
<1>4. ASSUME NEW w \in Procs, Step(w)
      PROVE  ConvInv'
  <2>1. Moves(w)
    BY <1>4, StepMoves DEF ConvInv
  <2>2. Flagged'
    BY <2>1 DEF Moves
  <2>3. Solo'
    BY <2>1, SoloKept DEF ConvInv
  <2>4. ListInv'
    BY <1>4, ListKept DEF ConvInv
  <2>5. RestoreInv'
    BY <1>4, RestoreKept DEF ConvInv
  <2> QED
    BY <1>1, <2>2, <2>3, <2>4, <2>5 DEF ConvInv
<1> QED
  BY <1>2, <1>3, <1>4, NextIsStep

\* The invariant implies the two properties.
LEMMA ConvImplies == ConvInv => ListShowsAll /\ RestoreLeavesNoTrace
<1> SUFFICES ASSUME ConvInv
             PROVE  ListShowsAll /\ RestoreLeavesNoTrace
  OBVIOUS
<1>1. ASSUME NEW p \in Requests, clean[p], listed[p] # {}
      PROVE  NonEmpty \subseteq listed[p]
  BY <1>1 DEF ConvInv, ListInv, ListsNothing, Lists, Shown
<1>2. ASSUME NEW p \in Requests, restored[p], clean[p], todo[Web(p)] = <<>>,
             Len(snap[p]) <= BudgetMessages
      PROVE  redis[thread[p]] = snap[p]
  <2>1. PutsBack(p)
    BY <1>2 DEF ConvInv, RestoreInv
  <2>2. thread[p] \in Threads /\ snap[p] \in Histories
    BY <2>1 DEF PutsBack, ConvInv, Shaped
  <2>3. ~Emptying(p)
    <3>1. WriterReplace(thread[p], snap[p]) # <<>>
      <4> DEFINE s == <<Touching({thread[p]})>> \o
                        (StoreAll(thread[p], snap[p]) \o <<Cmd("mirror_replace", thread[p], snap[p])>>)
      <4>1. /\ <<Touching({thread[p]})>> \in Scripts
            /\ <<Cmd("mirror_replace", thread[p], snap[p])>> \in Scripts
        BY <2>2, DoIsCommand, Short DEF MirrorOps
      <4>2. s \in Scripts
        BY <2>2, <4>1, StoreScripts, JoinHas
      <4>3. Do("del", thread[p]) \in Commands
        BY <2>2, DoIsCommand DEF ThreadOps
      <4>4. WriterReplace(thread[p], snap[p]) = <<Do("del", thread[p])>> \o s
        BY <2>2, ReplaceScript
      <4> HIDE DEF s
      <4> QED
        BY <4>2, <4>3, <4>4, FirstOf
    <3> QED
      BY <1>2, <3>1 DEF Emptying
  <2>4. ~Refilling(p)
    <3> SUFFICES ASSUME NEW pre \in Scripts, NEW post \in Scripts, NEW ms \in Histories,
                        ms # <<>>, <<>> = pre \o (<<Cmd("push", thread[p], ms)>> \o post)
                 PROVE  FALSE
      BY <1>2 DEF Refilling
    <3> DEFINE c == Cmd("push", thread[p], ms)
               suf == <<c>> \o post
    <3>1. c \in Commands
      BY <2>2, DoIsCommand
    <3>2. <<>> = pre \o suf
      OBVIOUS
    <3> HIDE DEF c
    <3>3. suf # <<>> /\ suf \in Scripts
      BY <3>1, FirstOf, Short, JoinHas
    <3> HIDE DEF suf
    <3>4. CASE pre = <<>>
      BY <3>2, <3>3, <3>4, JoinEmpty
    <3>5. CASE pre # <<>>
      BY <3>2, <3>3, <3>5, JoinTail
    <3> QED
      BY <3>4, <3>5
  <2> QED
    BY <2>1, <2>3, <2>4 DEF PutsBack, Refilled
<1> QED
  BY <1>1, <1>2 DEF ListShowsAll, RestoreLeavesNoTrace

\* The invariant holds in every state.
LEMMA ConversationConv == Spec => []ConvInv
<1>1. ConvInv /\ [Next]_vars => ConvInv'
  BY NextConv
<1> QED
  BY <1>1, InitConv, PTL DEF Spec

\* A request that lists the threads, with nothing beside it, finds every thread that
\* holds messages, for every number of requests, any calls and any faults before it:
\* list_threads searches the existing buckets before it reads the registry
\* (_sync_thread_registry_from_existing_buckets of AsyncChatStore).
THEOREM ConversationListsAll == Spec => []ListShowsAll
BY ConversationConv, ConvImplies, PTL

\* A file request that waited for a job that failed, with nothing beside it, leaves
\* the thread as it found it whenever the history fits the budget, for every budget,
\* list length and number of messages: restore_chat_history of app.py pushes back, one
\* by one, what the request has read, and no append trims it.  (A streamed request
\* puts nothing back.)
THEOREM RestoresLeaveNoTrace == Spec => []RestoreLeavesNoTrace
BY ConversationConv, ConvImplies, PTL

(* The rows of a thread in the database, in the order of their index. *)

\* The rows of a thread: finitely many, and one for each index (the unique index).
RowsOK(R) ==
    /\ IsFiniteSet(R)
    /\ \A r \in R : r.i \in Nat
    /\ \A r, q \in R : r.i = q.i => r = q
Below(r, R) == {s \in R : s.i < r.i}
Rank(r, R) == Cardinality(Below(r, R))

\* The rows below another one.
LEMMA BelowFacts ==
    ASSUME NEW R, RowsOK(R), NEW r \in R
    PROVE  /\ IsFiniteSet(Below(r, R)) /\ Rank(r, R) \in Nat
           /\ Cardinality(R) \in Nat /\ Rank(r, R) <= Cardinality(R) - 1
<1>1. Below(r, R) \in SUBSET (R \ {r}) /\ IsFiniteSet(R)
  BY DEF RowsOK, Below
<1>2. IsFiniteSet(R \ {r}) /\ Cardinality(R \ {r}) = Cardinality(R) - 1
  BY <1>1, FS_RemoveElement
<1>3. IsFiniteSet(Below(r, R)) /\ Cardinality(Below(r, R)) <= Cardinality(R \ {r})
  BY <1>1, <1>2, FS_Subset
<1>4. Cardinality(R) \in Nat /\ Cardinality(Below(r, R)) \in Nat
  BY <1>1, <1>3, FS_CardinalityType
<1> QED
  BY <1>2, <1>3, <1>4 DEF Rank

\* Of two rows the one with the larger index has more below it.
LEMMA RankGrows ==
    ASSUME NEW R, RowsOK(R), NEW r \in R, NEW q \in R, r.i < q.i
    PROVE  Rank(r, R) < Rank(q, R)
<1>1. r.i \in Nat /\ q.i \in Nat /\ \A s \in R : s.i \in Nat
  BY DEF RowsOK
<1>2. Below(r, R) \in SUBSET Below(q, R)
  BY <1>1 DEF Below
<1>3. r \in Below(q, R) /\ r \notin Below(r, R)
  BY <1>1 DEF Below
<1>4. IsFiniteSet(Below(q, R)) /\ Rank(q, R) \in Nat /\ Rank(r, R) \in Nat
  BY BelowFacts
<1>5. Rank(r, R) <= Rank(q, R) /\ Rank(r, R) # Rank(q, R)
  BY <1>2, <1>3, <1>4, FS_Subset DEF Rank
<1> QED
  BY <1>4, <1>5

\* Every place up to the number of rows belongs to one row.
LEMMA RankOnto ==
    ASSUME NEW R, RowsOK(R), NEW k \in 0 .. Cardinality(R) - 1
    PROVE  \E r \in R : Rank(r, R) = k
<1> DEFINE n == Cardinality(R)
           f == [r \in R |-> Rank(r, R)]
<1>1. IsFiniteSet(R)
  BY DEF RowsOK
<1>2. n \in Nat
  BY <1>1, FS_CardinalityType
<1>3. IsFiniteSet(0 .. n - 1) /\ Cardinality(0 .. n - 1) = n
  <2> HIDE DEF n
  <2>1. 0 \in Int /\ n - 1 \in Int
    BY <1>2
  <2>2. IsFiniteSet(0 .. n - 1) /\ Cardinality(0 .. n - 1) = IF 0 > n - 1 THEN 0 ELSE (n - 1) - 0 + 1
    BY <2>1, FS_Interval
  <2> QED
    BY <1>2, <2>2
<1>4. \A r \in R : Rank(r, R) \in 0 .. n - 1
  <2> TAKE r \in R
  <2>1. Rank(r, R) \in Nat /\ Rank(r, R) <= n - 1
    BY BelowFacts
  <2> HIDE DEF n
  <2> QED
    BY <1>2, <2>1
<1>5. \A r, q \in R : Rank(r, R) = Rank(q, R) => r = q
  <2> SUFFICES ASSUME NEW r \in R, NEW q \in R, Rank(r, R) = Rank(q, R), r # q
               PROVE  FALSE
    OBVIOUS
  <2>1. r.i \in Nat /\ q.i \in Nat /\ r.i # q.i
    BY DEF RowsOK
  <2>2. r.i < q.i \/ q.i < r.i
    BY <2>1
  <2>3. Rank(r, R) < Rank(q, R) \/ Rank(q, R) < Rank(r, R)
    BY <2>2, RankGrows
  <2>4. Rank(r, R) \in Nat
    BY BelowFacts
  <2> QED
    BY <2>3, <2>4
<1> HIDE DEF n
<1>6. f \in Injection(R, 0 .. n - 1)
  BY <1>4, <1>5 DEF Injection, IsInjective
<1>7. f \in Surjection(R, 0 .. n - 1)
  <2>1. Cardinality(R) = Cardinality(0 .. n - 1)
    BY <1>3 DEF n
  <2> HIDE DEF f
  <2> QED
    BY <1>3, <1>6, <2>1, FS_Injection
<1>8. k \in 0 .. n - 1
  BY DEF n
<1>9. PICK r \in R : f[r] = k
  BY <1>7, <1>8 DEF Surjection
<1> QED
  BY <1>9

\* A row is known by its place.
LEMMA RankOne ==
    ASSUME NEW R, RowsOK(R), NEW r \in R, NEW q \in R, Rank(r, R) = Rank(q, R)
    PROVE  r = q
<1> SUFFICES ASSUME r # q
             PROVE  FALSE
  OBVIOUS
<1>1. r.i \in Nat /\ q.i \in Nat /\ r.i # q.i
  BY DEF RowsOK
<1>2. r.i < q.i \/ q.i < r.i
  BY <1>1
<1>3. Rank(r, R) < Rank(q, R) \/ Rank(q, R) < Rank(r, R)
  BY <1>2, RankGrows
<1>4. Rank(r, R) \in Nat
  BY BelowFacts
<1> QED
  BY <1>3, <1>4

\* What get_messages returns: in place k the row with k - 1 rows below it.
LEMMA OrderedRow ==
    ASSUME NEW R, RowsOK(R), NEW r \in R, NEW k \in 1 .. Cardinality(R), Rank(r, R) = k - 1
    PROVE  InOrder(R)[k] = r.m
<1> DEFINE c == CHOOSE q \in R : Cardinality({s \in R : s.i < q.i}) = k - 1
<1>1. \A q : Cardinality({s \in R : s.i < q.i}) = Rank(q, R)
  BY DEF Rank, Below
<1>2. \E q \in R : Cardinality({s \in R : s.i < q.i}) = k - 1
  BY <1>1
<1>3. c \in R /\ Cardinality({s \in R : s.i < c.i}) = k - 1
  BY <1>2
<1>4. c \in R /\ Rank(c, R) = k - 1
  BY <1>1, <1>3
<1>5. InOrder(R)[k] = c.m
  BY DEF InOrder
<1> HIDE DEF c
<1>6. c = r
  BY <1>4, RankOne
<1> QED
  BY <1>5, <1>6

\* The list has one message for each row.
LEMMA OrderedDomain ==
    \A R : /\ InOrder(R) = [k \in 1 .. Cardinality(R) |-> InOrder(R)[k]]
           /\ DOMAIN InOrder(R) = 1 .. Cardinality(R)
BY DEF InOrder

\* Intervals of the same elements are equally long.
LEMMA SameInterval ==
    ASSUME NEW a \in Nat, NEW b \in Nat, 1 .. a = 1 .. b
    PROVE  a = b
<1>1. \A k \in Nat : k \in 1 .. a <=> k \in 1 .. b
  OBVIOUS
<1>2. (a \in 1 .. a \/ a = 0) /\ (b \in 1 .. b \/ b = 0)
  OBVIOUS
<1>3. a <= b
  BY <1>1, <1>2
<1>4. b <= a
  BY <1>1, <1>2
<1> QED
  BY <1>3, <1>4

\* A longer history, place by place.
LEMMA AppendPlaces ==
    ASSUME NEW h \in Seq(Messages), NEW m \in Messages
    PROVE  /\ Len(h) \in Nat /\ DOMAIN h = 1 .. Len(h)
           /\ Append(h, m) = [k \in 1 .. Len(h) + 1 |-> IF k = Len(h) + 1 THEN m ELSE h[k]]
<1> DEFINE n == Len(h)
           a == Append(h, m)
<1>1. n \in Nat /\ DOMAIN h = 1 .. n
  OBVIOUS
<1>2. /\ a \in Seq(Messages) /\ Len(a) = n + 1
      /\ \A k \in 1 .. n : a[k] = h[k]
      /\ a[n + 1] = m
  BY AppendProperties
<1>3. a = [k \in 1 .. Len(a) |-> a[k]]
  <2> HIDE DEF a
  <2> QED
    BY <1>2
<1> HIDE DEF a, n
<1>4. \A k \in 1 .. n + 1 : a[k] = IF k = n + 1 THEN m ELSE h[k]
  BY <1>1, <1>2
<1>5. a = [k \in 1 .. n + 1 |-> IF k = n + 1 THEN m ELSE h[k]]
  BY <1>2, <1>3, <1>4
<1> QED
  BY <1>1, <1>5 DEF a, n

\* There is a last row, and the next index is the one after it.
LEMMA NextIndexFacts ==
    ASSUME NEW R, RowsOK(R)
    PROVE  NextIndex(R) \in Nat /\ \A r \in R : r.i < NextIndex(R)
<1>1. CASE R = {}
  BY <1>1 DEF NextIndex
<1>2. CASE R # {}
  <2> DEFINE n == Cardinality(R)
             I == {r.i : r \in R}
             top == CHOOSE i \in I : \A r \in R : r.i <= i
  <2>1. IsFiniteSet(R) /\ n \in Nat /\ n # 0
    BY <1>2, FS_EmptySet, FS_CardinalityType DEF RowsOK
  <2>2. n - 1 \in 0 .. n - 1
    <3> HIDE DEF n
    <3> QED
      BY <2>1
  <2>3. PICK l \in R : Rank(l, R) = n - 1
    BY <2>2, RankOnto
  <2>4. \A r \in R : r.i \in Nat
    BY DEF RowsOK
  <2>5. \A r \in R : r.i <= l.i
    <3> SUFFICES ASSUME NEW r \in R, ~(r.i <= l.i)
                 PROVE  FALSE
      OBVIOUS
    <3>1. l.i < r.i
      BY <2>4
    <3>2. Rank(l, R) < Rank(r, R) /\ Rank(r, R) \in Nat /\ Rank(r, R) <= n - 1
      BY <3>1, RankGrows, BelowFacts
    <3> HIDE DEF n
    <3> QED
      BY <2>1, <2>3, <3>2
  <2>6. l.i \in I
    OBVIOUS
  <2>7. \E i \in I : \A r \in R : r.i <= i
    BY <2>5, <2>6
  <2>8. top \in I /\ \A r \in R : r.i <= top
    BY <2>7
  <2>9. NextIndex(R) = 1 + top
    BY <1>2 DEF NextIndex
  <2>10. top \in Nat
    BY <2>4, <2>8
  <2> HIDE DEF top
  <2> QED
    BY <2>4, <2>8, <2>9, <2>10
<1> QED
  BY <1>1, <1>2

\* append_message of the repository: a row after the last one is a message after the
\* last one.
LEMMA AppendRow ==
    ASSUME NEW R, RowsOK(R), NEW m \in Messages, InOrder(R) \in Histories
    PROVE  InOrder(R \cup {[i |-> NextIndex(R), m |-> m]}) = Append(InOrder(R), m)
<1> DEFINE x == [i |-> NextIndex(R), m |-> m]
           Q == R \cup {x}
           n == Cardinality(R)
           h == InOrder(R)
<1>1. NextIndex(R) \in Nat /\ \A r \in R : r.i < NextIndex(R) /\ r.i \in Nat
  BY NextIndexFacts DEF RowsOK
<1>2. x.i = NextIndex(R) /\ x.m = m
  OBVIOUS
<1>3. x \notin R
  BY <1>1, <1>2
<1> HIDE DEF x
<1>4. IsFiniteSet(R) /\ n \in Nat /\ IsFiniteSet(Q) /\ Cardinality(Q) = n + 1
  BY <1>3, FS_CardinalityType, FS_AddElement DEF RowsOK
<1>5. RowsOK(Q)
  <2>1. \A r \in Q : r.i \in Nat
    BY <1>1, <1>2
  <2>2. \A r, q \in Q : r.i = q.i => r = q
    BY <1>1, <1>2 DEF RowsOK
  <2> QED
    BY <1>4, <2>1, <2>2 DEF RowsOK
<1>6. \A r \in R : Rank(r, Q) = Rank(r, R)
  <2> TAKE r \in R
  <2>1. Below(r, Q) = Below(r, R)
    BY <1>1, <1>2 DEF Below
  <2> QED
    BY <2>1 DEF Rank
<1>7. Rank(x, Q) = n
  <2>1. Below(x, Q) = R
    BY <1>1, <1>2 DEF Below
  <2> QED
    BY <2>1 DEF Rank
<1>8. Len(h) = n /\ h \in Seq(Messages)
  <2>1. DOMAIN h = 1 .. n
    BY OrderedDomain
  <2>2. h \in Seq(Messages)
    BY DEF Histories
  <2> HIDE DEF h, n
  <2>3. Len(h) \in Nat /\ 1 .. Len(h) = 1 .. n
    BY <2>1, <2>2, AppendPlaces
  <2> QED
    BY <1>4, <2>2, <2>3, SameInterval
<1>9. ASSUME NEW k \in 1 .. n
      PROVE  InOrder(Q)[k] = h[k]
  <2>1. k - 1 \in 0 .. n - 1 /\ k \in 1 .. Cardinality(Q)
    <3> HIDE DEF n, Q
    <3> QED
      BY <1>4
  <2>2. PICK r \in R : Rank(r, R) = k - 1
    BY <2>1, RankOnto
  <2>3. h[k] = r.m
    BY <2>2, OrderedRow
  <2>4. r \in Q /\ Rank(r, Q) = k - 1
    BY <1>6, <2>2
  <2> HIDE DEF Q
  <2>5. InOrder(Q)[k] = r.m
    BY <1>5, <2>1, <2>4, OrderedRow
  <2> QED
    BY <2>3, <2>5
<1>10. InOrder(Q)[n + 1] = m
  <2>1. n + 1 \in 1 .. Cardinality(Q) /\ Rank(x, Q) = (n + 1) - 1 /\ x \in Q
    <3>1. x \in Q
      OBVIOUS
    <3> HIDE DEF n, Q
    <3> QED
      BY <1>4, <1>7, <3>1
  <2> HIDE DEF Q
  <2>2. InOrder(Q)[n + 1] = x.m
    BY <1>5, <2>1, OrderedRow
  <2> QED
    BY <1>2, <2>2
<1>11. InOrder(Q) = [k \in 1 .. n + 1 |-> InOrder(Q)[k]]
  BY <1>4, OrderedDomain
<1> HIDE DEF Q, n, h
<1>12. Append(h, m) = [k \in 1 .. n + 1 |-> IF k = n + 1 THEN m ELSE h[k]]
  BY <1>8, AppendPlaces
<1>13. \A k \in 1 .. n + 1 : InOrder(Q)[k] = IF k = n + 1 THEN m ELSE h[k]
  BY <1>4, <1>9, <1>10
<1>14. [k \in 1 .. n + 1 |-> InOrder(Q)[k]] = [k \in 1 .. n + 1 |-> IF k = n + 1 THEN m ELSE h[k]]
  BY <1>13
<1>15. InOrder(Q) = Append(h, m)
  BY <1>11, <1>12, <1>14
<1> QED
  BY <1>15 DEF Q, h, x

\* import_thread_snapshot and replace_thread_snapshot: the rows of a history are read back as that history.
LEMMA SnapshotRows ==
    ASSUME NEW ms \in Histories
    PROVE  RowsOK(Snapshot(ms)) /\ InOrder(Snapshot(ms)) = ms
<1> DEFINE n == Len(ms)
           R == Snapshot(ms)
           row(k) == [i |-> k - 1, m |-> ms[k]]
           f == [k \in 1 .. n |-> row(k)]
<1>1. n \in Nat /\ DOMAIN ms = 1 .. n /\ ms = [k \in 1 .. n |-> ms[k]]
  BY DEF Histories
<1>2. R = {row(k) : k \in 1 .. n}
  BY <1>1 DEF Snapshot
<1> HIDE DEF n, R
<1>3. \A k \in 1 .. n : row(k).i = k - 1 /\ row(k).m = ms[k] /\ row(k) \in R
  BY <1>2
<1>4. \A r \in R : \E k \in 1 .. n : r = row(k)
  BY <1>2
<1> HIDE DEF row
<1>5. \A r \in R : r.i \in Nat
  BY <1>1, <1>3, <1>4
<1>6. \A k, l \in 1 .. n : row(k).i = row(l).i => k = l
  BY <1>1, <1>3
<1>7. \A r, q \in R : r.i = q.i => r = q
  BY <1>4, <1>6
<1>8. ASSUME NEW j \in 0 .. n
      PROVE  LET P == {row(k) : k \in 1 .. j} IN IsFiniteSet(P) /\ Cardinality(P) = j
  <2> DEFINE P == {row(k) : k \in 1 .. j}
             g == [k \in 1 .. j |-> row(k)]
  <2>1. j \in Nat /\ \A k \in 1 .. j : k \in 1 .. n
    BY <1>1
  <2>2. g \in Bijection(1 .. j, P)
    <3>1. \A k, l \in 1 .. j : row(k) = row(l) => k = l
      BY <1>6, <2>1
    <3>2. g \in [1 .. j -> P] /\ \A k \in 1 .. j : g[k] = row(k)
      OBVIOUS
    <3>3. g \in Injection(1 .. j, P)
      BY <3>1, <3>2 DEF Injection, IsInjective
    <3>4. g \in Surjection(1 .. j, P)
      BY <3>2 DEF Surjection
    <3> QED
      BY <3>3, <3>4 DEF Bijection
  <2>3. ExistsBijection(1 .. j, P)
    BY <2>2 DEF ExistsBijection
  <2>4. IsFiniteSet(1 .. j) /\ Cardinality(1 .. j) = j
    <3>1. IsFiniteSet(1 .. j) /\ Cardinality(1 .. j) = IF 1 > j THEN 0 ELSE j - 1 + 1
      BY <2>1, FS_Interval
    <3> QED
      BY <2>1, <3>1
  <2> HIDE DEF P
  <2>5. IsFiniteSet(P) /\ Cardinality(P) = j
    BY <2>3, <2>4, FS_Bijection
  <2> QED
    BY <2>5 DEF P
<1>9. IsFiniteSet(R) /\ Cardinality(R) = n
  <2>1. n \in 0 .. n
    BY <1>1
  <2>2. R = {row(k) : k \in 1 .. n}
    BY <1>2 DEF row
  <2> QED
    BY <1>8, <2>1, <2>2
<1>10. RowsOK(R)
  BY <1>5, <1>7, <1>9 DEF RowsOK
<1>11. ASSUME NEW k \in 1 .. n
       PROVE  InOrder(R)[k] = ms[k]
  <2>1. k - 1 \in 0 .. n /\ \A j \in 1 .. n : j \in 1 .. (k - 1) <=> j - 1 < k - 1
    BY <1>1
  <2>2. Below(row(k), R) = {row(j) : j \in 1 .. (k - 1)}
    <3>1. \A r \in Below(row(k), R) : \E j \in 1 .. (k - 1) : r = row(j)
      <4> TAKE r \in Below(row(k), R)
      <4>1. r \in R /\ r.i < row(k).i
        BY DEF Below
      <4>2. PICK j \in 1 .. n : r = row(j)
        BY <1>4, <4>1
      <4>3. j - 1 < k - 1
        BY <1>3, <4>1, <4>2
      <4> QED
        BY <2>1, <4>2, <4>3
    <3>2. \A j \in 1 .. (k - 1) : row(j) \in Below(row(k), R)
      <4> TAKE j \in 1 .. (k - 1)
      <4>1. j \in 1 .. n /\ j - 1 < k - 1
        BY <1>1
      <4>2. row(j) \in R /\ row(j).i < row(k).i
        BY <1>3, <4>1
      <4> QED
        BY <4>2 DEF Below
    <3>3. \A r : r \in Below(row(k), R) <=> r \in {row(j) : j \in 1 .. (k - 1)}
      BY <3>1, <3>2
    <3> QED
      BY <3>3
  <2>3. Rank(row(k), R) = k - 1
    BY <1>8, <2>1, <2>2 DEF Rank
  <2>4. row(k) \in R /\ k \in 1 .. Cardinality(R)
    BY <1>3, <1>9
  <2>5. InOrder(R)[k] = row(k).m
    BY <1>10, <2>3, <2>4, OrderedRow
  <2> QED
    BY <1>3, <2>5
<1>12. InOrder(R) = [k \in 1 .. n |-> InOrder(R)[k]]
  BY <1>9, OrderedDomain
<1>13. InOrder(R) = ms
  BY <1>1, <1>11, <1>12
<1> QED
  BY <1>10, <1>13 DEF R

\* A thread without rows has no messages.
LEMMA NoRows == RowsOK({}) /\ InOrder({}) = <<>>
<1>1. IsFiniteSet({}) /\ Cardinality({}) = 0
  BY FS_EmptySet
<1>2. RowsOK({})
  BY <1>1 DEF RowsOK
<1>3. InOrder({}) = [k \in 1 .. 0 |-> InOrder({})[k]]
  BY <1>1, OrderedDomain
<1>4. InOrder({}) = <<>>
  BY <1>3
<1> QED
  BY <1>2, <1>4
------------------------------------------------------------------------------
(* Scripts in which every change of a list is followed by that of the copy. *)

\* Commands that change neither copy of any thread (the old layout's import, which
\* moves the messages of the default thread, included).
CalmOps ==
    {"touch", "sync", "members", "find", "read", "serve", "enqueue", "wait", "wait_again",
     "completed", "retry", "failed", "mirror_ensure", "source", "look"}
WriterDrop(t) == <<Do("del", t), Do("zrem", t), Do("mirror_drop", t)>>

\* A script is whole when it consists of blocks: a calm command, or a change of the
\* list together with that of its copy.
Blocks ==
    {<<c>> : c \in {d \in Commands : d.op \in CalmOps}}
        \cup {WriterClear(t) : t \in Threads} \cup {WriterDrop(t) : t \in Threads}
        \cup {WriterAppend(t, m) : t \in Threads, m \in Messages}
        \cup {WriterReplace(t, ms) : t \in Threads, ms \in {h \in Histories : Len(h) <= MaxHistory}}
Closed(B) == <<>> \in B /\ \A b \in Blocks, r \in B : b \o r \in B
Whole == {s \in Scripts : \A B \in SUBSET Scripts : Closed(B) => s \in B}

\* The blocks are scripts.
LEMMA BlockScripts == \A b \in Blocks : b \in Scripts
<1>1. \A t \in Threads : WriterDrop(t) \in Scripts
  <2> TAKE t \in Threads
  <2>1. Do("del", t) \in Commands /\ Do("zrem", t) \in Commands /\ Do("mirror_drop", t) \in Commands
    BY DoIsCommand DEF ThreadOps, PlainOps, MirrorOps
  <2> QED
    BY <2>1, Short DEF WriterDrop
<1>2. \A t \in Threads : WriterClear(t) \in Scripts
  BY StoreScripts
<1>3. \A t \in Threads, m \in Messages : WriterAppend(t, m) \in Scripts
  BY StoreScripts
<1>4. \A t \in Threads, ms \in Histories : WriterReplace(t, ms) \in Scripts
  BY StoreScripts
<1> QED
  BY <1>1, <1>2, <1>3, <1>4, Short DEF Blocks

\* Whole scripts are made of blocks, and of nothing else.
LEMMA WholeMakes ==
    /\ Whole \subseteq Scripts /\ <<>> \in Whole
    /\ \A b \in Blocks, r \in Whole : b \o r \in Whole
<1>1. Whole \subseteq Scripts
  BY DEF Whole
<1>2. <<>> \in Whole
  BY Short DEF Whole, Closed
<1>3. ASSUME NEW b \in Blocks, NEW r \in Whole
      PROVE  b \o r \in Whole
  <2>1. b \o r \in Scripts
    BY <1>1, BlockScripts, Joined
  <2>2. ASSUME NEW B \in SUBSET Scripts, Closed(B)
        PROVE  b \o r \in B
    <3>1. r \in B
      BY <2>2 DEF Whole
    <3> QED
      BY <2>2, <3>1 DEF Closed
  <2> QED
    BY <2>1, <2>2 DEF Whole
<1> QED
  BY <1>1, <1>2, <1>3

\* A whole script is empty or begins with a block.
LEMMA WholeComes ==
    ASSUME NEW s \in Whole
    PROVE  s = <<>> \/ \E b \in Blocks, r \in Whole : s = b \o r
<1> DEFINE B == {<<>>} \cup {q \in Scripts : \E b \in Blocks, r \in Whole : q = b \o r}
<1>1. B \in SUBSET Scripts
  BY Short
<1>2. B \subseteq Whole
  BY WholeMakes
<1>3. Closed(B)
  <2> SUFFICES ASSUME NEW b \in Blocks, NEW r \in B
               PROVE  b \o r \in B
    BY DEF Closed
  <2>1. r \in Whole /\ b \o r \in Scripts
    BY <1>2, BlockScripts, WholeMakes, Joined
  <2> QED
    BY <2>1
<1> HIDE DEF B
<1>4. s \in B
  BY <1>1, <1>3 DEF Whole
<1> QED
  BY <1>4 DEF B

\* Whole scripts join to whole scripts.
LEMMA WholeJoin == \A r, s \in Whole : r \o s \in Whole
<1> SUFFICES ASSUME NEW s \in Whole
             PROVE  \A r \in Whole : r \o s \in Whole
  OBVIOUS
<1> DEFINE B == {r \in Scripts : r \o s \in Whole}
<1>1. B \in SUBSET Scripts
  OBVIOUS
<1>2. Closed(B)
  <2>1. <<>> \in B
    BY Short, WholeMakes, JoinEmpty
  <2>2. ASSUME NEW b \in Blocks, NEW r \in B
        PROVE  b \o r \in B
    <3>1. b \in Scripts /\ r \in Scripts /\ s \in Scripts /\ b \o r \in Scripts
      BY BlockScripts, WholeMakes, Joined
    <3>2. b \o (r \o s) \in Whole
      BY WholeMakes
    <3>3. (b \o r) \o s = b \o (r \o s)
      BY <3>1, JoinAssoc
    <3> QED
      BY <3>1, <3>2, <3>3
  <2> HIDE DEF B
  <2> QED
    BY <2>1, <2>2 DEF Closed
<1>3. \A r \in Whole : r \in B
  <2> HIDE DEF B
  <2> QED
    BY <1>1, <1>2 DEF Whole
<1> QED
  BY <1>3

\* A calm command, alone and in front of a whole script.
LEMMA CalmWhole ==
    ASSUME NEW c \in Commands, c.op \in CalmOps
    PROVE  <<c>> \in Whole /\ \A r \in Whole : <<c>> \o r \in Whole
<1>1. <<c>> \in Blocks
  BY DEF Blocks
<1>2. <<c>> \o <<>> = <<c>>
  BY Short, JoinEmpty
<1> QED
  BY <1>1, <1>2, WholeMakes

\* A block is a whole script.
LEMMA BlockWhole == \A b \in Blocks : b \in Whole
<1> TAKE b \in Blocks
<1>1. b \o <<>> = b
  BY BlockScripts, JoinEmpty
<1> QED
  BY <1>1, WholeMakes

\* Two commands are the first and the second.
LEMMA PairIs ==
    ASSUME NEW c \in Commands, NEW d \in Commands
    PROVE  <<c, d>> = <<c>> \o <<d>>
<1> DEFINE a == <<c>>
           b == <<d>>
           s == <<c, d>>
<1>1. a \in Seq(Commands) /\ b \in Seq(Commands) /\ Len(a) = 1 /\ Len(b) = 1 /\ a[1] = c /\ b[1] = d
  OBVIOUS
<1>2. s \in Seq(Commands) /\ Len(s) = 2 /\ s[1] = c /\ s[2] = d
  OBVIOUS
<1> HIDE DEF a, b, s
<1>3. /\ a \o b \in Seq(Commands) /\ Len(a \o b) = Len(a) + Len(b)
      /\ \A i \in 1 .. Len(a) + Len(b) : (a \o b)[i] = IF i <= Len(a) THEN a[i] ELSE b[i - Len(a)]
  BY <1>1, ConcatProperties
<1>4. (a \o b)[1] = c /\ (a \o b)[2] = d
  BY <1>1, <1>3
<1>5. s = a \o b
  BY <1>1, <1>2, <1>3, <1>4, SeqEqual
<1> QED
  BY <1>5 DEF a, b, s

\* Three commands are the first and the other two.
LEMMA TripleIs == \A c, d, e \in Commands : <<c, d, e>> = <<c>> \o <<d, e>>
OBVIOUS

\* Two calm commands are a whole script.
LEMMA CalmPair ==
    ASSUME NEW c \in Commands, c.op \in CalmOps, NEW d \in Commands, d.op \in CalmOps
    PROVE  <<c, d>> \in Whole
<1>1. <<d>> \in Whole /\ <<c>> \o <<d>> \in Whole
  BY CalmWhole
<1>2. <<c, d>> = <<c>> \o <<d>>
  BY PairIs
<1> QED
  BY <1>1, <1>2

\* So are three of them.
LEMMA CalmTriple ==
    ASSUME NEW c \in Commands, c.op \in CalmOps, NEW d \in Commands, d.op \in CalmOps,
           NEW e \in Commands, e.op \in CalmOps
    PROVE  <<c, d, e>> \in Whole
<1>1. <<d, e>> \in Whole
  BY CalmPair
<1>2. <<c>> \o <<d, e>> \in Whole
  BY <1>1, CalmWhole
<1>3. <<c, d, e>> = <<c>> \o <<d, e>>
  BY TripleIs
<1> QED
  BY <1>2, <1>3

\* The scripts the handlers are made of.
LEMMA PartsWhole ==
    ASSUME NEW t \in Threads
    PROVE  /\ Migrate(t) \in Whole /\ GetHistory(t) \in Whole
           /\ List(t) \in Whole /\ EnsureThread(t) \in Whole
           /\ \A m \in Messages : WriterAppend(t, m) \in Whole
           /\ WriterClear(t) \in Whole /\ WriterDrop(t) \in Whole
           /\ \A ms \in Histories : Len(ms) <= MaxHistory => WriterReplace(t, ms) \in Whole
<1>1. /\ Do("look", t) \in Commands /\ Do("look", t).op \in CalmOps
      /\ Do("look", Default) \in Commands /\ Do("look", Default).op \in CalmOps
      /\ Do("sync", None) \in Commands /\ Do("sync", None).op \in CalmOps
      /\ Do("mirror_ensure", t) \in Commands /\ Do("mirror_ensure", t).op \in CalmOps
  <2>1. /\ Do("look", t) \in Commands /\ Do("look", Default) \in Commands
        /\ Do("sync", None) \in Commands /\ Do("mirror_ensure", t) \in Commands
    BY DoIsCommand DEF PlainOps, MirrorOps, Threads
  <2> QED
    BY <2>1 DEF Do, Cmd, CalmOps
<1>2. /\ Do("read", t) \in Commands /\ Do("read", t).op \in CalmOps
      /\ Do("members", t) \in Commands /\ Do("members", t).op \in CalmOps
      /\ Touching({t}) \in Commands /\ Touching({t}).op \in CalmOps
  <2>1. Do("read", t) \in Commands /\ Do("members", t) \in Commands /\ Touching({t}) \in Commands
    BY DoIsCommand DEF ThreadOps
  <2> QED
    BY <2>1 DEF Do, Touching, Cmd, CalmOps
<1>3. Migrate(t) \in Whole
  BY <1>1, CalmWhole, WholeMakes DEF Migrate
<1>4. GetHistory(t) \in Whole
  <2>1. <<Do("read", t)>> \in Whole
    BY <1>2, CalmWhole
  <2> QED
    BY <1>3, <2>1, WholeJoin DEF GetHistory
<1>5. List(t) \in Whole
  BY <1>1, <1>2, CalmTriple DEF List
<1>6. EnsureThread(t) \in Whole
  BY <1>1, <1>2, CalmPair DEF EnsureThread
<1>7. \A m \in Messages : WriterAppend(t, m) \in Whole
  BY BlockWhole DEF Blocks
<1>8. WriterClear(t) \in Whole /\ WriterDrop(t) \in Whole
  BY BlockWhole DEF Blocks
<1>9. \A ms \in Histories : Len(ms) <= MaxHistory => WriterReplace(t, ms) \in Whole
  BY BlockWhole DEF Blocks
<1> QED
  BY <1>3, <1>4, <1>5, <1>6, <1>7, <1>8, <1>9

\* The scripts that requests and jobs start with.
LEMMA HandlersWhole ==
    ASSUME NEW p \in Requests, NEW t \in Threads
    PROVE  /\ \A kind \in {"chat", "stream", "files", "read", "create", "clear", "delete", "migrate"} :
                 Handler(p, kind, t) \in Whole
           /\ \A outcome \in Endings : outcome # "silent" => JobScript(p, t, outcome) \in Whole
           /\ <<Do("failed", t)>> \in Whole
           /\ Ask(p, t) \in Whole
           /\ <<Do("wait_again", t)>> \in Whole
           /\ WriterAppend(t, User(p)) \in Whole /\ WriterAppend(t, Assistant(p)) \in Whole
<1>1. User(p) \in Messages /\ Assistant(p) \in Messages
  BY DEF User, Assistant, Messages, Roles
<1>2. WriterAppend(t, User(p)) \in Whole /\ WriterAppend(t, Assistant(p)) \in Whole
  BY <1>1, PartsWhole
<1>3. \A op \in {"enqueue", "wait", "wait_again", "completed", "retry", "failed"} :
          <<Do(op, t)>> \in Whole
  <2> TAKE op \in {"enqueue", "wait", "wait_again", "completed", "retry", "failed"}
  <2>1. Do(op, t) \in Commands
    BY DoIsCommand DEF PlainOps
  <2>2. Do(op, t).op \in CalmOps
    BY DEF Do, Cmd, CalmOps
  <2> QED
    BY <2>1, <2>2, CalmWhole
<1>4. <<Do("find", t)>> \in Whole /\ <<Do("source", t)>> \in Whole
  <2>1. Do("find", t) \in Commands /\ Do("source", t) \in Commands
    BY DoIsCommand DEF ThreadOps
  <2>2. Do("find", t).op \in CalmOps /\ Do("source", t).op \in CalmOps
    BY DEF Do, Cmd, CalmOps
  <2> QED
    BY <2>1, <2>2, CalmWhole
<1>5. Ask(p, t) \in Whole
  BY <1>2, <1>3, WholeJoin DEF Ask
<1>6. GetHistory(t) \o Ask(p, t) \in Whole
  BY <1>5, PartsWhole, WholeJoin
<1>7. List(Default) \in Whole /\ List(New) \in Whole /\ EnsureThread(New) \in Whole
  BY PartsWhole DEF Threads
<1>8. /\ Handler(p, "chat", t) \in Whole /\ Handler(p, "stream", t) \in Whole
      /\ Handler(p, "files", t) \in Whole
  <2>1. (GetHistory(t) \o Ask(p, t)) \o <<Do("wait", t)>> \in Whole
    BY <1>3, <1>6, WholeJoin
  <2> QED
    BY <1>6, <2>1 DEF Handler
<1>9. Handler(p, "read", t) \in Whole
  BY <1>4, <1>7, WholeJoin DEF Handler
<1>10. Handler(p, "create", t) \in Whole
  BY <1>7, WholeJoin DEF Handler
<1>11. Handler(p, "clear", t) \in Whole
  BY PartsWhole DEF Handler
<1>12. Handler(p, "delete", t) \in Whole
  <2>1. WriterDrop(t) \o List(New) \in Whole
    BY <1>7, PartsWhole, WholeJoin
  <2> QED
    BY <2>1 DEF Handler, WriterDrop
<1>13. Handler(p, "migrate", t) \in Whole
  BY <1>4 DEF Handler
<1>14. ASSUME NEW outcome \in Endings, outcome # "silent"
       PROVE  JobScript(p, t, outcome) \in Whole
  <2>1. <<Do(outcome, t)>> \in Whole
    BY <1>3, <1>14 DEF Endings
  <2> QED
    BY <1>2, <2>1, WholeJoin DEF JobScript
<1> QED
  BY <1>2, <1>3, <1>5, <1>8, <1>9, <1>10, <1>11, <1>12, <1>13, <1>14

\* The history that is put back fits the list.
LEMMA BudgetedLen == \A h \in Histories : Budgeted(h) \in Histories /\ Len(Budgeted(h)) <= MaxHistory
<1> TAKE h \in Histories
<1> DEFINE n == Len(h)
           b == BudgetMessages
           k == IF n > b THEN n - b + 1 ELSE 1
<1>1. n \in Nat /\ b \in Nat /\ MaxHistory \in Nat /\ b <= MaxHistory
  BY ConversationAssumption, HistoryFacts
<1>2. Budgeted(h) = SubSeq(h, k, n) /\ h \in Seq(Messages)
  BY DEF Budgeted, Histories
<1> HIDE DEF n, b
<1>3. k \in Nat /\ k >= 1 /\ n - k + 1 <= b /\ (k <= n \/ k = n + 1)
  BY <1>1
<1> HIDE DEF k
<1>4. \A i \in k .. n : i \in 1 .. n
  BY <1>1, <1>3
<1>5. Len(SubSeq(h, k, n)) = IF k <= n THEN n - k + 1 ELSE 0
  BY <1>1, <1>2, <1>3, <1>4 DEF n
<1>6. Len(SubSeq(h, k, n)) <= MaxHistory
  BY <1>1, <1>3, <1>5
<1> QED
  BY <1>2, <1>6, BudgetedKeeps

\* Restoring, and what follows it.
LEMMA RestoreWhole ==
    ASSUME Shaped, NEW p \in Requests, thread[p] \in Threads
    PROVE  Restore(p) \in Whole
<1>1. snap[p] \in Histories
  BY DEF Shaped
<1>2. Budgeted(snap[p]) \in Histories /\ Len(Budgeted(snap[p])) <= MaxHistory
  BY <1>1, BudgetedLen
<1> QED
  BY <1>2, PartsWhole DEF Restore
------------------------------------------------------------------------------
(* The commands of a script, one by one. *)

\* A script with one command in front of it.
LEMMA ConsFacts ==
    ASSUME NEW c \in Commands, NEW s \in Scripts
    PROVE  /\ Cons(c, s) \in Scripts /\ Cons(c, s) # <<>>
           /\ Head(Cons(c, s)) = c /\ Tail(Cons(c, s)) = s
<1>1. <<c>> \in Scripts
  BY Short
<1> QED
  BY <1>1, Joined, FirstOf DEF Cons

\* A joined script, from its first command.
LEMMA JoinCons ==
    ASSUME NEW c \in Commands, NEW b \in Scripts, NEW r \in Scripts
    PROVE  (<<c>> \o b) \o r = Cons(c, b \o r)
<1> DEFINE a == <<c>>
<1>1. a \in Scripts
  BY Short
<1> HIDE DEF a
<1>2. (a \o b) \o r = a \o (b \o r)
  BY <1>1, JoinAssoc
<1> QED
  BY <1>2 DEF a, Cons

\* Two commands in front of a script.
LEMMA PairCons ==
    \A c, d \in Commands, r \in Scripts : <<c, d>> \o r = Cons(c, Cons(d, r))
<1> TAKE c, d \in Commands, r \in Scripts
<1> DEFINE b == <<d>>
<1>1. b \in Scripts
  BY Short
<1>2. <<c, d>> = <<c>> \o b
  BY PairIs
<1>3. b \o r = Cons(d, r)
  BY DEF Cons
<1> HIDE DEF b
<1>4. (<<c>> \o b) \o r = Cons(c, b \o r)
  BY <1>1, JoinCons
<1> QED
  BY <1>2, <1>3, <1>4, Zenon

\* Three commands in front of a script.
LEMMA TripleCons ==
    \A c, d, e \in Commands, r \in Scripts : <<c, d, e>> \o r = Cons(c, Cons(d, Cons(e, r)))
<1> TAKE c, d, e \in Commands, r \in Scripts
<1> DEFINE b == <<d, e>>
<1>1. b \in Scripts
  BY Short
<1>2. <<c, d, e>> = <<c>> \o b
  BY TripleIs
<1>3. b \o r = Cons(d, Cons(e, r))
  BY PairCons, Zenon
<1> HIDE DEF b
<1>4. (<<c>> \o b) \o r = Cons(c, b \o r)
  BY <1>1, JoinCons
<1> QED
  BY <1>2, <1>3, <1>4, Zenon

AppendTail(t, m, r) ==
    Cons(Cmd("push", t, <<m>>), Cons(Touching({t}), Cons(Cmd("mirror_append", t, <<m>>), r)))
RefillTail(t, ms, all, r) ==
    Cons(Cmd("push", t, ms), Cons(Touching({t}), Cons(Cmd("mirror_replace", t, all), r)))

\* The tails are scripts, command by command.
LEMMA TailScripts ==
    ASSUME NEW t \in Threads, NEW r \in Scripts
    PROVE  /\ \A m \in Messages :
                 /\ <<m>> \in Histories /\ <<m>> # <<>>
                 /\ Cmd("push", t, <<m>>) \in Commands /\ Cmd("mirror_append", t, <<m>>) \in Commands
                 /\ AppendTail(t, m, r) \in Scripts
           /\ \A ms, all \in Histories : ms # <<>> =>
                 /\ Cmd("push", t, ms) \in Commands /\ Cmd("mirror_replace", t, all) \in Commands
                 /\ RefillTail(t, ms, all, r) \in Scripts
           /\ Touching({t}) \in Commands
<1>1. Touching({t}) \in Commands
  BY DoIsCommand
<1>2. \A ms \in Histories : ms # <<>> => Cmd("push", t, ms) \in Commands
  BY DoIsCommand
<1>3. \A ms \in Histories :
          Cmd("mirror_replace", t, ms) \in Commands /\ Cmd("mirror_append", t, ms) \in Commands
  BY DoIsCommand DEF MirrorOps
<1>4. \A m \in Messages : <<m>> \in Histories /\ <<m>> # <<>>
  BY DEF Histories
<1>5. ASSUME NEW m \in Messages
      PROVE  AppendTail(t, m, r) \in Scripts
  BY <1>1, <1>2, <1>3, <1>4, ConsFacts DEF AppendTail
<1>6. ASSUME NEW ms \in Histories, NEW all \in Histories, ms # <<>>
      PROVE  RefillTail(t, ms, all, r) \in Scripts
  BY <1>1, <1>2, <1>3, <1>6, ConsFacts DEF RefillTail
<1> QED
  BY <1>1, <1>2, <1>3, <1>4, <1>5, <1>6

\* A stored history in front of a mirror command.
LEMMA StoreCons ==
    ASSUME NEW t \in Threads, NEW ms \in Histories, ms # <<>>, NEW c \in Commands, NEW r \in Scripts
    PROVE  (StoreAll(t, ms) \o <<c>>) \o r
              = Migrate(t) \o Cons(Cmd("push", t, ms), Cons(Touching({t}), Cons(c, r)))
<1> DEFINE a == Migrate(t)
           b == <<Cmd("push", t, ms), Touching({t})>>
           d == <<c>>
           dr == d \o r
           ab == a \o b
           bdr == b \o dr
<1>1. Cmd("push", t, ms) \in Commands /\ Touching({t}) \in Commands
  BY DoIsCommand
<1>2. a \in Scripts /\ b \in Scripts /\ d \in Scripts
  BY <1>1, StoreScripts, Short
<1>3. StoreAll(t, ms) = ab
  BY DEF StoreAll
<1>4. dr = Cons(c, r) /\ dr \in Scripts
  BY <1>2, Joined DEF Cons
<1>5. bdr = Cons(Cmd("push", t, ms), Cons(Touching({t}), dr))
  <2> HIDE DEF dr
  <2> QED
    BY <1>1, <1>4, PairCons, Zenon
<1> HIDE DEF a, b, d
<1>6. ab \in Scripts
  BY <1>2, Joined
<1>7. (ab \o d) \o r = ab \o dr
  <2> HIDE DEF ab
  <2>1. r \in Scripts
    OBVIOUS
  <2> QED
    BY ONLY <1>2, <1>6, <2>1, JoinAssoc DEF dr
<1>8. ab \o dr = a \o bdr
  <2> HIDE DEF dr
  <2>1. a \in Scripts /\ b \in Scripts /\ dr \in Scripts
    BY <1>2, <1>4
  <2>2. (a \o b) \o dr = a \o (b \o dr)
    BY ONLY <2>1, JoinAssoc, Zenon
  <2> QED
    BY ONLY <2>2, Zenon DEF ab, bdr
<1> HIDE DEF ab, dr, bdr
<1>9. (StoreAll(t, ms) \o d) \o r = a \o Cons(Cmd("push", t, ms), Cons(Touching({t}), Cons(c, r)))
  BY <1>3, <1>4, <1>5, <1>7, <1>8
<1> QED
  BY <1>9 DEF a, d

\* The blocks in front of a script, command by command.
LEMMA BlockCons ==
    ASSUME NEW t \in Threads, NEW r \in Scripts
    PROVE  /\ WriterClear(t) \o r
                 = Cons(Do("del", t), Cons(Touching({t}), Cons(Do("mirror_clear", t), r)))
           /\ WriterDrop(t) \o r
                 = Cons(Do("del", t), Cons(Do("zrem", t), Cons(Do("mirror_drop", t), r)))
           /\ \A m \in Messages : WriterAppend(t, m) \o r = Migrate(t) \o AppendTail(t, m, r)
           /\ WriterReplace(t, <<>>) \o r
                 = Cons(Do("del", t), Cons(Touching({t}), Cons(Cmd("mirror_replace", t, <<>>), r)))
           /\ \A ms \in Histories : ms # <<>> =>
                 WriterReplace(t, ms) \o r
                    = Cons(Do("del", t), Cons(Touching({t}), Migrate(t) \o RefillTail(t, ms, ms, r)))
<1>1. /\ Do("del", t) \in Commands /\ Do("zrem", t) \in Commands /\ Touching({t}) \in Commands
      /\ Do("mirror_clear", t) \in Commands /\ Do("mirror_drop", t) \in Commands
  BY DoIsCommand DEF ThreadOps, PlainOps, MirrorOps
<1>2. WriterClear(t) \o r
          = Cons(Do("del", t), Cons(Touching({t}), Cons(Do("mirror_clear", t), r)))
  <2> DEFINE c == Do("del", t)
             d == Touching({t})
             e == Do("mirror_clear", t)
  <2>1. WriterClear(t) = <<c, d, e>>
    BY DEF WriterClear
  <2>0. c \in Commands /\ d \in Commands /\ e \in Commands
    BY <1>1
  <2> HIDE DEF c, d, e
  <2>2. <<c, d, e>> \o r = Cons(c, Cons(d, Cons(e, r)))
    BY <2>0, TripleCons, Zenon
  <2>3. WriterClear(t) \o r = Cons(c, Cons(d, Cons(e, r)))
    BY <2>1, <2>2, Zenon
  <2> QED
    BY <2>3 DEF c, d, e
<1>3. WriterDrop(t) \o r
          = Cons(Do("del", t), Cons(Do("zrem", t), Cons(Do("mirror_drop", t), r)))
  <2> DEFINE c == Do("del", t)
             d == Do("zrem", t)
             e == Do("mirror_drop", t)
  <2>1. WriterDrop(t) = <<c, d, e>>
    BY DEF WriterDrop
  <2>0. c \in Commands /\ d \in Commands /\ e \in Commands
    BY <1>1
  <2> HIDE DEF c, d, e
  <2>2. <<c, d, e>> \o r = Cons(c, Cons(d, Cons(e, r)))
    BY <2>0, TripleCons, Zenon
  <2>3. WriterDrop(t) \o r = Cons(c, Cons(d, Cons(e, r)))
    BY <2>1, <2>2, Zenon
  <2> QED
    BY <2>3 DEF c, d, e
<1>4. ASSUME NEW m \in Messages
      PROVE  WriterAppend(t, m) \o r = Migrate(t) \o AppendTail(t, m, r)
  <2>1. <<m>> \in Histories /\ <<m>> # <<>> /\ Cmd("mirror_append", t, <<m>>) \in Commands
    BY TailScripts
  <2> QED
    BY <2>1, StoreCons DEF WriterAppend, AppendTail
<1>5. ASSUME NEW ms \in Histories
      PROVE  WriterReplace(t, ms) \o r
                = Cons(Do("del", t), Cons(Touching({t}),
                      (StoreAll(t, ms) \o <<Cmd("mirror_replace", t, ms)>>) \o r))
  <2> DEFINE a == <<Do("del", t)>>
             b == <<Touching({t})>>
             x == StoreAll(t, ms) \o <<Cmd("mirror_replace", t, ms)>>
             bx == b \o x
  <2>1. a \in Scripts /\ b \in Scripts
    BY <1>1, Short
  <2>2. x \in Scripts
    <3>1. Cmd("mirror_replace", t, ms) \in Commands
      BY DoIsCommand DEF MirrorOps
    <3> QED
      BY <3>1, StoreScripts, Short, Joined
  <2>3. WriterReplace(t, ms) = a \o bx
    BY ReplaceScript
  <2> HIDE DEF a, b, x
  <2>4. bx \in Scripts
    BY <2>1, <2>2, Joined
  <2>0. r \in Scripts
    OBVIOUS
  <2>5. bx \o r = b \o (x \o r)
    BY ONLY <2>1, <2>2, <2>0, JoinAssoc DEF bx
  <2>6. (a \o bx) \o r = a \o (bx \o r)
    <3> HIDE DEF bx
    <3> QED
      BY ONLY <2>1, <2>4, <2>0, JoinAssoc
  <2>7. WriterReplace(t, ms) \o r = a \o (b \o (x \o r))
    <3> HIDE DEF bx
    <3> QED
      BY <2>3, <2>5, <2>6
  <2> QED
    BY <2>7 DEF a, b, x, Cons
<1>6. WriterReplace(t, <<>>) \o r
          = Cons(Do("del", t), Cons(Touching({t}), Cons(Cmd("mirror_replace", t, <<>>), r)))
  <2>1. <<>> \in Histories
    BY OldIsHistory
  <2>2. <<Cmd("mirror_replace", t, <<>>)>> \in Scripts
    BY <2>1, DoIsCommand, Short DEF MirrorOps
  <2>3. StoreAll(t, <<>>) \o <<Cmd("mirror_replace", t, <<>>)>> = <<Cmd("mirror_replace", t, <<>>)>>
    BY <2>2, JoinEmpty DEF StoreAll
  <2> QED
    BY <1>5, <2>1, <2>3 DEF Cons
<1>7. ASSUME NEW ms \in Histories, ms # <<>>
      PROVE  WriterReplace(t, ms) \o r
                = Cons(Do("del", t), Cons(Touching({t}), Migrate(t) \o RefillTail(t, ms, ms, r)))
  <2>1. Cmd("mirror_replace", t, ms) \in Commands
    BY DoIsCommand DEF MirrorOps
  <2>2. (StoreAll(t, ms) \o <<Cmd("mirror_replace", t, ms)>>) \o r
            = Migrate(t) \o RefillTail(t, ms, ms, r)
    BY <1>7, <2>1, StoreCons DEF RefillTail
  <2> QED
    BY <1>5, <2>2
<1> QED
  BY <1>2, <1>3, <1>4, <1>6, <1>7

\* The look at the old layout in front of a script.
LEMMA MigrateCons ==
    ASSUME NEW t \in Threads, NEW r \in Scripts
    PROVE  Migrate(t) \o r = IF t = Default THEN Cons(Do("look", Default), r) ELSE r
BY JoinEmpty DEF Migrate, Cons
------------------------------------------------------------------------------
(* What a command of a process that runs alone does to the two copies. *)

\* The steps that keep a clean request clean.
Works(w) ==
    /\ Step(w) /\ todo[w] # <<>> /\ ~Crash(w)
    /\ \A p \in Requests : w = Web(p) => ~WaitTimesOut(p)
    /\ \A p \in Requests, outcome \in Endings : w = Job(p) => ~JobRuns(p, outcome)
copies == <<redis, legacy, db, diverged>>

\* Which step a command takes.
LEMMA CommandStep ==
    ASSUME NEW w \in Procs, Works(w), NEW op, op = Head(todo[w]).op
    PROVE  /\ op = "look" => Look(w)
           /\ op = "legacy" => ReadLegacy(w)
           /\ op = "import" => ImportLegacy(w)
           /\ op = "push" => Push(w)
           /\ op = "del" => Delete(w)
           /\ op = "touch" => Touch(w)
           /\ op = "zrem" => ZRem(w)
           /\ op = "sync" => Sync(w)
           /\ op \in MirrorOps =>
                 MirrorRead(w) \/ MirrorCommit(w) \/ MirrorSkips(w) \/ MirrorConflict(w) \/ MirrorFails(w)
           /\ op \in {"members", "find", "read", "serve", "source", "source_legacy", "enqueue",
                      "wait", "wait_again", "completed", "retry", "failed"} =>
                 \E p \in Requests :
                    \/ /\ w = Web(p)
                       /\ \/ op = "members" /\ Members(p)
                          \/ op = "find" /\ Find(p)
                          \/ op = "read" /\ Read(p)
                          \/ op = "serve" /\ Serve(p)
                          \/ op = "source" /\ Source(p)
                          \/ op = "source_legacy" /\ SourceLegacy(p)
                          \/ op = "enqueue" /\ Enqueue(p)
                          \/ op \in {"wait", "wait_again"} /\ Wait(p)
                    \/ w = Job(p) /\ op \in {"completed", "retry", "failed"} /\ JobEnds(p)
<1>1. /\ Look(w) => op = "look"
      /\ ReadLegacy(w) => op = "legacy"
      /\ ImportLegacy(w) => op = "import"
      /\ Push(w) => op = "push"
      /\ Delete(w) => op = "del"
      /\ Touch(w) => op = "touch"
      /\ ZRem(w) => op = "zrem"
      /\ Sync(w) => op = "sync"
      /\ MirrorRead(w) \/ MirrorCommit(w) \/ MirrorSkips(w) \/ MirrorConflict(w) \/ MirrorFails(w)
            => op \in MirrorOps
  BY DEF Look, ReadLegacy, ImportLegacy, Push, Delete, Touch, ZRem, Sync, MirrorRead, MirrorCommit,
         MirrorSkips, MirrorConflict, MirrorFails, At, AtMirror, Command
<1> DEFINE WebStep(p) ==
                       /\ w = Web(p)
                       /\ \/ op = "members" /\ Members(p)
                          \/ op = "find" /\ Find(p)
                          \/ op = "read" /\ Read(p)
                          \/ op = "serve" /\ Serve(p)
                          \/ op = "source" /\ Source(p)
                          \/ op = "source_legacy" /\ SourceLegacy(p)
                          \/ op = "enqueue" /\ Enqueue(p)
                          \/ op \in {"wait", "wait_again"} /\ Wait(p)
           JobStep(p) == w = Job(p) /\ op \in {"completed", "retry", "failed"} /\ JobEnds(p)
<1>2. ASSUME NEW p \in Requests, w = Web(p)
      PROVE  /\ Read(p) => op = "read"
             /\ Members(p) => op = "members"
             /\ Find(p) => op = "find"
             /\ Serve(p) => op = "serve"
             /\ Source(p) => op = "source"
             /\ SourceLegacy(p) => op = "source_legacy"
             /\ Enqueue(p) => op = "enqueue"
             /\ Wait(p) => op \in {"wait", "wait_again"}
  BY <1>2 DEF Read, Members, Find, Serve, Source, SourceLegacy, Enqueue, Wait, Waits, At, Command
<1>3. ASSUME NEW p \in Requests, w = Web(p),
             \/ Read(p) \/ Members(p) \/ Find(p) \/ Serve(p) \/ Source(p) \/ SourceLegacy(p)
             \/ Enqueue(p) \/ Wait(p)
      PROVE  WebStep(p)
  BY <1>2, <1>3
<1>4. ASSUME NEW p \in Requests, w = Job(p), JobEnds(p)
      PROVE  JobStep(p)
  BY <1>4 DEF JobEnds, Command
<1>5. \/ Look(w) \/ ReadLegacy(w) \/ ImportLegacy(w) \/ Push(w) \/ Delete(w)
      \/ Touch(w) \/ ZRem(w) \/ Sync(w)
      \/ MirrorRead(w) \/ MirrorCommit(w) \/ MirrorSkips(w)
      \/ MirrorConflict(w) \/ MirrorFails(w)
      \/ \E p \in Requests : WebStep(p) \/ JobStep(p)
  <2>1. \/ Look(w) \/ ReadLegacy(w) \/ ImportLegacy(w) \/ Push(w) \/ Delete(w)
        \/ Touch(w) \/ ZRem(w) \/ Sync(w)
        \/ MirrorRead(w) \/ MirrorCommit(w) \/ MirrorSkips(w)
        \/ MirrorConflict(w) \/ MirrorFails(w)
        \/ \E p \in Requests : w = Web(p) /\
              \/ Read(p) \/ Members(p) \/ Find(p) \/ Serve(p) \/ Source(p) \/ SourceLegacy(p)
              \/ Enqueue(p) \/ Wait(p)
        \/ \E p \in Requests : w = Job(p) /\ JobEnds(p)
    BY DEF Works, Step
  <2> HIDE DEF WebStep, JobStep
  <2> QED
    BY <1>3, <1>4, <2>1
<1>6. \A p \in Requests : WebStep(p) \/ JobStep(p) =>
          op \in {"members", "find", "read", "serve", "source", "source_legacy", "enqueue",
                  "wait", "wait_again", "completed", "retry", "failed"}
  OBVIOUS
<1>7. /\ op = "look" => Look(w)
      /\ op = "legacy" => ReadLegacy(w)
      /\ op = "import" => ImportLegacy(w)
      /\ op = "push" => Push(w)
      /\ op = "del" => Delete(w)
      /\ op = "touch" => Touch(w)
      /\ op = "zrem" => ZRem(w)
      /\ op = "sync" => Sync(w)
      /\ op \in MirrorOps =>
            MirrorRead(w) \/ MirrorCommit(w) \/ MirrorSkips(w) \/ MirrorConflict(w) \/ MirrorFails(w)
      /\ op \in {"members", "find", "read", "serve", "source", "source_legacy", "enqueue",
                 "wait", "wait_again", "completed", "retry", "failed"} =>
            \E p \in Requests : WebStep(p) \/ JobStep(p)
  <2> HIDE DEF WebStep, JobStep
  <2> QED
    BY <1>1, <1>5, <1>6 DEF MirrorOps
<1> QED
  BY <1>7

\* Calm commands that are followed by calm scripts only.
PlainCalm == CalmOps \ {"look", "source", "mirror_ensure"}
LEMMA CalmStep ==
    ASSUME Shaped, Flagged, NEW w \in Procs, Works(w), Head(todo[w]).op \in PlainCalm
    PROVE  UNCHANGED copies /\ seen' = seen /\ \E sc \in Whole : todo'[w] = sc \o Tail(todo[w])
<1> DEFINE c == Head(todo[w])
<1>1. todo[w] # <<>> /\ todo[w] \in Scripts /\ c \in Commands
  BY HeadTail DEF Works, Shaped
<1>2. c.op \in {"touch", "sync", "members", "find", "read", "serve", "enqueue", "wait", "wait_again",
                "completed", "retry", "failed"}
  BY DEF PlainCalm, CalmOps
<1>3. \A ts \in SUBSET Threads : <<Touching(ts)>> \in Whole
  <2> TAKE ts \in SUBSET Threads
  <2>1. Touching(ts) \in Commands /\ Touching(ts).op \in CalmOps
    BY DoIsCommand DEF Touching, Cmd, CalmOps
  <2> QED
    BY <2>1, CalmWhole
<1>4. <<>> \in Whole
  BY WholeMakes
<1>5. c.op \in ThreadOps => c.t \in Threads
  BY <1>1, CommandHolds
<1> SUFFICES UNCHANGED copies /\ seen' = seen /\ \E sc \in Whole : Then(w, sc)
  BY <1>1, ThenBecomes
<1>6. CASE c.op = "touch"
  <2>1. Touch(w)
    BY <1>6, CommandStep
  <2> QED
    BY <1>4, <2>1 DEF Touch, copies
<1>7. CASE c.op = "sync"
  <2>1. Sync(w)
    BY <1>7, CommandStep
  <2> QED
    BY <1>3, <2>1 DEF Sync, NonEmpty, copies, store
<1>8. CASE c.op \notin {"touch", "sync"}
  <2>1. PICK p \in Requests :
          \/ /\ w = Web(p)
             /\ \/ c.op = "members" /\ Members(p)
                \/ c.op = "find" /\ Find(p)
                \/ c.op = "read" /\ Read(p)
                \/ c.op = "serve" /\ Serve(p)
                \/ c.op = "enqueue" /\ Enqueue(p)
                \/ c.op \in {"wait", "wait_again"} /\ Wait(p)
          \/ w = Job(p) /\ c.op \in {"completed", "retry", "failed"} /\ JobEnds(p)
    <3> DEFINE op == c.op
    <3>1. op \in {"members", "find", "read", "serve", "source", "source_legacy", "enqueue",
                  "wait", "wait_again", "completed", "retry", "failed"}
      BY <1>2, <1>8
    <3>2. op # "source" /\ op # "source_legacy"
      BY <1>2
    <3> QED
      BY <3>1, <3>2, CommandStep
  <2>2. CASE Members(p) /\ w = Web(p) /\ c.op = "members"
    <3>1. c.t \in Threads
      BY <1>5, <2>2 DEF ThreadOps
    <3>2. EnsureThread(c.t) \o List(c.t) \in Whole
      BY <3>1, PartsWhole, WholeJoin
    <3> QED
      BY <1>3, <2>2, <3>2 DEF Members, NonEmpty, Command, copies, store
  <2>3. CASE Find(p) /\ w = Web(p) /\ c.op = "find"
    <3>1. c.t \in Threads
      BY <1>5, <2>3 DEF ThreadOps
    <3>2. GetHistory(c.t) \o <<Do("serve", c.t)>> \in Whole
      <4>1. Do("serve", c.t) \in Commands /\ Do("serve", c.t).op \in CalmOps
        <5>1. Do("serve", c.t) \in Commands
          BY <3>1, DoIsCommand DEF ThreadOps
        <5> QED
          BY <5>1 DEF Do, Cmd, CalmOps
      <4> QED
        BY <3>1, <4>1, CalmWhole, PartsWhole, WholeJoin
    <3> QED
      BY <1>4, <2>3, <3>2 DEF Find, Command, copies, store
  <2>4. CASE Read(p) /\ w = Web(p) /\ c.op = "read"
    <3>1. c.t \in Threads
      BY <1>5, <2>4 DEF ThreadOps
    <3>2. <<Touching({c.t})>> \in Whole
      BY <1>3, <3>1
    <3> QED
      BY <1>4, <2>4, <3>2 DEF Read, Command, copies, store
  <2>5. CASE Serve(p) /\ w = Web(p)
    BY <1>4, <2>5 DEF Serve, copies, store
  <2>6. CASE Enqueue(p) /\ w = Web(p)
    BY <1>4, <2>6 DEF Enqueue, copies, store
  <2>7. CASE Wait(p) /\ w = Web(p)
    <3> DEFINE t == thread[p]
    <3>1. t \in Threads
      BY <1>1, <2>7 DEF Shaped
    <3>2. Restore(p) \in Whole
      BY <3>1, RestoreWhole
    <3>3. /\ Ask(p, t) \in Whole /\ <<Do("wait_again", t)>> \in Whole
          /\ WriterAppend(t, User(p)) \in Whole /\ WriterAppend(t, Assistant(p)) \in Whole
      BY <3>1, HandlersWhole
    <3> DEFINE again == Restore(p) \o Ask(p, t) \o <<Do("wait_again", t)>>
               fixed == Restore(p) \o WriterAppend(t, User(p)) \o WriterAppend(t, Assistant(p))
    <3>4. again \in Whole /\ fixed \in Whole
      <4>1. Restore(p) \o Ask(p, t) \in Whole /\ Restore(p) \o WriterAppend(t, User(p)) \in Whole
        BY <3>2, <3>3, WholeJoin
      <4> QED
        BY <3>3, <4>1, WholeJoin
    <3> HIDE DEF again, fixed
    <3>5. UNCHANGED copies /\ seen' = seen
      BY <2>7 DEF Wait, copies, store
    <3>6. CASE job[p] = "completed"
      BY <1>4, <2>7, <3>5, <3>6 DEF Wait
    <3>7. CASE job[p] = "failed"
      BY <2>7, <3>2, <3>5, <3>7 DEF Wait
    <3>8. CASE job[p] = "retry" /\ ~At(Web(p), "wait_again")
      BY <2>7, <3>4, <3>5, <3>8 DEF Wait, again
    <3>9. CASE job[p] = "retry" /\ At(Web(p), "wait_again")
      BY <2>7, <3>4, <3>5, <3>9 DEF Wait, fixed
    <3> QED
      BY <2>7, <3>6, <3>7, <3>8, <3>9 DEF Wait
  <2>8. CASE JobEnds(p) /\ w = Job(p)
    BY <1>4, <2>8 DEF JobEnds, copies, store
  <2> QED
    BY <2>1, <2>2, <2>3, <2>4, <2>5, <2>6, <2>7, <2>8
<1> QED
  BY <1>6, <1>7, <1>8
------------------------------------------------------------------------------
(* The SQL transactions. *)

\* The rows of every thread have one place each, none without a thread row, and what
\* a transaction has read belongs to the command that is running.
SeenOK(w) ==
    /\ AtMirror(w)
    /\ seen[w] = [row |-> seen[w].row, rows |-> seen[w].rows, next |-> seen[w].next]
    /\ Command(w).t \in Threads => seen[w].next \in Nat
Stored ==
    /\ db = [t \in Threads |-> db[t]] /\ seen = [w \in Procs |-> seen[w]]
    /\ \A t \in Threads : RowsOK(db[t].rows) /\ (db[t].row \/ db[t].rows = {})
    /\ \A w \in Procs : seen[w] = None \/ SeenOK(w)

\* A step that leaves the database alone and at most forgets what it has read.
LEMMA StoredPlain ==
    ASSUME Stored, NEW w \in Procs, NEW s, todo' = [todo EXCEPT ![w] = s], todo \in [Procs -> Scripts],
           db' = db, seen' = [seen EXCEPT ![w] = None] \/ (seen' = seen /\ seen[w] = None)
    PROVE  Stored'
<1>1. seen'[w] = None /\ seen' = [v \in Procs |-> seen'[v]]
  BY DEF Stored
<1>2. ASSUME NEW v \in Procs, v # w
      PROVE  todo'[v] = todo[v] /\ seen'[v] = seen[v]
  BY <1>2 DEF Stored
<1>3. ASSUME NEW v \in Procs
      PROVE  seen'[v] = None \/ SeenOK(v)'
  BY <1>1, <1>2 DEF Stored, SeenOK, AtMirror, Command
<1>4. db' = [t \in Threads |-> db'[t]]
      /\ \A t \in Threads : RowsOK(db'[t].rows) /\ (db'[t].row \/ db'[t].rows = {})
  BY DEF Stored
<1> QED
  BY <1>1, <1>3, <1>4 DEF Stored

\* What two sets of rows without a common index give.
LEMMA RowsUnion ==
    ASSUME NEW R, NEW Q, RowsOK(R), RowsOK(Q), \A r \in R, q \in Q : r.i # q.i
    PROVE  RowsOK(R \cup Q)
<1>1. IsFiniteSet(R \cup Q)
  BY FS_Union DEF RowsOK
<1> QED
  BY <1>1 DEF RowsOK

\* Fewer rows.
LEMMA RowsLess ==
    ASSUME NEW R, NEW Q, RowsOK(R)
    PROVE  RowsOK(R \ Q)
<1>1. IsFiniteSet(R \ Q)
  BY FS_Subset DEF RowsOK
<1> QED
  BY <1>1 DEF RowsOK

\* One row.
LEMMA RowsOne ==
    ASSUME NEW k \in Nat, NEW m
    PROVE  RowsOK({[i |-> k, m |-> m]})
<1>1. IsFiniteSet({[i |-> k, m |-> m]})
  BY FS_Singleton
<1> QED
  BY <1>1 DEF RowsOK

\* What a transaction inserts.
LEMMA InsertsOK ==
    ASSUME Shaped, Stored, NEW w \in Procs, AtMirror(w), seen[w] # None, Command(w).t \in Threads
    PROVE  RowsOK(Inserts(Command(w), seen[w]))
<1> DEFINE c == Command(w)
           s == seen[w]
<1>1. s.next \in Nat
  BY DEF Stored, SeenOK
<1>2. c \in Commands
  BY HeadIsCommand DEF AtMirror
<1>3. c.ms \in Histories
  BY <1>2, OldIsHistory DEF Commands, Histories
<1>4. CASE c.op = "mirror_append"
  BY <1>1, <1>4, RowsOne DEF Inserts
<1>5. CASE c.op \in {"mirror_replace", "mirror_import"}
  BY <1>3, <1>5, SnapshotRows DEF Inserts
<1>6. CASE c.op \notin {"mirror_append", "mirror_replace", "mirror_import"}
  BY <1>6, NoRows DEF Inserts
<1> QED
  BY <1>4, <1>5, <1>6

\* A commit keeps one place for each row: the unique index.
LEMMA StoredCommit ==
    ASSUME Shaped, Stored, NEW w \in Procs, MirrorCommit(w)
    PROVE  Stored'
<1> DEFINE c == Command(w)
           s == seen[w]
           ins == Inserts(c, s)
           left == db[c.t].rows \ Deletes(c, s)
           after == IF c.op # "mirror_drop"
                    THEN [row |-> TRUE, rows |-> left \cup ins]
                    ELSE IF s.row = "gone" THEN db[c.t] ELSE NoThread
<1>1. /\ AtMirror(w) /\ s # None /\ ~Conflict(c, s)
      /\ db' = [db EXCEPT ![c.t] = after]
      /\ seen' = SeenAfter(w, c, after)
      /\ todo' = [todo EXCEPT ![w] = <<>> \o Tail(@)]
  BY DEF MirrorCommit, Then
<1>2. ASSUME c.t \in Threads
      PROVE  RowsOK(after.rows) /\ (after.row \/ after.rows = {})
  <2>1. RowsOK(ins)
    BY <1>1, <1>2, InsertsOK
  <2>2. RowsOK(left)
    BY <1>2, RowsLess DEF Stored
  <2>3. \A r \in left, q \in ins : r.i # q.i
    BY <1>1 DEF Conflict
  <2>4. RowsOK(left \cup ins)
    BY <2>1, <2>2, <2>3, RowsUnion
  <2>5. CASE c.op # "mirror_drop"
    BY <2>4, <2>5
  <2>6. CASE c.op = "mirror_drop" /\ s.row = "gone"
    BY <1>2, <2>6 DEF Stored
  <2>7. CASE c.op = "mirror_drop" /\ s.row # "gone"
    BY <2>7, NoRows DEF NoThread
  <2> QED
    BY <2>5, <2>6, <2>7
<1> HIDE DEF after, ins
<1>3. db' = [t \in Threads |-> db'[t]]
      /\ \A t \in Threads : RowsOK(db'[t].rows) /\ (db'[t].row \/ db'[t].rows = {})
  BY <1>1, <1>2 DEF Stored
<1>4. seen' = [v \in Procs |-> seen'[v]] /\ seen'[w] = None
  BY <1>1 DEF SeenAfter
<1>5. ASSUME NEW v \in Procs, v # w
      PROVE  seen'[v] = None \/ SeenOK(v)'
  <2>1. todo'[v] = todo[v]
    BY <1>1, <1>5 DEF Shaped
  <2>2. seen'[v] = IF seen[v] = None \/ todo[v] = <<>> \/ Command(v).t # c.t THEN seen[v]
                   ELSE [seen[v] EXCEPT !.rows = @ \cap (after.rows \ ins),
                                        !.row = IF ~after.row /\ @ = "live" THEN "gone" ELSE @]
    BY <1>1, <1>5 DEF SeenAfter, ins
  <2>3. seen[v] = None \/ SeenOK(v)
    BY DEF Stored
  <2>4. CASE seen'[v] = seen[v]
    BY <2>1, <2>3, <2>4 DEF SeenOK, AtMirror, Command
  <2>5. CASE SeenOK(v) /\ seen'[v] # seen[v]
    <3> DEFINE a == seen[v].rows \cap (after.rows \ ins)
               b == IF ~after.row /\ seen[v].row = "live" THEN "gone" ELSE seen[v].row
               n == seen[v].next
    <3>1. seen'[v] = [[seen[v] EXCEPT !.rows = a] EXCEPT !.row = b]
      BY <2>2, <2>5 DEF SeenOK
    <3>2. seen[v] = [row |-> seen[v].row, rows |-> seen[v].rows, next |-> n]
      BY <2>5 DEF SeenOK
    <3> HIDE DEF a, b
    <3>3. seen'[v] = [row |-> b, rows |-> a, next |-> n]
      BY <3>1, <3>2
    <3> QED
      BY <2>1, <2>5, <3>3 DEF SeenOK, AtMirror, Command
  <2> QED
    BY <2>2, <2>3, <2>4, <2>5
<1> QED
  BY <1>3, <1>4, <1>5 DEF Stored

\* A read of the rows.
LEMMA StoredRead ==
    ASSUME Shaped, Stored, NEW w \in Procs, MirrorRead(w)
    PROVE  Stored'
<1> DEFINE c == Command(w)
<1>1. /\ AtMirror(w) /\ seen' = [seen EXCEPT ![w] = Seeing(c.t)] /\ todo' = todo /\ db' = db
  BY DEF MirrorRead
<1>2. c.t \in Threads => NextIndex(db[c.t].rows) \in Nat
  BY NextIndexFacts DEF Stored
<1>3. SeenOK(w)'
  <2>1. seen'[w] = Seeing(c.t)
    BY <1>1 DEF Stored
  <2> QED
    BY <1>1, <1>2, <2>1 DEF SeenOK, Seeing, AtMirror, Command
<1>4. ASSUME NEW v \in Procs, v # w
      PROVE  seen'[v] = None \/ SeenOK(v)'
  BY <1>1, <1>4 DEF Stored, SeenOK, AtMirror, Command
<1>5. seen' = [v \in Procs |-> seen'[v]]
  BY <1>1 DEF Stored
<1> QED
  BY <1>1, <1>3, <1>4, <1>5 DEF Stored

\* The steps that are no SQL transaction.
LEMMA StoredOther ==
    ASSUME Shaped, Flagged, Stored, NEW w \in Procs, Step(w),
           ~MirrorRead(w), ~MirrorCommit(w)
    PROVE  Stored'
<1>1. PICK s \in Scripts : todo' = [todo EXCEPT ![w] = s]
  BY StepMoves DEF Moves
<1>2. todo \in [Procs -> Scripts]
  BY DEF Shaped
<1>3. \A v \in Procs : ~AtMirror(v) => seen[v] = None
  BY DEF Stored, SeenOK
<1>4. db' = db /\ (seen' = [seen EXCEPT ![w] = None] \/ (seen' = seen /\ seen[w] = None))
  <2>1. CASE \/ Look(w) \/ ReadLegacy(w) \/ ImportLegacy(w) \/ Push(w) \/ Delete(w)
             \/ Touch(w) \/ ZRem(w) \/ Sync(w)
    <3>1. ~AtMirror(w)
      BY <2>1 DEF Look, ReadLegacy, ImportLegacy, Push, Delete, Touch, ZRem, Sync, At, AtMirror,
                  MirrorOps, Command
    <3>2. db' = db /\ seen' = seen
      BY <2>1 DEF Look, ReadLegacy, ImportLegacy, Push, Delete, Touch, ZRem, Sync
    <3> QED
      BY <1>3, <3>1, <3>2
  <2>2. CASE MirrorSkips(w)
    BY <2>2 DEF MirrorSkips
  <2>3. CASE MirrorConflict(w) \/ MirrorFails(w) \/ Crash(w)
    BY <2>3 DEF MirrorConflict, MirrorFails, Crash
  <2>4. ASSUME NEW p \in Requests, w = Web(p),
               \/ Read(p) \/ Members(p) \/ Find(p) \/ Serve(p) \/ Source(p) \/ SourceLegacy(p)
               \/ Enqueue(p) \/ Wait(p) \/ WaitTimesOut(p)
        PROVE  db' = db /\ seen' = seen /\ seen[w] = None
    <3>1. ~AtMirror(w)
      BY <2>4 DEF Read, Members, Find, Serve, Source, SourceLegacy, Enqueue, Wait, WaitTimesOut, Waits,
                  At, AtMirror, MirrorOps, Command
    <3>2. db' = db /\ seen' = seen
      BY <2>4 DEF Read, Members, Find, Serve, Source, SourceLegacy, Enqueue, Wait, WaitTimesOut
    <3> QED
      BY <1>3, <3>1, <3>2
  <2>5. ASSUME NEW p \in Requests, w = Job(p), JobEnds(p)
        PROVE  db' = db /\ seen' = seen /\ seen[w] = None
    <3>1. ~AtMirror(w)
      BY <2>5 DEF JobEnds, AtMirror, MirrorOps, Command
    <3>2. db' = db /\ seen' = seen
      BY <2>5 DEF JobEnds
    <3> QED
      BY <1>3, <3>1, <3>2
  <2>6. ASSUME NEW p \in Requests, w = Job(p), NEW outcome \in Endings, JobRuns(p, outcome)
        PROVE  db' = db /\ seen' = [seen EXCEPT ![w] = None]
    BY <2>6 DEF JobRuns
  <2> QED
    BY <2>1, <2>2, <2>3, <2>4, <2>5, <2>6 DEF Step
<1> QED
  BY <1>1, <1>2, <1>4, StoredPlain

\* Every step of a process keeps the database well formed.
LEMMA StoredKept ==
    ASSUME Shaped, Flagged, Stored, NEW w \in Procs, Step(w)
    PROVE  Stored'
BY StoredRead, StoredCommit, StoredOther

\* So does the start of a request.
LEMMA StoredStart ==
    ASSUME Shaped, Flagged, Stored, NEW p \in Requests, NEW kind, NEW t, Start(p, kind, t)
    PROVE  Stored' /\ seen'[Web(p)] = None
<1>1. Web(p) \in Procs
  BY ProcsApart
<1>2. /\ todo' = [todo EXCEPT ![Web(p)] = Handler(p, kind, t)] /\ db' = db /\ seen' = seen
      /\ todo[Web(p)] = <<>>
  BY DEF Start, Busy
<1>3. seen[Web(p)] = None
  BY <1>1, <1>2 DEF Stored, SeenOK, AtMirror
<1> QED
  BY <1>1, <1>2, <1>3, StoredPlain DEF Shaped

------------------------------------------------------------------------------
\* What a transaction has read is still what the database holds.
Current(w) == seen[w] = None \/ (AtMirror(w) /\ seen[w] = Seeing(Command(w).t))

\* The outcomes of a mirror command: the read, the write that is lost, and the one
\* that is made.
ReadsCopy(w) ==
    todo' = todo /\ db' = db /\ diverged' = diverged /\ seen'[w] = Seeing(Command(w).t)
LosesCopy(w) ==
    /\ todo'[w] = Tail(todo[w]) /\ db' = db /\ seen'[w] = None
    /\ diverged' = diverged \cup {Command(w).t}
WritesCopy(w) ==
    LET c == Command(w) IN
    /\ todo'[w] = Tail(todo[w]) /\ seen'[w] = None
    /\ \A u \in Threads \ {c.t} : db'[u] = db[u]
    /\ \A u \in Threads \ {c.t} : u \in diverged => u \in diverged'
    /\ c.op \in {"mirror_append", "mirror_ensure"} => diverged' = diverged
    /\ c.t \in Threads =>
          /\ c.op = "mirror_ensure" => db'[c.t].rows = db[c.t].rows
          /\ c.op = "mirror_append" =>
                db'[c.t].rows = db[c.t].rows \cup {[i |-> NextIndex(db[c.t].rows), m |-> c.ms[1]]}
          /\ c.op \in {"mirror_replace", "mirror_import"} => InOrder(db'[c.t].rows) = c.ms
          /\ c.op \in {"mirror_clear", "mirror_drop"} => InOrder(db'[c.t].rows) = <<>>

\* What a commit writes, when nothing has come between it and the read.
LEMMA CommitWrites ==
    ASSUME Shaped, Stored, NEW w \in Procs, MirrorCommit(w), Current(w)
    PROVE  WritesCopy(w)
<1> DEFINE c == Command(w)
           s == seen[w]
           ins == Inserts(c, s)
           left == db[c.t].rows \ Deletes(c, s)
           after == IF c.op # "mirror_drop"
                    THEN [row |-> TRUE, rows |-> left \cup ins]
                    ELSE IF s.row = "gone" THEN db[c.t] ELSE NoThread
<1>1. /\ AtMirror(w) /\ s # None
      /\ db' = [db EXCEPT ![c.t] = after]
      /\ seen' = SeenAfter(w, c, after)
      /\ diverged' = IF Heals(w, c) THEN diverged \ {c.t} ELSE diverged
      /\ Then(w, <<>>)
  BY DEF MirrorCommit
<1>2. s = Seeing(c.t)
  BY <1>1 DEF Current
<1>3. s.rows = db[c.t].rows /\ s.next = NextIndex(db[c.t].rows) /\ s.row # "gone"
  BY <1>2 DEF Seeing
<1>4. c \in Commands /\ todo[w] \in Scripts /\ todo[w] # <<>>
  BY <1>1, HeadIsCommand DEF AtMirror, Shaped
<1>5. c.ms \in Histories /\ c.op \in MirrorOps
  BY <1>1, <1>4, OldIsHistory DEF Commands, Histories, AtMirror
<1>6. todo'[w] = Tail(todo[w])
  <2>1. todo'[w] = <<>> \o Tail(todo[w])
    BY <1>1, <1>4, ThenBecomes
  <2> QED
    BY <1>4, <2>1, HeadTail, JoinEmpty
<1>7. seen'[w] = None
  BY <1>1 DEF SeenAfter
<1>8. c.op \in {"mirror_append", "mirror_ensure"} => diverged' = diverged
  BY <1>1 DEF Heals
<1>9. \A u \in Threads \ {c.t} : u \in diverged => u \in diverged'
  BY <1>1
<1>10. \A u \in Threads \ {c.t} : db'[u] = db[u]
  <2> HIDE DEF after
  <2> QED
    BY <1>1 DEF Stored
<1>11. ASSUME c.t \in Threads
       PROVE  db'[c.t] = after
  <2> HIDE DEF after
  <2> QED
    BY <1>1, <1>11 DEF Stored
<1>12. ASSUME c.t \in Threads, c.op = "mirror_ensure"
       PROVE  db'[c.t].rows = db[c.t].rows
  <2>1. ins = {} /\ left = db[c.t].rows
    BY <1>12 DEF Inserts, Deletes
  <2>2. after.rows = db[c.t].rows
    BY <1>12, <2>1
  <2> HIDE DEF after
  <2> QED
    BY <1>11, <1>12, <2>2
<1>13. ASSUME c.t \in Threads, c.op = "mirror_append"
       PROVE  db'[c.t].rows = db[c.t].rows \cup {[i |-> NextIndex(db[c.t].rows), m |-> c.ms[1]]}
  <2>1. ins = {[i |-> NextIndex(db[c.t].rows), m |-> c.ms[1]]}
    BY <1>3, <1>13 DEF Inserts
  <2>2. left = db[c.t].rows
    BY <1>13 DEF Deletes
  <2> QED
    BY <1>11, <1>13, <2>1, <2>2
<1>14. ASSUME c.t \in Threads, c.op \in {"mirror_replace", "mirror_import"}
       PROVE  InOrder(db'[c.t].rows) = c.ms
  <2>1. ins = Snapshot(c.ms)
    BY <1>14 DEF Inserts
  <2>2. left = {}
    BY <1>3, <1>14 DEF Deletes
  <2>3. db'[c.t].rows = Snapshot(c.ms)
    BY <1>11, <1>14, <2>1, <2>2
  <2> QED
    BY <1>5, <2>3, SnapshotRows
<1>15. ASSUME c.t \in Threads, c.op \in {"mirror_clear", "mirror_drop"}
       PROVE  InOrder(db'[c.t].rows) = <<>>
  <2>1. ins = {}
    BY <1>15 DEF Inserts
  <2>2. left = {}
    BY <1>3, <1>15 DEF Deletes
  <2>3. db'[c.t].rows = {}
    BY <1>3, <1>11, <1>15, <2>1, <2>2 DEF NoThread
  <2> QED
    BY <2>3, NoRows
<1> QED
  BY <1>6, <1>7, <1>8, <1>9, <1>10, <1>12, <1>13, <1>14, <1>15 DEF WritesCopy

\* A mirror command of a process that runs alone.
LEMMA MirrorEffect ==
    ASSUME Shaped, Stored, NEW w \in Procs, Works(w), AtMirror(w), Current(w)
    PROVE  /\ redis' = redis /\ legacy' = legacy
           /\ ReadsCopy(w) \/ LosesCopy(w) \/ WritesCopy(w)
<1> DEFINE c == Command(w)
<1>1. todo[w] \in Scripts /\ todo[w] # <<>> /\ c \in Commands
  BY HeadIsCommand DEF AtMirror, Shaped
<1>2. MirrorRead(w) \/ MirrorCommit(w) \/ MirrorSkips(w) \/ MirrorConflict(w) \/ MirrorFails(w)
  BY CommandStep DEF AtMirror, Command
<1>3. redis' = redis /\ legacy' = legacy
  BY <1>2 DEF MirrorRead, MirrorCommit, MirrorSkips, MirrorConflict, MirrorFails, store
<1>4. Then(w, <<>>) => todo'[w] = Tail(todo[w])
  <2>1. Then(w, <<>>) => todo'[w] = <<>> \o Tail(todo[w])
    BY <1>1, ThenBecomes
  <2> QED
    BY <1>1, <2>1, HeadTail, JoinEmpty
<1>5. CASE MirrorRead(w)
  <2>1. todo' = todo /\ db' = db /\ diverged' = diverged /\ seen' = [seen EXCEPT ![w] = Seeing(c.t)]
    BY <1>5 DEF MirrorRead
  <2>2. seen'[w] = Seeing(c.t)
    BY <2>1 DEF Stored
  <2> QED
    BY <1>3, <2>1, <2>2 DEF ReadsCopy
<1>6. CASE MirrorCommit(w)
  BY <1>3, <1>6, CommitWrites
<1>7. CASE MirrorConflict(w) \/ MirrorFails(w)
  <2>1. Then(w, <<>>) /\ db' = db /\ seen' = [seen EXCEPT ![w] = None]
        /\ diverged' = diverged \cup {c.t}
    BY <1>7 DEF MirrorConflict, MirrorFails
  <2>2. seen'[w] = None
    BY <2>1 DEF Stored
  <2> QED
    BY <1>3, <1>4, <2>1, <2>2 DEF LosesCopy
<1>8. CASE MirrorSkips(w)
  <2>1. /\ Then(w, <<>>) /\ db' = db /\ seen' = seen /\ seen[w] = None
        /\ NothingToDo(c, Seeing(c.t))
        /\ diverged' = IF Heals(w, c) THEN diverged \ {c.t} ELSE diverged
    BY <1>8 DEF MirrorSkips
  <2>2. c.op \in {"mirror_append", "mirror_ensure"} => diverged' = diverged
    BY <2>1 DEF Heals
  <2>3. c.op # "mirror_append" /\ c.op # "mirror_replace"
    BY <2>1 DEF NothingToDo
  <2>4. c.op = "mirror_import" => InOrder(db[c.t].rows) = c.ms
    BY <2>1 DEF NothingToDo, Seeing
  <2>5. c.op \in {"mirror_clear", "mirror_drop"} => ~db[c.t].row
    BY <2>1 DEF NothingToDo, Seeing
  <2>6. ASSUME c.t \in Threads, c.op \in {"mirror_clear", "mirror_drop"}
        PROVE  InOrder(db[c.t].rows) = <<>>
    BY <2>5, <2>6, NoRows DEF Stored
  <2>7. WritesCopy(w)
    BY <1>4, <2>1, <2>2, <2>3, <2>4, <2>6 DEF WritesCopy
  <2> QED
    BY <1>3, <2>7
<1> QED
  BY <1>2, <1>5, <1>6, <1>7, <1>8

------------------------------------------------------------------------------
(* Where a request that runs alone stands. *)

Kept(t) == t \in diverged \/ DbMessages(t) = View(t)
AllKept == \A t \in Threads : Kept(t)
KeptBut(t) == \A u \in Threads \ {t} : Kept(u)
Imp(t) == t = Default => Imported

\* The import of the old layout's list, before the commands "next".
Coming(s, t, next) ==
    \/ t = Default /\ s = Cons(Do("look", Default), next)
    \/ t = Default /\ redis[Default] = <<>> /\ s = Cons(Do("legacy", Default), next)
    \/ /\ t = Default /\ redis[Default] = <<>> /\ legacy # <<>>
       /\ s = Cons(Cmd("import", Default, legacy), Cons(Touching({Default}), next))
    \/ Imp(t) /\ s = Cons(Touching({t}), next)
    \/ Imp(t) /\ s = next

\* The two copies agree and nothing is under way but the import.
Resting(s) ==
    /\ AllKept
    /\ \/ s \in Whole
       \/ \E r \in Whole : Coming(s, Default, r)
       \/ \E r \in Whole : redis[Default] = <<>> /\ s = Cons(Do("source_legacy", Default), r)
\* A message is about to be stored.
Appending(s) ==
    /\ AllKept
    /\ \E t \in Threads, m \in Messages, r \in Whole : Coming(s, t, AppendTail(t, m, r))
\* The list holds the message, the copy does not yet.
Appended(s) ==
    \E t \in Threads, m \in Messages, r \in Whole :
        LET write == Cons(Cmd("mirror_append", t, <<m>>), r) IN
        /\ s = write \/ s = Cons(Touching({t}), write)
        /\ KeptBut(t)
        /\ t \in diverged \/ (DbMessages(t) \in Histories /\ View(t) = Append(DbMessages(t), m))
\* The list is what the next mirror command writes.
SettleOps == {"mirror_clear", "mirror_drop", "mirror_replace", "mirror_import"}
Settling(s) ==
    \E c \in Commands, r \in Whole :
        /\ c.op \in SettleOps /\ c.t \in Threads /\ c.ms \in Histories
        /\ c.op \in {"mirror_clear", "mirror_drop"} => c.ms = <<>>
        /\ s = Cons(c, r) \/ \E d \in Commands : d.op \in {"touch", "zrem"} /\ s = Cons(d, Cons(c, r))
        /\ KeptBut(c.t) /\ View(c.t) = c.ms
\* A restoration pushes back message by message.
Restocking(s) ==
    \E pre \in Scripts, t \in Threads, ms \in Histories, all \in Histories, r \in Whole :
        /\ s = pre \o RefillTail(t, ms, all, r) /\ AllOps(pre, BeforePush(t))
        /\ ms # <<>> /\ redis[t] \o ms = all /\ Len(all) <= MaxHistory
        /\ t = Default => legacy = <<>>
        /\ KeptBut(t)
Phase(s) == Resting(s) \/ Appending(s) \/ Appended(s) \/ Settling(s) \/ Restocking(s)

\* The commands of the import.
LEMMA ImportCommands ==
    /\ Do("look", Default) \in Commands /\ Do("look", Default).op = "look"
    /\ Do("legacy", Default) \in Commands /\ Do("legacy", Default).op = "legacy"
    /\ Do("source_legacy", Default) \in Commands /\ Do("source_legacy", Default).op = "source_legacy"
    /\ \A t \in Threads : Touching({t}) \in Commands /\ Touching({t}).op = "touch"
    /\ Cmd("import", Default, Old) \in Commands /\ Cmd("import", Default, Old).op = "import"
    /\ Cmd("import", Default, Old).ms = Old
    /\ Default \in Threads
<1>1. Default \in Threads
  BY DEF Threads
<1>2. /\ Do("look", Default) \in Commands /\ Do("legacy", Default) \in Commands
      /\ Do("source_legacy", Default) \in Commands /\ Cmd("import", Default, Old) \in Commands
  BY <1>1, DoIsCommand DEF PlainOps, ThreadOps
<1>3. \A t \in Threads : Touching({t}) \in Commands
  BY DoIsCommand
<1> QED
  BY <1>1, <1>2, <1>3 DEF Do, Cmd, Touching

\* A command replaced by nothing, by one command, by two.
LEMMA ThenCons ==
    ASSUME Shaped, NEW w \in Procs, todo[w] # <<>>, NEW n \in Scripts, Tail(todo[w]) = n
    PROVE  /\ Then(w, <<>>) => todo'[w] = n
           /\ \A c \in Commands : Then(w, <<c>>) => todo'[w] = Cons(c, n)
           /\ \A c, d \in Commands : Then(w, <<c, d>>) => todo'[w] = Cons(c, Cons(d, n))
<1>1. \A sc : Then(w, sc) => todo'[w] = sc \o n
  BY ThenBecomes
<1>2. <<>> \o n = n
  BY JoinEmpty
<1>3. \A c : <<c>> \o n = Cons(c, n)
  BY DEF Cons
<1>4. \A c, d \in Commands : <<c, d>> \o n = Cons(c, Cons(d, n))
  BY PairCons
<1> QED
  BY <1>1, <1>2, <1>3, <1>4

\* A command that is not a mirror command leaves nothing read.
LEMMA PlainCurrent ==
    ASSUME NEW w \in Procs, Current(w), Command(w).op \notin MirrorOps, seen' = seen
    PROVE  Current(w)'
BY DEF Current, AtMirror

\* A list that changes with its copy kept.
LEMMA KeptSame ==
    ASSUME UNCHANGED copies
    PROVE  /\ \A t : Kept(t)' = Kept(t) /\ (Imp(t)' = Imp(t))
           /\ AllKept' = AllKept /\ (\A t : KeptBut(t)' = KeptBut(t))
<1>1. redis' = redis /\ legacy' = legacy /\ db' = db /\ diverged' = diverged
  BY DEF copies
<1>2. \A t : Kept(t)' = Kept(t) /\ (Imp(t)' = Imp(t))
  BY <1>1 DEF Kept, DbMessages, View, Imp, Imported
<1> QED
  BY <1>2 DEF AllKept, KeptBut

\* The import keeps the two copies as they are: the list of the old layout counts
\* as the default thread.
LEMMA ComingStep ==
    ASSUME Shaped, NEW w \in Procs, Works(w), Current(w), AllKept,
           NEW t \in Threads, NEW n \in Scripts, Coming(todo[w], t, n), todo[w] # n
    PROVE  AllKept' /\ Coming(todo[w], t, n)' /\ Current(w)'
<1> DEFINE s == todo[w]
<1>1. s # <<>> /\ s \in Scripts
  BY DEF Works, Shaped
<1>2. legacy \in {Old, <<>>} /\ redis \in [Threads -> Histories]
  BY DEF Shaped
<1>3. Default \in Threads /\ Old \in Histories
  BY OldIsHistory DEF Threads
<1>4. CASE t = Default /\ s = Cons(Do("look", Default), n)
  <2>1. Head(s).op = "look" /\ Tail(s) = n
    BY <1>4, ConsFacts, ImportCommands
  <2>2. Look(w)
    BY <2>1, CommandStep
  <2>3. UNCHANGED copies /\ seen' = seen
    BY <2>2 DEF Look, copies, store
  <2>4. Current(w)'
    BY <2>1, <2>3, PlainCurrent DEF Command, MirrorOps
  <2>5. todo'[w] = IF redis[Default] # <<>> THEN Cons(Touching({Default}), n)
                   ELSE Cons(Do("legacy", Default), n)
    BY <1>1, <1>3, <2>1, <2>2, ThenCons, ImportCommands DEF Look
  <2>6. redis[Default] # <<>> => Imp(t)
    BY DEF Imp, Imported
  <2>7. Coming(todo'[w], t, n)
    BY <1>4, <2>5, <2>6 DEF Coming
  <2>8. Coming(todo[w], t, n)'
    BY <2>3, <2>7 DEF Coming, copies, Imp, Imported
  <2> QED
    BY <2>3, <2>4, <2>8, KeptSame
<1>5. CASE t = Default /\ redis[Default] = <<>> /\ s = Cons(Do("legacy", Default), n)
  <2>1. Head(s).op = "legacy" /\ Tail(s) = n
    BY <1>5, ConsFacts, ImportCommands
  <2>2. ReadLegacy(w)
    BY <2>1, CommandStep
  <2>3. UNCHANGED copies /\ seen' = seen
    BY <2>2 DEF ReadLegacy, copies, store
  <2>4. Current(w)'
    BY <2>1, <2>3, PlainCurrent DEF Command, MirrorOps
  <2>5. todo'[w] = IF legacy = <<>> THEN n
                   ELSE Cons(Cmd("import", Default, legacy), Cons(Touching({Default}), n))
    <3>1. legacy # <<>> => legacy = Old
      BY <1>2
    <3>2. Then(w, IF legacy = <<>> THEN <<>> ELSE <<Cmd("import", Default, legacy), Touching({Default})>>)
      BY <2>2 DEF ReadLegacy
    <3>3. CASE legacy = <<>>
      BY <1>1, <2>1, <3>2, <3>3, ThenCons
    <3>4. CASE legacy # <<>>
      <4>1. Cmd("import", Default, legacy) \in Commands /\ Touching({Default}) \in Commands
        BY <3>1, <3>4, ImportCommands
      <4>2. Then(w, <<Cmd("import", Default, legacy), Touching({Default})>>)
        BY <3>2, <3>4
      <4> QED
        BY <1>1, <2>1, <3>4, <4>1, <4>2, ThenCons
    <3> QED
      BY <3>3, <3>4
  <2>6. legacy = <<>> => Imp(t)
    BY DEF Imp, Imported
  <2>7. Coming(todo'[w], t, n)
    BY <1>5, <2>5, <2>6 DEF Coming
  <2>8. Coming(todo[w], t, n)'
    BY <2>3, <2>7 DEF Coming, copies, Imp, Imported
  <2> QED
    BY <2>3, <2>4, <2>8, KeptSame
<1>6. CASE /\ t = Default /\ redis[Default] = <<>> /\ legacy # <<>>
           /\ s = Cons(Cmd("import", Default, legacy), Cons(Touching({Default}), n))
  <2>1. Cons(Touching({Default}), n) \in Scripts
    BY ConsFacts, ImportCommands
  <2>2. legacy = Old
    BY <1>2, <1>6
  <2>3. Head(s) = Cmd("import", Default, Old) /\ Tail(s) = Cons(Touching({Default}), n)
    BY <1>6, <2>1, <2>2, ConsFacts, ImportCommands
  <2>4. ImportLegacy(w)
    BY <2>3, CommandStep, ImportCommands
  <2>5. db' = db /\ seen' = seen /\ legacy' = <<>>
    BY <2>4 DEF ImportLegacy
  <2>6. Current(w)'
    BY <2>3, <2>5, PlainCurrent, ImportCommands DEF Command, MirrorOps
  <2>7. todo'[w] = Cons(Touching({Default}), n)
    BY <1>1, <2>1, <2>3, <2>4, ThenCons DEF ImportLegacy
  <2>8. Imp(t)'
    BY <2>5 DEF Imp, Imported
  <2>9. Coming(todo[w], t, n)'
    BY <1>6, <2>7, <2>8 DEF Coming
  <2>10. redis[Default] \o Command(w).ms = Old
    <3>1. Command(w).ms = Old
      BY <2>3, ImportCommands DEF Command
    <3> QED
      BY <1>3, <1>6, <3>1, HistoryFacts
  <2>11. /\ redis' = [redis EXCEPT ![Default] = Newest(Old)]
         /\ diverged' = IF Len(Old) > MaxHistory THEN diverged \cup {Default} ELSE diverged
    BY <2>4, <2>10 DEF ImportLegacy
  <2>12. ASSUME NEW u \in Threads, u # Default
         PROVE  Kept(u)'
    <3>1. redis'[u] = redis[u]
      BY <1>2, <2>11, <2>12
    <3> QED
      BY <2>5, <2>11, <2>12, <3>1 DEF AllKept, Kept, DbMessages, View
  <2>13. Kept(Default)'
    <3>1. CASE Len(Old) > MaxHistory
      BY <2>11, <3>1 DEF Kept
    <3>2. CASE ~(Len(Old) > MaxHistory)
      <4>1. Len(Old) <= MaxHistory
        BY <1>3, <3>2, HistoryFacts, ConversationAssumption
      <4>2. Newest(Old) = Old
        BY <1>3, <4>1, WholeHistory
      <4>3. redis'[Default] = Old
        BY <1>2, <1>3, <2>11, <4>2
      <4>4. View(Default)' = Old /\ View(Default) = Old
        BY <1>6, <2>2, <4>3 DEF View
      <4>5. Kept(Default)
        BY <1>3 DEF AllKept
      <4> QED
        BY <2>5, <2>11, <3>2, <4>4, <4>5 DEF Kept, DbMessages
    <3> QED
      BY <3>1, <3>2
  <2> QED
    BY <2>6, <2>9, <2>12, <2>13 DEF AllKept
<1>7. CASE Imp(t) /\ s = Cons(Touching({t}), n)
  <2> DEFINE c == Touching({t})
  <2>0. c \in Commands /\ c.op = "touch" /\ s = Cons(c, n)
    BY <1>7, ImportCommands
  <2> HIDE DEF c
  <2>1. Head(s).op = "touch" /\ Tail(s) = n
    BY <2>0, ConsFacts
  <2>2. Touch(w)
    BY <2>1, CommandStep
  <2>3. UNCHANGED copies /\ seen' = seen
    BY <2>2 DEF Touch, copies
  <2>4. Current(w)'
    BY <2>1, <2>3, PlainCurrent DEF Command, MirrorOps
  <2>5. todo'[w] = n
    BY <1>1, <2>1, <2>2, ThenCons DEF Touch
  <2>6. Imp(t)'
    BY <1>7, <2>3, KeptSame
  <2> QED
    BY <2>3, <2>4, <2>5, <2>6, KeptSame DEF Coming
<1> QED
  BY <1>4, <1>5, <1>6, <1>7 DEF Coming

\* A request at rest with whole scripts to come.
LEMMA RestsWhole ==
    ASSUME AllKept, NEW r \in Whole
    PROVE  Phase(r)
BY DEF Phase, Resting

\* The mirror command that only makes the thread row.
LEMMA EnsureRests ==
    ASSUME Shaped, Stored, NEW w \in Procs, Works(w), Current(w), AllKept,
           NEW c \in Commands, c.op = "mirror_ensure", NEW r \in Whole, todo[w] = <<c>> \o r
    PROVE  Phase(todo[w])' /\ Current(w)'
<1>1. r \in Scripts /\ todo[w] \in Whole
  BY WholeMakes, CalmWhole DEF CalmOps
<1>2. todo[w] # <<>> /\ Head(todo[w]) = c /\ Tail(todo[w]) = r
  BY <1>1, FirstOf
<1>3. Command(w) = c /\ AtMirror(w)
  BY <1>2 DEF Command, AtMirror, MirrorOps
<1>4. redis' = redis /\ legacy' = legacy
  BY <1>3, MirrorEffect
<1>5. CASE ReadsCopy(w)
  <2>1. todo' = todo /\ UNCHANGED copies /\ seen'[w] = Seeing(Command(w).t) /\ db' = db
    BY <1>4, <1>5 DEF ReadsCopy, copies
  <2>2. AllKept'
    BY <2>1, KeptSame
  <2>3. Resting(todo[w])'
    BY <1>1, <2>1, <2>2 DEF Resting
  <2>4. Current(w)'
    BY <1>3, <2>1 DEF Current, AtMirror, Seeing, Command
  <2> QED
    BY <2>3, <2>4 DEF Phase
<1>6. CASE LosesCopy(w) \/ WritesCopy(w)
  <2>1. todo'[w] = r /\ seen'[w] = None
    BY <1>2, <1>6 DEF LosesCopy, WritesCopy
  <2>2. ASSUME NEW u \in Threads
        PROVE  DbMessages(u)' = DbMessages(u) /\ (u \in diverged => u \in diverged')
    BY <1>3, <1>6 DEF LosesCopy, WritesCopy, DbMessages
  <2>3. AllKept'
    BY <1>4, <2>2 DEF AllKept, Kept, View
  <2>4. Resting(todo[w])'
    BY <2>1, <2>3 DEF Resting
  <2>5. Current(w)'
    BY <2>1 DEF Current
  <2> QED
    BY <2>4, <2>5 DEF Phase
<1> QED
  BY <1>3, <1>5, <1>6, MirrorEffect

\* The offline utility reads the list it will write.
LEMMA SourceRests ==
    ASSUME Shaped, NEW w \in Procs, Works(w), Current(w), AllKept,
           NEW c \in Commands, c.op = "source", NEW r \in Whole, todo[w] = <<c>> \o r
    PROVE  Phase(todo[w])' /\ Current(w)'
<1>1. r \in Scripts
  BY WholeMakes
<1>2. todo[w] # <<>> /\ Head(todo[w]) = c /\ Tail(todo[w]) = r
  BY <1>1, FirstOf
<1>3. c.t \in Threads
  BY CommandHolds DEF ThreadOps
<1>4. PICK p \in Requests : w = Web(p) /\ Source(p)
  BY <1>2, CommandStep
<1>5. UNCHANGED copies /\ seen' = seen
  BY <1>4 DEF Source, copies, store
<1>6. Current(w)'
  BY <1>2, <1>5, PlainCurrent DEF Command, MirrorOps
<1>7. Then(w, IF redis[c.t] # <<>> THEN <<Cmd("mirror_import", c.t, redis[c.t])>>
              ELSE IF c.t = Default THEN <<Do("source_legacy", c.t)>> ELSE <<>>)
  BY <1>2, <1>4 DEF Source, Command
<1>8. AllKept'
  BY <1>5, KeptSame
<1>9. CASE redis[c.t] # <<>>
  <2> DEFINE d == Cmd("mirror_import", c.t, redis[c.t])
  <2>1. redis[c.t] \in Histories
    BY <1>3 DEF Shaped
  <2>2. d \in Commands /\ d.op = "mirror_import" /\ d.t = c.t /\ d.ms = redis[c.t]
    <3>1. d \in Commands
      BY <1>3, <2>1, DoIsCommand DEF MirrorOps
    <3> QED
      BY <3>1 DEF Cmd
  <2> HIDE DEF d
  <2>3. todo'[w] = Cons(d, r)
    BY <1>1, <1>2, <1>7, <1>9, <2>2, ThenCons DEF d
  <2>4. PICK e \in Commands : e = d
    BY <2>2
  <2>5. (View(c.t) = redis[c.t])'
    BY <1>5, <1>9 DEF View, copies
  <2>6. KeptBut(c.t)'
    BY <1>8 DEF AllKept, KeptBut
  <2>7. /\ e.op \in SettleOps /\ e.t = c.t /\ e.ms \in Histories
        /\ e.op \notin {"mirror_clear", "mirror_drop"} /\ e.ms = redis'[c.t]
    BY <1>5, <2>1, <2>2, <2>4 DEF SettleOps, copies
  <2>8. todo'[w] = Cons(e, r)
    BY <2>3, <2>4
  <2>9. Settling(todo[w])'
    BY <1>3, <2>5, <2>6, <2>7, <2>8 DEF Settling
  <2> QED
    BY <1>6, <2>9 DEF Phase
<1>10. CASE redis[c.t] = <<>> /\ c.t = Default
  <2>1. todo'[w] = Cons(Do("source_legacy", Default), r)
    <3> DEFINE d == Do("source_legacy", Default)
    <3>1. Then(w, <<d>>) /\ d \in Commands
      BY <1>7, <1>10, ImportCommands
    <3> HIDE DEF d
    <3>2. todo'[w] = Cons(d, r)
      BY <1>1, <1>2, <3>1, ThenCons
    <3> QED
      BY <3>2 DEF d
  <2>2. redis'[Default] = <<>>
    BY <1>5, <1>10 DEF copies
  <2>3. Resting(todo[w])'
    BY <1>8, <2>1, <2>2 DEF Resting
  <2> QED
    BY <1>6, <2>3 DEF Phase
<1>11. CASE redis[c.t] = <<>> /\ c.t # Default
  <2>1. todo'[w] = r
    BY <1>1, <1>2, <1>7, <1>11, ThenCons
  <2>2. Resting(todo[w])'
    BY <1>8, <2>1 DEF Resting
  <2> QED
    BY <1>6, <2>2 DEF Phase
<1> QED
  BY <1>9, <1>10, <1>11

\* The list of the old layout, read by the offline utility.
LEMMA SourceLegacyRests ==
    ASSUME Shaped, NEW w \in Procs, Works(w), Current(w), AllKept, redis[Default] = <<>>,
           NEW r \in Whole, todo[w] = Cons(Do("source_legacy", Default), r)
    PROVE  Phase(todo[w])' /\ Current(w)'
<1>1. r \in Scripts
  BY WholeMakes
<1>2. todo[w] # <<>> /\ Head(todo[w]).op = "source_legacy" /\ Tail(todo[w]) = r
  BY <1>1, ConsFacts, ImportCommands
<1>3. PICK p \in Requests : w = Web(p) /\ SourceLegacy(p)
  BY <1>2, CommandStep
<1>4. UNCHANGED copies /\ seen' = seen
  BY <1>3 DEF SourceLegacy, copies, store
<1>5. Current(w)'
  BY <1>2, <1>4, PlainCurrent DEF Command, MirrorOps
<1>6. Then(w, IF legacy = <<>> THEN <<>> ELSE <<Cmd("mirror_import", Default, legacy)>>)
  BY <1>3 DEF SourceLegacy
<1>7. AllKept'
  BY <1>4, KeptSame
<1>8. CASE legacy = <<>>
  <2>1. todo'[w] = r
    BY <1>1, <1>2, <1>6, <1>8, ThenCons
  <2>2. Resting(todo[w])'
    BY <1>7, <2>1 DEF Resting
  <2> QED
    BY <1>5, <2>2 DEF Phase
<1>9. CASE legacy # <<>>
  <2> DEFINE d == Cmd("mirror_import", Default, legacy)
  <2>1. legacy \in Histories /\ Default \in Threads
    BY OldIsHistory DEF Shaped, Threads
  <2>2. d \in Commands /\ d.op = "mirror_import" /\ d.t = Default /\ d.ms = legacy
    <3>1. d \in Commands
      BY <2>1, DoIsCommand DEF MirrorOps
    <3> QED
      BY <3>1 DEF Cmd
  <2> HIDE DEF d
  <2>3. todo'[w] = Cons(d, r)
    BY <1>1, <1>2, <1>6, <1>9, <2>2, ThenCons DEF d
  <2>4. (View(Default) = legacy)'
    BY <1>4 DEF View, copies
  <2>5. KeptBut(Default)'
    BY <1>7 DEF AllKept, KeptBut
  <2>6. PICK e \in Commands : e = d
    BY <2>2
  <2>7. /\ e.op \in SettleOps /\ e.t = Default /\ e.ms \in Histories
        /\ e.op \notin {"mirror_clear", "mirror_drop"} /\ e.ms = legacy'
    BY <1>4, <2>1, <2>2, <2>6 DEF SettleOps, copies
  <2>8. todo'[w] = Cons(e, r)
    BY <2>3, <2>6
  <2>9. Settling(todo[w])'
    BY <2>1, <2>4, <2>5, <2>7, <2>8 DEF Settling
  <2> QED
    BY <1>5, <2>9 DEF Phase
<1> QED
  BY <1>8, <1>9

\* The deletion of a list: the others stay as they are.
LEMMA DeleteRests ==
    ASSUME Shaped, NEW w \in Procs, Works(w), Current(w), AllKept,
           NEW t \in Threads, NEW n \in Scripts, todo[w] = Cons(Do("del", t), n)
    PROVE  /\ todo'[w] = n /\ Current(w)' /\ KeptBut(t)'
           /\ redis'[t] = <<>> /\ (t = Default => legacy' = <<>>) /\ View(t)' = <<>>
<1>1. Do("del", t) \in Commands /\ Do("del", t).op = "del" /\ Do("del", t).t = t
  <2>1. Do("del", t) \in Commands
    BY DoIsCommand DEF ThreadOps
  <2> QED
    BY <2>1 DEF Do, Cmd
<1>2. todo[w] # <<>> /\ Head(todo[w]) = Do("del", t) /\ Tail(todo[w]) = n
  BY <1>1, ConsFacts
<1>3. Delete(w) /\ Command(w).t = t /\ Command(w).op = "del"
  BY <1>1, <1>2, CommandStep DEF Command
<1>4. /\ redis' = [redis EXCEPT ![t] = <<>>] /\ legacy' = IF t = Default THEN <<>> ELSE legacy
      /\ Then(w, <<>>) /\ db' = db /\ seen' = seen /\ diverged' = diverged
  BY <1>3 DEF Delete
<1>5. todo'[w] = n
  BY <1>2, <1>4, ThenCons
<1>6. Current(w)'
  BY <1>3, <1>4, PlainCurrent DEF MirrorOps
<1>7. redis'[t] = <<>> /\ \A u \in Threads \ {t} : redis'[u] = redis[u]
  BY <1>4 DEF Shaped
<1>8. View(t)' = <<>>
  BY <1>4, <1>7 DEF View
<1>9. ASSUME NEW u \in Threads \ {t}
      PROVE  Kept(u)'
  <2>1. View(u)' = View(u)
    BY <1>4, <1>7 DEF View
  <2> QED
    BY <1>4, <2>1 DEF AllKept, Kept, DbMessages
<1> QED
  BY <1>4, <1>5, <1>6, <1>7, <1>8, <1>9 DEF KeptBut

\* A deletion that is followed by the mirror command for an empty history.
LEMMA DeleteSettles ==
    ASSUME Shaped, NEW w \in Procs, Works(w), Current(w), AllKept,
           NEW t \in Threads, NEW c \in Commands, NEW d \in Commands, NEW r \in Whole,
           c.op \in SettleOps, c.t = t, c.ms = <<>>, d.op \in {"touch", "zrem"},
           todo[w] = Cons(Do("del", t), Cons(d, Cons(c, r)))
    PROVE  Phase(todo[w])' /\ Current(w)'
<1>1. Cons(d, Cons(c, r)) \in Scripts
  BY ConsFacts, WholeMakes
<1>2. /\ todo'[w] = Cons(d, Cons(c, r)) /\ Current(w)' /\ KeptBut(t)' /\ View(t)' = <<>>
  BY <1>1, DeleteRests
<1>3. <<>> \in Histories
  BY OldIsHistory
<1>4. Settling(todo[w])'
  BY <1>2, <1>3 DEF Settling
<1> QED
  BY <1>2, <1>4 DEF Phase

\* Clearing, dropping and replacing a thread begin with the deletion.
LEMMA BlockDeletes ==
    ASSUME Shaped, NEW w \in Procs, Works(w), Current(w), AllKept,
           NEW t \in Threads, NEW r \in Whole,
           \/ todo[w] = WriterClear(t) \o r \/ todo[w] = WriterDrop(t) \o r
           \/ todo[w] = WriterReplace(t, <<>>) \o r
    PROVE  Phase(todo[w])' /\ Current(w)'
<1>1. r \in Scripts
  BY WholeMakes
<1>2. /\ Do("mirror_clear", t) \in Commands /\ Do("mirror_clear", t).op = "mirror_clear"
      /\ Do("mirror_clear", t).t = t /\ Do("mirror_clear", t).ms = <<>>
      /\ Do("mirror_drop", t) \in Commands /\ Do("mirror_drop", t).op = "mirror_drop"
      /\ Do("mirror_drop", t).t = t /\ Do("mirror_drop", t).ms = <<>>
      /\ Do("mirror_replace", t) \in Commands /\ Do("mirror_replace", t).op = "mirror_replace"
      /\ Do("mirror_replace", t).t = t /\ Do("mirror_replace", t).ms = <<>>
      /\ Do("zrem", t) \in Commands /\ Do("zrem", t).op = "zrem"
      /\ Touching({t}) \in Commands /\ Touching({t}).op = "touch"
  <2>1. /\ Do("mirror_clear", t) \in Commands /\ Do("mirror_drop", t) \in Commands
        /\ Do("mirror_replace", t) \in Commands /\ Do("zrem", t) \in Commands
        /\ Touching({t}) \in Commands
    BY DoIsCommand DEF MirrorOps, PlainOps
  <2> QED
    BY <2>1 DEF Do, Cmd, Touching
<1>3. "mirror_clear" \in SettleOps /\ "mirror_drop" \in SettleOps /\ "mirror_replace" \in SettleOps
  BY DEF SettleOps
<1>4. CASE todo[w] = WriterClear(t) \o r
  <2>1. todo[w] = Cons(Do("del", t), Cons(Touching({t}), Cons(Do("mirror_clear", t), r)))
    BY <1>1, <1>4, BlockCons
  <2> QED
    BY <1>2, <1>3, <2>1, DeleteSettles
<1>5. CASE todo[w] = WriterDrop(t) \o r
  <2>1. todo[w] = Cons(Do("del", t), Cons(Do("zrem", t), Cons(Do("mirror_drop", t), r)))
    BY <1>1, <1>5, BlockCons
  <2> QED
    BY <1>2, <1>3, <2>1, DeleteSettles
<1>6. CASE todo[w] = WriterReplace(t, <<>>) \o r
  <2>1. todo[w] = Cons(Do("del", t), Cons(Touching({t}), Cons(Do("mirror_replace", t), r)))
    BY <1>1, <1>6, BlockCons DEF Do
  <2> QED
    BY <1>2, <1>3, <2>1, DeleteSettles
<1> QED
  BY <1>4, <1>5, <1>6

\* A restoration of messages.
LEMMA ReplaceDeletes ==
    ASSUME Shaped, NEW w \in Procs, Works(w), Current(w), AllKept,
           NEW t \in Threads, NEW r \in Whole, NEW ms \in Histories, ms # <<>>, Len(ms) <= MaxHistory,
           todo[w] = WriterReplace(t, ms) \o r
    PROVE  Phase(todo[w])' /\ Current(w)'
<1> DEFINE tail == RefillTail(t, ms, ms, r)
           pre == <<Touching({t})>> \o Migrate(t)
<1>1. r \in Scripts
  BY WholeMakes
<1>2. tail \in Scripts /\ Touching({t}) \in Commands /\ Migrate(t) \in Scripts
  BY <1>1, TailScripts, StoreScripts
<1>3. pre \in Scripts /\ <<Touching({t})>> \in Scripts
  BY <1>2, Short, Joined
<1>4. todo[w] = Cons(Do("del", t), Cons(Touching({t}), Migrate(t) \o tail))
  BY <1>1, BlockCons
<1> HIDE DEF tail
<1>5. Cons(Touching({t}), Migrate(t) \o tail) = pre \o tail
  <2>1. (<<Touching({t})>> \o Migrate(t)) \o tail = Cons(Touching({t}), Migrate(t) \o tail)
    BY <1>2, JoinCons
  <2> QED
    BY <2>1
<1>6. pre \o tail \in Scripts
  BY <1>2, <1>3, Joined
<1>7. AllOps(pre, BeforePush(t))
  <2>1. AllOps(<<Touching({t})>>, BeforePush(t))
    BY OpsShort DEF Touching, Cmd, BeforePush
  <2>2. AllOps(Migrate(t), BeforePush(t))
    <3>1. CASE t = Default
      <4>1. {"look"} \subseteq BeforePush(t)
        BY <3>1 DEF BeforePush
      <4> QED
        BY <4>1, StoreOps, OpsMore
    <3>2. CASE t # Default
      BY <3>2, OpsShort DEF Migrate
    <3> QED
      BY <3>1, <3>2
  <2> QED
    BY <1>2, <1>3, <2>1, <2>2, OpsJoin
<1> HIDE DEF pre
<1>8. /\ todo'[w] = pre \o tail /\ Current(w)' /\ KeptBut(t)'
      /\ redis'[t] = <<>> /\ (t = Default => legacy' = <<>>)
  <2> DEFINE n == pre \o tail
  <2>1. todo[w] = Cons(Do("del", t), n) /\ n \in Scripts
    BY <1>4, <1>5, <1>6
  <2> HIDE DEF n
  <2>2. /\ todo'[w] = n /\ Current(w)' /\ KeptBut(t)'
        /\ redis'[t] = <<>> /\ (t = Default => legacy' = <<>>)
    BY <2>1, DeleteRests
  <2> QED
    BY <2>2 DEF n
<1>9. redis'[t] \o ms = ms
  BY <1>8, HistoryFacts
<1>10. Restocking(todo[w])'
  BY <1>3, <1>7, <1>8, <1>9 DEF Restocking, tail
<1> QED
  BY <1>8, <1>10 DEF Phase

\* The message is stored: the list is one message ahead of its copy, or was trimmed.
LEMMA AppendPush ==
    ASSUME Shaped, NEW w \in Procs, Works(w), Current(w), AllKept,
           NEW t \in Threads, Imp(t), NEW m \in Messages, NEW r \in Whole,
           todo[w] = AppendTail(t, m, r)
    PROVE  Appended(todo[w])' /\ Current(w)'
<1> DEFINE write == Cons(Cmd("mirror_append", t, <<m>>), r)
           push == Cmd("push", t, <<m>>)
           n == Cons(Touching({t}), write)
           full == Append(redis[t], m)
<1>1. r \in Scripts
  BY WholeMakes
<1>2. /\ push \in Commands /\ Cmd("mirror_append", t, <<m>>) \in Commands /\ Touching({t}) \in Commands
      /\ write \in Scripts /\ n \in Scripts
  BY <1>1, TailScripts, ConsFacts
<1>3. todo[w] # <<>> /\ Head(todo[w]) = push /\ Tail(todo[w]) = n
  <2>1. todo[w] = Cons(push, n)
    BY DEF AppendTail
  <2> HIDE DEF push, n
  <2> QED
    BY <1>2, <2>1, ConsFacts
<1>4. push.op = "push" /\ push.t = t /\ push.ms = <<m>>
  BY DEF Cmd
<1> HIDE DEF push, write
<1>5. Push(w) /\ Command(w) = push
  BY <1>3, <1>4, CommandStep DEF Command
<1>6. Head(push.ms) = m /\ Tail(push.ms) = <<>>
  BY <1>4
<1>7. /\ redis' = [redis EXCEPT ![t] = Newest(full)]
      /\ diverged' = IF Len(full) > MaxHistory THEN diverged \cup {t} ELSE diverged
      /\ Then(w, <<>>) /\ legacy' = legacy /\ db' = db /\ seen' = seen
  BY <1>4, <1>5, <1>6 DEF Push
<1>8. todo'[w] = n
  BY <1>2, <1>3, <1>7, ThenCons
<1>9. Current(w)'
  BY <1>4, <1>5, <1>7, PlainCurrent DEF MirrorOps
<1>10. redis'[t] = Newest(full) /\ \A u \in Threads \ {t} : redis'[u] = redis[u]
  BY <1>7 DEF Shaped
<1>11. KeptBut(t)'
  <2> SUFFICES ASSUME NEW u \in Threads \ {t}
               PROVE  Kept(u)'
    BY DEF KeptBut
  <2>1. View(u)' = View(u)
    BY <1>7, <1>10 DEF View
  <2> QED
    BY <1>7, <2>1 DEF AllKept, Kept, DbMessages
<1>12. redis[t] \in Histories /\ full \in Histories /\ Len(full) \in Nat /\ full # <<>>
  <2>1. redis[t] \in Histories
    BY DEF Shaped
  <2>2. full \in Histories /\ Len(full) = Len(redis[t]) + 1 /\ Len(redis[t]) \in Nat
    BY <2>1, HistoryFacts
  <2>3. Len(<<>>) = 0
    OBVIOUS
  <2> HIDE DEF full
  <2> QED
    BY <2>1, <2>2, <2>3
<1>13. (t \in diverged \/ (DbMessages(t) \in Histories /\ View(t) = Append(DbMessages(t), m)))'
  <2>1. CASE Len(full) > MaxHistory
    BY <1>7, <2>1
  <2>2. CASE t \in diverged
    BY <1>7, <2>2
  <2>3. CASE ~(Len(full) > MaxHistory) /\ t \notin diverged
    <3>1. redis'[t] = full
      <4>1. Len(full) <= MaxHistory
        BY <1>12, <2>3, ConversationAssumption
      <4> QED
        BY <1>10, <1>12, <4>1, WholeHistory
    <3>2. View(t)' = full
      BY <1>12, <3>1 DEF View
    <3>3. View(t) = redis[t]
      BY DEF View, Imp, Imported
    <3>4. DbMessages(t) = redis[t]
      BY <2>3, <3>3 DEF AllKept, Kept
    <3>5. DbMessages(t)' = redis[t]
      BY <1>7, <3>4 DEF DbMessages
    <3> QED
      BY <1>12, <3>2, <3>5
  <2> QED
    BY <2>1, <2>2, <2>3
<1> QED
  BY <1>8, <1>9, <1>11, <1>13 DEF Appended, write

\* A message about to be stored.
LEMMA AppendingStep ==
    ASSUME Shaped, NEW w \in Procs, Works(w), Current(w), Appending(todo[w])
    PROVE  Phase(todo[w])' /\ Current(w)'
<1>1. PICK t \in Threads, m \in Messages, r \in Whole : Coming(todo[w], t, AppendTail(t, m, r))
  BY DEF Appending
<1> DEFINE n == AppendTail(t, m, r)
<1>2. n \in Scripts
  BY WholeMakes, TailScripts
<1>3. AllKept
  BY DEF Appending
<1> HIDE DEF n
<1>4. CASE todo[w] # n
  <2>1. AllKept' /\ Coming(todo[w], t, n)' /\ Current(w)'
    BY <1>1, <1>2, <1>3, <1>4, ComingStep DEF n
  <2> QED
    BY <2>1 DEF Phase, Appending, n
<1>5. CASE todo[w] = n
  <2>1. Imp(t)
    <3> DEFINE push == Cmd("push", t, <<m>>)
               after == Cons(Touching({t}), Cons(Cmd("mirror_append", t, <<m>>), r))
    <3>1. push \in Commands /\ push.op = "push" /\ after \in Scripts /\ n = Cons(push, after)
      <4>1. push \in Commands
        BY WholeMakes, TailScripts
      <4>2. after \in Scripts
        BY WholeMakes, TailScripts, ConsFacts
      <4> QED
        BY <4>1, <4>2 DEF Cmd, n, AppendTail
    <3> HIDE DEF push, after
    <3>2. Head(n).op = "push"
      BY <3>1, ConsFacts
    <3>3. /\ Head(Cons(Do("look", Default), n)).op = "look"
          /\ Head(Cons(Do("legacy", Default), n)).op = "legacy"
      BY <1>2, ConsFacts, ImportCommands
    <3>4. Cons(Touching({Default}), n) \in Scripts /\ legacy \in {Old, <<>>}
      BY <1>2, ConsFacts, ImportCommands DEF Shaped
    <3>5. legacy # <<>> => Head(Cons(Cmd("import", Default, legacy), Cons(Touching({Default}), n))).op = "import"
      BY <3>4, ConsFacts, ImportCommands
    <3> QED
      BY <1>1, <1>5, <3>2, <3>3, <3>5 DEF Coming, n
  <2> QED
    BY <1>3, <1>5, <2>1, AppendPush DEF Phase, n
<1> QED
  BY <1>4, <1>5

\* What a registration before a mirror command leaves.
LEMMA TouchFirst ==
    ASSUME Shaped, NEW w \in Procs, Works(w), Current(w), NEW d \in Commands,
           d.op \in {"touch", "zrem"}, NEW n \in Scripts, todo[w] = Cons(d, n)
    PROVE  UNCHANGED copies /\ todo'[w] = n /\ Current(w)'
<1>1. todo[w] # <<>> /\ Head(todo[w]) = d /\ Tail(todo[w]) = n
  BY ConsFacts
<1>2. Touch(w) \/ ZRem(w)
  BY <1>1, CommandStep
<1>3. UNCHANGED copies /\ seen' = seen /\ Then(w, <<>>)
  BY <1>2 DEF Touch, ZRem, copies
<1> QED
  BY <1>1, <1>3, ThenCons, PlainCurrent DEF Command, MirrorOps

\* A mirror command at the head of a script.
LEMMA MirrorFirst ==
    ASSUME Shaped, Stored, NEW w \in Procs, Works(w), Current(w), NEW c \in Commands,
           c.op \in MirrorOps, c.t \in Threads, NEW r \in Scripts, todo[w] = Cons(c, r), KeptBut(c.t)
    PROVE  /\ Command(w) = c /\ redis' = redis /\ legacy' = legacy /\ Current(w)'
           /\ ReadsCopy(w) => todo'[w] = todo[w] /\ UNCHANGED copies
           /\ ~ReadsCopy(w) => todo'[w] = r /\ KeptBut(c.t)' /\ (c.t \in diverged' \/ WritesCopy(w))
           /\ ReadsCopy(w) \/ LosesCopy(w) \/ WritesCopy(w)
<1>1. todo[w] # <<>> /\ Head(todo[w]) = c /\ Tail(todo[w]) = r
  BY ConsFacts
<1>2. Command(w) = c /\ AtMirror(w)
  BY <1>1 DEF Command, AtMirror
<1>3. /\ redis' = redis /\ legacy' = legacy
      /\ ReadsCopy(w) \/ LosesCopy(w) \/ WritesCopy(w)
  BY <1>2, MirrorEffect
<1>4. ReadsCopy(w) => todo'[w] = todo[w] /\ UNCHANGED copies /\ Current(w)'
  <2> SUFFICES ASSUME ReadsCopy(w)
               PROVE  todo'[w] = todo[w] /\ UNCHANGED copies /\ Current(w)'
    OBVIOUS
  <2>1. todo' = todo /\ db' = db /\ diverged' = diverged /\ seen'[w] = Seeing(Command(w).t)
    BY DEF ReadsCopy
  <2>2. Current(w)'
    BY <1>2, <2>1 DEF Current, AtMirror, Seeing, Command
  <2> QED
    BY <1>3, <2>1, <2>2 DEF copies
<1>5. LosesCopy(w) \/ WritesCopy(w) => /\ todo'[w] = r /\ KeptBut(c.t)' /\ Current(w)'
                                       /\ c.t \in diverged' \/ WritesCopy(w)
  <2> SUFFICES ASSUME LosesCopy(w) \/ WritesCopy(w)
               PROVE  todo'[w] = r /\ KeptBut(c.t)' /\ Current(w)' /\ (c.t \in diverged' \/ WritesCopy(w))
    OBVIOUS
  <2>1. todo'[w] = r /\ seen'[w] = None /\ (c.t \in diverged' \/ WritesCopy(w))
    BY <1>1, <1>2 DEF LosesCopy, WritesCopy
  <2>2. ASSUME NEW u \in Threads \ {c.t}
        PROVE  Kept(u)'
    <3>1. db'[u] = db[u] /\ (u \in diverged => u \in diverged')
      BY <1>2 DEF LosesCopy, WritesCopy
    <3> QED
      BY <1>3, <3>1 DEF KeptBut, Kept, DbMessages, View
  <2> QED
    BY <2>1, <2>2 DEF KeptBut, Current
<1> QED
  BY <1>2, <1>3, <1>4, <1>5

\* The message reaches the copy, or is lost and the thread counts as diverged.
LEMMA AppendedStep ==
    ASSUME Shaped, Stored, NEW w \in Procs, Works(w), Current(w), Appended(todo[w])
    PROVE  Phase(todo[w])' /\ Current(w)'
<1>1. PICK t \in Threads, m \in Messages, r \in Whole :
        LET write == Cons(Cmd("mirror_append", t, <<m>>), r) IN
        /\ todo[w] = write \/ todo[w] = Cons(Touching({t}), write)
        /\ KeptBut(t)
        /\ t \in diverged \/ (DbMessages(t) \in Histories /\ View(t) = Append(DbMessages(t), m))
  BY DEF Appended
<1> DEFINE c == Cmd("mirror_append", t, <<m>>)
           write == Cons(c, r)
<1>2. r \in Scripts /\ c \in Commands /\ Touching({t}) \in Commands
  BY WholeMakes, TailScripts
<1>3. write \in Scripts
  BY <1>2, ConsFacts
<1>4. c.op = "mirror_append" /\ c.t = t /\ c.ms = <<m>> /\ c.ms[1] = m
  BY DEF Cmd
<1>5. ASSUME UNCHANGED copies
      PROVE  /\ KeptBut(t)'
             /\ (t \in diverged \/ (DbMessages(t) \in Histories /\ View(t) = Append(DbMessages(t), m)))'
  <2>1. KeptBut(t)'
    BY <1>1, <1>5, KeptSame
  <2> QED
    BY <1>1, <1>5, <2>1 DEF DbMessages, View, copies
<1> HIDE DEF c
<1>6. CASE todo[w] = Cons(Touching({t}), write)
  <2>1. UNCHANGED copies /\ todo'[w] = write /\ Current(w)'
    <3>1. Touching({t}).op = "touch"
      BY DEF Touching, Cmd
    <3> HIDE DEF write
    <3> QED
      BY <1>2, <1>3, <1>6, <3>1, TouchFirst
  <2>2. Appended(todo[w])'
    BY <1>5, <2>1 DEF Appended, c
  <2> QED
    BY <2>1, <2>2 DEF Phase
<1>7. CASE todo[w] = write
  <2>1. c.op \in MirrorOps /\ c.t \in Threads /\ KeptBut(c.t)
    BY <1>1, <1>4 DEF MirrorOps
  <2>2. /\ Command(w) = c /\ redis' = redis /\ legacy' = legacy /\ Current(w)'
        /\ ReadsCopy(w) => todo'[w] = todo[w] /\ UNCHANGED copies
        /\ ~ReadsCopy(w) => todo'[w] = r /\ KeptBut(c.t)' /\ (c.t \in diverged' \/ WritesCopy(w))
    BY <1>2, <1>7, <2>1, MirrorFirst
  <2>3. CASE ReadsCopy(w)
    <3>1. Appended(todo[w])'
      BY <1>5, <1>7, <2>2, <2>3 DEF Appended, c
    <3> QED
      BY <2>2, <3>1 DEF Phase
  <2>4. CASE ~ReadsCopy(w)
    <3>1. Kept(t)'
      <4>1. CASE t \in diverged'
        BY <4>1 DEF Kept
      <4>2. CASE WritesCopy(w) /\ t \notin diverged'
        <5>1. t \notin diverged
          BY <1>4, <2>2, <4>2 DEF WritesCopy
        <5>2. DbMessages(t) \in Histories /\ View(t) = Append(DbMessages(t), m)
          BY <1>1, <5>1
        <5>3. db'[t].rows = db[t].rows \cup {[i |-> NextIndex(db[t].rows), m |-> m]}
          BY <1>4, <2>2, <4>2 DEF WritesCopy
        <5>4. InOrder(db'[t].rows) = Append(InOrder(db[t].rows), m)
          BY <5>2, <5>3, AppendRow DEF Stored, DbMessages
        <5>5. View(t)' = View(t)
          BY <2>2 DEF View
        <5> QED
          BY <5>2, <5>4, <5>5 DEF Kept, DbMessages
      <4> QED
        BY <1>4, <2>2, <2>4, <4>1, <4>2
    <3>2. AllKept'
      BY <1>4, <2>2, <2>4, <3>1 DEF AllKept, KeptBut
    <3>3. Resting(todo[w])'
      BY <2>2, <2>4, <3>2 DEF Resting
    <3> QED
      BY <2>2, <3>3 DEF Phase
  <2> QED
    BY <2>3, <2>4
<1> QED
  BY <1>1, <1>6, <1>7 DEF c

\* The copy becomes what the list is.
LEMMA SettlingStep ==
    ASSUME Shaped, Stored, NEW w \in Procs, Works(w), Current(w), Settling(todo[w])
    PROVE  Phase(todo[w])' /\ Current(w)'
<1>1. PICK c \in Commands, r \in Whole :
        /\ c.op \in SettleOps /\ c.t \in Threads /\ c.ms \in Histories
        /\ c.op \in {"mirror_clear", "mirror_drop"} => c.ms = <<>>
        /\ \/ todo[w] = Cons(c, r)
           \/ \E d \in Commands : d.op \in {"touch", "zrem"} /\ todo[w] = Cons(d, Cons(c, r))
        /\ KeptBut(c.t) /\ View(c.t) = c.ms
  BY DEF Settling
<1>2. r \in Scripts /\ Cons(c, r) \in Scripts
  BY WholeMakes, ConsFacts
<1>3. ASSUME UNCHANGED copies
      PROVE  KeptBut(c.t)' /\ View(c.t)' = c.ms
  <2>1. KeptBut(c.t)'
    BY <1>1, <1>3, KeptSame
  <2> QED
    BY <1>1, <1>3, <2>1 DEF View, copies
<1>4. ASSUME NEW d \in Commands, d.op \in {"touch", "zrem"}, todo[w] = Cons(d, Cons(c, r))
      PROVE  Phase(todo[w])' /\ Current(w)'
  <2>1. UNCHANGED copies /\ todo'[w] = Cons(c, r) /\ Current(w)'
    BY <1>2, <1>4, TouchFirst
  <2>2. Settling(todo[w])'
    BY <1>1, <1>3, <2>1 DEF Settling
  <2> QED
    BY <2>1, <2>2 DEF Phase
<1>5. CASE todo[w] = Cons(c, r)
  <2>1. c.op \in MirrorOps
    BY <1>1 DEF MirrorOps, SettleOps
  <2>2. /\ Command(w) = c /\ redis' = redis /\ legacy' = legacy /\ Current(w)'
        /\ ReadsCopy(w) => todo'[w] = todo[w] /\ UNCHANGED copies
        /\ ~ReadsCopy(w) => todo'[w] = r /\ KeptBut(c.t)' /\ (c.t \in diverged' \/ WritesCopy(w))
    BY <1>1, <1>2, <1>5, <2>1, MirrorFirst
  <2>3. CASE ReadsCopy(w)
    <3>1. Settling(todo[w])'
      BY <1>1, <1>3, <1>5, <2>2, <2>3 DEF Settling
    <3> QED
      BY <2>2, <3>1 DEF Phase
  <2>4. CASE ~ReadsCopy(w)
    <3>1. View(c.t)' = c.ms
      BY <1>1, <2>2 DEF View
    <3>2. WritesCopy(w) => InOrder(db'[c.t].rows) = c.ms
      BY <1>1, <2>2 DEF WritesCopy, SettleOps
    <3>3. AllKept'
      BY <2>2, <2>4, <3>1, <3>2 DEF AllKept, KeptBut, Kept, DbMessages
    <3>4. Resting(todo[w])'
      BY <2>2, <2>4, <3>3 DEF Resting
    <3> QED
      BY <2>2, <3>4 DEF Phase
  <2> QED
    BY <2>3, <2>4
<1> QED
  BY <1>1, <1>4, <1>5

\* Between the deletion and a push of a restoration.
LEMMA RestockOn ==
    ASSUME Shaped, NEW w \in Procs, Works(w), Current(w),
           NEW pre \in Scripts, NEW t \in Threads, NEW ms \in Histories, NEW all \in Histories,
           NEW r \in Whole, todo[w] = pre \o RefillTail(t, ms, all, r), AllOps(pre, BeforePush(t)),
           ms # <<>>, redis[t] \o ms = all, Len(all) <= MaxHistory,
           t = Default => legacy = <<>>, KeptBut(t), pre # <<>>
    PROVE  Restocking(todo[w])' /\ Current(w)'
<1> DEFINE suf == RefillTail(t, ms, all, r)
           ops == BeforePush(t)
<1>1. suf \in Scripts
  BY WholeMakes, TailScripts
<1> HIDE DEF suf
<1>2. todo[w] # <<>> /\ Head(todo[w]) = Head(pre) /\ Tail(todo[w]) = Tail(pre) \o suf
  <2>1. pre \o suf # <<>> /\ Head(pre \o suf) = Head(pre) /\ Tail(pre \o suf) = Tail(pre) \o suf
    BY <1>1, JoinTail
  <2>2. todo[w] = pre \o suf
    BY DEF suf
  <2> QED
    BY <2>1, <2>2
<1>3. Head(pre).op \in ops /\ AllOps(Tail(pre), ops) /\ Tail(pre) \in Scripts
  BY OpsTail, HeadTail
<1>4. /\ Command(w).op \notin MirrorOps
      /\ Touch(w) \/ (t = Default /\ legacy = <<>> /\ (Look(w) \/ ReadLegacy(w)))
  BY <1>2, <1>3, CommandStep DEF BeforePush, Command, MirrorOps
<1>5. UNCHANGED copies /\ seen' = seen
  BY <1>4 DEF Touch, Look, ReadLegacy, store, copies
<1>6. Current(w)'
  BY <1>4, <1>5, PlainCurrent
<1>7. \E sc \in Scripts : Then(w, sc) /\ AllOps(sc, ops)
  <2>1. <<>> \in Scripts /\ AllOps(<<>>, ops)
    BY Short, OpsShort
  <2>2. CASE Touch(w)
    BY <2>1, <2>2 DEF Touch
  <2>3. CASE t = Default /\ Look(w)
    <3>1. /\ Touching({Default}) \in Commands /\ Touching({Default}).op \in ops
          /\ Do("legacy", Default) \in Commands /\ Do("legacy", Default).op \in ops
      BY <2>3, ImportCommands DEF BeforePush
    <3> HIDE DEF ops
    <3>2. /\ <<Touching({Default})>> \in Scripts /\ AllOps(<<Touching({Default})>>, ops)
          /\ <<Do("legacy", Default)>> \in Scripts /\ AllOps(<<Do("legacy", Default)>>, ops)
      BY <3>1, Short, OpsShort
    <3> QED
      BY <2>3, <3>2 DEF Look
  <2>4. CASE legacy = <<>> /\ ReadLegacy(w)
    BY <2>1, <2>4 DEF ReadLegacy
  <2> QED
    BY <1>4, <2>2, <2>3, <2>4
<1>8. PICK sc \in Scripts : Then(w, sc) /\ AllOps(sc, ops)
  BY <1>7
<1> DEFINE before == sc \o Tail(pre)
<1> HIDE DEF ops
<1>9. todo'[w] = sc \o (Tail(pre) \o suf)
  BY <1>2, <1>8, ThenBecomes
<1>10. sc \o (Tail(pre) \o suf) = before \o suf
  BY <1>1, <1>3, <1>8, JoinAssoc
<1>11. before \in Scripts /\ AllOps(before, ops)
  BY <1>3, <1>8, OpsJoin, JoinHas
<1> HIDE DEF before
<1>12. todo'[w] = before \o suf
  BY <1>9, <1>10
<1>13. KeptBut(t)'
  BY <1>5, KeptSame
<1>14. redis' = redis /\ legacy' = legacy
  BY <1>5 DEF copies
<1>15. Restocking(todo[w])'
  BY <1>11, <1>12, <1>13, <1>14 DEF Restocking, suf, ops
<1> QED
  BY <1>6, <1>15

\* The push of a restoration: the list grows and is never trimmed.
LEMMA RestockPush ==
    ASSUME Shaped, NEW w \in Procs, Works(w), Current(w),
           NEW t \in Threads, NEW ms \in Histories, NEW all \in Histories,
           NEW r \in Whole, todo[w] = RefillTail(t, ms, all, r),
           ms # <<>>, redis[t] \o ms = all, Len(all) <= MaxHistory,
           t = Default => legacy = <<>>, KeptBut(t)
    PROVE  Phase(todo[w])' /\ Current(w)'
<1> DEFINE c == Cmd("push", t, ms)
           write == Cmd("mirror_replace", t, all)
           post == Cons(Touching({t}), Cons(write, r))
           full == Append(redis[t], Head(ms))
           rest == Tail(ms)
<1>1. /\ c \in Commands /\ write \in Commands /\ Touching({t}) \in Commands /\ r \in Scripts
      /\ post \in Scripts
  BY WholeMakes, TailScripts, ConsFacts
<1>2. /\ c.op = "push" /\ c.t = t /\ c.ms = ms
      /\ write.op = "mirror_replace" /\ write.t = t /\ write.ms = all
      /\ Touching({t}).op = "touch"
  BY DEF Cmd, Touching
<1>3. todo[w] # <<>> /\ Head(todo[w]) = c /\ Tail(todo[w]) = post
  <2>1. todo[w] = Cons(c, post)
    BY DEF RefillTail
  <2> HIDE DEF c, post
  <2> QED
    BY <1>1, <2>1, ConsFacts
<1> HIDE DEF c, write
<1>4. Push(w) /\ Command(w) = c
  BY <1>2, <1>3, CommandStep DEF Command
<1>5. redis[t] \in Histories
  BY DEF Shaped
<1>6. /\ full \in Histories /\ rest \in Histories /\ full \o rest = all
      /\ Len(full) + Len(rest) = Len(all)
      /\ Len(full) \in Nat /\ Len(rest) \in Nat
  <2>1. full \in Histories /\ rest \in Histories
    BY <1>5, HistoryFacts
  <2>2. full \o rest = all
    BY <1>5, HistoryFacts
  <2> HIDE DEF full, rest
  <2> QED
    BY <2>1, <2>2, HistoryFacts
<1>7. Len(full) <= MaxHistory /\ full # <<>>
  <2> DEFINE a == Len(full)
             b == Len(rest)
             n == Len(all)
             m == MaxHistory
  <2>1. a + b = n /\ a \in Nat /\ b \in Nat /\ n <= m /\ m \in Nat
    BY <1>6, ConversationAssumption
  <2>2. a = Len(redis[t]) + 1 /\ Len(redis[t]) \in Nat
    BY <1>5, HistoryFacts
  <2> HIDE DEF full
  <2>3. Len(<<>>) = 0
    OBVIOUS
  <2>4. full # <<>>
    BY <2>2, <2>3
  <2> HIDE DEF a, b, n, m
  <2>5. a <= m
    BY <2>1
  <2> QED
    BY <2>4, <2>5 DEF a, m
<1>8. Newest(full) = full /\ ~(Len(full) > MaxHistory)
  <2> HIDE DEF full
  <2>1. Newest(full) = full
    BY <1>6, <1>7, WholeHistory
  <2> QED
    BY <1>6, <1>7, <2>1, ConversationAssumption
<1>9. /\ redis' = [redis EXCEPT ![t] = full]
      /\ UNCHANGED <<legacy, db, seen, diverged>>
      /\ Then(w, IF rest = <<>> THEN <<>>
                 ELSE <<Touching({t})>> \o Migrate(t) \o <<Cmd("push", t, rest)>>)
  BY <1>2, <1>4, <1>8 DEF Push
<1> HIDE DEF full
<1>10. redis'[t] = full /\ \A u \in Threads \ {t} : redis'[u] = redis[u]
  BY <1>9 DEF Shaped
<1>11. Current(w)'
  BY <1>2, <1>4, <1>9, PlainCurrent DEF MirrorOps
<1>12. KeptBut(t)'
  <2> SUFFICES ASSUME NEW u \in Threads \ {t}
               PROVE  Kept(u)'
    BY DEF KeptBut
  <2>1. View(u)' = View(u)
    BY <1>9, <1>10 DEF View
  <2> QED
    BY <1>9, <2>1 DEF KeptBut, Kept, DbMessages
<1>13. CASE rest = <<>>
  <2>1. full = all
    BY <1>6, <1>13, HistoryFacts
  <2>2. todo'[w] = post
    <3> HIDE DEF post
    <3> QED
      BY <1>1, <1>3, <1>9, <1>13, ThenCons
  <2>3. View(t)' = all
    BY <1>7, <1>10, <2>1 DEF View
  <2>4. write.op \in SettleOps /\ write.op \notin {"mirror_clear", "mirror_drop"}
    BY <1>2 DEF SettleOps
  <2>5. Settling(todo[w])'
    BY <1>1, <1>2, <1>12, <2>2, <2>3, <2>4 DEF Settling
  <2> QED
    BY <1>11, <2>5 DEF Phase
<1>14. CASE rest # <<>>
  <2> DEFINE touch == <<Touching({t})>>
             pre == touch \o Migrate(t)
             push == <<Cmd("push", t, rest)>>
  <2> HIDE DEF rest
  <2>0. Cmd("push", t, rest) \in Commands
    BY <1>6, <1>14, DoIsCommand
  <2>1. touch \in Scripts /\ push \in Scripts /\ Migrate(t) \in Scripts
    BY <1>1, <2>0, Short, StoreScripts
  <2>2. Touching({t}).op \in BeforePush(t)
    BY <1>2 DEF BeforePush
  <2>3. AllOps(touch, BeforePush(t))
    BY <2>2, OpsShort
  <2>4. AllOps(Migrate(t), BeforePush(t))
    <3>1. CASE t = Default
      <4>1. {"look"} \subseteq BeforePush(t)
        BY <3>1 DEF BeforePush
      <4> QED
        BY <4>1, StoreOps, OpsMore
    <3>2. CASE t # Default
      BY <3>2, OpsShort DEF Migrate
    <3> QED
      BY <3>1, <3>2
  <2>5. Then(w, pre \o push)
    BY <1>9, <1>14
  <2>6. push \o post = Cons(Cmd("push", t, rest), post)
    BY DEF Cons
  <2> HIDE DEF touch, push
  <2>7. pre \in Scripts /\ AllOps(pre, BeforePush(t))
    BY <2>1, <2>3, <2>4, OpsJoin, JoinHas
  <2>8. todo'[w] = (pre \o push) \o post
    BY <1>3, <2>5, ThenBecomes
  <2> HIDE DEF pre
  <2>9. todo'[w] = pre \o (push \o post)
    <3> HIDE DEF post
    <3>1. post \in Scripts /\ push \in Scripts /\ pre \in Scripts
      BY <1>1, <2>1, <2>7
    <3>2. (pre \o push) \o post = pre \o (push \o post)
      BY ONLY <3>1, JoinAssoc
    <3> QED
      BY ONLY <2>8, <3>2, Zenon
  <2>10. todo'[w] = pre \o RefillTail(t, rest, all, r)
    BY <2>6, <2>9 DEF RefillTail, write
  <2>11. redis'[t] \o rest = all /\ (t = Default => legacy' = <<>>)
    BY <1>6, <1>9, <1>10
  <2>12. Restocking(todo[w])'
    BY <1>6, <1>12, <1>14, <2>7, <2>10, <2>11 DEF Restocking
  <2> QED
    BY <1>11, <2>12 DEF Phase
<1> QED
  BY <1>13, <1>14

\* Every step of a restoration after its deletion.
LEMMA RestockingStep ==
    ASSUME Shaped, NEW w \in Procs, Works(w), Current(w), Restocking(todo[w])
    PROVE  Phase(todo[w])' /\ Current(w)'
<1>1. PICK pre \in Scripts, t \in Threads, ms \in Histories, all \in Histories, r \in Whole :
        /\ todo[w] = pre \o RefillTail(t, ms, all, r) /\ AllOps(pre, BeforePush(t))
        /\ ms # <<>> /\ redis[t] \o ms = all /\ Len(all) <= MaxHistory
        /\ t = Default => legacy = <<>>
        /\ KeptBut(t)
  BY DEF Restocking
<1>2. CASE pre # <<>>
  BY <1>1, <1>2, RestockOn DEF Phase
<1>3. CASE pre = <<>>
  <2>1. RefillTail(t, ms, all, r) \in Scripts
    BY <1>1, WholeMakes, TailScripts
  <2>2. todo[w] = RefillTail(t, ms, all, r)
    BY <1>1, <1>3, <2>1, JoinEmpty
  <2> QED
    BY <1>1, <2>2, RestockPush
<1> QED
  BY <1>2, <1>3

------------------------------------------------------------------------------
\* A whole script, block by block.
LEMMA WholeStep ==
    ASSUME Shaped, Flagged, Stored, NEW w \in Procs, Works(w), Current(w), AllKept, todo[w] \in Whole
    PROVE  Phase(todo[w])' /\ Current(w)'
<1>1. todo[w] # <<>>
  BY DEF Works
<1>2. PICK b \in Blocks, r \in Whole : todo[w] = b \o r
  BY <1>1, WholeComes
<1>3. r \in Scripts
  BY WholeMakes
<1>4. ASSUME NEW c \in Commands, c.op \in CalmOps, b = <<c>>
      PROVE  Phase(todo[w])' /\ Current(w)'
  <2>1. todo[w] = <<c>> \o r
    BY <1>2, <1>4
  <2>2. Head(todo[w]) = c /\ Tail(todo[w]) = r
    BY <1>3, <2>1, FirstOf
  <2>3. CASE c.op \in PlainCalm
    <3>1. UNCHANGED copies /\ seen' = seen /\ \E sc \in Whole : todo'[w] = sc \o Tail(todo[w])
      BY <2>2, <2>3, CalmStep
    <3>2. PICK sc \in Whole : todo'[w] = sc \o r
      BY <2>2, <3>1
    <3>3. todo'[w] \in Whole
      BY <3>2, WholeJoin
    <3>4. AllKept'
      BY <3>1, KeptSame
    <3>5. Current(w)'
      BY <2>2, <2>3, <3>1, PlainCurrent DEF Command, MirrorOps, PlainCalm, CalmOps
    <3> QED
      BY <3>3, <3>4, <3>5 DEF Phase, Resting
  <2>4. CASE c.op = "mirror_ensure"
    BY <2>1, <2>4, EnsureRests
  <2>5. CASE c.op = "source"
    BY <2>1, <2>5, SourceRests
  <2>6. CASE c.op = "look"
    <3>1. Look(w)
      BY <2>2, <2>6, CommandStep
    <3>2. UNCHANGED copies /\ seen' = seen
      BY <3>1 DEF Look, copies, store
    <3>3. Current(w)'
      BY <2>2, <2>6, <3>2, PlainCurrent DEF Command, MirrorOps
    <3>4. todo'[w] = IF redis[Default] # <<>> THEN Cons(Touching({Default}), r)
                     ELSE Cons(Do("legacy", Default), r)
      BY <1>1, <1>3, <2>2, <3>1, ThenCons, ImportCommands DEF Look
    <3>5. Coming(todo'[w], Default, r)
      BY <3>4 DEF Coming, Imp, Imported
    <3>6. Coming(todo[w], Default, r)'
      BY <3>2, <3>5 DEF Coming, copies, Imp, Imported
    <3>7. AllKept'
      BY <3>2, KeptSame
    <3> QED
      BY <3>3, <3>6, <3>7 DEF Phase, Resting
  <2> QED
    BY <1>4, <2>3, <2>4, <2>5, <2>6 DEF PlainCalm
<1>5. ASSUME NEW t \in Threads, b = WriterClear(t) \/ b = WriterDrop(t)
      PROVE  Phase(todo[w])' /\ Current(w)'
  BY <1>2, <1>5, BlockDeletes
<1>6. ASSUME NEW t \in Threads, NEW m \in Messages, b = WriterAppend(t, m)
      PROVE  Phase(todo[w])' /\ Current(w)'
  <2> DEFINE n == AppendTail(t, m, r)
  <2>1. n \in Scripts
    BY <1>3, TailScripts
  <2>2. todo[w] = Migrate(t) \o n
    BY <1>2, <1>3, <1>6, BlockCons
  <2> HIDE DEF n
  <2>3. todo[w] = IF t = Default THEN Cons(Do("look", Default), n) ELSE n
    BY <2>1, <2>2, MigrateCons
  <2>4. Coming(todo[w], t, n)
    BY <2>3 DEF Coming, Imp
  <2>5. Appending(todo[w])
    BY <2>4 DEF Appending, n
  <2> QED
    BY <2>5, AppendingStep
<1>7. ASSUME NEW t \in Threads, NEW ms \in Histories, Len(ms) <= MaxHistory, b = WriterReplace(t, ms)
      PROVE  Phase(todo[w])' /\ Current(w)'
  <2>1. CASE ms = <<>>
    BY <1>2, <1>7, <2>1, BlockDeletes
  <2>2. CASE ms # <<>>
    BY <1>2, <1>7, <2>2, ReplaceDeletes
  <2> QED
    BY <2>1, <2>2
<1> QED
  BY <1>2, <1>4, <1>5, <1>6, <1>7 DEF Blocks

\* A request at rest, and every other phase.
LEMMA PhaseStep ==
    ASSUME Shaped, Flagged, Stored, NEW w \in Procs, Works(w), Current(w), Phase(todo[w])
    PROVE  Phase(todo[w])' /\ Current(w)'
<1>1. CASE Resting(todo[w])
  <2>1. AllKept
    BY <1>1 DEF Resting
  <2>2. CASE todo[w] \in Whole
    BY <2>1, <2>2, WholeStep
  <2>3. ASSUME NEW r \in Whole, Coming(todo[w], Default, r), todo[w] \notin Whole
        PROVE  Phase(todo[w])' /\ Current(w)'
    <3>1. AllKept' /\ Coming(todo[w], Default, r)' /\ Current(w)'
      BY <2>1, <2>3, WholeMakes, ComingStep DEF Threads
    <3> QED
      BY <3>1 DEF Phase, Resting
  <2>4. ASSUME NEW r \in Whole, redis[Default] = <<>>, todo[w] = Cons(Do("source_legacy", Default), r)
        PROVE  Phase(todo[w])' /\ Current(w)'
    BY <2>1, <2>4, SourceLegacyRests
  <2> QED
    BY <1>1, <2>2, <2>3, <2>4 DEF Resting
<1> QED
  BY <1>1, AppendingStep, AppendedStep, SettlingStep, RestockingStep DEF Phase

\* A script that is done, or waits, leaves the two copies equal.
LEMMA PhaseEnds ==
    ASSUME NEW s, Phase(s), s = <<>> \/ Head(s).op \in Ends
    PROVE  AllKept
<1>1. CASE Resting(s) \/ Appending(s)
  BY <1>1 DEF Resting, Appending
<1>2. CASE Appended(s)
  <2>1. PICK t \in Threads, m \in Messages, r \in Whole :
          LET write == Cons(Cmd("mirror_append", t, <<m>>), r) IN
          s = write \/ s = Cons(Touching({t}), write)
    BY <1>2 DEF Appended
  <2> DEFINE c == Cmd("mirror_append", t, <<m>>)
             write == Cons(c, r)
  <2>2. r \in Scripts /\ c \in Commands /\ Touching({t}) \in Commands
    BY WholeMakes, TailScripts
  <2>3. c.op = "mirror_append" /\ Touching({t}).op = "touch"
    BY DEF Cmd, Touching
  <2> HIDE DEF c
  <2>4. write \in Scripts /\ write # <<>> /\ Head(write).op = "mirror_append"
    BY <2>2, <2>3, ConsFacts
  <2> HIDE DEF write
  <2>5. Cons(Touching({t}), write) # <<>> /\ Head(Cons(Touching({t}), write)).op = "touch"
    BY <2>2, <2>3, <2>4, ConsFacts
  <2> QED
    BY <2>1, <2>4, <2>5 DEF write, c, Ends
<1>3. CASE Settling(s)
  <2>1. PICK c \in Commands, r \in Whole :
          /\ c.op \in SettleOps
          /\ s = Cons(c, r) \/ \E d \in Commands : d.op \in {"touch", "zrem"} /\ s = Cons(d, Cons(c, r))
    BY <1>3 DEF Settling
  <2>2. r \in Scripts /\ Cons(c, r) \in Scripts /\ Cons(c, r) # <<>> /\ Head(Cons(c, r)) = c
    BY WholeMakes, ConsFacts
  <2>3. \A d \in Commands : Cons(d, Cons(c, r)) # <<>> /\ Head(Cons(d, Cons(c, r))) = d
    BY <2>2, ConsFacts
  <2> QED
    BY <2>1, <2>2, <2>3 DEF Ends, SettleOps
<1>4. CASE Restocking(s)
  <2>1. PICK pre \in Scripts, t \in Threads, ms \in Histories, all \in Histories, r \in Whole :
          /\ s = pre \o RefillTail(t, ms, all, r) /\ AllOps(pre, BeforePush(t)) /\ ms # <<>>
    BY <1>4 DEF Restocking
  <2> DEFINE c == Cmd("push", t, ms)
             post == Cons(Touching({t}), Cons(Cmd("mirror_replace", t, all), r))
             suf == RefillTail(t, ms, all, r)
  <2>2. suf \in Scripts /\ c \in Commands /\ post \in Scripts
    BY <2>1, WholeMakes, TailScripts, ConsFacts
  <2>3. suf = Cons(c, post) /\ c.op = "push"
    BY DEF RefillTail, Cmd
  <2> HIDE DEF c, post, suf
  <2>4. suf # <<>> /\ Head(suf).op = "push"
    BY <2>2, <2>3, ConsFacts
  <2>5. CASE pre = <<>>
    <3>1. s = suf
      BY <2>1, <2>2, <2>5, JoinEmpty DEF suf
    <3> QED
      BY <2>4, <3>1 DEF Ends
  <2>6. CASE pre # <<>>
    <3>1. s # <<>> /\ Head(s) = Head(pre)
      BY <2>1, <2>2, <2>6, JoinTail DEF suf
    <3>2. Head(pre).op \in BeforePush(t)
      BY <2>1, <2>6, OpsTail
    <3> QED
      BY <3>1, <3>2 DEF BeforePush, Ends
  <2> QED
    BY <2>5, <2>6
<1> QED
  BY <1>1, <1>2, <1>3, <1>4 DEF Phase

\* A request that waits, or has nothing to do, beside copies that agree.
LEMMA WebRests ==
    ASSUME Shaped, Flagged, Stored, NEW p \in Requests, AllKept, todo[Web(p)] = <<>> \/ Waits(p)
    PROVE  Phase(todo[Web(p)]) /\ Current(Web(p))
<1>1. Web(p) \in Procs
  BY ProcsApart
<1>2. ~AtMirror(Web(p))
  BY DEF Waits, AtMirror, Command, MirrorOps
<1>3. Current(Web(p))
  BY <1>1, <1>2 DEF Stored, SeenOK, Current
<1>4. todo[Web(p)] \in Whole
  <2>1. CASE todo[Web(p)] = <<>>
    BY <2>1, WholeMakes
  <2>2. CASE Waits(p)
    <3> DEFINE s == todo[Web(p)]
    <3>1. s \in Scripts /\ s # <<>> /\ EndsLast(s) /\ Head(s).op \in {"wait", "wait_again"}
      BY <1>1, <2>2 DEF Shaped, Flagged, Waits
    <3>2. Tail(s) = <<>>
      BY <3>1, EndsTail DEF Ends
    <3>3. Head(s) \in Commands /\ s = <<Head(s)>> \o Tail(s)
      BY <3>1, HeadTail
    <3>4. Head(s).op \in CalmOps
      BY <3>1 DEF CalmOps
    <3>5. <<Head(s)>> \o <<>> \in Whole
      BY <3>3, <3>4, CalmWhole, WholeMakes
    <3> QED
      BY <3>2, <3>3, <3>5
  <2> QED
    BY <2>1, <2>2
<1> QED
  BY <1>3, <1>4, RestsWhole

------------------------------------------------------------------------------
(* Requests that run alone, and the others. *)

Alone(p) ==
    \/ todo[Job(p)] = <<>> /\ Phase(todo[Web(p)]) /\ Current(Web(p))
    \/ /\ todo[Web(p)] = <<>> \/ Waits(p)
       /\ job[p] # "queued" /\ Phase(todo[Job(p)]) /\ Current(Job(p))
ParityInv ==
    /\ Stored
    /\ Quiet => AllKept
    /\ \A p \in Requests : Busy(p) /\ clean[p] => Alone(p)
    /\ ~Quiet /\ (\A p \in Requests : Busy(p) => ~clean[p]) => Threads \subseteq diverged

\* A step of a process with commands is one of its commands, unless the process dies,
\* gives up waiting or is started.
LEMMA StepWorks ==
    ASSUME Shaped, Flagged, NEW w \in Procs, Step(w), clean'[w[1]],
           \A p \in Requests, outcome \in Endings : w = Job(p) => ~JobRuns(p, outcome)
    PROVE  Works(w)
<1>1. ~Crash(w)
  BY CrashMoves
<1>2. ASSUME NEW p \in Requests, w = Web(p)
      PROVE  ~WaitTimesOut(p)
  <2>1. w[1] = p
    BY <1>2, ProcsApart
  <2>2. WaitTimesOut(p) => ~clean'[p]
    BY DEF WaitTimesOut, Flagged
  <2> QED
    BY <2>1, <2>2
<1>3. todo[w] # <<>>
  <2>1. CASE \/ Look(w) \/ ReadLegacy(w) \/ ImportLegacy(w) \/ Push(w) \/ Delete(w)
             \/ Touch(w) \/ ZRem(w) \/ Sync(w)
             \/ MirrorRead(w) \/ MirrorCommit(w) \/ MirrorSkips(w)
             \/ MirrorConflict(w) \/ MirrorFails(w)
    BY <2>1 DEF Look, ReadLegacy, ImportLegacy, Push, Delete, Touch, ZRem, Sync, MirrorRead,
                MirrorCommit, MirrorSkips, MirrorConflict, MirrorFails, At, AtMirror
  <2>2. ASSUME NEW p \in Requests, w = Web(p)
        PROVE  todo[w] # <<>>
    BY <2>2, StepMoves, ProcsApart DEF Moves
  <2>3. ASSUME NEW p \in Requests, w = Job(p), JobEnds(p)
        PROVE  todo[w] # <<>>
    BY <2>3 DEF JobEnds
  <2> QED
    BY <1>1, <2>1, <2>2, <2>3 DEF Step
<1> QED
  BY <1>1, <1>2, <1>3 DEF Works

\* The job of a request that waits alone starts.
LEMMA AloneRuns ==
    ASSUME Shaped, Flagged, Stored, NEW p \in Requests, NEW outcome \in Endings, JobRuns(p, outcome),
           clean'[p], Alone(p)
    PROVE  Alone(p)'
<1>1. Job(p) \in Procs /\ Web(p) \in Procs /\ Web(p) # Job(p)
  BY ProcsApart
<1>2. job[p] = "queued" /\ (todo[Web(p)] = <<>> \/ Waits(p))
  BY DEF JobRuns, Flagged
<1>3. diverged' = diverged /\ redis' = redis /\ legacy' = legacy /\ db' = db
  BY <1>2 DEF JobRuns, store
<1>4. Phase(todo[Web(p)])
  BY <1>2 DEF Alone
<1>5. AllKept
  BY <1>2, <1>4, PhaseEnds DEF Waits, Ends
<1>6. AllKept'
  BY <1>3, <1>5, KeptSame DEF copies
<1>7. thread[p] \in Threads
  BY <1>2 DEF Shaped
<1> DEFINE s == IF outcome = "silent" THEN <<Do("failed", thread[p])>>
                ELSE JobScript(p, thread[p], outcome)
<1>8. s \in Whole
  BY <1>7, HandlersWhole
<1>9. todo' = [todo EXCEPT ![Job(p)] = s] /\ seen' = [seen EXCEPT ![Job(p)] = None]
      /\ job' = [job EXCEPT ![p] = "running"]
  BY DEF JobRuns
<1> HIDE DEF s
<1>10. todo'[Job(p)] \in Whole /\ todo'[Web(p)] = todo[Web(p)]
  BY <1>1, <1>8, <1>9 DEF Shaped
<1>11. seen'[Job(p)] = None
  BY <1>1, <1>9 DEF Stored
<1>12. job'[p] = "running"
  BY <1>9 DEF Shaped
<1>13. Resting(todo[Job(p)])'
  BY <1>6, <1>10 DEF Resting
<1>14. (todo[Web(p)] = <<>> \/ Waits(p))'
  BY <1>2, <1>10 DEF Waits
<1>15. Current(Job(p))'
  BY <1>11 DEF Current
<1> QED
  BY <1>12, <1>13, <1>14, <1>15 DEF Alone, Phase

\* Every other step of a request that runs alone.
LEMMA AloneKept ==
    ASSUME Shaped, Flagged, Stored, NEW w \in Procs, Step(w), clean'[w[1]], Alone(w[1])
    PROVE  Alone(w[1])'
<1> DEFINE p == w[1]
<1>1. p \in Requests /\ (w = Web(p) \/ w = Job(p)) /\ Web(p) # Job(p)
      /\ Web(p) \in Procs /\ Job(p) \in Procs
  BY ProcIs, ProcsApart
<1>2. CASE \E outcome \in Endings : w = Job(p) /\ JobRuns(p, outcome)
  BY <1>1, <1>2, AloneRuns
<1>3. CASE ~\E outcome \in Endings : w = Job(p) /\ JobRuns(p, outcome)
  <2>1. \A q \in Requests, outcome \in Endings : w = Job(q) => ~JobRuns(q, outcome)
    <3> SUFFICES ASSUME NEW q \in Requests, NEW outcome \in Endings, w = Job(q), JobRuns(q, outcome)
                 PROVE  FALSE
      OBVIOUS
    <3>1. p = q
      BY ProcsApart
    <3> QED
      BY <1>3, <3>1
  <2>2. Works(w)
    BY <2>1, StepWorks
  <2>3. PICK s \in Scripts : todo' = [todo EXCEPT ![w] = s]
    BY StepMoves DEF Moves
  <2>4. \A v \in Procs \ {w} : todo'[v] = todo[v]
    BY <2>3 DEF Shaped
  <2>5. todo[w] # <<>>
    BY <2>2 DEF Works
  <2>6. CASE w = Web(p)
    <3>1. todo[Job(p)] = <<>> /\ Phase(todo[w]) /\ Current(w)
      <4>1. CASE todo[Job(p)] = <<>> /\ Phase(todo[Web(p)]) /\ Current(Web(p))
        BY <2>6, <4>1
      <4>2. CASE /\ todo[Web(p)] = <<>> \/ Waits(p)
                 /\ job[p] # "queued" /\ Phase(todo[Job(p)]) /\ Current(Job(p))
        <5>1. Waits(p) /\ Head(todo[w]).op \in {"wait", "wait_again"}
          BY <2>5, <2>6, <4>2 DEF Waits
        <5>2. \E q \in Requests : w = Web(q) /\ Wait(q)
          <6>1. PICK q \in Requests :
                  \/ w = Web(q) /\ Wait(q)
                  \/ w = Job(q)
            BY <2>2, <5>1, CommandStep
          <6> QED
            BY <1>1, <2>6, <6>1, ProcsApart
        <5>3. Wait(p)
          BY <1>1, <2>6, <5>2, ProcsApart
        <5>4. job[p] \notin {"queued", "running"}
          BY <5>3 DEF Wait
        <5>5. todo[Job(p)] = <<>>
          BY <1>1, <5>4 DEF Flagged
        <5>6. AllKept
          BY <4>2, <5>5, PhaseEnds
        <5> QED
          BY <1>1, <2>6, <5>1, <5>5, <5>6, WebRests
      <4> QED
        BY <4>1, <4>2 DEF Alone
    <3>2. Phase(todo[w])' /\ Current(w)'
      BY <2>2, <3>1, PhaseStep
    <3>3. todo'[Job(p)] = <<>>
      BY <1>1, <2>4, <2>6, <3>1
    <3> QED
      BY <2>6, <3>2, <3>3 DEF Alone
  <2>7. CASE w = Job(p)
    <3>1. /\ todo[Web(p)] = <<>> \/ Waits(p)
          /\ job[p] # "queued" /\ Phase(todo[w]) /\ Current(w)
      BY <2>5, <2>7 DEF Alone
    <3>2. Phase(todo[w])' /\ Current(w)'
      BY <2>2, <3>1, PhaseStep
    <3>3. todo'[Web(p)] = todo[Web(p)]
      BY <1>1, <2>4, <2>7
    <3>4. (todo[Web(p)] = <<>> \/ Waits(p))'
      BY <3>1, <3>3 DEF Waits
    <3>5. job'[p] # "queued"
      <4>1. CASE job' = job
        BY <3>1, <4>1
      <4>2. CASE JobEnds(p)
        BY <1>1, <4>2 DEF JobEnds, Shaped
      <4>3. job' = job \/ JobEnds(p)
        <5>1. CASE \/ Look(w) \/ ReadLegacy(w) \/ ImportLegacy(w) \/ Push(w) \/ Delete(w)
                   \/ Touch(w) \/ ZRem(w) \/ Sync(w)
                   \/ MirrorRead(w) \/ MirrorCommit(w) \/ MirrorSkips(w)
                   \/ MirrorConflict(w) \/ MirrorFails(w)
          BY <5>1 DEF Look, ReadLegacy, ImportLegacy, Push, Delete, Touch, ZRem, Sync, MirrorRead,
                      MirrorCommit, MirrorSkips, MirrorConflict, MirrorFails, request
        <5>2. ASSUME NEW q \in Requests, w = Job(q), JobEnds(q)
              PROVE  JobEnds(p)
          BY <1>1, <2>7, <5>2, ProcsApart
        <5>3. \A q \in Requests : w # Web(q)
          BY <1>1, <2>7, ProcsApart
        <5>4. ~Crash(w)
          BY <2>2 DEF Works
        <5> QED
          BY <2>1, <5>1, <5>2, <5>3, <5>4 DEF Step
      <4> QED
        BY <4>1, <4>2, <4>3
    <3> QED
      BY <2>7, <3>2, <3>4, <3>5 DEF Alone
  <2> QED
    BY <1>1, <2>6, <2>7
<1> QED
  BY <1>2, <1>3

\* Whatever ends a request's time alone, or happens outside of it, leaves every
\* thread marked as diverged.
LEMMA DirtyDiverges ==
    ASSUME Shaped, Flagged, NEW w \in Procs, Step(w), ~clean'[w[1]],
           clean[w[1]] \/ Threads \subseteq diverged
    PROVE  Threads \subseteq diverged'
<1>1. CASE Crash(w)
  BY <1>1 DEF Crash
<1>2. ASSUME NEW p \in Requests, w = Web(p), WaitTimesOut(p)
      PROVE  Threads \subseteq diverged'
  BY <1>2 DEF WaitTimesOut
<1>3. ASSUME NEW p \in Requests, w = Job(p), NEW outcome \in Endings, JobRuns(p, outcome)
      PROVE  Threads \subseteq diverged'
  <2>1. w[1] = p
    BY <1>3, ProcsApart
  <2>2. CASE todo[Web(p)] = <<>> \/ Waits(p)
    <3>1. diverged' = diverged /\ clean' = [clean EXCEPT ![p] = @ /\ TRUE]
      BY <1>3, <2>2 DEF JobRuns
    <3>2. clean'[p] = clean[p]
      BY <3>1 DEF Flagged
    <3> QED
      BY <2>1, <3>1, <3>2
  <2>3. CASE ~(todo[Web(p)] = <<>> \/ Waits(p))
    BY <1>3, <2>3 DEF JobRuns
  <2> QED
    BY <2>2, <2>3
<1>4. CASE \/ Look(w) \/ ReadLegacy(w) \/ ImportLegacy(w) \/ Push(w) \/ Delete(w)
           \/ Touch(w) \/ ZRem(w) \/ Sync(w) \/ MirrorRead(w) \/ MirrorConflict(w) \/ MirrorFails(w)
  <2>1. clean' = clean /\ diverged \subseteq diverged'
    BY <1>4 DEF Look, ReadLegacy, ImportLegacy, Push, Delete, Touch, ZRem, Sync, MirrorRead,
                MirrorConflict, MirrorFails
  <2> QED
    BY <2>1
<1>5. CASE MirrorCommit(w) \/ MirrorSkips(w)
  <2>1. clean' = clean /\ diverged' = IF Heals(w, Command(w)) THEN diverged \ {Command(w).t} ELSE diverged
    BY <1>5 DEF MirrorCommit, MirrorSkips
  <2>2. ~Heals(w, Command(w))
    BY <2>1 DEF Heals
  <2> QED
    BY <2>1, <2>2
<1>6. ASSUME NEW p \in Requests, w = Web(p),
             \/ Read(p) \/ Members(p) \/ Find(p) \/ Serve(p) \/ Source(p) \/ SourceLegacy(p)
             \/ Enqueue(p) \/ Wait(p)
      PROVE  Threads \subseteq diverged'
  <2>1. clean' = clean /\ diverged' = diverged
    BY <1>6 DEF Read, Members, Find, Serve, Source, SourceLegacy, Enqueue, Wait
  <2> QED
    BY <2>1
<1>7. ASSUME NEW p \in Requests, w = Job(p), JobEnds(p)
      PROVE  Threads \subseteq diverged'
  <2>1. clean' = clean /\ diverged' = diverged
    BY <1>7 DEF JobEnds
  <2> QED
    BY <2>1
<1> QED
  BY <1>1, <1>2, <1>3, <1>4, <1>5, <1>6, <1>7 DEF Step

\* A request that ran alone, is done and has no job leaves the copies equal.
SomeDone == \E p \in Requests : Alone(p) /\ ~Busy(p)
LEMMA AloneDone == Flagged /\ SomeDone => AllKept
<1> SUFFICES ASSUME Flagged, NEW p \in Requests, Alone(p), ~Busy(p)
             PROVE  AllKept
  BY DEF SomeDone
<1>1. todo[Web(p)] = <<>> /\ todo[Job(p)] = <<>>
  BY DEF Busy, Flagged
<1> QED
  BY <1>1, PhaseEnds DEF Alone

\* The same after a step.
LEMMA AloneDoneNext == Flagged' /\ SomeDone' => AllKept'
BY AloneDone, PTL

\* Every step of a process keeps the invariant.
LEMMA ParityKept ==
    ASSUME Shaped, Flagged, Solo, ParityInv, NEW w \in Procs, Step(w)
    PROVE  ParityInv'
<1> DEFINE p == w[1]
<1>1. Moves(w) /\ p \in Requests
  BY StepMoves, ProcIs
<1>2. Busy(p) /\ (clean'[p] => clean[p]) /\ Flagged'
  BY <1>1 DEF Moves
<1>3. Stored'
  BY StoredKept DEF ParityInv
<1>4. CASE clean'[p]
  <2>1. clean[p]
    BY <1>2, <1>4
  <2>2. Alone(p)
    BY <1>1, <1>2, <2>1 DEF ParityInv
  <2>3. Alone(p)'
    BY <1>4, <2>2, AloneKept DEF ParityInv
  <2>4. ASSUME NEW q \in Requests, q # p
        PROVE  ~Busy(q)'
    <3>1. ~Busy(q) /\ todo'[Web(q)] = todo[Web(q)] /\ Same(q)
      BY <1>1, <2>1, <2>4, OthersAreIdle
    <3> QED
      BY <3>1 DEF Busy, Same
  <2>5. Quiet' => AllKept'
    <3> SUFFICES ASSUME Quiet'
                 PROVE  AllKept'
      OBVIOUS
    <3>1. ~Busy(p)'
      BY <1>1 DEF Quiet
    <3> HIDE DEF p
    <3>2. SomeDone'
      BY <1>1, <2>3, <3>1 DEF SomeDone
    <3> QED
      BY <1>2, <3>2, AloneDoneNext
  <2>6. \A q \in Requests : Busy(q)' /\ clean'[q] => Alone(q)'
    BY <2>3, <2>4
  <2>7. ~Quiet' /\ (\A q \in Requests : Busy(q)' => ~clean'[q]) => Threads \subseteq diverged'
    BY <1>4, <2>4 DEF Quiet
  <2> QED
    BY <1>3, <2>5, <2>6, <2>7 DEF ParityInv
<1>5. CASE ~clean'[p]
  <2>1. ASSUME NEW q \in Requests, q # p
        PROVE  ~(Busy(q) /\ clean[q])
    BY <1>1, <1>2, <2>1 DEF Solo
  <2>2. clean[p] \/ Threads \subseteq diverged
    BY <1>1, <1>2, <2>1 DEF ParityInv, Quiet
  <2>3. Threads \subseteq diverged'
    BY <1>5, <2>2, DirtyDiverges
  <2>4. AllKept'
    BY <2>3 DEF AllKept, Kept
  <2>5. ASSUME NEW q \in Requests
        PROVE  ~(Busy(q)' /\ clean'[q])
    <3>1. CASE q = p
      BY <1>5, <3>1
    <3>2. CASE q # p
      <4>1. Same(q)
        BY <1>1, <3>2 DEF Moves
      <4>2. todo'[Web(q)] = todo[Web(q)]
        <5>1. Web(q) \in Procs /\ Web(q) # w
          <6>1. Web(q) \in Procs /\ Web(q)[1] = q
            BY ProcsApart
          <6> QED
            BY <3>2, <6>1
        <5> QED
          BY <1>1, <5>1 DEF Moves, Shaped
      <4> QED
        BY <2>1, <3>2, <4>1, <4>2 DEF Busy, Same
    <3> QED
      BY <3>1, <3>2
  <2> QED
    BY <1>3, <2>3, <2>4, <2>5 DEF ParityInv
<1> QED
  BY <1>4, <1>5

\* So does the start of a request: alone when nothing runs, and otherwise all
\* threads count as diverged.
LEMMA ParityStart ==
    ASSUME Shaped, Flagged, ParityInv, NEW p \in Requests, NEW call \in Calls,
           Start(p, call[1], call[2])
    PROVE  ParityInv'
<1>1. Stored' /\ seen'[Web(p)] = None
  BY StoredStart DEF ParityInv
<1>2. call[1] \in {"chat", "stream", "files", "read", "create", "clear", "delete", "migrate"} /\ call[2] \in Threads
  BY ConversationAssumption
<1>3. /\ todo'[Web(p)] = Handler(p, call[1], call[2]) /\ job'[p] = "none"
      /\ \A q \in Requests \ {p} : todo'[Web(q)] = todo[Web(q)] /\ job'[q] = job[q]
  BY StartFacts
<1>4. CASE Quiet
  <2>1. \A q \in Requests \ {p} : ~Busy(q)'
    BY <1>3, <1>4 DEF Quiet, Busy
  <2>2. UNCHANGED copies /\ \A q \in Requests : clean'[q]
    BY <1>4 DEF Start, copies, store
  <2>3. AllKept'
    BY <1>4, <2>2, KeptSame DEF ParityInv
  <2>4. todo'[Job(p)] = <<>>
    <3>1. Job(p) \in Procs /\ Job(p) # Web(p)
      BY ProcsApart
    <3>2. todo' = [todo EXCEPT ![Web(p)] = Handler(p, call[1], call[2])]
      BY DEF Start
    <3>3. todo[Job(p)] = <<>>
      BY <1>4 DEF Quiet, Busy, Flagged
    <3> QED
      BY <3>1, <3>2, <3>3 DEF Shaped
  <2>5. todo'[Web(p)] \in Whole
    BY <1>2, <1>3, HandlersWhole
  <2>6. Alone(p)'
    <3>1. Resting(todo[Web(p)])'
      BY <2>3, <2>5 DEF Resting
    <3>2. Current(Web(p))'
      BY <1>1 DEF Current
    <3> QED
      BY <2>4, <3>1, <3>2 DEF Alone, Phase
  <2>7. ~Quiet' /\ (\A q \in Requests : Busy(q)' => ~clean'[q]) => Threads \subseteq diverged'
    BY <2>2 DEF Quiet
  <2>8. \A q \in Requests : Busy(q)' /\ clean'[q] => Alone(q)'
    BY <2>1, <2>6
  <2> QED
    BY <1>1, <2>3, <2>7, <2>8 DEF ParityInv
<1>5. CASE ~Quiet
  <2>1. diverged' = Threads /\ \A q \in Requests : ~clean'[q]
    BY <1>5 DEF Start
  <2>2. AllKept'
    BY <2>1 DEF AllKept, Kept
  <2> QED
    BY <1>1, <2>1, <2>2 DEF ParityInv
<1> QED
  BY <1>4, <1>5

\* The invariant holds when the system starts: the old layout's list has no copy yet.
LEMMA InitParity == Init => ParityInv
<1> SUFFICES ASSUME Init
             PROVE  ParityInv
  OBVIOUS
<1>1. Stored
  <2>1. db = [t \in Threads |-> NoThread] /\ seen = [w \in Procs |-> None]
    BY DEF Init
  <2>2. \A t \in Threads : db[t].rows = {}
    BY <2>1 DEF NoThread
  <2> QED
    BY <2>1, <2>2, NoRows DEF Stored
<1>2. \A p \in Requests : ~clean[p] /\ ~Busy(p)
  BY ProcsApart DEF Init, Busy
<1>3. AllKept
  <2> SUFFICES ASSUME NEW t \in Threads, t \notin diverged
               PROVE  DbMessages(t) = View(t)
    BY DEF AllKept, Kept
  <2>1. DbMessages(t) = <<>>
    BY NoRows DEF Init, DbMessages, NoThread
  <2>2. View(t) = <<>>
    BY DEF Init, View
  <2> QED
    BY <2>1, <2>2
<1> QED
  BY <1>1, <1>2, <1>3 DEF ParityInv, Quiet

\* Every step keeps the invariant of the two copies.
LEMMA NextParity ==
    ASSUME ConvInv, ParityInv, [Next]_vars
    PROVE  ParityInv'
<1>1. CASE UNCHANGED vars
  <2>1. UNCHANGED <<redis, legacy, db, todo, seen, job, clean, diverged>>
    BY <1>1 DEF vars
  <2>2. UNCHANGED copies
    BY <2>1 DEF copies
  <2>3. AllKept' = AllKept /\ \A t : KeptBut(t)' = KeptBut(t)
    BY <2>2, KeptSame
  <2>4. Stored'
    BY <2>1 DEF ParityInv, Stored, SeenOK, AtMirror, Command
  <2>5. \A p \in Requests : Busy(p)' = Busy(p) /\ Waits(p)' = Waits(p)
    BY <2>1 DEF Busy, Waits
  <2>6. \A w \in Procs : Current(w)' = Current(w)
    BY <2>1 DEF Current, AtMirror, Command, Seeing
  <2>7. \A w \in Procs : Phase(todo[w]) => Phase(todo[w])'
    <3> SUFFICES ASSUME NEW w \in Procs, Phase(todo[w])
                 PROVE  Phase(todo[w])'
      OBVIOUS
    <3>1. Resting(todo[w]) => Resting(todo[w])'
      BY <2>1, <2>3 DEF Resting, Coming, Imp, Imported
    <3>2. Appending(todo[w]) => Appending(todo[w])'
      BY <2>1, <2>3 DEF Appending, Coming, Imp, Imported
    <3>3. Appended(todo[w]) => Appended(todo[w])'
      BY <2>1, <2>3 DEF Appended, DbMessages, View
    <3>4. Settling(todo[w]) => Settling(todo[w])'
      BY <2>1, <2>3 DEF Settling, View
    <3>5. Restocking(todo[w]) => Restocking(todo[w])'
      BY <2>1, <2>3 DEF Restocking
    <3> QED
      BY <3>1, <3>2, <3>3, <3>4, <3>5 DEF Phase
  <2>8. \A p \in Requests : Alone(p) => Alone(p)'
    BY <2>1, <2>5, <2>6, <2>7, ProcsApart DEF Alone
  <2>9. Quiet' = Quiet
    BY <2>5 DEF Quiet
  <2> QED
    BY <2>1, <2>3, <2>4, <2>5, <2>8, <2>9 DEF ParityInv
<1>2. ASSUME NEW p \in Requests, NEW call \in Calls, Start(p, call[1], call[2])
      PROVE  ParityInv'
  BY <1>2, ParityStart DEF ConvInv
<1>3. ASSUME NEW w \in Procs, Step(w)
      PROVE  ParityInv'
  BY <1>3, ParityKept DEF ConvInv
<1> QED
  BY <1>1, <1>2, <1>3, NextIsStep

\* The invariant implies the property.
LEMMA ParityImplies == ParityInv => MirrorParity
BY DEF ParityInv, AllKept, Kept, MirrorParity

\* Whenever nothing runs, the copy of a thread in the database is the history the
\* next read returns, unless requests have overlapped, a mirror write has failed, a
\* process has died or a list was trimmed since the last snapshot, clear or deletion:
\* for every number of requests and messages, any calls and any faults
\* (RedisConversationWriteCoordinator, ConversationStore and AsyncChatStore).
THEOREM ConversationMirrorParity == Spec => []MirrorParity
<1>1. Init => ConvInv /\ ParityInv
  BY InitConv, InitParity
<1>2. ConvInv /\ ParityInv /\ [Next]_vars => ConvInv' /\ ParityInv'
  BY NextConv, NextParity
<1> QED
  BY <1>1, <1>2, ParityImplies, PTL DEF Spec
=============================================================================
