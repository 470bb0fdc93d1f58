-------------------------- MODULE JobControlProofs --------------------------
(* Invariance proofs for JobControl, for every value of its constants.     *)
(* First what needs no counting: types, and that no job is lost.  Then what *)
(* counts: the reservations of a target, the replays of a job, and the     *)
(* copies of its id on dispatch lists, in hands and in coroutines.         *)
EXTENDS JobControl, FiniteSetTheorems, WellFoundedInduction, TLAPS

USE DEF historyVars

-----------------------------------------------------------------------------
(* Lists: what LREM, RPUSH and BRPOPLPUSH keep.                            *)

\* A non-empty set of naturals has a least element, so Min is one of it.
LEMMA MinInSet ==
    ASSUME NEW S \in SUBSET Nat, S # {}
    PROVE  Min(S) \in S /\ \A y \in S : Min(S) <= y
<1>1. PICK x \in S : \A y \in S : ~ (<<y, x>> \in OpToRel(<, Nat))
  BY NatLessThanWellFounded, WFMin
<1>2. \A y \in S : x <= y
  <2> SUFFICES ASSUME NEW y \in S, y < x PROVE FALSE
    OBVIOUS
  <2>1. <<y, x>> \in OpToRel(<, Nat)
    BY DEF OpToRel
  <2> QED
    BY <1>1, <2>1
<1> QED
  BY <1>2 DEF Min

\* LREM of one occurrence of e: nothing, or one place of the list that holds e
\* is closed up.
LEMMA RemoveFirstShape ==
    ASSUME NEW S, NEW s \in Seq(S), NEW e
    PROVE  LET r == RemoveFirst(s, e)
           IN  \/ r = s
               \/ \E m \in 1..Len(s) :
                     /\ s[m] = e /\ r \in Seq(S) /\ Len(r) = Len(s) - 1
                     /\ \A k \in 1..(m - 1) : r[k] = s[k]
                     /\ \A k \in m..(Len(s) - 1) : r[k] = s[k + 1]
<1> DEFINE I == {i \in 1..Len(s) : s[i] = e}
           m == Min(I)
           r == RemoveAt(s, m)
<1>1. CASE I = {}
  <2>1. RemoveFirst(s, e) = s
    BY <1>1 DEF RemoveFirst
  <2> QED
    BY <2>1
<1>2. CASE I # {}
  <2>1. RemoveFirst(s, e) = r
    BY <1>2 DEF RemoveFirst, SelectInSeq
  <2>2. m \in I
    <3>1. I \in SUBSET Nat
      OBVIOUS
    <3> QED
      BY <1>2, <3>1, MinInSet
  <2>3. m \in 1..Len(s) /\ s[m] = e
    BY <2>2
  <2> HIDE DEF m
  <2>4. /\ r \in Seq(S) /\ Len(r) = Len(s) - 1
        /\ \A k \in 1..(m - 1) : r[k] = s[k]
        /\ \A k \in m..(Len(s) - 1) : r[k] = s[k + 1]
    <3> DEFINE a == SubSeq(s, 1, m - 1)
               b == SubSeq(s, m + 1, Len(s))
    <3>1. a \in Seq(S) /\ Len(a) = m - 1 /\ \A k \in 1..(m - 1) : a[k] = s[k]
      BY <2>3
    <3>2. /\ b \in Seq(S) /\ Len(b) = Len(s) - m
          /\ \A k \in 1..(Len(s) - m) : b[k] = s[m + k]
      BY <2>3
    <3>3. r = a \o b
      BY DEF RemoveAt
    <3> HIDE DEF a, b, r
    <3>4. r \in Seq(S) /\ Len(r) = Len(s) - 1
      BY <2>3, <3>1, <3>2, <3>3
    <3>5. \A k \in 1..(m - 1) : r[k] = s[k]
      BY <2>3, <3>1, <3>2, <3>3
    <3>6. ASSUME NEW k \in m..(Len(s) - 1)
          PROVE  r[k] = s[k + 1]
      <4>1. r[k] = b[k - (m - 1)]
        BY <2>3, <3>1, <3>2, <3>3
      <4>2. k - (m - 1) \in 1..(Len(s) - m) /\ m + (k - (m - 1)) = k + 1
        BY <2>3
      <4> QED
        BY <3>2, <4>1, <4>2
    <3> QED
      BY <3>4, <3>5, <3>6
  <2> QED
    BY <2>1, <2>3, <2>4
<1> QED
  BY <1>1, <1>2

\* It yields a list over the same set in which every other element is still
\* present.
LEMMA RemoveFirstKeeps ==
    ASSUME NEW S, NEW s \in Seq(S), NEW e
    PROVE  /\ RemoveFirst(s, e) \in Seq(S)
           /\ \A x : x # e /\ Contains(s, x) => Contains(RemoveFirst(s, e), x)
<1> DEFINE r == RemoveFirst(s, e)
<1>1. CASE r = s
  BY <1>1
<1>2. ASSUME NEW m \in 1..Len(s), s[m] = e, r \in Seq(S), Len(r) = Len(s) - 1,
             \A k \in 1..(m - 1) : r[k] = s[k],
             \A k \in m..(Len(s) - 1) : r[k] = s[k + 1]
      PROVE  \A x : x # e /\ Contains(s, x) => Contains(r, x)
  <2> HIDE DEF r
  <2>5. ASSUME NEW x, x # e, Contains(s, x)
        PROVE  Contains(r, x)
    <3>1. PICK i \in 1..Len(s) : s[i] = x
      BY <2>5 DEF Contains
    <3>2. CASE i < m
      BY <1>2, <3>1, <3>2 DEF Contains
    <3>3. CASE i > m
      <4>1. i - 1 \in m..(Len(s) - 1) /\ i - 1 \in 1..Len(r)
        BY <1>2, <3>3
      <4>2. r[i - 1] = x
        BY <1>2, <3>1, <4>1
      <4> QED
        BY <4>1, <4>2 DEF Contains
    <3> QED
      BY <1>2, <2>5, <3>1, <3>2, <3>3
  <2> QED
    BY <2>5
<1> QED
  BY <1>1, <1>2, RemoveFirstShape

\* RPUSH keeps what is on the list and adds e.
LEMMA AppendKeeps ==
    ASSUME NEW S, NEW s \in Seq(S), NEW e \in S
    PROVE  /\ Append(s, e) \in Seq(S)
           /\ Contains(Append(s, e), e)
           /\ \A x : Contains(s, x) => Contains(Append(s, e), x)
<1> DEFINE r == Append(s, e)
<1>1. /\ r \in Seq(S) /\ Len(r) = Len(s) + 1 /\ Len(s) \in Nat
      /\ r[Len(s) + 1] = e
      /\ \A k \in 1..Len(s) : r[k] = s[k]
  OBVIOUS
<1> HIDE DEF r
<1>2. Contains(r, e)
  <2>1. Len(s) + 1 \in 1..Len(r)
    BY <1>1
  <2> QED
    BY <1>1, <2>1 DEF Contains
<1>3. ASSUME NEW x, Contains(s, x)
      PROVE  Contains(r, x)
  <2>1. PICK i \in 1..Len(s) : s[i] = x
    BY <1>3 DEF Contains
  <2>2. i \in 1..Len(r) /\ r[i] = x
    BY <1>1, <2>1
  <2> QED
    BY <2>2 DEF Contains
<1> QED
  BY <1>1, <1>2, <1>3 DEF r

-----------------------------------------------------------------------------
(* Type correctness.                                                       *)

\* Replacing one value of a function by one of the same set.
LEMMA ExceptTyped ==
    ASSUME NEW A, NEW C, NEW f \in [A -> C], NEW a \in A, NEW v \in C
    PROVE  [f EXCEPT ![a] = v] \in [A -> C]
OBVIOUS

\* A list or task count per worker and job: reading it and setting one entry.
LEMMA CountsTyped ==
    ASSUME NEW f \in [Workers -> [Jobs -> Nat]], NEW w \in Workers, NEW j \in Jobs
    PROVE  /\ f[w][j] \in Nat
           /\ \A n \in Nat : [f EXCEPT ![w][j] = n]
                                \in [Workers -> [Jobs -> Nat]]
<1> DEFINE C == [Jobs -> Nat]
<1>1. f[w] \in C /\ f[w][j] \in Nat
  OBVIOUS
<1>2. \A n \in Nat : [f[w] EXCEPT ![j] = n] \in C
  OBVIOUS
<1>4. f \in [Workers -> C]
  OBVIOUS
<1> HIDE DEF C
<1>5. \A g \in C : [f EXCEPT ![w] = g] \in [Workers -> C]
  BY <1>4, ExceptTyped
<1>6. \A n \in Nat : [f EXCEPT ![w][j] = n] \in [Workers -> C]
  BY <1>2, <1>5
<1> QED
  BY <1>1, <1>6 DEF C

\* _release_reserved_capacity and _remove_from_processing keep the types of
\* what they change; the saved records are records.
LEMMA HelpersTyped ==
    ASSUME TypeOK, NEW r \in JobRecord
    PROVE  /\ ReleaseReservedCapacity(r) \in [Targets -> Nat]
           /\ \A w \in Workers \cup {None}, j \in Jobs :
                 RemoveFromProcessing(w, j) \in [Workers -> [Jobs -> Nat]]
           /\ \A s \in Statuses : [r EXCEPT !.status = s] \in JobRecord
           /\ \A n \in Nat : [r EXCEPT !.retry_count = n] \in JobRecord
           /\ \A n \in Nat : RequeuedRecord(r, n) \in JobRecord
<1>1. ReleaseReservedCapacity(r) \in [Targets -> Nat]
  BY DEF TypeOK, ReleaseReservedCapacity, Less1, JobRecord
<1>2. ASSUME NEW w \in Workers \cup {None}, NEW j \in Jobs
      PROVE  RemoveFromProcessing(w, j) \in [Workers -> [Jobs -> Nat]]
  <2>1. CASE w = None
    BY <2>1 DEF RemoveFromProcessing, TypeOK
  <2>2. CASE w # None
    <3>1. w \in Workers /\ processing \in [Workers -> [Jobs -> Nat]]
      BY <2>2 DEF TypeOK
    <3>2. processing[w][j] \in Nat
      BY <3>1, CountsTyped
    <3>3. Less1(processing[w][j]) \in Nat
      BY <3>2 DEF Less1
    <3>4. RemoveFromProcessing(w, j) =
             [processing EXCEPT ![w][j] = Less1(processing[w][j])]
      BY <2>2, <3>1 DEF RemoveFromProcessing
    <3> QED
      BY <3>1, <3>3, <3>4, CountsTyped
  <2> QED
    BY <2>1, <2>2
<1>3. \A s \in Statuses : [r EXCEPT !.status = s] \in JobRecord
  BY DEF JobRecord
<1>4. \A n \in Nat : [r EXCEPT !.retry_count = n] \in JobRecord
  BY DEF JobRecord
<1>5. \A n \in Nat : RequeuedRecord(r, n) \in JobRecord
  BY DEF JobRecord, RequeuedRecord, Statuses, DowngradedKind
<1> QED
  BY <1>1, <1>2, <1>3, <1>4, <1>5

\* The reservations that were cut off are counted per target.
LEMMA LeakTyped ==
    ASSUME TypeOK, NEW j \in Jobs
    PROVE  Leak(j) \in [Targets -> Nat]
<1>1. job[j].assigned_target_id \in Targets \cup {None} /\ leaked \in [Targets -> Nat]
  BY DEF TypeOK, JobRecord
<1> QED
  BY <1>1 DEF Leak

\* Any number of the commands that save a record with a terminal status and
\* release what it holds keep the types of the variables they change.
LEMMA MarkTerminalTyped ==
    ASSUME TypeOK, NEW j \in Jobs, NEW r \in JobRecord,
           NEW s \in Terminal, NEW w \in Workers \cup {None}, NEW n,
           MarkTerminal(j, r, s, w, n)
    PROVE  /\ job' \in [Jobs -> JobRecord] /\ usage' \in [Targets -> Nat]
           /\ processing' \in [Workers -> [Jobs -> Nat]] /\ active' \subseteq Jobs
           /\ leaked' \in [Targets -> Nat]
<1>1. r.assigned_worker_id \in Workers \cup {None}
  BY DEF JobRecord
<1>2. s \in Statuses
  BY DEF Statuses
<1>3. job' \in [Jobs -> JobRecord] /\ active' \subseteq Jobs
  BY <1>2, HelpersTyped DEF TypeOK, MarkTerminal
<1>4. usage' \in [Targets -> Nat] /\ leaked' \in [Targets -> Nat]
  BY HelpersTyped, LeakTyped DEF TypeOK, MarkTerminal
<1>5. processing' \in [Workers -> [Jobs -> Nat]]
  BY <1>1, HelpersTyped DEF TypeOK, MarkTerminal
<1> QED
  BY <1>3, <1>4, <1>5

\* So do mark_job_completed, mark_job_failed and mark_job_cancelled, which may
\* also leave everything alone.
LEMMA MarkTyped ==
    ASSUME TypeOK, NEW j \in Jobs, NEW s \in Terminal, NEW w \in Workers \cup {None}, NEW n,
           MarkDone(j, s, w, n) \/ MarkCancelled(j, w, n)
    PROVE  /\ job' \in [Jobs -> JobRecord] /\ usage' \in [Targets -> Nat]
           /\ processing' \in [Workers -> [Jobs -> Nat]] /\ active' \subseteq Jobs
           /\ leaked' \in [Targets -> Nat]
<1>1. job[j] \in JobRecord
  BY DEF TypeOK
<1>2. "cancelled" \in Terminal
  BY DEF Terminal
<1>3. CASE UNCHANGED <<job, usage, processing, active, leaked>>
  BY <1>3 DEF TypeOK
<1> QED
  BY <1>1, <1>2, <1>3, MarkTerminalTyped DEF MarkDone, MarkCancelled

\* What the stop of a worker and the end of a claim or of a coroutine leave of
\* the workers' memory.
LEMMA WorkersTyped ==
    ASSUME TypeOK, NEW w \in Workers, NEW j \in Jobs, NEW n, NEW all,
           Dies(w) \/ ClaimEnds(w, n, all) \/ TaskEnds(w, j, n)
    PROVE  /\ up' \subseteq Workers /\ hand' \in [Workers -> Jobs \cup {None}]
           /\ tasks' \in [Workers -> [Jobs -> Nat]] /\ renewing' \in [Workers -> SUBSET Jobs]
<1>1. CASE Dies(w)
  <2>1. tasks' = [tasks EXCEPT ![w] = [k \in Jobs |-> 0]]
    BY <1>1 DEF Dies
  <2>2. [k \in Jobs |-> 0] \in [Jobs -> Nat]
    OBVIOUS
  <2>3. tasks' \in [Workers -> [Jobs -> Nat]]
    BY <2>1, <2>2, ExceptTyped DEF TypeOK
  <2> QED
    BY <1>1, <2>3 DEF Dies, TypeOK
<1>2. CASE hand' = [hand EXCEPT ![w] = None] /\ UNCHANGED <<up, tasks, renewing>>
  BY <1>2 DEF TypeOK
<1>3. CASE /\ tasks[w][j] > 0 /\ tasks' = [tasks EXCEPT ![w][j] = @ - 1]
           /\ renewing' = [renewing EXCEPT ![w] = @ \ {j}]
           /\ UNCHANGED <<up, hand>>
  <2> DEFINE m == tasks[w][j] - 1
  <2>1. m \in Nat
    BY <1>3, CountsTyped DEF TypeOK
  <2>2. tasks' = [tasks EXCEPT ![w][j] = m]
    BY <1>3 DEF TypeOK
  <2> HIDE DEF m
  <2>3. tasks' \in [Workers -> [Jobs -> Nat]]
    BY <2>1, <2>2, CountsTyped DEF TypeOK
  <2> QED
    BY <1>3, <2>3 DEF TypeOK
<1> QED
  BY <1>1, <1>2, <1>3 DEF ClaimEnds, TaskEnds

\* The count of stops and interruptions.
LEMMA ExecutedTyped ==
    ASSUME TypeOK, NEW n, NEW all, Executed(n, all)
    PROVE  crashes' \in Nat
BY DEF Executed, TypeOK

\* The empty Redis is well typed.
LEMMA TypeInit == Init => TypeOK
BY DEF Init, TypeOK, AbsentRecord, JobRecord, Statuses

\* Every operation of the gateway, the scheduler, the workers and the
\* environment keeps the types: one step per action of Next.
LEMMA TypeStep == TypeOK /\ [Next]_vars => TypeOK'
<1> SUFFICES ASSUME TypeOK, [Next]_vars PROVE TypeOK'
  OBVIOUS
<1> USE ConstantsAssumption
<1>f. /\ AbsentRecord \in JobRecord
      /\ \A j \in Jobs : job[j] \in JobRecord
      /\ \A j \in Jobs : job[j].assigned_worker_id \in Workers \cup {None}
      /\ \A j \in Jobs : job[j].retry_count \in Nat
      /\ \A e \in Jobs : RemoveFirst(pending, e) \in Seq(Jobs)
      /\ \A e \in Jobs : Append(pending, e) \in Seq(Jobs)
      /\ \A e \in Jobs, t \in Targets : RemoveFirst(dispatch[t], e) \in Seq(Jobs)
      /\ \A e \in Jobs, t \in Targets : Append(dispatch[t], e) \in Seq(Jobs)
  BY RemoveFirstKeeps, AppendKeeps DEF TypeOK, AbsentRecord, JobRecord, Statuses
<1>t. "failed" \in Terminal /\ "completed" \in Terminal /\ "cancelled" \in Terminal
  BY DEF Terminal
<1>1. ASSUME NEW j \in Jobs, Enqueue(j) PROVE TypeOK'
  <2>1. [AbsentRecord EXCEPT !.status = "queued",
           !.target_kind = IF PreferGpu /\ HasGpuWorker THEN "gpu" ELSE "cpu"] \in JobRecord
    BY DEF AbsentRecord, JobRecord, Statuses
  <2> QED
    BY <1>1, <1>f, <2>1 DEF Enqueue, TypeOK, workerVars
<1>2. ASSUME NEW j \in Jobs, CancelJob(j) PROVE TypeOK'
  <2>1. CASE CancelQueued(j)
    <3>1. PICK n \in 0..4 : /\ MarkCancelled(j, None, n) /\ Executed(n, 4)
                            /\ lost' = IF n = 0 THEN lost \cup {j} ELSE lost
                            /\ pending' = RemoveFirst(pending, j)
      BY <2>1 DEF CancelQueued
    <3>2. UNCHANGED <<created, dispatch, workerVars, starts>>
      BY <2>1 DEF CancelQueued
    <3>3. crashes' \in Nat /\ lost' \subseteq Jobs /\ pending' \in Seq(Jobs)
      BY <1>f, <3>1, ExecutedTyped DEF TypeOK
    <3> QED
      BY <1>t, <3>1, <3>2, <3>3, MarkTyped DEF TypeOK, workerVars
  <2>2. CASE CancelAdmitted(j)
    <3>0. job[j].assigned_target_id \in Targets
      BY <1>f, <2>2 DEF CancelAdmitted, JobRecord
    <3>1. PICK n \in 0..4 : MarkCancelled(j, None, n) /\ Executed(n, 4)
      BY <2>2 DEF CancelAdmitted
    <3>2. dispatch' \in [Targets -> Seq(Jobs)]
      BY <1>f, <2>2, <3>0 DEF CancelAdmitted, TypeOK
    <3>3. UNCHANGED <<created, pending, workerVars, starts, lost>>
      BY <2>2 DEF CancelAdmitted
    <3>4. crashes' \in Nat
      BY <3>1, ExecutedTyped
    <3> QED
      BY <1>t, <3>1, <3>2, <3>3, <3>4, MarkTyped DEF TypeOK, workerVars
  <2>3. CASE CancelRunning(j)
    <3>1. [job[j] EXCEPT !.cancel_requested = TRUE] \in JobRecord
      BY <1>f DEF JobRecord
    <3> QED
      BY <2>3, <3>1 DEF CancelRunning, TypeOK, workerVars
  <2> QED
    BY <1>2, <2>1, <2>2, <2>3 DEF CancelJob
<1>3. ASSUME NEW j \in Jobs, RequeueStaleJobs(j) PROVE TypeOK'
  <2>1. CASE ReapGone(j)
    BY <2>1 DEF ReapGone, TypeOK, workerVars
  <2>2. CASE ReapCancelRequested(j)
    <3>0. job[j].assigned_target_id \in Targets \cup {None}
      BY <1>f DEF JobRecord
    <3>1. PICK n \in 0..4 : MarkCancelled(j, job[j].assigned_worker_id, n) /\ Executed(n, 4)
      BY <2>2 DEF ReapCancelRequested
    <3>2. dispatch' \in [Targets -> Seq(Jobs)]
      BY <1>f, <2>2, <3>0 DEF ReapCancelRequested, TypeOK
    <3>3. UNCHANGED <<created, pending, workerVars, starts, lost>>
      BY <2>2 DEF ReapCancelRequested
    <3>4. crashes' \in Nat
      BY <3>1, ExecutedTyped
    <3> QED
      BY <1>f, <1>t, <3>1, <3>2, <3>3, <3>4, MarkTyped DEF TypeOK, workerVars
  <2>3. CASE ReapLate(j) \/ ReapExhausted(j)
    <3>0. job[j].retry_count + 1 \in Nat
      BY <1>f
    <3> DEFINE q == [job[j] EXCEPT !.retry_count = job[j].retry_count + 1]
    <3>1. q \in JobRecord
      BY <1>f, <3>0, HelpersTyped
    <3>2. PICK n \in 1..4, r \in {job[j], q} :
             MarkTerminal(j, r, "failed", job[j].assigned_worker_id, n) /\ Executed(n, 4)
      BY <2>3 DEF ReapLate, ReapExhausted
    <3>3. UNCHANGED <<created, pending, dispatch, workerVars, starts, lost>>
      BY <2>3 DEF ReapLate, ReapExhausted
    <3> HIDE DEF q
    <3>4. crashes' \in Nat /\ r \in JobRecord
      BY <1>f, <3>1, <3>2, ExecutedTyped
    <3> QED
      BY <1>f, <1>t, <3>2, <3>3, <3>4, MarkTerminalTyped DEF TypeOK, workerVars
  <2>5. CASE ReapRequeue(j)
    <3>0. RequeuedRecord(job[j], job[j].retry_count + 1) \in JobRecord
      <4>1. job[j].retry_count + 1 \in Nat
        BY <1>f
      <4> QED
        BY <1>f, <4>1, HelpersTyped
    <3> DEFINE q == RequeuedRecord(job[j], job[j].retry_count + 1)
    <3>q. job' = job \/ job' = [job EXCEPT ![j] = q]
      BY <2>5 DEF ReapRequeue
    <3>p. q \in JobRecord
      BY <3>0
    <3> HIDE DEF q
    <3>1. job' \in [Jobs -> JobRecord]
      BY <3>p, <3>q DEF TypeOK
    <3>2. usage' \in [Targets -> Nat] /\ processing' \in [Workers -> [Jobs -> Nat]]
      <4>1. /\ usage' = ReleaseReservedCapacity(job[j])
            /\ \/ processing' = RemoveFromProcessing(job[j].assigned_worker_id, j)
               \/ processing' = processing
        BY <2>5 DEF ReapRequeue
      <4>2. /\ ReleaseReservedCapacity(job[j]) \in [Targets -> Nat]
            /\ RemoveFromProcessing(job[j].assigned_worker_id, j) \in [Workers -> [Jobs -> Nat]]
        BY <1>f, HelpersTyped
      <4>3. processing \in [Workers -> [Jobs -> Nat]]
        BY DEF TypeOK
      <4> QED
        BY <4>1, <4>2, <4>3
    <3>3. pending' \in Seq(Jobs) /\ active' \subseteq Jobs /\ lost' \subseteq Jobs
      BY <1>f, <2>5 DEF ReapRequeue, TypeOK
    <3>4. crashes' \in Nat /\ UNCHANGED <<created, dispatch, workerVars, starts, leaked>>
      BY <2>5, ExecutedTyped DEF ReapRequeue
    <3> QED
      BY <3>1, <3>2, <3>3, <3>4 DEF TypeOK, workerVars
  <2> QED
    BY <1>3, <2>1, <2>2, <2>3, <2>5 DEF RequeueStaleJobs
<1>4. ASSUME NEW j \in Jobs, LeaseEnds(j) \/ DeadlinePasses(j) \/ RecordExpires(j)
      PROVE  TypeOK'
  <2>1. /\ [job[j] EXCEPT !.leased = FALSE] \in JobRecord
        /\ [job[j] EXCEPT !.late = TRUE] \in JobRecord
    BY <1>f DEF JobRecord
  <2>2. job' \in [Jobs -> JobRecord]
    <3>1. CASE LeaseEnds(j)
      BY <2>1, <3>1 DEF LeaseEnds, TypeOK
    <3>2. CASE DeadlinePasses(j)
      BY <2>1, <3>2 DEF DeadlinePasses, TypeOK
    <3>3. CASE RecordExpires(j)
      BY <1>f, <3>3 DEF RecordExpires, TypeOK
    <3> QED
      BY <1>4, <3>1, <3>2, <3>3
  <2>3. leaked' \in [Targets -> Nat]
    BY <1>4, LeakTyped DEF LeaseEnds, DeadlinePasses, RecordExpires, TypeOK
  <2> QED
    BY <1>4, <2>2, <2>3 DEF LeaseEnds, DeadlinePasses, RecordExpires, TypeOK, workerVars
<1>5. ASSUME NEW j \in Jobs, NEW t \in Targets, TryAdmit(j, t) \/ TryAdmitRefused(j, t)
      PROVE  TypeOK'
  <2> DEFINE k == DowngradedKind(job[j].target_kind)
  <2>1. k \in {"cpu", "gpu"}
    BY DEF DowngradedKind
  <2>2. /\ [job[j] EXCEPT !.target_kind = k] \in JobRecord
        /\ [job[j] EXCEPT !.status = "admitted", !.assigned_target_id = t,
                          !.target_kind = k, !.leased = TRUE] \in JobRecord
    BY <1>f, <2>1 DEF JobRecord, Statuses
  <2>3. CASE TryAdmit(j, t)
    <3> DEFINE q == [job[j] EXCEPT !.target_kind = k]
               r == [job[j] EXCEPT !.status = "admitted", !.assigned_target_id = t,
                                   !.target_kind = k, !.leased = TRUE]
    <3>q. job' = [job EXCEPT ![j] = q] \/ job' = [job EXCEPT ![j] = r]
      BY <2>3 DEF TryAdmit
    <3>p. q \in JobRecord /\ r \in JobRecord
      BY <2>2
    <3> HIDE DEF q, r
    <3>1. job' \in [Jobs -> JobRecord]
      BY <3>p, <3>q DEF TypeOK
    <3>2. usage' \in [Targets -> Nat] /\ leaked' \in [Targets -> Nat]
      <4>1. /\ usage' = usage \/ usage' = [usage EXCEPT ![t] = @ + 1]
            /\ leaked' = leaked \/ leaked' = [leaked EXCEPT ![t] = @ + 1]
        BY <2>3 DEF TryAdmit
      <4>2. usage \in [Targets -> Nat] /\ leaked \in [Targets -> Nat]
        BY DEF TypeOK
      <4>3. usage[t] + 1 \in Nat /\ leaked[t] + 1 \in Nat
        BY <4>2
      <4>4. /\ [usage EXCEPT ![t] = @ + 1] \in [Targets -> Nat]
            /\ [leaked EXCEPT ![t] = @ + 1] \in [Targets -> Nat]
        BY <4>2, <4>3, ExceptTyped
      <4> QED
        BY <4>1, <4>2, <4>4
    <3>4. dispatch' \in [Targets -> Seq(Jobs)]
      BY <1>f, <2>3 DEF TryAdmit, TypeOK
    <3>3. pending' \in Seq(Jobs) /\ active' \subseteq Jobs /\ lost' \subseteq Jobs
      BY <1>f, <2>3 DEF TryAdmit, TypeOK
    <3>5. crashes' \in Nat /\ UNCHANGED <<created, processing, workerVars, starts>>
      BY <2>3, ExecutedTyped DEF TryAdmit
    <3> QED
      BY <3>1, <3>2, <3>3, <3>4, <3>5 DEF TypeOK, workerVars
  <2>4. CASE TryAdmitRefused(j, t)
    BY <2>2, <2>4 DEF TryAdmitRefused, TypeOK, workerVars
  <2> QED
    BY <1>5, <2>3, <2>4
<1>6. ASSUME NEW w \in Workers, ClaimPop(w) PROVE TypeOK'
  <2> DEFINE t == TargetOf[w]
  <2>1. t \in Targets /\ dispatch[t] \in Seq(Jobs) /\ dispatch[t] # <<>>
    BY <1>6 DEF ClaimPop, TypeOK
  <2>2. Last(dispatch[t]) \in Jobs /\ Front(dispatch[t]) \in Seq(Jobs)
    BY <2>1 DEF Last, Front
  <2>3. processing' \in [Workers -> [Jobs -> Nat]]
    <3> DEFINE n == processing[w][Last(dispatch[t])] + 1
    <3>1. n \in Nat
      BY <2>2, CountsTyped DEF TypeOK
    <3>2. processing' = [processing EXCEPT ![w][Last(dispatch[t])] = n]
      BY <1>6 DEF ClaimPop, TypeOK
    <3> HIDE DEF n
    <3> QED
      BY <2>2, <3>1, <3>2, CountsTyped DEF TypeOK
  <2>4. dispatch' \in [Targets -> Seq(Jobs)] /\ hand' \in [Workers -> Jobs \cup {None}]
    BY <1>6, <2>1, <2>2 DEF ClaimPop, TypeOK
  <2> QED
    BY <1>6, <2>3, <2>4 DEF ClaimPop, TypeOK
<1>7. ASSUME NEW w \in Workers, NEW j \in Jobs, Claim(w, j) PROVE TypeOK'
  <2>1. CASE ClaimGone(w, j)
    BY <1>f, <2>1, HelpersTyped DEF ClaimGone, TypeOK
  <2>e. ASSUME NEW n, NEW all, ClaimEnds(w, n, all)
        PROVE  /\ up' \subseteq Workers /\ hand' \in [Workers -> Jobs \cup {None}]
               /\ tasks' \in [Workers -> [Jobs -> Nat]]
               /\ renewing' \in [Workers -> SUBSET Jobs] /\ crashes' \in Nat /\ beat' = beat
    <3>1. Executed(n, all) /\ beat' = beat
      BY <2>e DEF ClaimEnds
    <3> QED
      BY <2>e, <3>1, WorkersTyped, ExecutedTyped
  <2>2. CASE ClaimMismatch(w, j)
    <3>0. RequeuedRecord(job[j], job[j].retry_count) \in JobRecord
      BY <1>f, HelpersTyped
    <3> DEFINE q == RequeuedRecord(job[j], job[j].retry_count)
    <3>q. job' = job \/ job' = [job EXCEPT ![j] = q]
      BY <2>2 DEF ClaimMismatch
    <3>p. q \in JobRecord
      BY <3>0
    <3> HIDE DEF q
    <3>1. job' \in [Jobs -> JobRecord]
      BY <3>p, <3>q DEF TypeOK
    <3>2. usage' \in [Targets -> Nat] /\ processing' \in [Workers -> [Jobs -> Nat]]
      <4>1. /\ usage' = usage \/ usage' = ReleaseReservedCapacity(job[j])
            /\ processing' = processing \/ processing' = RemoveFromProcessing(w, j)
        BY <2>2 DEF ClaimMismatch
      <4>2. /\ ReleaseReservedCapacity(job[j]) \in [Targets -> Nat]
            /\ RemoveFromProcessing(w, j) \in [Workers -> [Jobs -> Nat]]
        BY <1>f, HelpersTyped
      <4>3. usage \in [Targets -> Nat] /\ processing \in [Workers -> [Jobs -> Nat]]
        BY DEF TypeOK
      <4> QED
        BY <4>1, <4>2, <4>3
    <3>3. pending' \in Seq(Jobs) /\ active' \subseteq Jobs /\ lost' \subseteq Jobs
      BY <1>f, <2>2 DEF ClaimMismatch, TypeOK
    <3>4. PICK n \in 0..5 : ClaimEnds(w, n, 5)
      BY <2>2 DEF ClaimMismatch
    <3>5. UNCHANGED <<created, dispatch, starts, leaked>>
      BY <2>2 DEF ClaimMismatch
    <3> QED
      BY <2>e, <3>1, <3>2, <3>3, <3>4, <3>5 DEF TypeOK
  <2>3. CASE ClaimLate(w, j)
    <3>1. PICK n \in 0..4 : MarkDone(j, "failed", w, n) /\ ClaimEnds(w, n, 4)
      BY <2>3 DEF ClaimLate
    <3>2. UNCHANGED <<created, pending, dispatch, starts, lost>>
      BY <2>3 DEF ClaimLate
    <3> QED
      BY <1>t, <2>e, <3>1, <3>2, MarkTyped DEF TypeOK
  <2>4. CASE ClaimStart(w, j)
    <3>1. RunningRecord(w, job[j]) \in JobRecord
      BY <1>f DEF JobRecord, Statuses, RunningRecord
    <3>2. tasks' \in [Workers -> [Jobs -> Nat]]
      <4> DEFINE n == tasks[w][j] + 1
      <4>1. n \in Nat
        BY CountsTyped DEF TypeOK
      <4>2. tasks' = [tasks EXCEPT ![w][j] = n]
        BY <2>4 DEF ClaimStart, TypeOK
      <4> HIDE DEF n
      <4> QED
        BY <4>1, <4>2, CountsTyped DEF TypeOK
    <3>3. job' \in [Jobs -> JobRecord] /\ active' \subseteq Jobs
      BY <2>4, <3>1 DEF ClaimStart, TypeOK
    <3>4. /\ hand' \in [Workers -> Jobs \cup {None}]
          /\ renewing' \in [Workers -> SUBSET Jobs]
          /\ starts' \in [Jobs -> Nat]
      BY <2>4 DEF ClaimStart, TypeOK
    <3> QED
      BY <2>4, <3>2, <3>3, <3>4 DEF ClaimStart, TypeOK
  <2>5. CASE ClaimStartCut(w, j)
    <3>1. RunningRecord(w, job[j]) \in JobRecord
      BY <1>f DEF JobRecord, Statuses, RunningRecord
    <3>2. job' \in [Jobs -> JobRecord] /\ active' \subseteq Jobs /\ lost' \subseteq Jobs
      BY <2>5, <3>1 DEF ClaimStartCut, TypeOK
    <3>3. starts' \in [Jobs -> Nat]
      BY <2>5 DEF ClaimStartCut, TypeOK
    <3>4. PICK n \in 1..2 : ClaimEnds(w, n, 3)
      BY <2>5 DEF ClaimStartCut
    <3>5. UNCHANGED <<created, pending, dispatch, processing, usage, leaked>>
      BY <2>5 DEF ClaimStartCut
    <3> QED
      BY <2>e, <3>2, <3>3, <3>4, <3>5 DEF TypeOK
  <2> QED
    BY <1>7, <2>1, <2>2, <2>3, <2>4, <2>5 DEF Claim
<1>8. ASSUME NEW w \in Workers, NEW j \in Jobs, ProcessJob(w, j) PROVE TypeOK'
  <2>1. PICK n \in 0..4 :
           /\ TaskEnds(w, j, n)
           /\ \/ UNCHANGED <<job, usage, processing, active, leaked>>
              \/ \E s \in Terminal : MarkDone(j, s, w, n) \/ MarkCancelled(j, w, n)
    BY <1>8, <1>t DEF ProcessJob, TaskCancelled, TaskCompleted, TaskFailed, TaskAborted
  <2>2. /\ job' \in [Jobs -> JobRecord] /\ usage' \in [Targets -> Nat]
        /\ processing' \in [Workers -> [Jobs -> Nat]] /\ active' \subseteq Jobs
        /\ leaked' \in [Targets -> Nat]
    <3>1. CASE UNCHANGED <<job, usage, processing, active, leaked>>
      BY <3>1 DEF TypeOK
    <3> QED
      BY <2>1, <3>1, MarkTyped
  <2>3. /\ Executed(n, 4) /\ UNCHANGED <<created, pending, dispatch, beat, starts, lost>>
    BY <2>1 DEF TaskEnds
  <2> QED
    BY <2>1, <2>2, <2>3, WorkersTyped, ExecutedTyped DEF TypeOK
<1>9. ASSUME NEW w \in Workers, NEW j \in Jobs, RenewLease(w, j) PROVE TypeOK'
  <2>1. [job[j] EXCEPT !.leased = TRUE] \in JobRecord
    BY <1>f DEF JobRecord
  <2> QED
    BY <1>9, <2>1 DEF RenewLease, TypeOK, workerVars
<1>10. ASSUME NEW w \in Workers,
              WorkerStops(w) \/ WorkerStarts(w) \/ Heartbeat(w) \/ HeartbeatExpires(w)
       PROVE  TypeOK'
  <2>1. CASE WorkerStops(w)
    <3>1. Dies(w) /\ crashes' \in Nat /\ UNCHANGED <<redisVars, beat, starts, lost, leaked>>
      BY <2>1 DEF WorkerStops, TypeOK
    <3>2. /\ up' \subseteq Workers /\ hand' \in [Workers -> Jobs \cup {None}]
          /\ tasks' \in [Workers -> [Jobs -> Nat]] /\ renewing' \in [Workers -> SUBSET Jobs]
      <4>1. CASE Jobs = {}
        BY <3>1, <4>1 DEF Dies, TypeOK
      <4>2. CASE Jobs # {}
        BY <3>1, <4>2, WorkersTyped
      <4> QED
        BY <4>1, <4>2
    <3> QED
      BY <3>1, <3>2 DEF TypeOK, redisVars
  <2>2. CASE WorkerStarts(w) \/ Heartbeat(w) \/ HeartbeatExpires(w)
    BY <2>2 DEF WorkerStarts, Heartbeat, HeartbeatExpires, TypeOK, redisVars
  <2> QED
    BY <1>10, <2>1, <2>2
<1>11. CASE UNCHANGED vars
  BY <1>11 DEF vars, redisVars, workerVars, TypeOK
<1> QED
  BY <1>1, <1>2, <1>3, <1>4, <1>5, <1>6, <1>7, <1>8, <1>9, <1>10, <1>11
     DEF Next, JobStep, WorkerStep

\* Every reachable state is well typed, for all sets of jobs, workers and
\* targets and all limits.
THEOREM TypeCorrect == Spec => []TypeOK
BY TypeInit, TypeStep, PTL DEF Spec

-----------------------------------------------------------------------------
(* No job is lost.                                                         *)

\* NoJobLost for one job, with its record, the pending list and the active set
\* as parameters.
Found(r, p, a, j) ==
    /\ r.status = "queued" => Contains(p, j)
    /\ r.status \in {"admitted", "running"} => j \in a

\* A step that concerns job k leaves the other jobs where they are found.
LEMMA OnlyOneJob ==
    ASSUME NEW k \in Jobs, NoJobLost, lost \subseteq lost',
           \A j \in Jobs \ {k} : /\ job'[j].status = job[j].status
                                 /\ Contains(pending, j) => Contains(pending', j)
                                 /\ j \in active => j \in active',
           k \in lost' \/ Found(job'[k], pending', active', k)
    PROVE  NoJobLost'
BY DEF NoJobLost, Found, Live

\* A step that changes no status, no pending entry and no active entry.
LEMMA SameJobs ==
    ASSUME NoJobLost, UNCHANGED <<pending, active, lost>>,
           \A j \in Jobs : job'[j].status = job[j].status
    PROVE  NoJobLost'
BY DEF NoJobLost, Live

\* A terminal record needs to be found nowhere; before its save, the job is where
\* it was unless the caller has lost it.
LEMMA MarkTerminalKeeps ==
    ASSUME TypeOK, NoJobLost, NEW k \in Jobs, NEW r, NEW s \in Terminal, NEW w, NEW n \in Nat,
           r \in JobRecord, MarkTerminal(k, r, s, w, n), lost \subseteq lost',
           \A j \in Jobs \ {k} : Contains(pending, j) => Contains(pending', j),
           n = 0 => pending' = pending \/ k \in lost'
    PROVE  NoJobLost'
<1>1. CASE n = 0
  <2>1. job' = job /\ active' = active
    BY <1>1 DEF MarkTerminal
  <2>2. k \in lost' \/ Found(job'[k], pending', active', k) \/ k \in lost
    BY <1>1, <2>1 DEF NoJobLost, Found, Live
  <2> QED
    BY <2>1, <2>2, OnlyOneJob
<1>2. CASE n # 0
  <2> DEFINE q == [r EXCEPT !.status = s]
  <2>1. n >= 1
    BY <1>2
  <2>2. q.status \in Terminal
    BY DEF JobRecord
  <2>3. job' = [job EXCEPT ![k] = q]
    BY <2>1 DEF MarkTerminal
  <2> HIDE DEF q
  <2>4. job'[k].status \in Terminal /\ \A j \in Jobs \ {k} : job'[j] = job[j]
    BY <2>2, <2>3 DEF TypeOK
  <2>5. \A j \in Jobs \ {k} : j \in active => j \in active'
    BY DEF MarkTerminal
  <2>6. Found(job'[k], pending', active', k)
    BY <2>4 DEF Found, Terminal
  <2> QED
    BY <2>4, <2>5, <2>6, OnlyOneJob
<1> QED
  BY <1>1, <1>2

\* The mark_job_* operations lose no job, wherever they are cut: the one they end
\* needs no entry, the others keep theirs.
LEMMA MarkKeeps ==
    ASSUME TypeOK, NoJobLost, NEW k \in Jobs, NEW s \in Terminal, NEW w, NEW n \in Nat,
           MarkDone(k, s, w, n) \/ MarkCancelled(k, w, n),
           pending' = pending, lost' = lost
    PROVE  NoJobLost'
<1>1. job[k] \in JobRecord /\ "cancelled" \in Terminal
  BY DEF TypeOK, Terminal
<1>2. CASE UNCHANGED <<job, usage, processing, active, leaked>>
  BY <1>2, SameJobs
<1>3. CASE MarkTerminal(k, job[k], s, w, n) \/ MarkTerminal(k, job[k], "cancelled", w, n)
  BY <1>1, <1>3, MarkTerminalKeeps
<1> QED
  BY <1>2, <1>3 DEF MarkDone, MarkCancelled

\* NoJobLost is inductive together with TypeOK: one step per action of Next.
LEMMA NoJobLostStep == TypeOK /\ NoJobLost /\ [Next]_vars => NoJobLost'
<1> SUFFICES ASSUME TypeOK, NoJobLost, [Next]_vars PROVE NoJobLost'
  OBVIOUS
<1>f. /\ \A j \in Jobs : job[j] \in JobRecord
      /\ pending \in Seq(Jobs)
      /\ \A e \in Jobs, x \in Jobs :
            x # e /\ Contains(pending, x) => Contains(RemoveFirst(pending, e), x)
      /\ \A e \in Jobs : Contains(Append(pending, e), e)
      /\ \A e \in Jobs, x \in Jobs :
            Contains(pending, x) => Contains(Append(pending, e), x)
  BY RemoveFirstKeeps, AppendKeeps DEF TypeOK
<1>t. "failed" \in Terminal /\ "completed" \in Terminal /\ "cancelled" \in Terminal
  BY DEF Terminal
<1>1. ASSUME NEW k \in Jobs, Enqueue(k) PROVE NoJobLost'
  <2>1. /\ job'[k].status = "queued"
        /\ \A j \in Jobs \ {k} : job'[j] = job[j]
    BY <1>1 DEF Enqueue, TypeOK, AbsentRecord
  <2>2. pending' = Append(pending, k) /\ active' = active /\ lost' = lost
    BY <1>1 DEF Enqueue
  <2>3. Found(job'[k], pending', active', k)
    BY <1>f, <2>1, <2>2 DEF Found
  <2> QED
    BY <1>f, <2>1, <2>2, <2>3, OnlyOneJob
<1>2. ASSUME NEW k \in Jobs, CancelJob(k) PROVE NoJobLost'
  <2>1. CASE CancelQueued(k)
    <3>1. PICK n \in 0..4 : /\ MarkTerminal(k, job[k], "cancelled", None, n)
                            /\ lost' = IF n = 0 THEN lost \cup {k} ELSE lost
      BY <2>1 DEF CancelQueued, MarkCancelled, Terminal
    <3>2. pending' = RemoveFirst(pending, k)
      BY <2>1 DEF CancelQueued
    <3>3. n \in Nat /\ lost \subseteq lost' /\ (n = 0 => k \in lost')
      BY <3>1
    <3> QED
      BY <1>f, <1>t, <3>1, <3>2, <3>3, MarkTerminalKeeps
  <2>2. CASE CancelAdmitted(k)
    <3>1. PICK n \in 0..4 : MarkCancelled(k, None, n)
      BY <2>2 DEF CancelAdmitted
    <3>2. n \in Nat /\ pending' = pending /\ lost' = lost
      BY <2>2, <3>1 DEF CancelAdmitted
    <3> QED
      BY <1>t, <3>1, <3>2, MarkKeeps
  <2>3. CASE CancelRunning(k)
    <3>1. \A j \in Jobs : job'[j].status = job[j].status
      BY <1>f, <2>3 DEF CancelRunning, TypeOK, JobRecord
    <3> QED
      BY <2>3, <3>1, SameJobs DEF CancelRunning
  <2> QED
    BY <1>2, <2>1, <2>2, <2>3 DEF CancelJob
<1>3. ASSUME NEW k \in Jobs, RequeueStaleJobs(k) PROVE NoJobLost'
  <2>1. CASE ReapGone(k)
    <3>1. job' = job /\ pending' = pending /\ active' = active \ {k} /\ lost' = lost
      BY <2>1 DEF ReapGone
    <3>2. Found(job'[k], pending', active', k)
      BY <2>1, <3>1 DEF ReapGone, Found, Terminal
    <3> QED
      BY <3>1, <3>2, OnlyOneJob
  <2>2. CASE ReapCancelRequested(k)
    <3>1. PICK n \in 0..4 : MarkCancelled(k, job[k].assigned_worker_id, n)
      BY <2>2 DEF ReapCancelRequested
    <3>2. n \in Nat /\ pending' = pending /\ lost' = lost
      BY <2>2, <3>1 DEF ReapCancelRequested
    <3> QED
      BY <1>t, <3>1, <3>2, MarkKeeps
  <2>3. CASE ReapLate(k)
    <3>1. PICK n \in 1..4 : MarkTerminal(k, job[k], "failed", job[k].assigned_worker_id, n)
      BY <2>3 DEF ReapLate
    <3>2. n \in Nat /\ pending' = pending /\ lost' = lost
      BY <2>3, <3>1 DEF ReapLate
    <3> QED
      BY <1>f, <1>t, <3>1, <3>2, MarkTerminalKeeps
  <2>4. CASE ReapExhausted(k)
    <3> DEFINE r == [job[k] EXCEPT !.retry_count = job[k].retry_count + 1]
    <3>1. r \in JobRecord
      <4>1. job[k].retry_count + 1 \in Nat
        BY <1>f DEF JobRecord
      <4> QED
        BY <1>f, <4>1, HelpersTyped
    <3>2. PICK n \in 1..4 : MarkTerminal(k, r, "failed", job[k].assigned_worker_id, n)
      BY <2>4 DEF ReapExhausted
    <3>3. n \in Nat /\ pending' = pending /\ lost' = lost
      BY <2>4, <3>2 DEF ReapExhausted
    <3> HIDE DEF r
    <3> QED
      BY <1>t, <3>1, <3>2, <3>3, MarkTerminalKeeps
  <2>5. CASE ReapRequeue(k)
    <3> DEFINE q == RequeuedRecord(job[k], job[k].retry_count + 1)
    <3>1. PICK n \in 1..5 :
             /\ job' = IF n >= 4 THEN [job EXCEPT ![k] = q] ELSE job
             /\ active' = IF n >= 3 THEN active \ {k} ELSE active
             /\ pending' = IF n >= 5 THEN Append(pending, k) ELSE pending
             /\ lost' = IF n \in 3..4 THEN lost \cup {k} ELSE lost
      BY <2>5 DEF ReapRequeue
    <3>2. q.status = "queued"
      BY <1>f DEF RequeuedRecord, JobRecord
    <3> HIDE DEF q
    <3>3. /\ \A j \in Jobs \ {k} : job'[j] = job[j]
          /\ \A j \in Jobs : Contains(pending, j) => Contains(pending', j)
          /\ \A j \in Jobs \ {k} : j \in active => j \in active'
          /\ lost \subseteq lost'
      BY <1>f, <3>1 DEF TypeOK
    <3>4. CASE n \in 1..2
      BY <3>1, <3>4, SameJobs
    <3>5. CASE n \in 3..4
      BY <3>1, <3>3, <3>5, OnlyOneJob
    <3>6. CASE n = 5
      <4>1. job'[k].status = "queued" /\ pending' = Append(pending, k)
        BY <3>1, <3>2, <3>6 DEF TypeOK
      <4>2. Found(job'[k], pending', active', k)
        BY <1>f, <4>1 DEF Found
      <4> QED
        BY <3>3, <4>2, OnlyOneJob
    <3> QED
      BY <3>4, <3>5, <3>6
  <2> QED
    BY <1>3, <2>1, <2>2, <2>3, <2>4, <2>5 DEF RequeueStaleJobs
<1>4. ASSUME NEW k \in Jobs, LeaseEnds(k) \/ DeadlinePasses(k) PROVE NoJobLost'
  <2>1. \A j \in Jobs : job'[j].status = job[j].status
    <3>1. CASE LeaseEnds(k)
      BY <1>f, <3>1 DEF LeaseEnds, TypeOK, JobRecord
    <3>2. CASE DeadlinePasses(k)
      BY <1>f, <3>2 DEF DeadlinePasses, TypeOK, JobRecord
    <3> QED
      BY <1>4, <3>1, <3>2
  <2> QED
    BY <1>4, <2>1, SameJobs DEF LeaseEnds, DeadlinePasses
<1>5. ASSUME NEW k \in Jobs, RecordExpires(k) PROVE NoJobLost'
  <2>1. /\ job'[k].status = "absent"
        /\ \A j \in Jobs \ {k} : job'[j] = job[j]
    BY <1>5 DEF RecordExpires, TypeOK, AbsentRecord
  <2>2. UNCHANGED <<pending, active, lost>>
    BY <1>5 DEF RecordExpires
  <2> QED
    BY <2>1, <2>2, OnlyOneJob DEF Found
<1>6. ASSUME NEW k \in Jobs, NEW t \in Targets, TryAdmit(k, t) PROVE NoJobLost'
  <2> DEFINE kind == DowngradedKind(job[k].target_kind)
             q == [job[k] EXCEPT !.status = "admitted", !.assigned_target_id = t,
                                 !.target_kind = kind, !.leased = TRUE]
             r == [job[k] EXCEPT !.target_kind = kind]
  <2>1. PICK n \in 0..5 :
           /\ job' = IF n >= 3 THEN [job EXCEPT ![k] = q] ELSE [job EXCEPT ![k] = r]
           /\ active' = IF n >= 4 THEN active \cup {k} ELSE active
           /\ pending' = IF n >= 1 THEN RemoveFirst(pending, k) ELSE pending
           /\ lost' = IF n \in 1..3 THEN lost \cup {k} ELSE lost
    BY <1>6 DEF TryAdmit
  <2>2. q.status = "admitted" /\ r.status = job[k].status
    BY <1>f DEF JobRecord
  <2> HIDE DEF q, r
  <2>3. /\ \A j \in Jobs \ {k} : job'[j] = job[j]
        /\ \A j \in Jobs \ {k} : Contains(pending, j) => Contains(pending', j)
        /\ \A j \in Jobs \ {k} : j \in active => j \in active'
        /\ lost \subseteq lost'
    BY <1>f, <2>1 DEF TypeOK
  <2>4. CASE n = 0
    <3>1. UNCHANGED <<pending, active, lost>> /\ job'[k].status = job[k].status
      BY <2>1, <2>2, <2>4 DEF TypeOK
    <3> QED
      BY <2>3, <3>1, SameJobs
  <2>5. CASE n \in 1..3
    BY <2>1, <2>3, <2>5, OnlyOneJob
  <2>6. CASE n \in 4..5
    <3>1. job'[k].status = "admitted" /\ k \in active'
      BY <2>1, <2>2, <2>6 DEF TypeOK
    <3> QED
      BY <2>3, <3>1, OnlyOneJob DEF Found
  <2> QED
    BY <2>4, <2>5, <2>6
<1>7. ASSUME NEW k \in Jobs, NEW t \in Targets, TryAdmitRefused(k, t) PROVE NoJobLost'
  <2>1. \A j \in Jobs : job'[j].status = job[j].status
    BY <1>7, <1>f DEF TryAdmitRefused, TypeOK, JobRecord
  <2> QED
    BY <1>7, <2>1, SameJobs DEF TryAdmitRefused
<1>8. ASSUME NEW w \in Workers, ClaimPop(w) PROVE NoJobLost'
  BY <1>8, SameJobs DEF ClaimPop
<1>9. ASSUME NEW w \in Workers, NEW k \in Jobs, Claim(w, k) PROVE NoJobLost'
  <2>1. CASE ClaimGone(w, k)
    BY <2>1, SameJobs DEF ClaimGone
  <2>2. CASE ClaimMismatch(w, k)
    <3> DEFINE q == RequeuedRecord(job[k], job[k].retry_count)
    <3>1. PICK n \in 0..5 :
             /\ job' = IF n >= 4 THEN [job EXCEPT ![k] = q] ELSE job
             /\ active' = IF n >= 3 THEN active \ {k} ELSE active
             /\ pending' = IF n >= 5 THEN Append(pending, k) ELSE pending
             /\ lost' = IF n \in 3..4 THEN lost \cup {k} ELSE lost
      BY <2>2 DEF ClaimMismatch
    <3>2. q.status = "queued"
      BY <1>f DEF RequeuedRecord, JobRecord
    <3> HIDE DEF q
    <3>3. /\ \A j \in Jobs \ {k} : job'[j] = job[j]
          /\ \A j \in Jobs : Contains(pending, j) => Contains(pending', j)
          /\ \A j \in Jobs \ {k} : j \in active => j \in active'
          /\ lost \subseteq lost'
      BY <1>f, <3>1 DEF TypeOK
    <3>4. CASE n \in 0..2
      BY <3>1, <3>4, SameJobs
    <3>5. CASE n \in 3..4
      BY <3>1, <3>3, <3>5, OnlyOneJob
    <3>6. CASE n = 5
      <4>1. job'[k].status = "queued" /\ pending' = Append(pending, k)
        BY <3>1, <3>2, <3>6 DEF TypeOK
      <4>2. Found(job'[k], pending', active', k)
        BY <1>f, <4>1 DEF Found
      <4> QED
        BY <3>3, <4>2, OnlyOneJob
    <3> QED
      BY <3>4, <3>5, <3>6
  <2>3. CASE ClaimLate(w, k)
    <3>1. PICK n \in 0..4 : MarkDone(k, "failed", w, n)
      BY <2>3 DEF ClaimLate
    <3>2. n \in Nat /\ pending' = pending /\ lost' = lost
      BY <2>3, <3>1 DEF ClaimLate
    <3> QED
      BY <1>t, <3>1, <3>2, MarkKeeps
  <2>4. CASE ClaimStart(w, k) \/ ClaimStartCut(w, k)
    <3> DEFINE q == RunningRecord(w, job[k])
    <3>1. /\ job' = [job EXCEPT ![k] = q] /\ pending' = pending
          /\ active' = active \cup {k} \/ active' = active
          /\ \/ k \in active' /\ lost' = lost
             \/ lost' = lost \cup {k}
      BY <2>4 DEF ClaimStart, ClaimStartCut
    <3>2. q.status = "running"
      BY <1>f DEF RunningRecord, JobRecord
    <3> HIDE DEF q
    <3>3. job'[k].status = "running" /\ \A j \in Jobs \ {k} : job'[j] = job[j]
      BY <3>1, <3>2 DEF TypeOK
    <3>4. k \in lost' \/ Found(job'[k], pending', active', k)
      BY <3>1, <3>3 DEF Found
    <3>5. lost \subseteq lost' /\ \A j \in Jobs : j \in active => j \in active'
      BY <3>1
    <3> QED
      BY <3>1, <3>3, <3>4, <3>5, OnlyOneJob
  <2> QED
    BY <1>9, <2>1, <2>2, <2>3, <2>4 DEF Claim
<1>10. ASSUME NEW w \in Workers, NEW k \in Jobs, ProcessJob(w, k) PROVE NoJobLost'
  <2>1. CASE TaskAborted(w, k)
    BY <2>1, SameJobs DEF TaskAborted, TaskEnds
  <2>2. CASE TaskCancelled(w, k) \/ TaskCompleted(w, k) \/ TaskFailed(w, k)
    <3>1. /\ \E s \in Terminal, n \in 0..4 : MarkDone(k, s, w, n) \/ MarkCancelled(k, w, n)
          /\ pending' = pending /\ lost' = lost
      BY <1>t, <2>2 DEF TaskCancelled, TaskCompleted, TaskFailed, TaskEnds
    <3> QED
      BY <3>1, MarkKeeps
  <2> QED
    BY <1>10, <2>1, <2>2 DEF ProcessJob
<1>11. ASSUME NEW w \in Workers, NEW k \in Jobs, RenewLease(w, k) PROVE NoJobLost'
  <2>1. \A j \in Jobs : job'[j].status = job[j].status
    BY <1>11, <1>f DEF RenewLease, TypeOK, JobRecord
  <2>2. pending' = pending /\ active' = active \cup {k} /\ lost' = lost
    BY <1>11 DEF RenewLease
  <2> QED
    BY <2>1, <2>2 DEF NoJobLost, Live
<1>12. ASSUME NEW w \in Workers,
              WorkerStops(w) \/ WorkerStarts(w) \/ Heartbeat(w) \/ HeartbeatExpires(w)
       PROVE  NoJobLost'
  BY <1>12, SameJobs DEF WorkerStops, WorkerStarts, Heartbeat, HeartbeatExpires, redisVars
<1>13. CASE UNCHANGED vars
  BY <1>13, SameJobs DEF vars, redisVars
<1> QED
  BY <1>1, <1>2, <1>3, <1>4, <1>5, <1>6, <1>7, <1>8, <1>9, <1>10, <1>11, <1>12, <1>13
     DEF Next, JobStep, WorkerStep

\* Whatever workers stop, stall, restart or claim a stale entry, whatever jobs are
\* cancelled or expire and wherever a coroutine is interrupted, a queued job is on
\* the pending list and an admitted or running job is in the active set, where
\* scheduler and reaper find it, unless the interruption fell into one of the
\* windows between two lists that "lost" records.  For every number of jobs,
\* workers, targets, slots, retries and interruptions.
THEOREM NoJobIsLost == Spec => []NoJobLost
<1>1. Init => NoJobLost
  BY DEF Init, NoJobLost, Live, AbsentRecord
<1> QED
  BY <1>1, TypeInit, TypeStep, NoJobLostStep, PTL DEF Spec

-----------------------------------------------------------------------------
(* What the operations do, reduced to what the counts depend on.            *)

\* Only the record of job k is written.
OnlyJob(k) == \A j \in Jobs \ {k} : job'[j] = job[j]

\* Nothing a worker has, and no dispatch list, changes.
SameWork == UNCHANGED <<dispatch, hand, tasks, renewing, up, beat, starts, created, crashes,
                        leaked>>

\* The reservation of k is given back and its processing entry of worker w is
\* removed.
Released(k, w) ==
    /\ usage' = ReleaseReservedCapacity(job[k]) /\ leaked' = leaked
    /\ w \in Workers \cup {None} /\ processing' = RemoveFromProcessing(w, k)

\* A flag, the kind or the lease of k is written; a lease ends early only when a
\* worker stalls.
Touches(k) ==
    /\ SameWork /\ OnlyJob(k) /\ UNCHANGED <<usage, processing>>
    /\ job'[k].status = job[k].status /\ job'[k].retry_count = job[k].retry_count
    /\ job'[k].assigned_target_id = job[k].assigned_target_id
    /\ \/ job'[k].leased = job[k].leased \/ job'[k].leased
       \/ MayStall \/ Neglected(k)

Enqueues(k) ==
    /\ k \notin created /\ created' = created \cup {k}
    /\ OnlyJob(k) /\ job'[k].status = "queued" /\ job'[k].retry_count = 0
    /\ UNCHANGED <<dispatch, hand, tasks, renewing, up, beat, starts, crashes, usage, processing,
                   leaked>>

\* k gets a terminal status, taken back from a dispatch list or not; a running
\* job only after its lease.
Ends(k) ==
    /\ job[k].status # "absent" /\ OnlyJob(k) /\ job'[k].status \in Terminal
    /\ job[k].status = "running" => ~job[k].leased
    /\ job'[k].retry_count >= job[k].retry_count /\ job'[k].retry_count \in Nat
    /\ \E w \in Workers \cup {None} : Released(k, w)
    /\ UNCHANGED <<hand, tasks, renewing, up, beat, starts, created, crashes>>
    /\ \/ dispatch' = dispatch
       \/ \E t \in Targets : dispatch' = [dispatch EXCEPT ![t] = RemoveFirst(@, k)]

Requeues(k) ==
    /\ SameWork /\ OnlyJob(k) /\ Live(k) /\ ~job[k].leased
    /\ \E w \in Workers \cup {None} : Released(k, w)
    /\ job'[k].status = "queued" /\ job'[k].retry_count = job[k].retry_count + 1
    /\ job'[k].retry_count <= MaxRetries

Expires(k) ==
    /\ UNCHANGED <<dispatch, hand, tasks, renewing, up, beat, starts, created, crashes, usage,
                   processing>>
    /\ OnlyJob(k) /\ job'[k].status = "absent" /\ leaked' = Leak(k)
    /\ ~Live(k) \/ (LongOutage /\ ~job[k].leased)

Admitted(k, t) ==
    /\ OnlyJob(k) /\ job[k].status = "queued" /\ job'[k].status = "admitted"
    /\ job'[k].retry_count = job[k].retry_count
    /\ job'[k].assigned_target_id = t /\ job'[k].leased
    /\ usage' = [usage EXCEPT ![t] = @ + 1] /\ processing' = processing
    /\ dispatch' = [dispatch EXCEPT ![t] = Append(@, k)]
    /\ \E w \in beat : TargetOf[w] = t
    /\ UNCHANGED <<hand, tasks, renewing, up, beat, starts, created, crashes, leaked>>

\* The id in the hand of w is put aside: the record is gone, late, or of another
\* kind and queued again.
Drops(w, k) ==
    /\ hand[w] = k /\ hand' = [hand EXCEPT ![w] = None]
    /\ UNCHANGED <<dispatch, tasks, renewing, up, beat, starts, created, crashes, leaked>>
    /\ processing' = RemoveFromProcessing(w, k)
    /\ \/ job' = job /\ usage' = usage
       \/ /\ OnlyJob(k) /\ job[k].status # "absent" /\ usage' = ReleaseReservedCapacity(job[k])
          /\ job'[k].retry_count = job[k].retry_count
          /\ job'[k].status \in Terminal \cup {"queued"}

Started(w, k) ==
    /\ hand[w] = k /\ hand' = [hand EXCEPT ![w] = None]
    /\ OnlyJob(k) /\ job[k].status # "absent" /\ job'[k].status = "running" /\ job'[k].leased
    /\ job'[k].retry_count = job[k].retry_count
    /\ job'[k].assigned_target_id = job[k].assigned_target_id
    /\ tasks' = [tasks EXCEPT ![w][k] = tasks[w][k] + 1]
    /\ renewing' = [renewing EXCEPT ![w] = renewing[w] \cup {k}]
    /\ starts' = [starts EXCEPT ![k] = starts[k] + 1]
    /\ UNCHANGED <<dispatch, up, beat, created, crashes, usage, processing, leaked>>

\* A coroutine for k leaves the worker w.
Leaves(w, k) ==
    /\ tasks[w][k] > 0 /\ tasks' = [tasks EXCEPT ![w][k] = @ - 1]
    /\ renewing' = [renewing EXCEPT ![w] = @ \ {k}]
    /\ UNCHANGED <<hand, up, beat, dispatch, starts, created, crashes, leaked>>

\* A coroutine for k returns, its end recorded or not.
Returns(w, k) ==
    /\ Leaves(w, k)
    /\ \/ /\ UNCHANGED <<job, usage, processing>>
          /\ MayStall \/ job[k].status \in Terminal \cup {"absent"}
       \/ /\ OnlyJob(k) /\ job[k].status # "absent" /\ job'[k].status \in Terminal
          /\ job'[k].retry_count = job[k].retry_count
          /\ Released(k, w)

\* Processes and heartbeats.
Elsewhere(w) ==
    \/ WorkerStops(w)
    \/ /\ UNCHANGED <<job, created, dispatch, processing, usage, hand, tasks, renewing, starts,
                      crashes, leaked>>
       /\ \/ up' = up \cup {w} /\ beat' = beat
          \/ up' = up /\ beat' = beat \cup {w}
          \/ up' = up /\ beat' = beat \ {w} /\ (w \notin up \/ MayStall)

\* What becomes of the copies of the id of k: nothing new.
Withdraws(k) ==
    /\ UNCHANGED <<starts, created>> /\ OnlyJob(k)
    /\ job'[k].status # "absent" =>
          job[k].status # "absent" /\ job'[k].retry_count >= job[k].retry_count
    /\ job'[k].status = "queued" => job[k].status = "queued"
    /\ \/ dispatch' = dispatch
       \/ \E t \in Targets : dispatch' = [dispatch EXCEPT ![t] = RemoveFirst(@, k)]
    /\ \/ hand' = hand
       \/ \E w \in Workers : hand' = [hand EXCEPT ![w] = None]

\* The one in the hand of w is a queued record, an execution or nothing.
Handled(w, k) ==
    /\ hand[w] = k /\ hand' = [hand EXCEPT ![w] = None]
    /\ UNCHANGED <<dispatch, created>> /\ OnlyJob(k)
    /\ job'[k].status # "absent" =>
          job[k].status # "absent" /\ job'[k].retry_count = job[k].retry_count
    /\ \/ starts' = starts
       \/ starts' = [starts EXCEPT ![k] = starts[k] + 1] /\ job'[k].status = "running"

\* One more, which is counted.
Recounts(k) ==
    /\ UNCHANGED <<dispatch, hand, starts, created>> /\ OnlyJob(k) /\ Live(k)
    /\ job'[k].status = "queued" /\ job'[k].retry_count = job[k].retry_count + 1
    /\ job'[k].retry_count <= MaxRetries

\* The record r holds a reservation on t.
Holds(r, t) == r.status \in {"admitted", "running"} /\ r.assigned_target_id = t

\* What becomes of the reservation of k, and of one made for it.
Keeps(k) == \A t \in Targets : Holds(job[k], t) => Holds(job'[k], t)

Accounts(k) ==
    \/ Keeps(k) /\ leaked' = leaked /\ (usage' = usage \/ usage' = ReleaseReservedCapacity(job[k]))
    \/ ~Live(k)' /\ leaked' = leaked /\ usage' = ReleaseReservedCapacity(job[k])
    \/ ~Live(k)' /\ leaked' = Leak(k) /\ usage' = usage
    \/ \E t \in Targets : /\ Keeps(k) /\ usage' = [usage EXCEPT ![t] = @ + 1]
                          /\ leaked' = [leaked EXCEPT ![t] = @ + 1]
    \/ \E t \in Targets : /\ ~Live(k) /\ Holds(job'[k], t) /\ leaked' = leaked
                          /\ usage' = [usage EXCEPT ![t] = @ + 1]

\* A coroutine that works on k is interrupted.
Breaks(k) ==
    /\ crashes' = crashes + 1 /\ OnlyJob(k) /\ Accounts(k)
    /\ Withdraws(k) \/ Recounts(k) \/ \E w \in Workers : Handled(w, k)
    /\ \A j \in Jobs : Running(j)' \subseteq Running(j)

\* Every step is one of these.
StepKind ==
    \/ UNCHANGED <<job, usage, processing>> /\ SameWork
    \/ \E k \in Jobs : \/ Touches(k) \/ Enqueues(k) \/ Ends(k) \/ Requeues(k) \/ Expires(k)
                       \/ Breaks(k)
                       \/ \E t \in Targets : Admitted(k, t)
                       \/ \E w \in Workers : Drops(w, k) \/ Started(w, k) \/ Returns(w, k)
    \/ \E w \in Workers : ClaimPop(w) \/ Elsewhere(w)

\* What is queued is not active, and an id that was never enqueued has no record.
Rests ==
    \A j \in Jobs : /\ job[j].status = "queued" => j \notin active
                    /\ j \notin created => job[j].status = "absent" /\ j \notin active

\* Rests for job k, with its new record, and for the others.
LEMMA RestsOne ==
    ASSUME Rests, NEW k \in Jobs, OnlyJob(k), created \subseteq created',
           \A j \in Jobs \ {k} : j \in active' => j \in active,
           job'[k].status = "queued" => k \notin active',
           k \notin created' => job'[k].status = "absent" /\ k \notin active'
    PROVE  Rests'
BY DEF Rests, OnlyJob

\* The operations that end a job make it inactive or leave it where it was.
LEMMA RestsMarkTerminal ==
    ASSUME TypeOK, Rests, NEW k \in Jobs, NEW r \in JobRecord, NEW s \in Terminal, NEW w,
           NEW n \in Nat, MarkTerminal(k, r, s, w, n), job[k].status # "absent", created' = created
    PROVE  Rests'
<1>1. k \in created /\ \A j \in Jobs : j \in active' => j \in active
  BY DEF Rests, MarkTerminal
<1>2. CASE n = 0
  <2>1. job' = job
    BY <1>2 DEF MarkTerminal
  <2> QED
    BY <1>1, <2>1 DEF Rests
<1>3. CASE n >= 1
  <2> DEFINE q == [r EXCEPT !.status = s]
  <2>1. q.status = s
    BY DEF JobRecord
  <2>2. job' = [job EXCEPT ![k] = q]
    BY <1>3 DEF MarkTerminal
  <2> HIDE DEF q
  <2>3. OnlyJob(k) /\ job'[k].status \in Terminal
    BY <2>1, <2>2 DEF OnlyJob, TypeOK
  <2> QED
    BY <1>1, <2>3, RestsOne DEF Terminal
<1> QED
  BY <1>2, <1>3

LEMMA RestsMark ==
    ASSUME TypeOK, Rests, NEW k \in Jobs, NEW s \in Terminal, NEW w, NEW n \in Nat,
           MarkDone(k, s, w, n) \/ MarkCancelled(k, w, n), created' = created
    PROVE  Rests'
<1>1. CASE UNCHANGED <<job, usage, processing, active, leaked>>
  BY <1>1 DEF Rests
<1>2. job[k] \in JobRecord /\ "cancelled" \in Terminal
  BY DEF TypeOK, Terminal
<1>3. CASE /\ job[k].status # "absent"
           /\ MarkTerminal(k, job[k], s, w, n) \/ MarkTerminal(k, job[k], "cancelled", w, n)
  BY <1>2, <1>3, RestsMarkTerminal
<1> QED
  BY <1>1, <1>3 DEF MarkDone, MarkCancelled

\* Rests is inductive together with TypeOK.
LEMMA RestsStep == TypeOK /\ Rests /\ [Next]_vars => Rests'
<1> SUFFICES ASSUME TypeOK, Rests, [Next]_vars PROVE Rests'
  OBVIOUS
<1>0. /\ job \in [Jobs -> JobRecord] /\ \A j \in Jobs : job[j] \in JobRecord
      /\ "failed" \in Terminal /\ "completed" \in Terminal /\ "cancelled" \in Terminal
  BY DEF TypeOK, Terminal
<1>1. ASSUME NEW k \in Jobs, Enqueue(k) PROVE Rests'
  <2>1. OnlyJob(k) /\ created' = created \cup {k} /\ active' = active /\ k \notin active
    BY <1>0, <1>1 DEF Enqueue, OnlyJob, Rests
  <2> QED
    BY <2>1, RestsOne
<1>2. ASSUME NEW k \in Jobs, CancelJob(k) PROVE Rests'
  <2>1. CASE CancelQueued(k) \/ CancelAdmitted(k)
    <3>1. PICK n \in 0..4 : MarkCancelled(k, None, n)
      BY <2>1 DEF CancelQueued, CancelAdmitted
    <3>2. n \in Nat /\ created' = created
      BY <2>1, <3>1 DEF CancelQueued, CancelAdmitted
    <3> QED
      BY <1>0, <3>1, <3>2, RestsMark
  <2>2. CASE CancelRunning(k)
    <3>1. job'[k].status = "running" /\ OnlyJob(k) /\ UNCHANGED <<created, active>>
      BY <1>0, <2>2 DEF CancelRunning, OnlyJob, JobRecord
    <3> QED
      BY <2>2, <3>1, RestsOne DEF CancelRunning, Rests
  <2> QED
    BY <1>2, <2>1, <2>2 DEF CancelJob
<1>3. ASSUME NEW k \in Jobs, RequeueStaleJobs(k) PROVE Rests'
  <2>1. CASE ReapGone(k)
    BY <2>1 DEF ReapGone, Rests
  <2>2. CASE ReapCancelRequested(k)
    <3>1. PICK n \in 0..4 : MarkCancelled(k, job[k].assigned_worker_id, n)
      BY <2>2 DEF ReapCancelRequested
    <3>2. n \in Nat /\ created' = created
      BY <2>2, <3>1 DEF ReapCancelRequested
    <3> QED
      BY <1>0, <3>1, <3>2, RestsMark
  <2>3. CASE ReapLate(k)
    <3>1. PICK n \in 1..4 : MarkTerminal(k, job[k], "failed", job[k].assigned_worker_id, n)
      BY <2>3 DEF ReapLate
    <3>2. n \in Nat /\ created' = created /\ job[k].status # "absent"
      BY <2>3, <3>1 DEF ReapLate, Recoverable
    <3> QED
      BY <1>0, <3>1, <3>2, RestsMarkTerminal
  <2>4. CASE ReapExhausted(k)
    <3> DEFINE q == [job[k] EXCEPT !.retry_count = job[k].retry_count + 1]
    <3>1. PICK n \in 1..4 : MarkTerminal(k, q, "failed", job[k].assigned_worker_id, n)
      BY <2>4 DEF ReapExhausted
    <3>2. n \in Nat /\ created' = created /\ job[k].status # "absent"
      BY <2>4, <3>1 DEF ReapExhausted, Recoverable
    <3>3. q \in JobRecord
      BY <1>0 DEF JobRecord
    <3> HIDE DEF q
    <3> QED
      BY <1>0, <3>1, <3>2, <3>3, RestsMarkTerminal
  <2>5. CASE ReapRequeue(k)
    <3> DEFINE q == RequeuedRecord(job[k], job[k].retry_count + 1)
    <3>1. PICK n \in 1..5 : /\ job' = IF n >= 4 THEN [job EXCEPT ![k] = q] ELSE job
                            /\ active' = IF n >= 3 THEN active \ {k} ELSE active
      BY <2>5 DEF ReapRequeue
    <3>2. created' = created /\ k \in created
      BY <2>5 DEF ReapRequeue, Recoverable, Rests
    <3> HIDE DEF q
    <3>3. CASE n >= 4
      <4>1. OnlyJob(k) /\ k \notin active' /\ \A j \in Jobs : j \in active' => j \in active
        BY <1>0, <3>1, <3>3 DEF OnlyJob
      <4> QED
        BY <3>2, <4>1, RestsOne
    <3>4. CASE ~(n >= 4)
      BY <3>1, <3>2, <3>4 DEF Rests
    <3> QED
      BY <3>3, <3>4
  <2> QED
    BY <1>3, <2>1, <2>2, <2>3, <2>4, <2>5 DEF RequeueStaleJobs
<1>4. ASSUME NEW k \in Jobs, UNCHANGED <<created, active>>, OnlyJob(k),
             job'[k].status = job[k].status \/ job'[k].status = "absent"
      PROVE  Rests'
  BY <1>4, RestsOne DEF Rests
<1>5. ASSUME NEW k \in Jobs, LeaseEnds(k) \/ DeadlinePasses(k) \/ RecordExpires(k) PROVE Rests'
  <2>1. UNCHANGED <<created, active>> /\ OnlyJob(k)
    BY <1>0, <1>5 DEF LeaseEnds, DeadlinePasses, RecordExpires, OnlyJob
  <2>2. job'[k].status = job[k].status \/ job'[k].status = "absent"
    <3>1. CASE LeaseEnds(k)
      BY <1>0, <3>1 DEF LeaseEnds, JobRecord
    <3>2. CASE DeadlinePasses(k)
      BY <1>0, <3>2 DEF DeadlinePasses, JobRecord
    <3>3. CASE RecordExpires(k)
      BY <1>0, <3>3 DEF RecordExpires, AbsentRecord
    <3> QED
      BY <1>5, <3>1, <3>2, <3>3
  <2> QED
    BY <1>4, <2>1, <2>2
<1>6. ASSUME NEW k \in Jobs, NEW t \in Targets, TryAdmit(k, t) PROVE Rests'
  <2> DEFINE kind == DowngradedKind(job[k].target_kind)
             q == [job[k] EXCEPT !.status = "admitted", !.assigned_target_id = t,
                                 !.target_kind = kind, !.leased = TRUE]
             r == [job[k] EXCEPT !.target_kind = kind]
  <2>1. PICK n \in 0..5 :
           /\ job' = IF n >= 3 THEN [job EXCEPT ![k] = q] ELSE [job EXCEPT ![k] = r]
           /\ active' = IF n >= 4 THEN active \cup {k} ELSE active
    BY <1>6 DEF TryAdmit
  <2>2. q.status = "admitted" /\ r.status = job[k].status
    BY <1>0 DEF JobRecord
  <2>3. created' = created /\ job[k].status = "queued"
    BY <1>6 DEF TryAdmit, Candidate
  <2> HIDE DEF q, r
  <2>4. OnlyJob(k) /\ \A j \in Jobs \ {k} : j \in active' => j \in active
    BY <1>0, <2>1 DEF OnlyJob
  <2>5. k \in created /\ k \notin active
    BY <2>3 DEF Rests
  <2>6. CASE n >= 3
    <3>1. job'[k].status = "admitted"
      BY <1>0, <2>1, <2>2, <2>6
    <3> QED
      BY <2>3, <2>4, <2>5, <3>1, RestsOne
  <2>7. CASE ~(n >= 3)
    <3>1. active' = active
      BY <2>1, <2>7
    <3> QED
      BY <2>3, <2>4, <2>5, <3>1, RestsOne
  <2> QED
    BY <2>6, <2>7
<1>7. ASSUME NEW k \in Jobs, NEW t \in Targets, TryAdmitRefused(k, t) PROVE Rests'
  <2>1. UNCHANGED <<created, active>> /\ OnlyJob(k) /\ job'[k].status = job[k].status
    BY <1>0, <1>7 DEF TryAdmitRefused, OnlyJob, JobRecord
  <2> QED
    BY <1>4, <2>1
<1>8. ASSUME NEW w \in Workers, NEW k \in Jobs, Claim(w, k) PROVE Rests'
  <2>1. CASE ClaimGone(w, k)
    BY <2>1 DEF ClaimGone, Rests
  <2>2. CASE ClaimMismatch(w, k)
    <3> DEFINE q == RequeuedRecord(job[k], job[k].retry_count)
    <3>1. PICK n \in 0..5 : /\ job' = IF n >= 4 THEN [job EXCEPT ![k] = q] ELSE job
                            /\ active' = IF n >= 3 THEN active \ {k} ELSE active
      BY <2>2 DEF ClaimMismatch
    <3>2. created' = created /\ k \in created
      BY <2>2 DEF ClaimMismatch, Rests
    <3> HIDE DEF q
    <3>3. CASE n >= 4
      <4>1. OnlyJob(k) /\ k \notin active' /\ \A j \in Jobs : j \in active' => j \in active
        BY <1>0, <3>1, <3>3 DEF OnlyJob
      <4> QED
        BY <3>2, <4>1, RestsOne
    <3>4. CASE ~(n >= 4)
      BY <3>1, <3>2, <3>4 DEF Rests
    <3> QED
      BY <3>3, <3>4
  <2>3. CASE ClaimLate(w, k)
    <3>1. PICK n \in 0..4 : MarkDone(k, "failed", w, n)
      BY <2>3 DEF ClaimLate
    <3>2. n \in Nat /\ created' = created
      BY <2>3, <3>1 DEF ClaimLate
    <3> QED
      BY <1>0, <3>1, <3>2, RestsMark
  <2>4. CASE ClaimStart(w, k) \/ ClaimStartCut(w, k)
    <3> DEFINE q == RunningRecord(w, job[k])
    <3>1. /\ job' = [job EXCEPT ![k] = q] /\ created' = created
          /\ active' = active \cup {k} \/ active' = active
      BY <2>4 DEF ClaimStart, ClaimStartCut
    <3>2. q.status = "running"
      BY <1>0 DEF RunningRecord, JobRecord
    <3> HIDE DEF q
    <3>3. k \in created
      BY <2>4 DEF ClaimStart, ClaimStartCut, CanStart, Rests
    <3>4. OnlyJob(k) /\ job'[k].status = "running" /\ \A j \in Jobs \ {k} : j \in active' => j \in active
      BY <1>0, <3>1, <3>2 DEF OnlyJob
    <3> QED
      BY <3>1, <3>3, <3>4, RestsOne
  <2> QED
    BY <1>8, <2>1, <2>2, <2>3, <2>4 DEF Claim
<1>9. ASSUME NEW w \in Workers, NEW k \in Jobs, ProcessJob(w, k) PROVE Rests'
  <2>1. CASE TaskAborted(w, k)
    BY <2>1 DEF TaskAborted, TaskEnds, Rests
  <2>2. CASE TaskCancelled(w, k) \/ TaskCompleted(w, k) \/ TaskFailed(w, k)
    <3>1. /\ \E s \in Terminal, n \in 0..4 : MarkDone(k, s, w, n) \/ MarkCancelled(k, w, n)
          /\ created' = created
      BY <1>0, <2>2 DEF TaskCancelled, TaskCompleted, TaskFailed, TaskEnds
    <3> QED
      BY <3>1, RestsMark
  <2> QED
    BY <1>9, <2>1, <2>2 DEF ProcessJob
<1>10. ASSUME NEW w \in Workers, NEW k \in Jobs, RenewLease(w, k) PROVE Rests'
  <2>1. job'[k].status = job[k].status /\ OnlyJob(k) /\ created' = created
    BY <1>0, <1>10 DEF RenewLease, OnlyJob, JobRecord
  <2>2. active' = active \cup {k} /\ k \in created /\ job[k].status # "queued"
    BY <1>10 DEF RenewLease, Rests
  <2> QED
    BY <2>1, <2>2, RestsOne
<1>11. ASSUME NEW w \in Workers, \/ ClaimPop(w) \/ WorkerStops(w) \/ WorkerStarts(w)
                                 \/ Heartbeat(w) \/ HeartbeatExpires(w)
       PROVE  Rests'
  BY <1>11 DEF ClaimPop, WorkerStops, WorkerStarts, Heartbeat, HeartbeatExpires, redisVars, Rests
<1>12. CASE UNCHANGED vars
  BY <1>12 DEF vars, redisVars, Rests
<1> QED
  BY <1>1, <1>2, <1>3, <1>5, <1>6, <1>7, <1>8, <1>9, <1>10, <1>11, <1>12
     DEF Next, JobStep, WorkerStep

\* The record written by the whole of MarkTerminal and what it gives back.
LEMMA MarkTerminalEnds ==
    ASSUME TypeOK, NEW k \in Jobs, NEW r \in JobRecord, NEW s \in Terminal,
           NEW w \in Workers \cup {None}, MarkTerminal(k, r, s, w, 4),
           r.assigned_target_id = job[k].assigned_target_id
    PROVE  /\ OnlyJob(k) /\ job'[k].status = s /\ job'[k].retry_count = r.retry_count
           /\ Released(k, IF w = None THEN r.assigned_worker_id ELSE w)
<1> DEFINE q == [r EXCEPT !.status = s]
<1>1. q.status = s /\ q.retry_count = r.retry_count
  BY DEF JobRecord
<1>2. job' = [job EXCEPT ![k] = q] /\ job \in [Jobs -> JobRecord]
  BY DEF MarkTerminal, TypeOK
<1> HIDE DEF q
<1>3. OnlyJob(k) /\ job'[k] = q
  BY <1>2 DEF OnlyJob
<1>4. usage' = ReleaseReservedCapacity(job[k])
  BY DEF MarkTerminal, ReleaseReservedCapacity
<1>5. r.assigned_worker_id \in Workers \cup {None}
  BY DEF JobRecord
<1> QED
  BY <1>1, <1>3, <1>4, <1>5 DEF MarkTerminal, Released

\* What its first commands leave.
LEMMA MarkTerminalBreaks ==
    ASSUME TypeOK, NEW k \in Jobs, NEW r \in JobRecord, NEW s \in Terminal, NEW w,
           NEW n \in 0..3, MarkTerminal(k, r, s, w, n),
           r.assigned_target_id = job[k].assigned_target_id,
           r.retry_count >= job[k].retry_count
    PROVE  /\ OnlyJob(k) /\ Accounts(k) /\ job'[k].retry_count >= job[k].retry_count
           /\ job'[k].status = "queued" => job[k].status = "queued"
<1>0. job \in [Jobs -> JobRecord] /\ job[k].retry_count \in Nat
  BY DEF TypeOK, JobRecord
<1>1. CASE n = 0
  <2>1. UNCHANGED <<job, usage, leaked>>
    BY <1>1 DEF MarkTerminal
  <2> QED
    BY <1>0, <2>1 DEF OnlyJob, Accounts, Keeps
<1>2. CASE n \in 1..3
  <2> DEFINE q == [r EXCEPT !.status = s]
  <2>1. q.status = s /\ q.retry_count = r.retry_count
    BY DEF JobRecord
  <2>2. job' = [job EXCEPT ![k] = q]
    BY <1>2 DEF MarkTerminal
  <2> HIDE DEF q
  <2>3. OnlyJob(k) /\ job'[k] = q
    BY <1>0, <2>2 DEF OnlyJob
  <2>4. ~Live(k)' /\ job'[k].status # "queued"
    BY <2>1, <2>3 DEF Live, Terminal
  <2>5. CASE n = 1
    <3>1. usage' = usage /\ leaked' = Leak(k)
      BY <2>5 DEF MarkTerminal
    <3> QED
      BY <2>1, <2>3, <2>4, <3>1 DEF Accounts
  <2>6. CASE n \in 2..3
    <3>1. usage' = ReleaseReservedCapacity(job[k]) /\ leaked' = leaked
      BY <2>6 DEF MarkTerminal, ReleaseReservedCapacity
    <3> QED
      BY <2>1, <2>3, <2>4, <3>1 DEF Accounts
  <2> QED
    BY <1>2, <2>5, <2>6
<1> QED
  BY <1>1, <1>2

\* The same for the operations that call it.
LEMMA MarkBreaks ==
    ASSUME TypeOK, NEW k \in Jobs, NEW s \in Terminal, NEW w, NEW n \in 0..3,
           MarkDone(k, s, w, n) \/ MarkCancelled(k, w, n)
    PROVE  /\ OnlyJob(k) /\ Accounts(k)
           /\ job'[k].status # "absent" =>
                 job[k].status # "absent" /\ job'[k].retry_count >= job[k].retry_count
           /\ job'[k].status = "queued" => job[k].status = "queued"
<1>0. job[k] \in JobRecord /\ job[k].retry_count \in Nat /\ "cancelled" \in Terminal
  BY DEF TypeOK, JobRecord, Terminal
<1>1. CASE UNCHANGED <<job, usage, processing, active, leaked>>
  BY <1>0, <1>1 DEF OnlyJob, Accounts, Keeps
<1>2. CASE /\ job[k].status # "absent"
           /\ MarkTerminal(k, job[k], s, w, n) \/ MarkTerminal(k, job[k], "cancelled", w, n)
  BY <1>0, <1>2, MarkTerminalBreaks
<1> QED
  BY <1>1, <1>2 DEF MarkDone, MarkCancelled

\* A coroutine that returns, and a worker that stops, run no more than before.
LEMMA RunningLess ==
    ASSUME TypeOK, NEW w \in Workers, NEW k \in Jobs,
           \/ UNCHANGED tasks \/ Dies(w)
           \/ tasks' = [tasks EXCEPT ![w][k] = @ - 1]
    PROVE  \A j \in Jobs : Running(j)' \subseteq Running(j)
<1> SUFFICES ASSUME NEW j \in Jobs, NEW u \in Workers, tasks'[u][j] > 0 PROVE tasks[u][j] > 0
  BY DEF Running
<1>0. tasks \in [Workers -> [Jobs -> Nat]] /\ tasks[u][j] \in Nat /\ tasks[w][k] \in Nat
  BY CountsTyped DEF TypeOK
<1>1. CASE UNCHANGED tasks
  BY <1>1
<1>2. CASE Dies(w)
  <2>1. tasks' = [tasks EXCEPT ![w] = [x \in Jobs |-> 0]]
    BY <1>2 DEF Dies
  <2>2. u # w
    BY <1>0, <2>1
  <2> QED
    BY <1>0, <2>1, <2>2
<1>3. CASE tasks' = [tasks EXCEPT ![w][k] = @ - 1]
  <2>1. tasks' = [tasks EXCEPT ![w][k] = tasks[w][k] - 1]
    BY <1>0, <1>3
  <2>2. tasks'[u][j] = IF u = w /\ j = k THEN tasks[w][k] - 1 ELSE tasks[u][j]
    BY <1>0, <2>1
  <2> QED
    BY <1>0, <2>2
<1> QED
  BY <1>1, <1>2, <1>3

\* An interruption of the scheduler or of the application leaves the workers
\* alone.
LEMMA BreaksAlone ==
    ASSUME TypeOK, NEW k \in Jobs, NEW n, NEW all, Executed(n, all), n # all,
           UNCHANGED workerVars, OnlyJob(k), Accounts(k), Withdraws(k) \/ Recounts(k)
    PROVE  Breaks(k)
<1>1. crashes' = crashes + 1
  BY DEF Executed
<1>2. \A j \in Jobs : Running(j)' \subseteq Running(j)
  BY DEF workerVars, Running
<1> QED
  BY <1>1, <1>2 DEF Breaks

\* The record of a requeued job.
LEMMA RequeuedFields ==
    ASSUME NEW r \in JobRecord, NEW n \in Nat
    PROVE  RequeuedRecord(r, n).status = "queued" /\ RequeuedRecord(r, n).retry_count = n
  BY DEF RequeuedRecord, JobRecord

\* The operations of the web application and the scheduler.
LEMMA JobKinds ==
    ASSUME TypeOK, Rests, NEW k \in Jobs, JobStep(k)
    PROVE  StepKind
<1>0. /\ job \in [Jobs -> JobRecord] /\ job[k] \in JobRecord /\ job[k].retry_count \in Nat
      /\ job[k].assigned_worker_id \in Workers \cup {None}
      /\ job[k].assigned_target_id \in Targets \cup {None}
  BY DEF TypeOK, JobRecord
<1>t. "failed" \in Terminal /\ "cancelled" \in Terminal /\ None \in Workers \cup {None}
  BY DEF Terminal
<1>1. ASSUME Enqueue(k) PROVE Enqueues(k)
  <2> DEFINE q == [AbsentRecord EXCEPT !.status = "queued",
                     !.target_kind = IF PreferGpu /\ HasGpuWorker THEN "gpu" ELSE "cpu"]
  <2>1. q.status = "queued" /\ q.retry_count = 0
    BY DEF AbsentRecord
  <2>2. job' = [job EXCEPT ![k] = q]
    BY <1>1 DEF Enqueue
  <2> HIDE DEF q
  <2> QED
    BY <1>0, <1>1, <2>1, <2>2 DEF Enqueue, Enqueues, OnlyJob, workerVars
<1>2. ASSUME CancelQueued(k) PROVE Ends(k) \/ Breaks(k)
  <2>1. PICK n \in 0..4 : MarkTerminal(k, job[k], "cancelled", None, n) /\ Executed(n, 4)
    BY <1>2 DEF CancelQueued, MarkCancelled, Terminal
  <2>2. job[k].status = "queued" /\ UNCHANGED <<created, dispatch, workerVars, starts>>
    BY <1>2 DEF CancelQueued
  <2>3. CASE n = 4
    <3>1. /\ OnlyJob(k) /\ job'[k].status = "cancelled"
          /\ job'[k].retry_count = job[k].retry_count
          /\ Released(k, job[k].assigned_worker_id)
      BY <1>0, <1>t, <2>1, <2>3, MarkTerminalEnds
    <3>2. UNCHANGED crashes
      BY <2>1, <2>3 DEF Executed
    <3> QED
      BY <1>0, <1>t, <2>2, <3>1, <3>2 DEF Ends, workerVars
  <2>4. CASE n # 4
    <3>1. /\ OnlyJob(k) /\ Accounts(k) /\ job'[k].retry_count >= job[k].retry_count
          /\ job'[k].status = "queued" => job[k].status = "queued"
      BY <1>0, <1>t, <2>1, <2>4, MarkTerminalBreaks
    <3>2. Withdraws(k)
      BY <2>2, <3>1 DEF Withdraws, workerVars
    <3> QED
      BY <2>1, <2>2, <2>4, <3>1, <3>2, BreaksAlone
  <2> QED
    BY <2>3, <2>4
<1>3. ASSUME CancelAdmitted(k) PROVE Ends(k) \/ Breaks(k)
  <2>1. PICK n \in 0..4 : MarkTerminal(k, job[k], "cancelled", None, n) /\ Executed(n, 4)
    BY <1>3 DEF CancelAdmitted, MarkCancelled, Terminal
  <2>2. job[k].status = "admitted" /\ UNCHANGED <<created, workerVars, starts>>
    BY <1>3 DEF CancelAdmitted
  <2>d. \/ dispatch' = dispatch
        \/ \E t \in Targets : dispatch' = [dispatch EXCEPT ![t] = RemoveFirst(@, k)]
    BY <1>0, <1>3 DEF CancelAdmitted
  <2>3. CASE n = 4
    <3>1. /\ OnlyJob(k) /\ job'[k].status = "cancelled"
          /\ job'[k].retry_count = job[k].retry_count
          /\ Released(k, job[k].assigned_worker_id)
      BY <1>0, <1>t, <2>1, <2>3, MarkTerminalEnds
    <3>2. UNCHANGED crashes
      BY <2>1, <2>3 DEF Executed
    <3> QED
      BY <1>0, <1>t, <2>2, <2>d, <3>1, <3>2 DEF Ends, workerVars
  <2>4. CASE n # 4
    <3>1. /\ OnlyJob(k) /\ Accounts(k) /\ job'[k].retry_count >= job[k].retry_count
          /\ job'[k].status = "queued" => job[k].status = "queued"
      BY <1>0, <1>t, <2>1, <2>4, MarkTerminalBreaks
    <3>2. Withdraws(k)
      BY <2>2, <2>d, <3>1 DEF Withdraws, workerVars
    <3> QED
      BY <2>1, <2>2, <2>4, <3>1, <3>2, BreaksAlone
  <2> QED
    BY <2>3, <2>4
<1>4. ASSUME CancelRunning(k) PROVE Touches(k)
  BY <1>0, <1>4 DEF CancelRunning, Touches, OnlyJob, SameWork, workerVars, JobRecord
<1>5. ASSUME ReapGone(k) PROVE UNCHANGED <<job, usage, processing>> /\ SameWork
  BY <1>5 DEF ReapGone, SameWork, workerVars
<1>e. ASSUME NEW r \in JobRecord, NEW s \in Terminal, NEW n \in 0..4,
             MarkTerminal(k, r, s, job[k].assigned_worker_id, n), Executed(n, 4),
             r.assigned_target_id = job[k].assigned_target_id,
             r.assigned_worker_id = job[k].assigned_worker_id,
             r.retry_count \in Nat, r.retry_count >= job[k].retry_count,
             job[k].status # "absent", ~job[k].leased,
             UNCHANGED <<created, workerVars, starts>>,
             \/ dispatch' = dispatch
             \/ \E t \in Targets : dispatch' = [dispatch EXCEPT ![t] = RemoveFirst(@, k)]
      PROVE  Ends(k) \/ Breaks(k)
  <2>1. CASE n = 4
    <3>1. /\ OnlyJob(k) /\ job'[k].status = s /\ job'[k].retry_count = r.retry_count
          /\ Released(k, job[k].assigned_worker_id)
      BY <1>0, <1>e, <2>1, MarkTerminalEnds
    <3>2. UNCHANGED crashes
      BY <1>e, <2>1 DEF Executed
    <3> QED
      BY <1>0, <1>e, <3>1, <3>2 DEF Ends, workerVars
  <2>2. CASE n # 4
    <3>1. /\ OnlyJob(k) /\ Accounts(k) /\ job'[k].retry_count >= job[k].retry_count
          /\ job'[k].status = "queued" => job[k].status = "queued"
      BY <1>0, <1>e, <2>2, MarkTerminalBreaks
    <3>2. Withdraws(k)
      BY <1>e, <3>1 DEF Withdraws, workerVars
    <3> QED
      BY <1>e, <2>2, <3>1, <3>2, BreaksAlone
  <2> QED
    BY <2>1, <2>2
<1>6. ASSUME ReapCancelRequested(k) PROVE Ends(k) \/ Breaks(k)
  <2>1. PICK n \in 0..4 : /\ MarkTerminal(k, job[k], "cancelled", job[k].assigned_worker_id, n)
                          /\ Executed(n, 4)
    BY <1>6 DEF ReapCancelRequested, CancelStaleRequested, MarkCancelled, Terminal
  <2>2. /\ job[k].status # "absent" /\ ~job[k].leased
        /\ UNCHANGED <<created, workerVars, starts>>
    BY <1>6 DEF ReapCancelRequested, CancelStaleRequested, Stale
  <2>3. \/ dispatch' = dispatch
        \/ \E t \in Targets : dispatch' = [dispatch EXCEPT ![t] = RemoveFirst(@, k)]
    BY <1>0, <1>6 DEF ReapCancelRequested
  <2>4. job[k].retry_count >= job[k].retry_count
    BY <1>0
  <2> QED
    BY <1>0, <1>t, <1>e, <2>1, <2>2, <2>3, <2>4
<1>7. ASSUME ReapLate(k) PROVE Ends(k) \/ Breaks(k)
  <2>1. PICK n \in 1..4 : /\ MarkTerminal(k, job[k], "failed", job[k].assigned_worker_id, n)
                          /\ Executed(n, 4)
    BY <1>7 DEF ReapLate
  <2>2. /\ job[k].status # "absent" /\ ~job[k].leased
        /\ UNCHANGED <<created, dispatch, workerVars, starts>>
    BY <1>7 DEF ReapLate, Recoverable, Stale
  <2>3. job[k].retry_count >= job[k].retry_count /\ n \in 0..4
    BY <1>0, <2>1
  <2> QED
    BY <1>0, <1>t, <1>e, <2>1, <2>2, <2>3
<1>8. ASSUME ReapExhausted(k) PROVE Ends(k) \/ Breaks(k)
  <2> DEFINE q == [job[k] EXCEPT !.retry_count = job[k].retry_count + 1]
  <2>1. /\ q \in JobRecord /\ q.assigned_target_id = job[k].assigned_target_id
        /\ q.assigned_worker_id = job[k].assigned_worker_id
        /\ q.retry_count = job[k].retry_count + 1
    BY <1>0 DEF JobRecord
  <2>2. PICK n \in 1..4 : /\ MarkTerminal(k, q, "failed", job[k].assigned_worker_id, n)
                          /\ Executed(n, 4)
    BY <1>8 DEF ReapExhausted
  <2>3. /\ job[k].status # "absent" /\ ~job[k].leased
        /\ UNCHANGED <<created, dispatch, workerVars, starts>>
    BY <1>8 DEF ReapExhausted, Recoverable, Stale
  <2> HIDE DEF q
  <2>4. q.retry_count \in Nat /\ q.retry_count >= job[k].retry_count /\ n \in 0..4
    BY <1>0, <2>1, <2>2
  <2> QED
    BY <1>t, <1>e, <2>1, <2>2, <2>3, <2>4
<1>9. ASSUME ReapRequeue(k) PROVE Requeues(k) \/ Breaks(k)
  <2> DEFINE q == RequeuedRecord(job[k], job[k].retry_count + 1)
  <2>0. Live(k)
    BY <1>0, <1>9 DEF ReapRequeue, Recoverable, Stale, Rests, Live, JobRecord, Statuses
  <2>1. job[k].retry_count + 1 \in Nat
    BY <1>0
  <2>q. q.status = "queued" /\ q.retry_count = job[k].retry_count + 1
    BY <1>0, <2>1, RequeuedFields
  <2>2. PICK n \in 1..5 :
           /\ job' = IF n >= 4 THEN [job EXCEPT ![k] = q] ELSE job
           /\ processing' = IF n >= 2 THEN RemoveFromProcessing(job[k].assigned_worker_id, k)
                                      ELSE processing
           /\ Executed(n, 5)
    BY <1>9 DEF ReapRequeue
  <2>3. /\ usage' = ReleaseReservedCapacity(job[k]) /\ leaked' = leaked
        /\ job[k].retry_count + 1 <= MaxRetries /\ ~job[k].leased
        /\ UNCHANGED <<created, dispatch, workerVars, starts>>
    BY <1>9 DEF ReapRequeue, Recoverable, Stale
  <2> HIDE DEF q
  <2>4. n >= 4 => OnlyJob(k) /\ job'[k] = q
    BY <1>0, <2>2 DEF OnlyJob
  <2>5. CASE n = 5
    <3>1. UNCHANGED crashes /\ Released(k, job[k].assigned_worker_id)
      BY <1>0, <2>2, <2>3, <2>5 DEF Released, Executed
    <3> QED
      BY <1>0, <2>0, <2>q, <2>3, <2>4, <2>5, <3>1 DEF Requeues, SameWork, workerVars
  <2>6. CASE n = 4
    <3>1. OnlyJob(k) /\ job'[k].status = "queued" /\ job'[k].retry_count = job[k].retry_count + 1
      BY <2>q, <2>4, <2>6
    <3>2. Recounts(k)
      BY <2>0, <2>3, <3>1 DEF Recounts, workerVars
    <3>3. Accounts(k)
      BY <2>3, <3>1 DEF Accounts, Live
    <3> QED
      BY <2>2, <2>3, <2>6, <3>1, <3>2, <3>3, BreaksAlone
  <2>7. CASE n \in 1..3
    <3>1. job' = job
      BY <2>2, <2>7
    <3>2. OnlyJob(k) /\ Withdraws(k)
      BY <1>0, <2>0, <2>3, <3>1 DEF Withdraws, workerVars, OnlyJob, Live
    <3>3. Accounts(k)
      BY <2>3, <3>1 DEF Accounts, Keeps
    <3> QED
      BY <2>2, <2>3, <2>7, <3>2, <3>3, BreaksAlone
  <2> QED
    BY <2>5, <2>6, <2>7
<1>10. ASSUME LeaseEnds(k) \/ DeadlinePasses(k) PROVE Touches(k)
  <2>1. CASE LeaseEnds(k)
    BY <1>0, <2>1 DEF LeaseEnds, Touches, OnlyJob, SameWork, workerVars, JobRecord
  <2>2. CASE DeadlinePasses(k)
    BY <1>0, <2>2 DEF DeadlinePasses, Touches, OnlyJob, SameWork, workerVars, JobRecord
  <2> QED
    BY <1>10, <2>1, <2>2
<1>11. ASSUME RecordExpires(k) PROVE Expires(k)
  BY <1>0, <1>11 DEF RecordExpires, Expires, OnlyJob, workerVars, AbsentRecord, Live, Terminal
<1>12. ASSUME NEW t \in Targets, TryAdmit(k, t) PROVE Admitted(k, t) \/ Breaks(k)
  <2> DEFINE kind == DowngradedKind(job[k].target_kind)
             q == [job[k] EXCEPT !.status = "admitted", !.assigned_target_id = t,
                                 !.target_kind = kind, !.leased = TRUE]
             r == [job[k] EXCEPT !.target_kind = kind]
  <2>1. /\ q.status = "admitted" /\ q.retry_count = job[k].retry_count
        /\ q.assigned_target_id = t /\ q.leased
        /\ r.status = job[k].status /\ r.retry_count = job[k].retry_count
        /\ r.assigned_target_id = job[k].assigned_target_id
    BY <1>0 DEF JobRecord
  <2>2. PICK n \in 0..5 :
           /\ job' = IF n >= 3 THEN [job EXCEPT ![k] = q] ELSE [job EXCEPT ![k] = r]
           /\ usage' = IF n >= 2 THEN [usage EXCEPT ![t] = @ + 1] ELSE usage
           /\ dispatch' = IF n >= 5 THEN [dispatch EXCEPT ![t] = Append(@, k)] ELSE dispatch
           /\ leaked' = IF n = 2 THEN [leaked EXCEPT ![t] = @ + 1] ELSE leaked
           /\ Executed(n, 5)
    BY <1>12 DEF TryAdmit
  <2>3. /\ job[k].status = "queued" /\ \E w \in beat : TargetOf[w] = t
        /\ UNCHANGED <<created, processing, workerVars, starts>>
    BY <1>12 DEF TryAdmit, Candidate, ActivePair
  <2> HIDE DEF q, r
  <2>4. OnlyJob(k) /\ job'[k] = IF n >= 3 THEN q ELSE r
    BY <1>0, <2>2 DEF OnlyJob
  <2>5. CASE n = 5
    <3>1. UNCHANGED crashes
      BY <2>2, <2>5 DEF Executed
    <3> QED
      BY <2>1, <2>2, <2>3, <2>4, <2>5, <3>1 DEF Admitted, workerVars
  <2>6. CASE n # 5
    <3>1. dispatch' = dispatch
      BY <2>2, <2>6
    <3>2. job'[k].retry_count = job[k].retry_count
      BY <2>1, <2>4
    <3>3. Withdraws(k)
      BY <1>0, <2>3, <2>4, <3>1, <3>2 DEF Withdraws, workerVars
    <3>4. Accounts(k)
      <4>1. ~Live(k)
        BY <2>3 DEF Live
      <4>2. Keeps(k)
        BY <4>1 DEF Keeps, Holds, Live
      <4>3. CASE n \in 0..1
        BY <2>2, <4>2, <4>3 DEF Accounts
      <4>4. CASE n = 2
        <5>1. usage' = [usage EXCEPT ![t] = @ + 1] /\ leaked' = [leaked EXCEPT ![t] = @ + 1]
          BY <2>2, <4>4
        <5> QED
          BY <4>2, <5>1 DEF Accounts
      <4>5. CASE n \in 3..4
        <5>1. usage' = [usage EXCEPT ![t] = @ + 1] /\ leaked' = leaked
          BY <2>2, <4>5
        <5>2. Holds(job'[k], t)
          BY <2>1, <2>4, <4>5 DEF Holds
        <5> QED
          BY <4>1, <5>1, <5>2 DEF Accounts
      <4> QED
        BY <2>6, <4>3, <4>4, <4>5
    <3> QED
      BY <2>2, <2>3, <2>4, <2>6, <3>3, <3>4, BreaksAlone
  <2> QED
    BY <2>5, <2>6
<1>13. ASSUME NEW t \in Targets, TryAdmitRefused(k, t) PROVE Touches(k)
  <2> DEFINE q == [job[k] EXCEPT !.target_kind = DowngradedKind(job[k].target_kind)]
  <2>1. /\ q.status = job[k].status /\ q.retry_count = job[k].retry_count
        /\ q.assigned_target_id = job[k].assigned_target_id /\ q.leased = job[k].leased
    BY <1>0 DEF JobRecord
  <2>2. job' = [job EXCEPT ![k] = q]
    BY <1>13 DEF TryAdmitRefused
  <2> HIDE DEF q
  <2> QED
    BY <1>0, <1>13, <2>1, <2>2 DEF TryAdmitRefused, Touches, OnlyJob, SameWork, workerVars
<1> QED
  BY <1>1, <1>2, <1>3, <1>4, <1>5, <1>6, <1>7, <1>8, <1>9, <1>10, <1>11, <1>12, <1>13
     DEF JobStep, CancelJob, RequeueStaleJobs, StepKind

\* The operations of the workers.
LEMMA WorkerKinds ==
    ASSUME TypeOK, NEW w \in Workers, WorkerStep(w)
    PROVE  StepKind
<1>0. /\ job \in [Jobs -> JobRecord] /\ \A k \in Jobs : job[k] \in JobRecord
      /\ \A k \in Jobs : job[k].retry_count \in Nat
      /\ w \in Workers \cup {None} /\ w # None
      /\ "failed" \in Terminal /\ "completed" \in Terminal /\ "cancelled" \in Terminal
  BY ConstantsAssumption DEF TypeOK, JobRecord, Terminal
<1>1. ASSUME NEW k \in Jobs, ClaimGone(w, k) PROVE Drops(w, k)
  BY <1>1 DEF ClaimGone, Drops
<1>c. ASSUME NEW n, NEW all, ClaimEnds(w, n, all), n \in Nat, all \in Nat, n < all
      PROVE  /\ crashes' = crashes + 1 /\ hand' = [hand EXCEPT ![w] = None]
             /\ \A j \in Jobs : Running(j)' \subseteq Running(j)
  <2>1. Executed(n, all) /\ n # all
    BY <1>c DEF ClaimEnds
  <2>2. crashes' = crashes + 1
    BY <2>1 DEF Executed
  <2>3. hand' = [hand EXCEPT ![w] = None] /\ (UNCHANGED tasks \/ Dies(w))
    BY <1>c DEF ClaimEnds, Dies
  <2>4. \A j \in Jobs : Running(j)' \subseteq Running(j)
    <3>1. CASE Jobs = {}
      BY <3>1
    <3>2. CASE Jobs # {}
      BY <2>3, <3>2, RunningLess
    <3> QED
      BY <3>1, <3>2
  <2> QED
    BY <2>2, <2>3, <2>4
<1>d. ASSUME NEW all \in Nat, ClaimEnds(w, all, all)
      PROVE  /\ hand' = [hand EXCEPT ![w] = None]
             /\ UNCHANGED <<up, tasks, renewing, beat, crashes>>
  BY <1>d DEF ClaimEnds, Executed
<1>2. ASSUME NEW k \in Jobs, ClaimMismatch(w, k) PROVE Drops(w, k) \/ Breaks(k)
  <2> DEFINE q == RequeuedRecord(job[k], job[k].retry_count)
  <2>1. PICK n \in 0..5 :
           /\ job' = IF n >= 4 THEN [job EXCEPT ![k] = q] ELSE job
           /\ processing' = IF n >= 1 THEN RemoveFromProcessing(w, k) ELSE processing
           /\ usage' = IF n >= 2 THEN ReleaseReservedCapacity(job[k]) ELSE usage
           /\ ClaimEnds(w, n, 5)
    BY <1>2 DEF ClaimMismatch
  <2>2. /\ hand[w] = k /\ job[k].status # "absent"
        /\ UNCHANGED <<created, dispatch, starts, leaked>>
    BY <1>2 DEF ClaimMismatch
  <2>q. q.status = "queued" /\ q.retry_count = job[k].retry_count
    BY <1>0, RequeuedFields
  <2> HIDE DEF q
  <2>3. n >= 4 => OnlyJob(k) /\ job'[k] = q
    BY <1>0, <2>1 DEF OnlyJob
  <2>4. CASE n = 5
    <3>1. hand' = [hand EXCEPT ![w] = None] /\ UNCHANGED <<up, tasks, renewing, beat, crashes>>
      BY <1>d, <2>1, <2>4
    <3> QED
      BY <2>1, <2>2, <2>q, <2>3, <2>4, <3>1 DEF Drops
  <2>5. CASE n # 5
    <3>1. /\ crashes' = crashes + 1 /\ hand' = [hand EXCEPT ![w] = None]
          /\ \A j \in Jobs : Running(j)' \subseteq Running(j)
      <4>1. n \in Nat /\ 5 \in Nat /\ n < 5
        BY <2>5
      <4> QED
        BY <1>c, <2>1, <4>1
    <3>2. CASE n = 4
      <4>1. ~Live(k)' /\ usage' = ReleaseReservedCapacity(job[k])
        BY <2>1, <2>q, <2>3, <3>2 DEF Live
      <4>2. Accounts(k)
        BY <2>2, <4>1 DEF Accounts
      <4>3. Handled(w, k)
        BY <2>2, <2>q, <2>3, <3>1, <3>2 DEF Handled
      <4> QED
        BY <2>3, <3>1, <3>2, <4>2, <4>3 DEF Breaks
    <3>3. CASE n # 4
      <4>1. job' = job /\ (usage' = usage \/ usage' = ReleaseReservedCapacity(job[k]))
        BY <2>1, <2>5, <3>3
      <4>2. Accounts(k) /\ OnlyJob(k)
        BY <2>2, <4>1 DEF Accounts, Keeps, OnlyJob
      <4>3. Handled(w, k)
        BY <2>2, <3>1, <4>1, <4>2 DEF Handled
      <4> QED
        BY <3>1, <4>2, <4>3 DEF Breaks
    <3> QED
      BY <3>2, <3>3
  <2> QED
    BY <2>4, <2>5
<1>3. ASSUME NEW k \in Jobs, ClaimLate(w, k) PROVE Drops(w, k) \/ Breaks(k)
  <2>1. PICK n \in 0..4 : MarkDone(k, "failed", w, n) /\ ClaimEnds(w, n, 4)
    BY <1>3 DEF ClaimLate
  <2>2. hand[w] = k /\ job[k].status # "absent" /\ UNCHANGED <<created, dispatch, starts>>
    BY <1>3 DEF ClaimLate
  <2>3. CASE n = 4
    <3>1. MarkTerminal(k, job[k], "failed", w, 4)
      BY <2>1, <2>2, <2>3 DEF MarkDone
    <3>2. /\ OnlyJob(k) /\ job'[k].status = "failed" /\ job'[k].retry_count = job[k].retry_count
          /\ Released(k, w)
      BY <1>0, <3>1, MarkTerminalEnds
    <3>3. hand' = [hand EXCEPT ![w] = None] /\ UNCHANGED <<up, tasks, renewing, beat, crashes>>
      BY <1>d, <2>1, <2>3
    <3> QED
      BY <1>0, <2>2, <3>2, <3>3 DEF Drops, Released
  <2>4. CASE n # 4
    <3>1. /\ crashes' = crashes + 1 /\ hand' = [hand EXCEPT ![w] = None]
          /\ \A j \in Jobs : Running(j)' \subseteq Running(j)
      <4>1. n \in Nat /\ 4 \in Nat /\ n < 4
        BY <2>4
      <4> QED
        BY <1>c, <2>1, <4>1
    <3>2. n \in 0..3
      BY <2>1, <2>4
    <3>3. /\ OnlyJob(k) /\ Accounts(k)
          /\ job'[k].status # "absent" =>
                job[k].status # "absent" /\ job'[k].retry_count >= job[k].retry_count
          /\ job'[k].status = "queued" => job[k].status = "queued"
      BY <1>0, <2>1, <3>2, MarkBreaks
    <3>4. Withdraws(k)
      BY <2>2, <3>1, <3>3 DEF Withdraws
    <3> QED
      BY <3>1, <3>3, <3>4 DEF Breaks
  <2> QED
    BY <2>3, <2>4
<1>4. ASSUME NEW k \in Jobs, ClaimStart(w, k) \/ ClaimStartCut(w, k)
      PROVE  Started(w, k) \/ Breaks(k)
  <2> DEFINE q == RunningRecord(w, job[k])
  <2>1. /\ q.status = "running" /\ q.leased /\ q.retry_count = job[k].retry_count
        /\ q.assigned_target_id = job[k].assigned_target_id
    BY <1>0 DEF JobRecord, RunningRecord
  <2>2. /\ job' = [job EXCEPT ![k] = q] /\ starts' = [starts EXCEPT ![k] = starts[k] + 1]
        /\ hand[w] = k /\ job[k].status # "absent"
        /\ UNCHANGED <<created, dispatch, processing, usage, leaked>>
    BY <1>4 DEF ClaimStart, ClaimStartCut, CanStart
  <2> HIDE DEF q
  <2>3. OnlyJob(k) /\ job'[k] = q
    BY <1>0, <2>2 DEF OnlyJob
  <2>4. CASE ClaimStart(w, k)
    <3>1. /\ tasks' = [tasks EXCEPT ![w][k] = tasks[w][k] + 1]
          /\ renewing' = [renewing EXCEPT ![w] = renewing[w] \cup {k}]
      BY <2>4 DEF ClaimStart
    <3>2. hand' = [hand EXCEPT ![w] = None] /\ UNCHANGED <<up, beat, crashes>>
      BY <2>4 DEF ClaimStart
    <3> QED
      BY <2>1, <2>2, <2>3, <3>1, <3>2 DEF Started
  <2>5. CASE ClaimStartCut(w, k)
    <3>0. PICK n \in 1..2 : ClaimEnds(w, n, 3)
      BY <2>5 DEF ClaimStartCut
    <3>1. /\ crashes' = crashes + 1 /\ hand' = [hand EXCEPT ![w] = None]
          /\ \A j \in Jobs : Running(j)' \subseteq Running(j)
      <4>1. n \in Nat /\ 3 \in Nat /\ n < 3
        BY <3>0
      <4> QED
        BY <1>c, <3>0, <4>1
    <3>2. Handled(w, k)
      BY <2>1, <2>2, <2>3, <3>1 DEF Handled
    <3>3. Accounts(k)
      <4>1. Keeps(k)
        BY <2>1, <2>3 DEF Keeps, Holds
      <4> QED
        BY <2>2, <4>1 DEF Accounts
    <3> QED
      BY <2>3, <3>1, <3>2, <3>3 DEF Breaks
  <2> QED
    BY <1>4, <2>4, <2>5
<1>5. ASSUME NEW k \in Jobs, ProcessJob(w, k) PROVE Returns(w, k) \/ Breaks(k)
  <2>l. ASSUME TaskEnds(w, k, 4), leaked' = leaked PROVE Leaves(w, k)
    BY <2>l DEF TaskEnds, Leaves, Executed
  <2>1. CASE TaskAborted(w, k)
    BY <2>l, <2>1 DEF TaskAborted, Returns
  <2>2. CASE TaskCancelled(w, k) \/ TaskCompleted(w, k) \/ TaskFailed(w, k)
    <3>1. PICK s \in Terminal, n \in 0..4 : /\ MarkDone(k, s, w, n) \/ MarkCancelled(k, w, n)
                                            /\ TaskEnds(w, k, n)
      BY <1>0, <2>2 DEF TaskCancelled, TaskCompleted, TaskFailed
    <3>2. CASE n = 4
      <4>1. CASE UNCHANGED <<job, usage, processing, active, leaked>> /\ job[k].status \in Terminal \cup {"absent"}
        BY <2>l, <3>1, <3>2, <4>1 DEF Returns
      <4>2. ASSUME NEW x \in Terminal, MarkTerminal(k, job[k], x, w, 4), job[k].status # "absent"
            PROVE  Returns(w, k)
        <5>1. /\ OnlyJob(k) /\ job'[k].status = x /\ job'[k].retry_count = job[k].retry_count
              /\ Released(k, w)
          BY <1>0, <4>2, MarkTerminalEnds
        <5>2. Leaves(w, k)
          BY <2>l, <3>1, <3>2, <5>1 DEF Released
        <5> QED
          BY <4>2, <5>1, <5>2 DEF Returns
      <4> QED
        BY <1>0, <3>1, <3>2, <4>1, <4>2 DEF MarkDone, MarkCancelled
    <3>3. CASE n # 4
      <4>1. n \in 0..3
        BY <3>1, <3>3
      <4>2. /\ OnlyJob(k) /\ Accounts(k)
            /\ job'[k].status # "absent" =>
                  job[k].status # "absent" /\ job'[k].retry_count >= job[k].retry_count
            /\ job'[k].status = "queued" => job[k].status = "queued"
        BY <3>1, <4>1, MarkBreaks
      <4>3. /\ crashes' = crashes + 1 /\ UNCHANGED <<created, dispatch, starts>>
            /\ hand' = hand \/ hand' = [hand EXCEPT ![w] = None]
        BY <3>1, <3>3 DEF TaskEnds, Executed, Dies
      <4>4. \A j \in Jobs : Running(j)' \subseteq Running(j)
        BY <3>1, RunningLess DEF TaskEnds
      <4>5. Withdraws(k)
        BY <4>2, <4>3 DEF Withdraws
      <4> QED
        BY <4>2, <4>3, <4>4, <4>5 DEF Breaks
    <3> QED
      BY <3>2, <3>3
  <2> QED
    BY <1>5, <2>1, <2>2 DEF ProcessJob
<1>6. ASSUME NEW k \in Jobs, RenewLease(w, k) PROVE Touches(k)
  BY <1>0, <1>6 DEF RenewLease, Touches, OnlyJob, SameWork, workerVars, JobRecord
<1>7. ASSUME WorkerStarts(w) \/ Heartbeat(w) \/ HeartbeatExpires(w) PROVE Elsewhere(w)
  BY <1>7 DEF WorkerStarts, Heartbeat, HeartbeatExpires, Elsewhere, redisVars
<1> QED
  BY <1>1, <1>2, <1>3, <1>4, <1>5, <1>6, <1>7 DEF WorkerStep, Claim, StepKind, Elsewhere

\* Every step of Next, and the stuttering step.
LEMMA StepKinds == TypeOK /\ Rests /\ [Next]_vars => StepKind
<1>1. UNCHANGED vars => UNCHANGED <<job, usage, processing>> /\ SameWork
  BY DEF vars, redisVars, workerVars, SameWork
<1> QED
  BY <1>1, JobKinds, WorkerKinds DEF Next, StepKind

-----------------------------------------------------------------------------
(* Reservations.                                                            *)

\* A target's counter is covered by the records that hold a reservation on it and
\* by the reservations that were cut off from theirs.
Ledger ==
    \A t \in Targets : /\ IsFiniteSet(Holders(t))
                       /\ usage[t] <= Cardinality(Holders(t)) + leaked[t]

\* A step that writes the record of k moves k alone in or out of the holders.
LEMMA HoldersOne ==
    ASSUME NEW k \in Jobs, OnlyJob(k), NEW t
    PROVE  Holders(t)' = IF Holds(job'[k], t) THEN Holders(t) \cup {k} ELSE Holders(t) \ {k}
BY DEF Holders, Live, OnlyJob, Holds

\* The numbers of one target.
LEMMA LedgerTyped ==
    ASSUME TypeOK, Ledger, NEW t \in Targets, NEW k
    PROVE  /\ usage[t] \in Nat /\ leaked[t] \in Nat
           /\ IsFiniteSet(Holders(t)) /\ Cardinality(Holders(t)) \in Nat
           /\ usage[t] <= Cardinality(Holders(t)) + leaked[t]
           /\ IsFiniteSet(Holders(t) \ {k}) /\ IsFiniteSet(Holders(t) \cup {k})
           /\ Cardinality(Holders(t) \ {k}) = IF k \in Holders(t) THEN Cardinality(Holders(t)) - 1
                                                                  ELSE Cardinality(Holders(t))
           /\ Cardinality(Holders(t) \cup {k}) = IF k \in Holders(t) THEN Cardinality(Holders(t))
                                                               ELSE Cardinality(Holders(t)) + 1
           /\ Less1(usage[t]) <= usage[t] /\ Less1(usage[t]) \in Nat
           /\ usage[t] > 0 => Less1(usage[t]) = usage[t] - 1
           /\ usage[t] = 0 => Less1(usage[t]) = 0
<1>1. usage[t] \in Nat /\ leaked[t] \in Nat
  BY DEF TypeOK
<1>2. IsFiniteSet(Holders(t)) /\ usage[t] <= Cardinality(Holders(t)) + leaked[t]
  BY DEF Ledger
<1>3. Cardinality(Holders(t)) \in Nat
  BY <1>2, FS_CardinalityType
<1>4. /\ IsFiniteSet(Holders(t) \ {k})
      /\ Cardinality(Holders(t) \ {k}) = IF k \in Holders(t) THEN Cardinality(Holders(t)) - 1
                                                             ELSE Cardinality(Holders(t))
  BY <1>2, FS_RemoveElement
<1>5. /\ IsFiniteSet(Holders(t) \cup {k})
      /\ Cardinality(Holders(t) \cup {k}) = IF k \in Holders(t) THEN Cardinality(Holders(t))
                                                              ELSE Cardinality(Holders(t)) + 1
  BY <1>2, FS_AddElement
<1>6. /\ Less1(usage[t]) <= usage[t] /\ Less1(usage[t]) \in Nat
      /\ usage[t] > 0 => Less1(usage[t]) = usage[t] - 1
      /\ usage[t] = 0 => Less1(usage[t]) = 0
  BY <1>1 DEF Less1
<1> QED
  BY <1>1, <1>2, <1>3, <1>4, <1>5, <1>6

\* The counter of one target after a release by k.
LEMMA ReleasedAt ==
    ASSUME TypeOK, NEW k \in Jobs, NEW t \in Targets, usage' = ReleaseReservedCapacity(job[k])
    PROVE  usage'[t] = IF t = job[k].assigned_target_id THEN Less1(usage[t]) ELSE usage[t]
BY ConstantsAssumption DEF ReleaseReservedCapacity, TypeOK

\* A reservation given back by a job that stops holding it.
LEMMA LedgerReleased ==
    ASSUME TypeOK, Ledger, NEW k \in Jobs, OnlyJob(k), leaked' = leaked,
           usage' = ReleaseReservedCapacity(job[k]),
           job'[k].status \notin {"admitted", "running"}
    PROVE  Ledger'
<1> SUFFICES ASSUME NEW t \in Targets
             PROVE  /\ IsFiniteSet(Holders(t)')
                    /\ usage'[t] <= Cardinality(Holders(t)') + leaked'[t]
  BY DEF Ledger
<1>1. Holders(t)' = Holders(t) \ {k}
  BY HoldersOne DEF Holds
<1>2. usage'[t] = IF t = job[k].assigned_target_id THEN Less1(usage[t]) ELSE usage[t]
  BY ReleasedAt
<1>3. k \in Holders(t) => t = job[k].assigned_target_id
  BY DEF Holders
<1>4. usage'[t] <= Cardinality(Holders(t) \ {k}) + leaked[t]
  <2> DEFINE h == Cardinality(Holders(t))
             m == Cardinality(Holders(t) \ {k})
             n == usage[t]
             x == leaked[t]
             d == Less1(n)
             in == k \in Holders(t)
  <2>1. /\ h \in Nat /\ n \in Nat /\ x \in Nat /\ d \in Nat /\ n <= h + x /\ d <= n
        /\ m = (IF in THEN h - 1 ELSE h) /\ (n > 0 => d = n - 1) /\ (n = 0 => d = 0)
    BY LedgerTyped
  <2>2. usage'[t] = n \/ usage'[t] = d
    BY <1>2
  <2>3. in => usage'[t] = d
    BY <1>2, <1>3
  <2>4. in => h >= 1
    <3>1. in => Holders(t) # {}
      OBVIOUS
    <3> QED
      BY <2>1, <3>1, LedgerTyped, FS_EmptySet
  <2> HIDE DEF h, m, n, x, d, in
  <2>5. usage'[t] <= m + x
    BY <2>1, <2>2, <2>3, <2>4
  <2> QED
    BY <2>5 DEF m, x
<1> QED
  BY <1>1, <1>4, LedgerTyped

\* A record that stops holding its reservation, which is noted as cut off.
LEMMA LedgerCut ==
    ASSUME TypeOK, Ledger, NEW k \in Jobs, OnlyJob(k), leaked' = Leak(k), usage' = usage,
           ~Live(k)'
    PROVE  Ledger'
<1> SUFFICES ASSUME NEW t \in Targets
             PROVE  /\ IsFiniteSet(Holders(t)')
                    /\ usage'[t] <= Cardinality(Holders(t)') + leaked'[t]
  BY DEF Ledger
<1>1. Holders(t)' = Holders(t) \ {k}
  BY HoldersOne DEF Holds, Live
<1>2. k \in Holders(t) => Live(k) /\ job[k].assigned_target_id = t /\ t # None
  BY ConstantsAssumption DEF Holders
<1>3. /\ leaked'[t] \in {leaked[t], leaked[t] + 1}
      /\ k \in Holders(t) => leaked'[t] = leaked[t] + 1
  BY <1>2 DEF Leak, TypeOK
<1>4. usage[t] <= Cardinality(Holders(t) \ {k}) + leaked'[t]
  <2> DEFINE h == Cardinality(Holders(t))
             m == Cardinality(Holders(t) \ {k})
             n == usage[t]
             x == leaked[t]
             y == leaked'[t]
             in == k \in Holders(t)
  <2>1. /\ h \in Nat /\ n \in Nat /\ x \in Nat /\ n <= h + x
        /\ m = (IF in THEN h - 1 ELSE h)
    BY LedgerTyped
  <2>2. (y = x \/ y = x + 1) /\ (in => y = x + 1)
    BY <1>3
  <2> HIDE DEF h, m, n, x, y, in
  <2>3. n <= m + y
    BY <2>1, <2>2
  <2> QED
    BY <2>3 DEF m, n, y
<1> QED
  BY <1>1, <1>4, LedgerTyped

\* A step that raises no counter and loses no holder.
LEMMA LedgerKept ==
    ASSUME TypeOK, Ledger, NEW k \in Jobs, OnlyJob(k), leaked' = leaked, Keeps(k),
           usage' = usage \/ usage' = ReleaseReservedCapacity(job[k])
    PROVE  Ledger'
<1> SUFFICES ASSUME NEW t \in Targets
             PROVE  /\ IsFiniteSet(Holders(t)')
                    /\ usage'[t] <= Cardinality(Holders(t)') + leaked'[t]
  BY DEF Ledger
<1>1. Holders(t)' = Holders(t) \/ Holders(t)' = Holders(t) \cup {k}
  BY HoldersOne DEF Keeps, Holds, Holders, Live
<1>2. usage'[t] = usage[t] \/ usage'[t] = Less1(usage[t])
  BY ReleasedAt
<1>3. /\ usage'[t] <= Cardinality(Holders(t)) + leaked[t]
      /\ usage'[t] <= Cardinality(Holders(t) \cup {k}) + leaked[t]
  <2> DEFINE h == Cardinality(Holders(t))
             m == Cardinality(Holders(t) \cup {k})
             n == usage[t]
             x == leaked[t]
             d == Less1(n)
             in == k \in Holders(t)
  <2>1. /\ h \in Nat /\ n \in Nat /\ x \in Nat /\ d \in Nat /\ n <= h + x /\ d <= n
        /\ m = IF in THEN h ELSE h + 1
    BY LedgerTyped
  <2>2. usage'[t] = n \/ usage'[t] = d
    BY <1>2
  <2> HIDE DEF h, m, n, x, d, in
  <2>3. usage'[t] <= h + x /\ usage'[t] <= m + x
    BY <2>1, <2>2
  <2> QED
    BY <2>3 DEF h, m, x
<1> QED
  BY <1>1, <1>3, LedgerTyped

\* A reservation made for k, which holds it or has lost it at once.
LEMMA LedgerReserved ==
    ASSUME TypeOK, Ledger, NEW k \in Jobs, OnlyJob(k), NEW t \in Targets,
           usage' = [usage EXCEPT ![t] = @ + 1],
           \/ ~Live(k) /\ Holds(job'[k], t) /\ leaked' = leaked
           \/ Keeps(k) /\ leaked' = [leaked EXCEPT ![t] = @ + 1]
    PROVE  Ledger'
<1> SUFFICES ASSUME NEW u \in Targets
             PROVE  /\ IsFiniteSet(Holders(u)')
                    /\ usage'[u] <= Cardinality(Holders(u)') + leaked'[u]
  BY DEF Ledger
<1>1. usage'[u] = IF u = t THEN usage[u] + 1 ELSE usage[u]
  BY DEF TypeOK
<1>2. CASE ~Live(k) /\ Holds(job'[k], t) /\ leaked' = leaked
  <2>1. k \notin Holders(u) /\ Holders(u)' = IF u = t THEN Holders(u) \cup {k} ELSE Holders(u) \ {k}
    BY <1>2, HoldersOne DEF Holds, Holders
  <2>2. usage'[u] <= (IF u = t THEN Cardinality(Holders(u) \cup {k})
                               ELSE Cardinality(Holders(u) \ {k})) + leaked[u]
    <3> DEFINE h == Cardinality(Holders(u))
               n == usage[u]
               x == leaked[u]
    <3>1. /\ h \in Nat /\ n \in Nat /\ x \in Nat /\ n <= h + x
          /\ Cardinality(Holders(u) \cup {k}) = h + 1 /\ Cardinality(Holders(u) \ {k}) = h
      BY <2>1, LedgerTyped
    <3>2. usage'[u] = IF u = t THEN n + 1 ELSE n
      BY <1>1
    <3> HIDE DEF h, n, x
    <3>3. usage'[u] <= (IF u = t THEN h + 1 ELSE h) + x
      BY <3>1, <3>2
    <3> QED
      BY <3>1, <3>3 DEF x
  <2>3. IsFiniteSet(Holders(u) \cup {k}) /\ IsFiniteSet(Holders(u) \ {k})
    BY LedgerTyped
  <2> QED
    BY <1>2, <2>1, <2>2, <2>3
<1>3. CASE Keeps(k) /\ leaked' = [leaked EXCEPT ![t] = @ + 1]
  <2>1. Holders(u)' = Holders(u) \/ Holders(u)' = Holders(u) \cup {k}
    <3>1. Holders(u)' = IF Holds(job'[k], u) THEN Holders(u) \cup {k} ELSE Holders(u) \ {k}
      BY HoldersOne
    <3>2. k \in Holders(u) => Holds(job'[k], u)
      BY <1>3 DEF Keeps, Holds, Holders, Live
    <3> QED
      BY <3>1, <3>2
  <2>2. leaked'[u] = IF u = t THEN leaked[u] + 1 ELSE leaked[u]
    BY <1>3 DEF TypeOK
  <2>3. /\ usage'[u] <= Cardinality(Holders(u)) + leaked'[u]
        /\ usage'[u] <= Cardinality(Holders(u) \cup {k}) + leaked'[u]
    <3> DEFINE h == Cardinality(Holders(u))
               m == Cardinality(Holders(u) \cup {k})
               n == usage[u]
               x == leaked[u]
               in == k \in Holders(u)
    <3>1. /\ h \in Nat /\ n \in Nat /\ x \in Nat /\ n <= h + x
          /\ m = IF in THEN h ELSE h + 1
      BY LedgerTyped
    <3>2. \/ usage'[u] = n /\ leaked'[u] = x
          \/ usage'[u] = n + 1 /\ leaked'[u] = x + 1
      BY <1>1, <2>2
    <3> HIDE DEF h, m, n, x, in
    <3>3. usage'[u] <= h + leaked'[u] /\ usage'[u] <= m + leaked'[u]
      BY <3>1, <3>2
    <3> QED
      BY <3>3 DEF h, m
  <2> QED
    BY <2>1, <2>3, LedgerTyped
<1> QED
  BY <1>2, <1>3

\* Every step keeps the ledger.
LEMMA LedgerStep ==
    ASSUME TypeOK, Rests, Ledger, [Next]_vars
    PROVE  Ledger'
<1>0. StepKind
  BY StepKinds
<1>1. CASE UNCHANGED <<job, usage, leaked>>
  BY <1>1 DEF Ledger, Holders, Live
<1>2. ASSUME NEW k \in Jobs, Touches(k) PROVE Ledger'
  <2>1. Keeps(k)
    BY <1>2 DEF Touches, Keeps, Holds
  <2> QED
    BY <1>2, <2>1, LedgerKept DEF Touches, SameWork
<1>3. ASSUME NEW k \in Jobs, Enqueues(k) PROVE Ledger'
  <2>1. Keeps(k)
    BY <1>3 DEF Enqueues, Keeps, Holds, Rests
  <2> QED
    BY <1>3, <2>1, LedgerKept DEF Enqueues
<1>4. ASSUME NEW k \in Jobs, Ends(k) \/ Requeues(k) PROVE Ledger'
  BY <1>4, LedgerReleased DEF Ends, Requeues, Released, Terminal
<1>5. ASSUME NEW k \in Jobs, Expires(k) PROVE Ledger'
  BY <1>5, LedgerCut DEF Expires, Live
<1>6. ASSUME NEW k \in Jobs, NEW t \in Targets, Admitted(k, t) PROVE Ledger'
  BY <1>6, LedgerReserved DEF Admitted, Holds, Live
<1>7. ASSUME NEW k \in Jobs, NEW w \in Workers, Drops(w, k) PROVE Ledger'
  BY <1>1, <1>7, LedgerReleased DEF Drops, Terminal
<1>8. ASSUME NEW k \in Jobs, NEW w \in Workers, Started(w, k) PROVE Ledger'
  <2>1. Keeps(k)
    BY <1>8 DEF Started, Keeps, Holds
  <2> QED
    BY <1>8, <2>1, LedgerKept DEF Started
<1>9. ASSUME NEW k \in Jobs, NEW w \in Workers, Returns(w, k) PROVE Ledger'
  BY <1>1, <1>9, LedgerReleased DEF Returns, Leaves, Released, Terminal
<1>10. ASSUME NEW w \in Workers, ClaimPop(w) \/ Elsewhere(w) PROVE Ledger'
  BY <1>1, <1>10 DEF ClaimPop, Elsewhere, WorkerStops, redisVars
<1>11. ASSUME NEW k \in Jobs, Breaks(k) PROVE Ledger'
  <2>1. OnlyJob(k) /\ Accounts(k)
    BY <1>11 DEF Breaks
  <2>2. ~Live(k)' => job'[k].status \notin {"admitted", "running"}
    BY DEF Live
  <2> QED
    BY <2>1, <2>2, LedgerKept, LedgerReleased, LedgerCut, LedgerReserved DEF Accounts
<1> QED
  BY <1>0, <1>1, <1>2, <1>3, <1>4, <1>5, <1>6, <1>7, <1>8, <1>9, <1>10, <1>11
     DEF StepKind, SameWork

\* TypeOK and Rests hold in every reachable state.
LEMMA Basics == Spec => [](TypeOK /\ Rests)
<1>1. Init => Rests
  BY DEF Init, Rests, AbsentRecord
<1> QED
  BY <1>1, TypeInit, TypeStep, RestsStep, PTL DEF Spec

\* _release_reserved_capacity against try_admit_job: whatever workers crash,
\* stall or claim twice, whatever records expire and wherever a coroutine is
\* interrupted, a target's counter never exceeds the number of records that hold a
\* reservation on it by more than what was cut off between a terminal save and
\* its release, between a reservation and the save of its record, or by a record
\* that expired in use.  A release more than once only lowers the counter.
THEOREM CapacityNeverLeaks == Spec => []NoCapacityLeak
<1>1. Init => Ledger
  <2> SUFFICES ASSUME Init, NEW t \in Targets
               PROVE  /\ IsFiniteSet(Holders(t))
                      /\ usage[t] <= Cardinality(Holders(t)) + leaked[t]
    BY DEF Ledger
  <2>1. Holders(t) = {} /\ usage[t] = 0 /\ leaked[t] = 0
    BY DEF Init, Holders, Live, AbsentRecord
  <2> QED
    BY <2>1, FS_EmptySet
<1>2. TypeOK /\ Rests /\ Ledger /\ [Next]_vars => Ledger'
  BY LedgerStep
<1>3. Ledger => NoCapacityLeak
  BY DEF Ledger, NoCapacityLeak
<1> QED
  BY <1>1, <1>2, <1>3, Basics, PTL DEF Spec

-----------------------------------------------------------------------------
(* Entries of the dispatch lists.                                           *)

\* The places of the dispatch lists d that hold the id j.
Places(d, j) == {p \in Targets \X Nat : p[2] \in 1..Len(d[p[1]]) /\ d[p[1]][p[2]] = j}

\* RPUSH of k on the list of t, and the place it takes.
Pushed(d, t, k) == [d EXCEPT ![t] = Append(@, k)]
NewPlace(d, t) == <<t, Len(d[t]) + 1>>

\* A push adds one place.
LEMMA PlacesAppend ==
    ASSUME NEW d \in [Targets -> Seq(Jobs)], NEW t \in Targets, NEW k \in Jobs, NEW j \in Jobs
    PROVE  /\ NewPlace(d, t) \notin Places(d, j)
           /\ j = k => Places(Pushed(d, t, k), j) = Places(d, j) \cup {NewPlace(d, t)}
           /\ j # k => Places(Pushed(d, t, k), j) = Places(d, j)
<1> DEFINE e == [d EXCEPT ![t] = Append(@, k)]
           n == Len(d[t])
<1>1. n \in Nat /\ d[t] \in Seq(Jobs)
  OBVIOUS
<1>2. /\ e[t] = Append(d[t], k) /\ \A u \in Targets \ {t} : e[u] = d[u]
  OBVIOUS
<1>3. Len(e[t]) = n + 1 /\ e[t][n + 1] = k /\ \A i \in 1..n : e[t][i] = d[t][i]
  BY <1>1, <1>2
<1> HIDE DEF e
<1>4. <<t, n + 1>> \notin Places(d, j)
  BY <1>1 DEF Places
<1> HIDE DEF n
<1>5. ASSUME NEW u \in Targets, NEW i \in Nat
      PROVE  <<u, i>> \in Places(e, j) <=>
                <<u, i>> \in Places(d, j) \/ (u = t /\ i = n + 1 /\ j = k)
  <2>1. CASE u # t
    BY <1>2, <2>1 DEF Places
  <2>2. CASE u = t
    <3>1. i \in 1..(n + 1) <=> i \in 1..n \/ i = n + 1
      BY <1>1
    <3> QED
      BY <1>1, <1>3, <2>2, <3>1 DEF Places, n
  <2> QED
    BY <2>1, <2>2
<1>6. n + 1 \in Nat
  BY <1>1
<1>7. Places(e, j) = IF j = k THEN Places(d, j) \cup {<<t, n + 1>>} ELSE Places(d, j)
  <2>1. Places(e, j) \subseteq Targets \X Nat /\ Places(d, j) \subseteq Targets \X Nat
    BY DEF Places
  <2> DEFINE P == Places(d, j)
             Q == Places(e, j)
  <2>2. P \subseteq Targets \X Nat /\ Q \subseteq Targets \X Nat
    BY <2>1
  <2>3. ASSUME NEW u \in Targets, NEW i \in Nat
        PROVE  <<u, i>> \in Q <=> <<u, i>> \in P \/ (<<u, i>> = <<t, n + 1>> /\ j = k)
    BY <1>5
  <2> HIDE DEF P, Q
  <2>4. ASSUME NEW x \in Targets \X Nat PROVE x \in Q <=> x \in P \/ (x = <<t, n + 1>> /\ j = k)
    BY <2>3
  <2>5. Q = IF j = k THEN P \cup {<<t, n + 1>>} ELSE P
    <3>1. <<t, n + 1>> \in Targets \X Nat
      BY <1>6
    <3> QED
      BY <2>2, <2>4, <3>1
  <2> QED
    BY <2>5 DEF P, Q
<1> QED
  BY <1>4, <1>7 DEF e, n, Pushed, NewPlace

\* A pop takes one place away.
LEMMA PlacesFront ==
    ASSUME NEW d \in [Targets -> Seq(Jobs)], NEW t \in Targets, d[t] # <<>>, NEW j \in Jobs
    PROVE  LET e == [d EXCEPT ![t] = Front(@)]
               p == <<t, Len(d[t])>>
           IN  /\ p \in Places(d, j) <=> j = Last(d[t])
               /\ Places(e, j) = Places(d, j) \ {p}
<1> DEFINE e == [d EXCEPT ![t] = Front(@)]
           n == Len(d[t])
<1>1. n \in Nat /\ n > 0 /\ d[t] \in Seq(Jobs) /\ Last(d[t]) = d[t][n]
  BY DEF Last
<1>2. /\ e[t] = Front(d[t]) /\ \A u \in Targets \ {t} : e[u] = d[u]
  OBVIOUS
<1>3. Len(e[t]) = n - 1 /\ \A i \in 1..(n - 1) : e[t][i] = d[t][i]
  <2>1. e[t] = SubSeq(d[t], 1, n - 1)
    BY <1>2 DEF Front
  <2> HIDE DEF e
  <2>2. ASSUME NEW q \in Seq(Jobs), NEW m \in 1..Len(q)
        PROVE  /\ Len(SubSeq(q, 1, m - 1)) = m - 1
               /\ \A i \in 1..(m - 1) : SubSeq(q, 1, m - 1)[i] = q[i]
    OBVIOUS
  <2>3. n \in 1..Len(d[t])
    BY <1>1
  <2> QED
    BY <1>1, <2>1, <2>2, <2>3
<1> HIDE DEF e
<1>4. <<t, n>> \in Places(d, j) <=> j = Last(d[t])
  BY <1>1 DEF Places
<1>5. ASSUME NEW u \in Targets, NEW i \in Nat
      PROVE  <<u, i>> \in Places(e, j) <=> <<u, i>> \in Places(d, j) /\ <<u, i>> # <<t, n>>
  <2>1. CASE u # t
    BY <1>2, <2>1 DEF Places
  <2>2. CASE u = t
    <3>1. i \in 1..(n - 1) <=> i \in 1..n /\ i # n
      BY <1>1
    <3> QED
      BY <1>1, <1>3, <2>2, <3>1 DEF Places
  <2> QED
    BY <2>1, <2>2
<1>6. Places(e, j) = Places(d, j) \ {<<t, n>>}
  <2>1. Places(e, j) \subseteq Targets \X Nat /\ Places(d, j) \subseteq Targets \X Nat
    BY DEF Places
  <2> HIDE DEF n
  <2> QED
    BY <1>5, <2>1
<1> QED
  BY <1>4, <1>6 DEF e

\* r is s with place m closed up.
ClosesUp(s, r, m) ==
    /\ m \in 1..Len(s) /\ Len(r) = Len(s) - 1
    /\ \A i \in 1..(m - 1) : r[i] = s[i]
    /\ \A i \in m..(Len(s) - 1) : r[i] = s[i + 1]

\* Every place of j in the lists e comes from a place of its own in d, on the
\* same list.
PlacedFrom(e, d, j) ==
    \E f : f \in Injection(Places(e, j), Places(d, j)) /\ \A p \in Places(e, j) : f[p][1] = p[1]

\* Closing up place m of the list of t moves its later places up, and no two
\* places to the same one.
LEMMA PlacesClosedUp ==
    ASSUME NEW d \in [Targets -> Seq(Jobs)], NEW t \in Targets, NEW j \in Jobs,
           NEW r, NEW m, ClosesUp(d[t], r, m)
    PROVE  PlacedFrom([d EXCEPT ![t] = r], d, j)
<1> DEFINE e == [d EXCEPT ![t] = r]
           E == Places(e, j)
           D == Places(d, j)
<1>0. e[t] = r /\ (\A u \in Targets \ {t} : e[u] = d[u]) /\ d[t] \in Seq(Jobs)
  OBVIOUS
<1> DEFINE n == Len(d[t])
           Up(p) == IF p[1] = t /\ p[2] >= m THEN <<t, p[2] + 1>> ELSE p
           f == [p \in E |-> Up(p)]
<1>1. /\ n \in Nat /\ m \in 1..n /\ Len(r) = n - 1
      /\ \A i \in 1..(m - 1) : r[i] = d[t][i]
      /\ \A i \in m..(n - 1) : r[i] = d[t][i + 1]
  BY <1>0 DEF ClosesUp
<1> HIDE DEF e
<1>2. ASSUME NEW p \in E PROVE Up(p) \in D /\ p[1] \in Targets /\ p[2] \in Nat /\ p = <<p[1], p[2]>>
  <2>1. p \in Targets \X Nat /\ p[2] \in 1..Len(e[p[1]]) /\ e[p[1]][p[2]] = j
    BY <1>2 DEF Places
  <2>2. p = <<p[1], p[2]>> /\ p[1] \in Targets /\ p[2] \in Nat
    BY <2>1
  <2>3. CASE p[1] # t
    BY <1>0, <2>1, <2>2, <2>3 DEF Places
  <2>4. CASE p[1] = t /\ p[2] >= m
    <3>1. p[2] \in m..(n - 1) /\ p[2] + 1 \in 1..n /\ p[2] + 1 \in Nat
      BY <1>0, <1>1, <2>1, <2>2, <2>4
    <3>2. d[t][p[2] + 1] = j
      BY <1>0, <1>1, <2>1, <2>4, <3>1
    <3>3. <<t, p[2] + 1>> \in D
      BY <3>1, <3>2 DEF Places
    <3> QED
      BY <2>2, <2>4, <3>3
  <2>5. CASE p[1] = t /\ ~(p[2] >= m)
    <3>1. p[2] \in 1..(m - 1) /\ p[2] \in 1..n
      BY <1>0, <1>1, <2>1, <2>2, <2>5
    <3>2. d[t][p[2]] = j
      BY <1>0, <1>1, <2>1, <2>5, <3>1
    <3>3. <<t, p[2]>> \in D
      BY <2>2, <3>1, <3>2 DEF Places
    <3> QED
      BY <2>2, <2>5, <3>3
  <2> QED
    BY <2>2, <2>3, <2>4, <2>5
<1>3. ASSUME NEW p \in E, NEW q \in E, Up(p) = Up(q) PROVE p = q
  <2>1. /\ p[1] \in Targets /\ p[2] \in Nat /\ p = <<p[1], p[2]>>
        /\ q[1] \in Targets /\ q[2] \in Nat /\ q = <<q[1], q[2]>>
    BY <1>2
  <2>2. /\ Up(p)[1] = p[1] /\ Up(q)[1] = q[1]
        /\ Up(p)[2] = IF p[1] = t /\ p[2] >= m THEN p[2] + 1 ELSE p[2]
        /\ Up(q)[2] = IF q[1] = t /\ q[2] >= m THEN q[2] + 1 ELSE q[2]
    OBVIOUS
  <2>3. p[1] = q[1] /\ p[2] = q[2]
    BY <1>1, <1>3, <2>1, <2>2
  <2> QED
    BY <2>1, <2>3
<1>4. \A p \in E : f[p] = Up(p) /\ Up(p)[1] = p[1]
  OBVIOUS
<1> HIDE DEF Up
<1>5. f \in Injection(E, D)
  BY <1>2, <1>3 DEF Injection, IsInjective
<1> QED
  BY <1>4, <1>5 DEF e, PlacedFrom

\* LREM leaves the places alone or closes one up.
LEMMA PlacesRemove ==
    ASSUME NEW d \in [Targets -> Seq(Jobs)], NEW t \in Targets, NEW k \in Jobs, NEW j \in Jobs
    PROVE  PlacedFrom([d EXCEPT ![t] = RemoveFirst(@, k)], d, j)
<1> DEFINE r == RemoveFirst(d[t], k)
<1>1. CASE r = d[t]
  <2> DEFINE D == Places(d, j)
  <2>1. [d EXCEPT ![t] = RemoveFirst(@, k)] = d
    BY <1>1
  <2>2. [p \in D |-> p] \in Injection(D, D)
    BY DEF Injection, IsInjective
  <2>3. \A p \in D : [q \in D |-> q][p][1] = p[1]
    OBVIOUS
  <2> QED
    BY <2>1, <2>2, <2>3 DEF PlacedFrom
<1>2. CASE r # d[t]
  <2>1. PICK m \in 1..Len(d[t]) : /\ Len(r) = Len(d[t]) - 1
                                  /\ \A i \in 1..(m - 1) : r[i] = d[t][i]
                                  /\ \A i \in m..(Len(d[t]) - 1) : r[i] = d[t][i + 1]
    BY <1>2, RemoveFirstShape
  <2>2. ClosesUp(d[t], r, m)
    BY <2>1 DEF ClosesUp
  <2> QED
    BY <2>2, PlacesClosedUp
<1> QED
  BY <1>1, <1>2

-----------------------------------------------------------------------------
(* Replays.                                                                 *)

Waiting(j) == IF job[j].status = "queued" THEN 1 ELSE 0

\* The executions of j so far and the copies of its id that may become one.
Copies(j) == starts[j] + Cardinality(Places(dispatch, j)) + Cardinality(Hands(j)) + Waiting(j)

\* A copy is made only by enqueue_job and by a requeue, which is counted.
Counted(j) ==
    /\ IsFiniteSet(Places(dispatch, j)) /\ IsFiniteSet(Hands(j))
    /\ job[j].status # "absent" => Copies(j) <= job[j].retry_count + 1
    /\ Copies(j) <= MaxRetries + 1
    /\ j \notin created => Copies(j) = 0

Replay == \A j \in Jobs : Counted(j)

\* Setting the hand of one worker.
LEMMA HandsPut ==
    ASSUME TypeOK, NEW w \in Workers, NEW j \in Jobs, NEW x, hand' = [hand EXCEPT ![w] = x]
    PROVE  Hands(j)' = IF x = j THEN Hands(j) \cup {w} ELSE Hands(j) \ {w}
BY DEF Hands, TypeOK

\* The four parts of Copies are numbers.
LEMMA CopiesTyped ==
    ASSUME TypeOK, NEW j \in Jobs, IsFiniteSet(Places(dispatch, j)), IsFiniteSet(Hands(j))
    PROVE  /\ starts[j] \in Nat /\ Cardinality(Places(dispatch, j)) \in Nat
           /\ Cardinality(Hands(j)) \in Nat /\ Waiting(j) \in {0, 1}
           /\ job[j].retry_count \in Nat /\ Copies(j) \in Nat
<1>1. Cardinality(Places(dispatch, j)) \in Nat /\ Cardinality(Hands(j)) \in Nat
  BY FS_CardinalityType
<1>2. starts[j] \in Nat /\ Waiting(j) \in {0, 1} /\ job[j].retry_count \in Nat
  BY DEF TypeOK, JobRecord, Waiting
<1> QED
  BY <1>1, <1>2 DEF Copies

\* A step that makes no copy of j.
LEMMA CountedKept ==
    ASSUME TypeOK, TypeOK', NEW j \in Jobs, Counted(j), created \subseteq created',
           IsFiniteSet(Places(dispatch, j))', IsFiniteSet(Hands(j))', Copies(j)' <= Copies(j),
           job'[j].status # "absent" =>
              job[j].status # "absent" /\ job'[j].retry_count >= job[j].retry_count
    PROVE  Counted(j)'
<1>1. Copies(j) \in Nat /\ job[j].retry_count \in Nat
  BY CopiesTyped DEF Counted
<1>2. Copies(j)' \in Nat /\ job'[j].retry_count \in Nat
  <2>1. Cardinality(Places(dispatch, j))' \in Nat /\ Cardinality(Hands(j))' \in Nat
    BY FS_CardinalityType
  <2>2. starts'[j] \in Nat /\ Waiting(j)' \in {0, 1} /\ job'[j].retry_count \in Nat
    BY DEF TypeOK, JobRecord, Waiting
  <2> QED
    BY <2>1, <2>2 DEF Copies
<1>3. Copies(j)' <= MaxRetries + 1
  BY <1>1, <1>2, ConstantsAssumption DEF Counted
<1>4. job'[j].status # "absent" => Copies(j)' <= job'[j].retry_count + 1
  BY <1>1, <1>2 DEF Counted
<1>5. j \notin created' => Copies(j)' = 0
  BY <1>1, <1>2 DEF Counted
<1> QED
  BY <1>3, <1>4, <1>5 DEF Counted

\* A step that moves no id and starts nothing makes no copy, unless it queues j.
LEMMA CountedStill ==
    ASSUME TypeOK, TypeOK', NEW j \in Jobs, Counted(j), created \subseteq created',
           UNCHANGED <<dispatch, hand>>, starts'[j] = starts[j],
           job'[j].status = "queued" => job[j].status = "queued",
           job'[j].status # "absent" =>
              job[j].status # "absent" /\ job'[j].retry_count >= job[j].retry_count
    PROVE  Counted(j)'
<1>1. /\ starts[j] \in Nat /\ Cardinality(Places(dispatch, j)) \in Nat
      /\ Cardinality(Hands(j)) \in Nat /\ Waiting(j) \in {0, 1}
  BY CopiesTyped DEF Counted
<1>2. Places(dispatch, j)' = Places(dispatch, j) /\ Hands(j)' = Hands(j)
  BY DEF Hands
<1>3. Waiting(j)' <= Waiting(j) /\ Waiting(j)' \in {0, 1}
  BY DEF Waiting
<1>4. Copies(j)' <= Copies(j)
  BY <1>1, <1>2, <1>3 DEF Copies
<1> QED
  BY <1>2, <1>4, CountedKept DEF Counted

\* The id in the hand of w becomes an execution, a queued record or nothing.
LEMMA CountedHandled ==
    ASSUME TypeOK, TypeOK', Rests, NEW w \in Workers, NEW k \in Jobs, NEW j \in Jobs, Counted(j),
           Handled(w, k)
    PROVE  Counted(j)'
<1>1. /\ starts[j] \in Nat /\ Cardinality(Places(dispatch, j)) \in Nat
      /\ Cardinality(Hands(j)) \in Nat /\ Waiting(j) \in {0, 1} /\ IsFiniteSet(Hands(j))
  BY CopiesTyped DEF Counted
<1>2. hand[w] = k /\ hand' = [hand EXCEPT ![w] = None] /\ created' = created /\ dispatch' = dispatch
  BY DEF Handled
<1>3. Hands(j)' = Hands(j) \ {w} /\ (w \in Hands(j) <=> j = k)
  <2>1. None # j
    BY ConstantsAssumption
  <2>2. Hands(j)' = Hands(j) \ {w}
    BY <1>2, <2>1, HandsPut
  <2>3. w \in Hands(j) <=> j = k
    BY <1>2 DEF Hands
  <2> QED
    BY <2>2, <2>3
<1>4. /\ IsFiniteSet(Hands(j)')
      /\ Cardinality(Hands(j)') = IF j = k THEN Cardinality(Hands(j)) - 1 ELSE Cardinality(Hands(j))
  BY <1>1, <1>3, FS_RemoveElement
<1>5. Places(dispatch, j)' = Places(dispatch, j)
  BY <1>2
<1>6. /\ job'[j].status # "absent" => /\ job[j].status # "absent"
                                      /\ job'[j].retry_count >= job[j].retry_count
      /\ j # k => job'[j] = job[j] /\ starts'[j] = starts[j]
  <2>1. job[j].retry_count \in Nat
    BY DEF TypeOK, JobRecord
  <2>2. j # k => job'[j] = job[j] /\ starts'[j] = starts[j]
    BY DEF Handled, OnlyJob, TypeOK
  <2>3. job'[k].status # "absent" => /\ job[k].status # "absent"
                                     /\ job'[k].retry_count = job[k].retry_count
    BY DEF Handled
  <2> QED
    BY <2>1, <2>2, <2>3
<1>7. Copies(j)' <= Copies(j)
  <2>1. CASE j # k
    BY <1>1, <1>4, <1>5, <1>6, <2>1 DEF Copies, Waiting
  <2>2. CASE j = k /\ starts' = starts
    <3>1. starts' = starts /\ Waiting(j)' \in {0, 1}
      BY <2>2 DEF Waiting
    <3> QED
      BY <1>1, <1>4, <1>5, <2>2, <3>1 DEF Copies
  <2>3. CASE j = k /\ starts' = [starts EXCEPT ![k] = starts[k] + 1] /\ job'[k].status = "running"
    <3>1. starts'[j] = starts[j] + 1 /\ Waiting(j)' = 0
      BY <2>3 DEF Waiting, TypeOK
    <3> QED
      BY <1>1, <1>4, <1>5, <2>3, <3>1 DEF Copies
  <2> QED
    BY <2>1, <2>2, <2>3 DEF Handled
<1> QED
  BY <1>2, <1>4, <1>5, <1>6, <1>7, CountedKept DEF Counted

\* BRPOPLPUSH moves a copy from the list to the hand.
LEMMA CountedPopped ==
    ASSUME TypeOK, TypeOK', NEW w \in Workers, NEW j \in Jobs, Counted(j), ClaimPop(w)
    PROVE  Counted(j)'
<1> DEFINE t == TargetOf[w]
           k == Last(dispatch[t])
<1>1. /\ starts[j] \in Nat /\ Cardinality(Places(dispatch, j)) \in Nat
      /\ Cardinality(Hands(j)) \in Nat /\ Waiting(j) \in {0, 1}
      /\ IsFiniteSet(Hands(j)) /\ IsFiniteSet(Places(dispatch, j)) /\ job[j].retry_count \in Nat
  BY CopiesTyped DEF Counted
<1>2. /\ t \in Targets /\ dispatch[t] # <<>> /\ dispatch \in [Targets -> Seq(Jobs)]
      /\ hand[w] = None /\ hand' = [hand EXCEPT ![w] = k]
      /\ dispatch' = [dispatch EXCEPT ![t] = Front(@)]
      /\ UNCHANGED <<job, starts, created>>
  BY ConstantsAssumption DEF ClaimPop, TypeOK
<1>3. /\ Hands(j)' = IF k = j THEN Hands(j) \cup {w} ELSE Hands(j) \ {w}
      /\ w \notin Hands(j)
  <2>1. Hands(j)' = IF k = j THEN Hands(j) \cup {w} ELSE Hands(j) \ {w}
    BY <1>2, HandsPut
  <2>2. w \notin Hands(j)
    BY <1>2, ConstantsAssumption DEF Hands
  <2> QED
    BY <2>1, <2>2
<1>4. /\ IsFiniteSet(Hands(j)')
      /\ Cardinality(Hands(j)') = IF j = k THEN Cardinality(Hands(j)) + 1 ELSE Cardinality(Hands(j))
  BY <1>1, <1>3, FS_RemoveElement, FS_AddElement
<1>5. /\ <<t, Len(dispatch[t])>> \in Places(dispatch, j) <=> j = k
      /\ Places(dispatch, j)' = Places(dispatch, j) \ {<<t, Len(dispatch[t])>>}
  BY <1>2, PlacesFront
<1> DEFINE p == <<t, Len(dispatch[t])>>
           P == Places(dispatch, j)
<1>p. Places(dispatch, j)' = P \ {p} /\ (p \in P <=> j = k) /\ IsFiniteSet(P)
  BY <1>1, <1>5
<1>c. IsFiniteSet(P \ {p}) /\ Cardinality(P \ {p}) = IF p \in P THEN Cardinality(P) - 1
                                                               ELSE Cardinality(P)
  BY <1>p, FS_RemoveElement
<1> HIDE DEF p
<1>6. /\ IsFiniteSet(Places(dispatch, j)')
      /\ Cardinality(Places(dispatch, j)') = IF j = k THEN Cardinality(Places(dispatch, j)) - 1
                                                       ELSE Cardinality(Places(dispatch, j))
  BY <1>p, <1>c
<1> HIDE DEF k, t
<1>7. Copies(j)' <= Copies(j)
  <2>1. Waiting(j)' = Waiting(j) /\ starts'[j] = starts[j]
    BY <1>2 DEF Waiting
  <2> QED
    BY <1>1, <1>4, <1>6, <2>1 DEF Copies
<1>8. job'[j].status # "absent" => /\ job[j].status # "absent"
                                   /\ job'[j].retry_count >= job[j].retry_count
  BY <1>1, <1>2
<1>9. created \subseteq created'
  BY <1>2
<1> QED
  BY <1>4, <1>6, <1>7, <1>8, <1>9, CountedKept

\* try_admit_job moves a copy from the record to the list.
LEMMA CountedAdmitted ==
    ASSUME TypeOK, TypeOK', NEW k \in Jobs, NEW t \in Targets, NEW j \in Jobs, Counted(j),
           Admitted(k, t)
    PROVE  Counted(j)'
<1>1. /\ starts[j] \in Nat /\ Cardinality(Places(dispatch, j)) \in Nat
      /\ Cardinality(Hands(j)) \in Nat /\ Waiting(j) \in {0, 1}
      /\ IsFiniteSet(Hands(j)) /\ IsFiniteSet(Places(dispatch, j)) /\ job[j].retry_count \in Nat
  BY CopiesTyped DEF Counted
<1>2. /\ dispatch' = [dispatch EXCEPT ![t] = Append(@, k)] /\ dispatch \in [Targets -> Seq(Jobs)]
      /\ UNCHANGED <<hand, starts, created>>
      /\ j # k => job'[j] = job[j]
      /\ job[k].status = "queued" /\ job'[k].status = "admitted"
      /\ job'[k].retry_count = job[k].retry_count
  BY DEF Admitted, TypeOK, OnlyJob
<1> DEFINE p == NewPlace(dispatch, t)
<1>3. /\ p \notin Places(dispatch, j)
      /\ j = k => Places(dispatch, j)' = Places(dispatch, j) \cup {p}
      /\ j # k => Places(dispatch, j)' = Places(dispatch, j)
  <2>1. dispatch \in [Targets -> Seq(Jobs)]
    BY <1>2
  <2>2. dispatch' = Pushed(dispatch, t, k)
    BY <1>2 DEF Pushed
  <2> QED
    BY <2>1, <2>2, PlacesAppend
<1> HIDE DEF p
<1> DEFINE P == Places(dispatch, j)
<1>c. IsFiniteSet(P \cup {p}) /\ Cardinality(P \cup {p}) = Cardinality(P) + 1
  BY <1>1, <1>3, FS_AddElement
<1>4. /\ IsFiniteSet(Places(dispatch, j)')
      /\ Cardinality(Places(dispatch, j)') = IF j = k THEN Cardinality(Places(dispatch, j)) + 1
                                                       ELSE Cardinality(Places(dispatch, j))
  BY <1>1, <1>3, <1>c
<1>5. Hands(j)' = Hands(j) /\ starts'[j] = starts[j]
  BY <1>2 DEF Hands
<1>6. Waiting(j)' = IF j = k THEN Waiting(j) - 1 ELSE Waiting(j)
  BY <1>2 DEF Waiting
<1>7. Copies(j)' <= Copies(j)
  BY <1>1, <1>4, <1>5, <1>6 DEF Copies
<1>8. job'[j].status # "absent" => /\ job[j].status # "absent"
                                   /\ job'[j].retry_count >= job[j].retry_count
  BY <1>1, <1>2
<1> QED
  BY <1>1, <1>2, <1>4, <1>5, <1>7, <1>8, CountedKept DEF Counted

\* A requeue of a recovered job makes a copy and counts it.
LEMMA CountedRequeued ==
    ASSUME TypeOK, TypeOK', Rests, NEW k \in Jobs, Counted(k), Recounts(k)
    PROVE  Counted(k)'
<1>1. /\ starts[k] \in Nat /\ Cardinality(Places(dispatch, k)) \in Nat
      /\ Cardinality(Hands(k)) \in Nat /\ Waiting(k) \in {0, 1} /\ job[k].retry_count \in Nat
  BY CopiesTyped DEF Counted
<1>2. /\ UNCHANGED <<dispatch, hand, starts, created>>
      /\ job[k].status # "absent" /\ job[k].status # "queued"
      /\ job'[k].status = "queued" /\ job'[k].retry_count = job[k].retry_count + 1
      /\ job'[k].retry_count <= MaxRetries
  BY DEF Recounts, Live
<1>3. Places(dispatch, k)' = Places(dispatch, k) /\ Hands(k)' = Hands(k) /\ starts'[k] = starts[k]
  BY <1>2 DEF Hands
<1>4. Waiting(k)' = 1 /\ Waiting(k) = 0
  BY <1>2 DEF Waiting
<1>5. Copies(k)' = Copies(k) + 1
  BY <1>1, <1>3, <1>4 DEF Copies
<1>6. Copies(k) <= job[k].retry_count + 1 /\ Copies(k) \in Nat
  BY <1>2, CopiesTyped DEF Counted
<1>7. Copies(k)' <= job'[k].retry_count + 1 /\ Copies(k)' <= MaxRetries + 1
  BY <1>1, <1>2, <1>5, <1>6, ConstantsAssumption
<1>8. k \in created
  BY <1>2 DEF Rests
<1> QED
  BY <1>2, <1>3, <1>7, <1>8 DEF Counted

\* enqueue_job makes the first copy.
LEMMA CountedEnqueued ==
    ASSUME TypeOK, TypeOK', NEW k \in Jobs, Counted(k), Enqueues(k)
    PROVE  Counted(k)'
<1>1. /\ starts[k] \in Nat /\ Cardinality(Places(dispatch, k)) \in Nat
      /\ Cardinality(Hands(k)) \in Nat /\ Waiting(k) \in {0, 1} /\ Copies(k) = 0
  BY CopiesTyped DEF Counted, Enqueues
<1>2. /\ Places(dispatch, k)' = Places(dispatch, k) /\ Hands(k)' = Hands(k)
      /\ starts'[k] = starts[k] /\ Waiting(k)' = 1 /\ k \in created'
      /\ job'[k].retry_count = 0
  BY DEF Enqueues, Hands, Waiting
<1>3. Copies(k)' = 1
  BY <1>1, <1>2 DEF Copies
<1> QED
  BY <1>2, <1>3, ConstantsAssumption DEF Counted

\* A hand that lets its id fall.
LEMMA HandsLess ==
    ASSUME TypeOK, NEW w \in Workers, NEW j \in Jobs, IsFiniteSet(Hands(j)),
           hand' = hand \/ hand' = [hand EXCEPT ![w] = None]
    PROVE  /\ IsFiniteSet(Hands(j)') /\ Cardinality(Hands(j)') <= Cardinality(Hands(j))
           /\ Cardinality(Hands(j)') \in Nat
<1>1. Hands(j)' = Hands(j) \/ Hands(j)' = Hands(j) \ {w}
  <2>1. CASE hand' = hand
    BY <2>1 DEF Hands
  <2>2. CASE hand' = [hand EXCEPT ![w] = None]
    <3>1. None # j
      BY ConstantsAssumption
    <3> QED
      BY <2>2, <3>1, HandsPut
  <2> QED
    BY <2>1, <2>2
<1>2. /\ Hands(j) \ {w} \in SUBSET Hands(j) /\ Hands(j) \in SUBSET Hands(j)
      /\ Cardinality(Hands(j)) \in Nat
  BY FS_CardinalityType
<1>3. IsFiniteSet(Hands(j) \ {w}) /\ Cardinality(Hands(j) \ {w}) <= Cardinality(Hands(j))
      /\ Cardinality(Hands(j) \ {w}) \in Nat
  BY <1>2, FS_Subset, FS_CardinalityType
<1> QED
  BY <1>1, <1>2, <1>3

\* A job may be taken back from a dispatch list, and a hand may let an id fall.
LEMMA CountedWithdrawn ==
    ASSUME TypeOK, TypeOK', NEW k \in Jobs, NEW j \in Jobs, Counted(j), Withdraws(k)
    PROVE  Counted(j)'
<1>1. /\ starts[j] \in Nat /\ Cardinality(Places(dispatch, j)) \in Nat
      /\ Cardinality(Hands(j)) \in Nat /\ Waiting(j) \in {0, 1} /\ job[j].retry_count \in Nat
      /\ IsFiniteSet(Places(dispatch, j)) /\ IsFiniteSet(Hands(j))
  BY CopiesTyped DEF Counted
<1>2. starts'[j] = starts[j] /\ created' = created
  BY DEF Withdraws
<1>h. /\ IsFiniteSet(Hands(j)') /\ Cardinality(Hands(j)') <= Cardinality(Hands(j))
      /\ Cardinality(Hands(j)') \in Nat
  <2>1. CASE hand' = hand
    <3>1. Hands(j)' = Hands(j)
      BY <2>1 DEF Hands
    <3> QED
      BY <1>1, <3>1
  <2>2. CASE \E w \in Workers : hand' = [hand EXCEPT ![w] = None]
    BY <1>1, <2>2, HandsLess
  <2> QED
    BY <2>1, <2>2 DEF Withdraws
<1>3. /\ job'[j].status # "absent" => /\ job[j].status # "absent"
                                      /\ job'[j].retry_count >= job[j].retry_count
      /\ job'[j].status = "queued" => job[j].status = "queued"
  <2>1. CASE j = k
    BY <2>1 DEF Withdraws
  <2>2. CASE j # k
    BY <1>1, <2>2 DEF Withdraws, OnlyJob
  <2> QED
    BY <2>1, <2>2
<1>4. /\ IsFiniteSet(Places(dispatch, j)')
      /\ Cardinality(Places(dispatch, j)') <= Cardinality(Places(dispatch, j))
      /\ Cardinality(Places(dispatch, j)') \in Nat
  <2>1. CASE dispatch' = dispatch
    BY <1>1, <2>1
  <2>2. ASSUME NEW t \in Targets, dispatch' = [dispatch EXCEPT ![t] = RemoveFirst(@, k)]
        PROVE  /\ IsFiniteSet(Places(dispatch, j)')
               /\ Cardinality(Places(dispatch, j)') <= Cardinality(Places(dispatch, j))
               /\ Cardinality(Places(dispatch, j)') \in Nat
    <3>1. PlacedFrom(dispatch', dispatch, j)
      BY <2>2, PlacesRemove DEF TypeOK
    <3>2. PICK f \in Injection(Places(dispatch', j), Places(dispatch, j)) : TRUE
      BY <3>1 DEF PlacedFrom
    <3>3. /\ IsFiniteSet(Places(dispatch', j))
          /\ Cardinality(Places(dispatch', j)) <= Cardinality(Places(dispatch, j))
      BY <1>1, <3>2, FS_Injection
    <3> QED
      BY <3>3, FS_CardinalityType
  <2> QED
    BY <2>1, <2>2 DEF Withdraws
<1>5. Waiting(j)' <= Waiting(j) /\ Waiting(j)' \in {0, 1}
  BY <1>3 DEF Waiting
<1>6. Copies(j)' <= Copies(j)
  BY <1>1, <1>2, <1>h, <1>4, <1>5 DEF Copies
<1> QED
  BY <1>1, <1>2, <1>h, <1>3, <1>4, <1>6, CountedKept

\* A worker that stops lets its id fall.
LEMMA CountedElsewhere ==
    ASSUME TypeOK, TypeOK', NEW w \in Workers, NEW j \in Jobs, Counted(j), Elsewhere(w)
    PROVE  Counted(j)'
<1>1. /\ starts[j] \in Nat /\ Cardinality(Places(dispatch, j)) \in Nat
      /\ Cardinality(Hands(j)) \in Nat /\ Waiting(j) \in {0, 1} /\ job[j].retry_count \in Nat
      /\ IsFiniteSet(Places(dispatch, j)) /\ IsFiniteSet(Hands(j))
  BY CopiesTyped DEF Counted
<1>2. UNCHANGED <<job, created, dispatch, starts>>
  BY DEF Elsewhere, WorkerStops, redisVars
<1>5. /\ IsFiniteSet(Hands(j)') /\ Cardinality(Hands(j)') <= Cardinality(Hands(j))
      /\ Cardinality(Hands(j)') \in Nat
  <2>1. hand' = hand \/ hand' = [hand EXCEPT ![w] = None]
    BY DEF Elsewhere, WorkerStops, Dies
  <2> QED
    BY <1>1, <2>1, HandsLess
<1>6. Waiting(j)' = Waiting(j) /\ Places(dispatch, j)' = Places(dispatch, j)
      /\ starts'[j] = starts[j] /\ created \subseteq created'
  BY <1>2 DEF Waiting
<1>7. Copies(j)' <= Copies(j)
  BY <1>1, <1>5, <1>6 DEF Copies
<1> QED
  BY <1>1, <1>2, <1>5, <1>6, <1>7, CountedKept

\* No step makes a copy that is not counted.
LEMMA ReplayStep ==
    ASSUME TypeOK, TypeOK', Rests, Replay, [Next]_vars
    PROVE  Replay'
<1> SUFFICES ASSUME NEW j \in Jobs PROVE Counted(j)'
  BY DEF Replay
<1>0. StepKind /\ Counted(j) /\ job[j].retry_count \in Nat
  BY StepKinds DEF Replay, TypeOK, JobRecord
<1>1. CASE UNCHANGED job /\ SameWork
  BY <1>0, <1>1, CountedStill DEF SameWork
<1>2. ASSUME NEW k \in Jobs, Touches(k) PROVE Counted(j)'
  BY <1>0, <1>2, CountedStill DEF Touches, SameWork, OnlyJob
<1>3. ASSUME NEW k \in Jobs, Enqueues(k) PROVE Counted(j)'
  <2>1. CASE j = k
    BY <1>0, <1>3, <2>1, CountedEnqueued
  <2>2. CASE j # k
    BY <1>0, <1>3, <2>2, CountedStill DEF Enqueues, OnlyJob
  <2> QED
    BY <2>1, <2>2
<1>4. ASSUME NEW k \in Jobs, Ends(k) PROVE Counted(j)'
  <2>1. Withdraws(k)
    BY <1>4 DEF Ends, Withdraws, Terminal
  <2> QED
    BY <1>0, <2>1, CountedWithdrawn
<1>5. ASSUME NEW k \in Jobs, Requeues(k) PROVE Counted(j)'
  <2>1. CASE j = k
    <3>1. Recounts(k)
      BY <1>5 DEF Requeues, Recounts, SameWork
    <3> QED
      BY <1>0, <2>1, <3>1, CountedRequeued
  <2>2. CASE j # k
    BY <1>0, <1>5, <2>2, CountedStill DEF Requeues, SameWork, OnlyJob
  <2> QED
    BY <2>1, <2>2
<1>6. ASSUME NEW k \in Jobs, Expires(k) PROVE Counted(j)'
  BY <1>0, <1>6, CountedStill DEF Expires, OnlyJob
<1>7. ASSUME NEW k \in Jobs, NEW t \in Targets, Admitted(k, t) PROVE Counted(j)'
  BY <1>0, <1>7, CountedAdmitted
<1>8. ASSUME NEW k \in Jobs, NEW w \in Workers, Drops(w, k) \/ Started(w, k) PROVE Counted(j)'
  <2>1. Handled(w, k)
    BY <1>8 DEF Drops, Started, Handled, OnlyJob
  <2> QED
    BY <1>0, <2>1, CountedHandled
<1>9. ASSUME NEW k \in Jobs, NEW w \in Workers, Returns(w, k) PROVE Counted(j)'
  BY <1>0, <1>9, CountedStill DEF Returns, Leaves, OnlyJob, Terminal
<1>10. ASSUME NEW w \in Workers, ClaimPop(w) PROVE Counted(j)'
  BY <1>0, <1>10, CountedPopped
<1>11. ASSUME NEW w \in Workers, Elsewhere(w) PROVE Counted(j)'
  BY <1>0, <1>11, CountedElsewhere
<1>12. ASSUME NEW k \in Jobs, Breaks(k) PROVE Counted(j)'
  <2>1. ASSUME Recounts(k) PROVE Counted(j)'
    <3>1. CASE j = k
      BY <1>0, <2>1, <3>1, CountedRequeued
    <3>2. CASE j # k
      BY <1>0, <2>1, <3>2, CountedStill DEF Recounts, OnlyJob
    <3> QED
      BY <3>1, <3>2
  <2> QED
    BY <1>0, <1>12, <2>1, CountedWithdrawn, CountedHandled DEF Breaks
<1> QED
  BY <1>0, <1>1, <1>2, <1>3, <1>4, <1>5, <1>6, <1>7, <1>8, <1>9, <1>10, <1>11, <1>12 DEF StepKind

\* The copies of every job are counted in every reachable state.
LEMMA ReplayHolds == Spec => []Replay
<1>1. Init => Replay
  <2> SUFFICES ASSUME Init, NEW j \in Jobs PROVE Counted(j)
    BY DEF Replay
  <2>1. Places(dispatch, j) = {}
    BY DEF Init, Places
  <2>2. Hands(j) = {}
    BY ConstantsAssumption DEF Init, Hands
  <2>3. Waiting(j) = 0 /\ starts[j] = 0 /\ job[j].status = "absent"
    BY DEF Init, Waiting, AbsentRecord
  <2>4. Copies(j) = 0
    BY <2>1, <2>2, <2>3, FS_EmptySet DEF Copies
  <2> QED
    BY <2>1, <2>2, <2>3, <2>4, FS_EmptySet, ConstantsAssumption DEF Counted
<1>2. TypeOK /\ TypeOK' /\ Rests /\ Replay /\ [Next]_vars => Replay'
  BY ReplayStep
<1> QED
  BY <1>1, <1>2, Basics, PTL DEF Spec

\* requeue_stale_jobs against claim_dispatch_job: whatever workers crash, stall
\* or pop stale entries and wherever a coroutine is interrupted, a job is set
\* running at most SCHEDULER_MAX_JOB_RETRIES + 1 times.
THEOREM ReplaysAreBounded == Spec => []BoundedReplay
<1>3. TypeOK /\ Replay => BoundedReplay
  <2> SUFFICES ASSUME TypeOK, Replay, NEW j \in Jobs PROVE starts[j] <= MaxRetries + 1
    BY DEF BoundedReplay
  <2>1. /\ starts[j] \in Nat /\ Cardinality(Places(dispatch, j)) \in Nat
        /\ Cardinality(Hands(j)) \in Nat /\ Waiting(j) \in {0, 1}
    BY CopiesTyped DEF Replay, Counted
  <2>2. Copies(j) <= MaxRetries + 1
    BY DEF Replay, Counted
  <2> QED
    BY <2>1, <2>2, ConstantsAssumption DEF Copies
<1> QED
  BY <1>3, ReplayHolds, Basics, PTL

-----------------------------------------------------------------------------
(* Executions are counted.                                                  *)

\* A worker executes a job only after a start.
Begun(j) == IsFiniteSet(Running(j)) /\ Cardinality(Running(j)) <= starts[j]

\* A step that lets no worker begin with j.
LEMMA BegunKept ==
    ASSUME TypeOK, NEW j \in Jobs, Begun(j), Running(j)' \subseteq Running(j),
           starts'[j] = starts[j] \/ starts'[j] = starts[j] + 1
    PROVE  Begun(j)'
<1>1. Running(j)' \in SUBSET Running(j) /\ IsFiniteSet(Running(j))
  BY DEF Begun
<1>2. IsFiniteSet(Running(j)') /\ Cardinality(Running(j)') <= Cardinality(Running(j))
  BY <1>1, FS_Subset
<1>3. Cardinality(Running(j)') \in Nat /\ Cardinality(Running(j)) \in Nat /\ starts[j] \in Nat
  BY <1>1, <1>2, FS_CardinalityType DEF TypeOK
<1> QED
  BY <1>2, <1>3 DEF Begun

\* claim_dispatch_job starts a coroutine and counts it.
LEMMA BegunStarted ==
    ASSUME TypeOK, NEW j \in Jobs, Begun(j), NEW w \in Workers, NEW k \in Jobs, Started(w, k)
    PROVE  Begun(j)'
<1>0. /\ tasks \in [Workers -> [Jobs -> Nat]] /\ tasks' = [tasks EXCEPT ![w][k] = tasks[w][k] + 1]
      /\ starts \in [Jobs -> Nat] /\ starts' = [starts EXCEPT ![k] = starts[k] + 1]
  BY DEF TypeOK, Started
<1>1. \A u \in Workers : tasks'[u][j] = IF u = w /\ j = k THEN tasks[w][k] + 1 ELSE tasks[u][j]
  BY <1>0
<1>2. CASE j # k
  <2>1. Running(j)' \subseteq Running(j)
    BY <1>1, <1>2 DEF Running
  <2>2. starts'[j] = starts[j]
    BY <1>0, <1>2
  <2> QED
    BY <2>1, <2>2, BegunKept
<1>3. CASE j = k
  <2>1. Running(j)' \in SUBSET (Running(j) \cup {w})
    BY <1>1, <1>3 DEF Running
  <2>2. starts'[j] = starts[j] + 1 /\ starts[j] \in Nat
    BY <1>0, <1>3
  <2>3. IsFiniteSet(Running(j)) /\ Cardinality(Running(j)) <= starts[j]
    BY DEF Begun
  <2>4. /\ IsFiniteSet(Running(j) \cup {w}) /\ Cardinality(Running(j)) \in Nat
        /\ \/ Cardinality(Running(j) \cup {w}) = Cardinality(Running(j))
           \/ Cardinality(Running(j) \cup {w}) = Cardinality(Running(j)) + 1
    BY <2>3, FS_AddElement, FS_CardinalityType
  <2>5. /\ IsFiniteSet(Running(j)')
        /\ Cardinality(Running(j)') <= Cardinality(Running(j) \cup {w})
        /\ Cardinality(Running(j)') \in Nat
    BY <2>1, <2>4, FS_Subset, FS_CardinalityType
  <2>6. Cardinality(Running(j)') <= starts[j] + 1
    BY <2>2, <2>3, <2>4, <2>5
  <2> QED
    BY <2>2, <2>5, <2>6 DEF Begun
<1> QED
  BY <1>2, <1>3

\* Every step.
LEMMA BegunStep ==
    ASSUME TypeOK, Rests, \A j \in Jobs : Begun(j), [Next]_vars
    PROVE  \A j \in Jobs : Begun(j)'
<1> SUFFICES ASSUME NEW j \in Jobs PROVE Begun(j)'
  OBVIOUS
<1>0. StepKind /\ Begun(j)
  BY StepKinds
<1>1. ASSUME tasks' = tasks, starts' = starts PROVE Begun(j)'
  <2>1. Running(j)' \subseteq Running(j)
    BY <1>1 DEF Running
  <2> QED
    BY <1>0, <1>1, <2>1, BegunKept
<1>2. ASSUME NEW k \in Jobs, NEW w \in Workers, Returns(w, k) PROVE Begun(j)'
  <2>1. tasks' = [tasks EXCEPT ![w][k] = @ - 1] /\ starts' = starts
    BY <1>2 DEF Returns, Leaves
  <2>2. Running(j)' \subseteq Running(j)
    BY <2>1, RunningLess
  <2> QED
    BY <1>0, <2>1, <2>2, BegunKept
<1>3. ASSUME NEW w \in Workers, WorkerStops(w) PROVE Begun(j)'
  <2>1. Dies(w) /\ starts' = starts
    BY <1>3 DEF WorkerStops
  <2>2. Running(j)' \subseteq Running(j)
    BY <2>1, RunningLess
  <2> QED
    BY <1>0, <2>1, <2>2, BegunKept
<1>4. ASSUME NEW k \in Jobs, Breaks(k) PROVE Begun(j)'
  <2>1. Running(j)' \subseteq Running(j)
    BY <1>4 DEF Breaks
  <2>2. starts' = starts \/ starts' = [starts EXCEPT ![k] = starts[k] + 1]
    BY <1>4 DEF Breaks, Withdraws, Recounts, Handled
  <2>3. starts'[j] = starts[j] \/ starts'[j] = starts[j] + 1
    BY <2>2 DEF TypeOK
  <2> QED
    BY <1>0, <2>1, <2>3, BegunKept
<1>5. ASSUME NEW k \in Jobs, NEW w \in Workers, Started(w, k) PROVE Begun(j)'
  BY <1>0, <1>5, BegunStarted
<1>6. ASSUME NEW k \in Jobs, Touches(k) \/ Enqueues(k) \/ Ends(k) \/ Requeues(k) \/ Expires(k)
      PROVE  Begun(j)'
  BY <1>1, <1>6 DEF Touches, Enqueues, Ends, Requeues, Expires, SameWork
<1>7. ASSUME NEW k \in Jobs, \/ \E t \in Targets : Admitted(k, t)
                             \/ \E w \in Workers : Drops(w, k)
      PROVE  Begun(j)'
  BY <1>1, <1>7 DEF Admitted, Drops
<1>8. ASSUME NEW w \in Workers, ClaimPop(w) \/ (Elsewhere(w) /\ ~WorkerStops(w)) PROVE Begun(j)'
  BY <1>1, <1>8 DEF ClaimPop, Elsewhere
<1> QED
  BY <1>0, <1>1, <1>2, <1>3, <1>4, <1>5, <1>6, <1>7, <1>8 DEF StepKind, SameWork

\* requeue_stale_jobs, cancel_job, claim_dispatch_job and process_job against each
\* other, wherever one of them is interrupted: a job is on a dispatch list, popped,
\* executed or queued at most once more than its retry_count says.  A second
\* worker executes it only after a counted retry.
THEOREM ExecutionsStayCounted == Spec => []RunsAreCounted
<1> DEFINE B == \A j \in Jobs : Begun(j)
<1>1. Init => B
  <2> SUFFICES ASSUME Init, NEW j \in Jobs PROVE Begun(j)
    OBVIOUS
  <2>1. Running(j) = {} /\ starts[j] = 0
    BY DEF Init, Running
  <2> QED
    BY <2>1, FS_EmptySet DEF Begun
<1>2. TypeOK /\ Rests /\ B /\ [Next]_vars => B'
  BY BegunStep
<1>3. TypeOK /\ Replay /\ B => RunsAreCounted
  <2> SUFFICES ASSUME TypeOK, Replay, B, NEW j \in Jobs, job[j].status # "absent"
               PROVE  Cardinality(Entries(j)) + Cardinality(Hands(j)) + Cardinality(Running(j))
                         + (IF job[j].status = "queued" THEN 1 ELSE 0) <= job[j].retry_count + 1
    BY DEF RunsAreCounted
  <2>1. Entries(j) = Places(dispatch, j)
    <3>1. dispatch \in [Targets -> Seq(Jobs)]
      BY DEF TypeOK
    <3>2. \A t \in Targets : DOMAIN dispatch[t] = 1..Len(dispatch[t])
      BY <3>1
    <3>3. ASSUME NEW x \in Entries(j) PROVE x \in Places(dispatch, j)
      <4>1. PICK t \in Targets : x \in {t} \X {i \in DOMAIN dispatch[t] : dispatch[t][i] = j}
        BY <3>3 DEF Entries
      <4>2. x = <<t, x[2]>> /\ x[2] \in 1..Len(dispatch[t]) /\ dispatch[t][x[2]] = j
        BY <3>2, <4>1
      <4>3. x[1] = t /\ x[2] \in Nat /\ x \in Targets \X Nat
        BY <4>2
      <4> QED
        BY <4>2, <4>3 DEF Places
    <3>4. ASSUME NEW x \in Places(dispatch, j) PROVE x \in Entries(j)
      <4>1. /\ x \in Targets \X Nat /\ x[1] \in Targets
            /\ x[2] \in 1..Len(dispatch[x[1]]) /\ dispatch[x[1]][x[2]] = j
        BY <3>4 DEF Places
      <4>2. x \in {x[1]} \X {i \in DOMAIN dispatch[x[1]] : dispatch[x[1]][i] = j}
        BY <3>2, <4>1
      <4> QED
        BY <4>1, <4>2 DEF Entries
    <3> QED
      BY <3>3, <3>4
  <2>2. /\ starts[j] \in Nat /\ Cardinality(Places(dispatch, j)) \in Nat
        /\ Cardinality(Hands(j)) \in Nat /\ Waiting(j) \in {0, 1} /\ job[j].retry_count \in Nat
    BY CopiesTyped DEF Replay, Counted
  <2>3. Copies(j) <= job[j].retry_count + 1
    BY DEF Replay, Counted
  <2>4. Cardinality(Running(j)) <= starts[j] /\ Cardinality(Running(j)) \in Nat
    BY FS_CardinalityType DEF Begun
  <2>5. Waiting(j) = IF job[j].status = "queued" THEN 1 ELSE 0
    BY DEF Waiting
  <2>6. Cardinality(Places(dispatch, j)) + Cardinality(Hands(j)) + Cardinality(Running(j))
           + Waiting(j) <= job[j].retry_count + 1
    BY <2>2, <2>3, <2>4 DEF Copies
  <2> QED
    BY <2>1, <2>5, <2>6
<1> HIDE DEF B
<1> QED
  BY <1>1, <1>2, <1>3, ReplayHolds, Basics, PTL DEF Spec

-----------------------------------------------------------------------------
(* One place at a time, until a worker stops or stalls.                     *)

AtMostOne(S) == \A x, y \in S : x = y

\* The id of j is on no list, in no hand and in no coroutine.
Free(j) == Places(dispatch, j) = {} /\ Hands(j) = {} /\ Running(j) = {}

\* The id of j is in one place, and the lease of j is kept while it is.
Sole(j) ==
    /\ AtMostOne(Places(dispatch, j)) /\ AtMostOne(Hands(j)) /\ AtMostOne(Running(j))
    /\ Places(dispatch, j) # {} => Hands(j) = {} /\ Running(j) = {}
    /\ Hands(j) # {} => Running(j) = {}
    /\ job[j].status = "queued" \/ j \notin created \/ (Live(j) /\ ~job[j].leased) => Free(j)
    /\ Running(j) # {} => job[j].status = "running" /\ job[j].leased
    /\ \A w \in Workers : /\ tasks[w][j] <= 1 /\ (tasks[w][j] > 0 => j \in renewing[w])
                          /\ processing[w][j] <= (IF hand[w] = j THEN 1 ELSE 0) + tasks[w][j]

\* Every worker runs and reports, and every list in use has a worker.
Healthy ==
    /\ up = Workers /\ beat = Workers
    /\ \A t \in Targets : dispatch[t] # <<>> => \E w \in Workers : TargetOf[w] = t

One == Undisturbed => Healthy /\ \A j \in Jobs : Sole(j)

\* Setting one count.
LEMMA CountsPut ==
    ASSUME NEW f \in [Workers -> [Jobs -> Nat]], NEW w \in Workers, NEW k \in Jobs, NEW n,
           NEW u \in Workers, NEW j \in Jobs
    PROVE  [f EXCEPT ![w][k] = n][u][j] = IF u = w /\ j = k THEN n ELSE f[u][j]
OBVIOUS

\* _remove_from_processing takes one entry of one job away.
LEMMA ProcessingLess ==
    ASSUME TypeOK, NEW w \in Workers \cup {None}, NEW k \in Jobs,
           NEW u \in Workers, NEW j \in Jobs
    PROVE  /\ RemoveFromProcessing(w, k)[u][j] <= processing[u][j]
           /\ u = w /\ j = k => RemoveFromProcessing(w, k)[u][j] = Less1(processing[u][j])
<1>0. processing[u][j] \in Nat /\ processing \in [Workers -> [Jobs -> Nat]]
  BY CountsTyped DEF TypeOK
<1>1. CASE w = None
  BY <1>0, <1>1, ConstantsAssumption DEF RemoveFromProcessing
<1>2. CASE w # None
  <2>1. RemoveFromProcessing(w, k) = [processing EXCEPT ![w][k] = Less1(processing[w][k])]
    BY <1>0, <1>2 DEF RemoveFromProcessing
  <2>2. RemoveFromProcessing(w, k)[u][j] = IF u = w /\ j = k THEN Less1(processing[w][k])
                                                             ELSE processing[u][j]
    BY <1>0, <1>2, <2>1, CountsPut
  <2>3. Less1(processing[u][j]) <= processing[u][j]
    BY <1>0 DEF Less1
  <2> QED
    BY <1>0, <2>2, <2>3
<1> QED
  BY <1>1, <1>2

\* The lists e hold no more of j than the lists d.
Fewer(e, d, j) ==
    /\ Places(d, j) = {} => Places(e, j) = {}
    /\ AtMostOne(Places(d, j)) => AtMostOne(Places(e, j))

\* LREM leaves no more of any id.
LEMMA FewerRemoved ==
    ASSUME NEW d \in [Targets -> Seq(Jobs)], NEW t \in Targets, NEW k \in Jobs, NEW j \in Jobs
    PROVE  Fewer([d EXCEPT ![t] = RemoveFirst(@, k)], d, j)
<1> DEFINE e == [d EXCEPT ![t] = RemoveFirst(@, k)]
           E == Places(e, j)
           D == Places(d, j)
<1>1. PICK f : f \in Injection(E, D)
  BY PlacesRemove DEF PlacedFrom
<1> HIDE DEF E, D
<1>2. (\A p \in E : f[p] \in D) /\ \A p, q \in E : f[p] = f[q] => p = q
  BY <1>1 DEF Injection, IsInjective
<1>3. (D = {} => E = {}) /\ (AtMostOne(D) => AtMostOne(E))
  BY <1>2 DEF AtMostOne
<1> QED
  BY <1>3 DEF Fewer, E, D

\* A step that moves no id of j and keeps the lease of what runs.
LEMMA SoleKept ==
    ASSUME TypeOK, TypeOK', NEW j \in Jobs, Sole(j), Fewer(dispatch', dispatch, j),
           hand' = hand \/ Hands(j)' = Hands(j),
           \A w \in Workers : /\ tasks'[w][j] = tasks[w][j]
                              /\ j \in renewing[w] => j \in renewing'[w]
                              /\ processing'[w][j] <= processing[w][j],
           created \subseteq created',
           job'[j].status = "queued" \/ (Live(j)' /\ ~job'[j].leased) => Free(j),
           Running(j) # {} => job'[j].status = "running" /\ job'[j].leased
    PROVE  Sole(j)'
<1>1. Hands(j)' = Hands(j) /\ Running(j)' = Running(j)
  BY DEF Hands, Running
<1>2. Places(dispatch', j) = {} \/ Places(dispatch, j) # {}
  BY DEF Fewer
<1>3. Free(j) => Free(j)'
  BY <1>1, <1>2 DEF Free
<1>4. ASSUME NEW w \in Workers
      PROVE  /\ tasks'[w][j] <= 1 /\ (tasks'[w][j] > 0 => j \in renewing'[w])
             /\ processing'[w][j] <= (IF hand'[w] = j THEN 1 ELSE 0) + tasks'[w][j]
  <2>1. hand'[w] = j <=> hand[w] = j
    BY <1>1 DEF Hands
  <2>2. processing[w][j] \in Nat /\ processing'[w][j] \in Nat /\ tasks[w][j] \in Nat
    BY CountsTyped DEF TypeOK
  <2> QED
    BY <2>1, <2>2 DEF Sole
<1>5. AtMostOne(Places(dispatch', j)) /\ AtMostOne(Hands(j)') /\ AtMostOne(Running(j)')
  BY <1>1 DEF Fewer, Sole
<1> QED
  BY <1>1, <1>2, <1>3, <1>4, <1>5 DEF Sole

\* A step after which j is nowhere.
LEMMA SoleFreed ==
    ASSUME TypeOK', NEW j \in Jobs, Free(j)', \A w \in Workers : processing'[w][j] <= 0
    PROVE  Sole(j)'
<1>1. \A w \in Workers : /\ tasks'[w][j] \in Nat /\ ~(tasks'[w][j] > 0) /\ hand'[w] # j
                         /\ processing'[w][j] \in Nat
  BY CountsTyped DEF TypeOK, Free, Running, Hands
<1>2. \A w \in Workers : tasks'[w][j] = 0 /\ processing'[w][j] = 0
  BY <1>1
<1> QED
  BY <1>1, <1>2 DEF Sole, Free, AtMostOne

\* Writing a record, ending or requeueing a job whose lease is over, and the
\* expiry of a record disturb no execution.
LEMMA SoleWritten ==
    ASSUME TypeOK, TypeOK', Rests, ~MayStall, Healthy, NEW k \in Jobs, NEW j \in Jobs, Sole(j),
           Touches(k) \/ Enqueues(k) \/ Ends(k) \/ Requeues(k) \/ Expires(k)
    PROVE  Sole(j)'
<1>1. UNCHANGED <<hand, tasks, renewing>> /\ created \subseteq created' /\ OnlyJob(k)
  BY DEF Touches, Enqueues, Ends, Requeues, Expires, SameWork
<1>2. \A w \in Workers : processing'[w][j] <= processing[w][j]
  <2>1. \A w \in Workers : processing[w][j] \in Nat
    BY CountsTyped DEF TypeOK
  <2>2. CASE processing' = processing
    BY <2>1, <2>2
  <2>3. ASSUME NEW v \in Workers \cup {None}, Released(k, v)
        PROVE  \A w \in Workers : processing'[w][j] <= processing[w][j]
    BY <2>3, ProcessingLess DEF Released
  <2> QED
    BY <2>2, <2>3 DEF Touches, Enqueues, Ends, Requeues, Expires
<1>3. Fewer(dispatch', dispatch, j)
  <2>1. CASE dispatch' = dispatch
    BY <2>1 DEF Fewer
  <2>2. ASSUME NEW t \in Targets, dispatch' = [dispatch EXCEPT ![t] = RemoveFirst(@, k)]
        PROVE  Fewer(dispatch', dispatch, j)
    BY <2>2, FewerRemoved DEF TypeOK
  <2> QED
    BY <2>1, <2>2 DEF Touches, Enqueues, Ends, Requeues, Expires, SameWork
<1>4. ASSUME j = k, Neglected(k) PROVE Free(j)
  <2>1. \A w \in Workers : /\ j \notin renewing[w] /\ hand[w] # j
                           /\ ~Contains(dispatch[TargetOf[w]], j)
    BY <1>4 DEF Neglected, Attended, Healthy
  <2>2. Hands(j) = {} /\ Running(j) = {}
    BY <2>1 DEF Hands, Running, Sole
  <2>3. ASSUME NEW p \in Places(dispatch, j) PROVE FALSE
    <3>1. p[1] \in Targets /\ p[2] \in 1..Len(dispatch[p[1]]) /\ dispatch[p[1]][p[2]] = j
      BY <2>3 DEF Places
    <3>2. dispatch[p[1]] # <<>>
      BY <3>1
    <3>3. PICK w \in Workers : TargetOf[w] = p[1]
      BY <3>1, <3>2 DEF Healthy
    <3> QED
      BY <2>1, <3>1, <3>3 DEF Contains
  <2> QED
    BY <2>2, <2>3 DEF Free
<1>5. /\ job'[j].status = "queued" \/ (Live(j)' /\ ~job'[j].leased) => Free(j)
      /\ Running(j) # {} => job'[j].status = "running" /\ job'[j].leased
  <2>1. CASE j # k
    BY <1>1, <2>1 DEF OnlyJob, Sole, Live
  <2>2. CASE j = k /\ Touches(k)
    BY <1>4, <2>2 DEF Touches, Sole, Live, Free
  <2>3. CASE j = k /\ Enqueues(k)
    BY <2>3 DEF Enqueues, Sole, Free
  <2>4. CASE j = k /\ Ends(k)
    BY <2>4 DEF Ends, Sole, Live, Terminal
  <2>5. CASE j = k /\ Requeues(k)
    BY <2>5 DEF Requeues, Sole, Free
  <2>6. CASE j = k /\ Expires(k)
    BY <2>6 DEF Expires, Sole, Live
  <2> QED
    BY <2>1, <2>2, <2>3, <2>4, <2>5, <2>6
<1> QED
  BY <1>1, <1>2, <1>3, <1>5, SoleKept

\* An admitted job is on one list.
LEMMA SoleAdmitted ==
    ASSUME TypeOK, TypeOK', Rests, NEW k \in Jobs, NEW t \in Targets, NEW j \in Jobs, Sole(j),
           Admitted(k, t)
    PROVE  Sole(j)'
<1> DEFINE p == NewPlace(dispatch, t)
<1>1. /\ UNCHANGED <<hand, tasks, renewing, processing, created>> /\ OnlyJob(k)
      /\ dispatch' = Pushed(dispatch, t, k) /\ dispatch \in [Targets -> Seq(Jobs)]
  BY DEF Admitted, Pushed, TypeOK
<1>2. /\ j = k => Places(dispatch', j) = Places(dispatch, j) \cup {p}
      /\ j # k => Places(dispatch', j) = Places(dispatch, j)
  BY <1>1, PlacesAppend
<1> HIDE DEF p
<1>3. \A w \in Workers : processing'[w][j] <= processing[w][j]
  BY <1>1, CountsTyped DEF TypeOK
<1>4. CASE j # k
  <2>1. Fewer(dispatch', dispatch, j)
    BY <1>2, <1>4 DEF Fewer
  <2>2. /\ job'[j].status = "queued" \/ (Live(j)' /\ ~job'[j].leased) => Free(j)
        /\ Running(j) # {} => job'[j].status = "running" /\ job'[j].leased
    BY <1>1, <1>4 DEF OnlyJob, Sole, Live
  <2> QED
    BY <1>1, <1>3, <2>1, <2>2, SoleKept
<1>5. CASE j = k
  <2>1. Free(j) /\ j \in created
    BY <1>5 DEF Admitted, Sole, Rests
  <2>2. /\ Places(dispatch', j) = {p} /\ Hands(j)' = {} /\ Running(j)' = {}
    BY <1>1, <1>2, <1>5, <2>1 DEF Free, Hands, Running
  <2>3. job'[j].status = "admitted" /\ job'[j].leased
    BY <1>5 DEF Admitted
  <2>4. \A w \in Workers :
          /\ tasks'[w][j] <= 1 /\ (tasks'[w][j] > 0 => j \in renewing'[w])
          /\ processing'[w][j] <= (IF hand'[w] = j THEN 1 ELSE 0) + tasks'[w][j]
    BY <1>1 DEF Sole
  <2>5. AtMostOne(Places(dispatch', j)) /\ AtMostOne(Hands(j)') /\ AtMostOne(Running(j)')
    BY <2>2 DEF AtMostOne
  <2> QED
    BY <1>1, <2>1, <2>2, <2>3, <2>4, <2>5 DEF Sole
<1> QED
  BY <1>4, <1>5

\* An id in a hand is put aside or becomes one coroutine, and an id in a
\* coroutine goes with it.
LEMMA SoleHandled ==
    ASSUME TypeOK, TypeOK', Rests, ~MayStall, NEW w \in Workers, NEW k \in Jobs, NEW j \in Jobs,
           Sole(j), Drops(w, k) \/ Started(w, k) \/ Returns(w, k)
    PROVE  Sole(j)'
<1>1. /\ OnlyJob(k) /\ UNCHANGED <<dispatch, created>>
      /\ job'[k] = job[k] \/ job[k].status # "absent"
  BY DEF Drops, Started, Returns, Leaves, OnlyJob
<1>2. \A u \in Workers : processing[u][j] \in Nat /\ tasks[u][j] \in Nat
  BY CountsTyped DEF TypeOK
<1>3. \A u \in Workers : /\ processing'[u][j] <= processing[u][j]
                         /\ u = w /\ j = k /\ ~Started(w, k) /\ (Returns(w, k) => job' # job) =>
                               processing'[u][j] = Less1(processing[u][j])
  <2>0. w \in Workers \cup {None}
    OBVIOUS
  <2>1. CASE processing' = processing /\ (Started(w, k) \/ (Returns(w, k) /\ job' = job))
    BY <1>2, <2>1
  <2>2. CASE processing' = RemoveFromProcessing(w, k)
    BY <2>0, <2>2, ProcessingLess
  <2> QED
    BY <2>1, <2>2 DEF Drops, Started, Returns, Released
<1>4. \A u \in Workers :
         tasks'[u][j] = IF u = w /\ j = k /\ Started(w, k) THEN tasks[u][j] + 1
                        ELSE IF u = w /\ j = k /\ ~Drops(w, k) THEN tasks[u][j] - 1
                        ELSE tasks[u][j]
  <2>0. tasks \in [Workers -> [Jobs -> Nat]] /\ tasks[w][k] \in Nat
    BY CountsTyped DEF TypeOK
  <2>1. CASE tasks' = tasks /\ ~Started(w, k) /\ Drops(w, k)
    BY <2>1
  <2>2. CASE Started(w, k)
    <3>1. tasks' = [tasks EXCEPT ![w][k] = tasks[w][k] + 1]
      BY <2>2 DEF Started
    <3> QED
      BY <2>0, <2>2, <3>1, CountsPut
  <2>3. CASE Returns(w, k) /\ ~Started(w, k) /\ ~Drops(w, k)
    <3>1. tasks' = [tasks EXCEPT ![w][k] = tasks[w][k] - 1]
      BY <2>0, <2>3 DEF Returns, Leaves
    <3> QED
      BY <2>0, <2>3, <3>1, CountsPut
  <2> QED
    BY <2>1, <2>2, <2>3 DEF Drops
<1>5. CASE j # k
  <2>1. Hands(j)' = Hands(j)
    <3>1. CASE hand' = hand
      BY <3>1 DEF Hands
    <3>2. CASE hand[w] = k /\ hand' = [hand EXCEPT ![w] = None]
      <4>1. None # j /\ w \notin Hands(j)
        BY <1>5, <3>2, ConstantsAssumption DEF Hands
      <4>2. Hands(j)' = Hands(j) \ {w}
        BY <3>2, <4>1, HandsPut
      <4> QED
        BY <4>1, <4>2
    <3> QED
      BY <3>1, <3>2 DEF Drops, Started, Returns, Leaves
  <2>2. \A u \in Workers : j \in renewing[u] => j \in renewing'[u]
    <3>1. \/ renewing' = renewing
          \/ renewing' = [renewing EXCEPT ![w] = renewing[w] \cup {k}]
          \/ renewing' = [renewing EXCEPT ![w] = renewing[w] \ {k}]
      BY DEF Drops, Started, Returns, Leaves, TypeOK
    <3>2. renewing \in [Workers -> SUBSET Jobs]
      BY DEF TypeOK
    <3> QED
      BY <1>5, <3>1, <3>2
  <2>3. Fewer(dispatch', dispatch, j)
    BY <1>1 DEF Fewer
  <2>4. /\ job'[j].status = "queued" \/ (Live(j)' /\ ~job'[j].leased) => Free(j)
        /\ Running(j) # {} => job'[j].status = "running" /\ job'[j].leased
    BY <1>1, <1>5 DEF OnlyJob, Sole, Live
  <2>5. \A u \in Workers : tasks'[u][j] = tasks[u][j]
    BY <1>4, <1>5
  <2> QED
    BY <1>1, <1>3, <2>1, <2>2, <2>3, <2>4, <2>5, SoleKept
<1>6. ASSUME j = k, Drops(w, k) \/ Started(w, k) PROVE Sole(j)'
  <2>1. hand[w] = k /\ hand' = [hand EXCEPT ![w] = None]
    BY <1>6 DEF Drops, Started
  <2>2. w \in Hands(j) /\ None # j
    BY <1>6, <2>1, ConstantsAssumption DEF Hands
  <2>3. Hands(j)' = Hands(j) \ {w}
    BY <2>1, <2>2, HandsPut
  <2>4. Hands(j)' = {} /\ Places(dispatch', j) = {} /\ Running(j) = {}
    BY <1>1, <2>2, <2>3 DEF Sole, AtMostOne
  <2>5. \A u \in Workers : hand'[u] # j /\ (u # w => hand[u] # j) /\ tasks[u][j] = 0
    BY <1>2, <2>2, <2>4 DEF Hands, Running, Sole, AtMostOne
  <2>6. \A u \in Workers : processing[u][j] <= IF u = w THEN 1 ELSE 0
    BY <1>2, <1>6, <2>1, <2>5 DEF Sole
  <2>7. CASE Drops(w, k)
    <3>1. processing' = RemoveFromProcessing(w, k) /\ tasks' = tasks /\ w \in Workers \cup {None}
      BY <2>7 DEF Drops
    <3>2. ASSUME NEW u \in Workers PROVE processing'[u][j] <= 0
      <4>1. /\ processing'[u][j] <= processing[u][j]
            /\ u = w => processing'[u][j] = Less1(processing[u][j])
        BY <1>6, <3>1, ProcessingLess
      <4>2. processing'[u][j] \in Nat
        BY CountsTyped DEF TypeOK
      <4>3. u = w => processing[u][j] = 0 \/ processing[u][j] = 1
        BY <1>2, <2>6
      <4> QED
        BY <1>2, <2>6, <4>1, <4>2, <4>3 DEF Less1
    <3>3. Running(j)' = {}
      BY <2>5, <3>1 DEF Running
    <3>4. Free(j)'
      BY <2>4, <3>3 DEF Free
    <3> QED
      BY <3>2, <3>4, SoleFreed
  <2>8. CASE Started(w, k)
    <3>1. \A u \in Workers : tasks'[u][j] = IF u = w THEN 1 ELSE 0
      BY <1>4, <1>6, <2>5, <2>8 DEF Drops
    <3>2. Running(j)' = {w}
      BY <3>1 DEF Running
    <3>3. job'[j].status = "running" /\ job'[j].leased /\ processing' = processing
      BY <1>6, <2>8 DEF Started
    <3>4. j \in renewing'[w]
      BY <1>6, <2>8 DEF Started, TypeOK
    <3>5. j \in created'
      BY <1>1, <1>6, <2>8 DEF Started, Rests
    <3>6. \A u \in Workers :
            /\ tasks'[u][j] <= 1 /\ (tasks'[u][j] > 0 => j \in renewing'[u])
            /\ processing'[u][j] <= (IF hand'[u] = j THEN 1 ELSE 0) + tasks'[u][j]
      BY <1>2, <2>5, <2>6, <3>1, <3>3, <3>4
    <3>7. AtMostOne(Places(dispatch', j)) /\ AtMostOne(Hands(j)') /\ AtMostOne(Running(j)')
      BY <2>4, <3>2 DEF AtMostOne
    <3> QED
      BY <2>4, <3>2, <3>3, <3>5, <3>6, <3>7 DEF Sole, Live
  <2> QED
    BY <1>6, <2>7, <2>8
<1>7. ASSUME j = k, Returns(w, k) PROVE Sole(j)'
  <2>1. tasks[w][j] > 0 /\ hand' = hand /\ tasks' = [tasks EXCEPT ![w][j] = @ - 1]
    BY <1>7 DEF Returns, Leaves
  <2>2. w \in Running(j)
    BY <2>1 DEF Running
  <2>3. Hands(j) = {} /\ Places(dispatch, j) = {} /\ job[j].status = "running"
    BY <2>2 DEF Sole
  <2>4. Released(k, w)
    BY <1>7, <2>3 DEF Returns, Terminal
  <2>5. \A u \in Workers : hand[u] # j /\ (u # w => tasks[u][j] = 0) /\ (u = w => tasks[u][j] = 1)
    BY <1>2, <2>1, <2>2, <2>3 DEF Hands, Running, Sole, AtMostOne
  <2>6. \A u \in Workers : tasks'[u][j] = 0
    <3>1. tasks \in [Workers -> [Jobs -> Nat]] /\ tasks' = [tasks EXCEPT ![w][j] = tasks[w][j] - 1]
      BY <2>1 DEF TypeOK
    <3>2. \A u \in Workers : tasks'[u][j] = IF u = w THEN tasks[w][j] - 1 ELSE tasks[u][j]
      BY <3>1, CountsPut
    <3> QED
      BY <2>5, <3>2
  <2>7. ASSUME NEW u \in Workers PROVE processing'[u][j] <= 0
    <3>1. /\ processing'[u][j] <= processing[u][j]
          /\ u = w => processing'[u][j] = Less1(processing[u][j])
      BY <1>7, <2>4, ProcessingLess DEF Released
    <3>2. processing[u][j] <= IF u = w THEN 1 ELSE 0
      BY <1>2, <2>5 DEF Sole
    <3>3. u = w => processing[u][j] = 0 \/ processing[u][j] = 1
      BY <1>2, <3>2
    <3>4. processing'[u][j] \in Nat
      BY CountsTyped DEF TypeOK
    <3> QED
      BY <1>2, <3>1, <3>2, <3>3, <3>4 DEF Less1
  <2>8. Free(j)'
    BY <1>1, <2>1, <2>3, <2>6 DEF Free, Hands, Running
  <2> QED
    BY <2>7, <2>8, SoleFreed
<1> QED
  BY <1>5, <1>6, <1>7

\* A popped id leaves its list for one hand.
LEMMA SolePopped ==
    ASSUME TypeOK, TypeOK', NEW w \in Workers, NEW j \in Jobs, Sole(j), ClaimPop(w)
    PROVE  Sole(j)'
<1> DEFINE t == TargetOf[w]
           k == Last(dispatch[t])
           p == <<t, Len(dispatch[t])>>
<1>1. /\ t \in Targets /\ dispatch[t] # <<>> /\ dispatch \in [Targets -> Seq(Jobs)]
      /\ hand[w] = None /\ hand' = [hand EXCEPT ![w] = k]
      /\ dispatch' = [dispatch EXCEPT ![t] = Front(@)]
      /\ UNCHANGED <<job, tasks, renewing, created>>
      /\ processing' = [processing EXCEPT ![w][k] = processing[w][k] + 1]
  BY ConstantsAssumption DEF ClaimPop, TypeOK
<1>2. /\ p \in Places(dispatch, j) <=> j = k
      /\ Places(dispatch', j) = Places(dispatch, j) \ {p}
  BY <1>1, PlacesFront
<1>3. Hands(j)' = (IF k = j THEN Hands(j) \cup {w} ELSE Hands(j) \ {w})
  BY <1>1, HandsPut
<1>4. w \notin Hands(j)
  BY <1>1, ConstantsAssumption DEF Hands
<1>5. k \in Jobs
  BY <1>1 DEF Last
<1> HIDE DEF k, p
<1>6. \A u \in Workers : /\ processing'[u][j] = IF u = w /\ j = k THEN processing[w][k] + 1
                                                                ELSE processing[u][j]
                         /\ processing[u][j] \in Nat /\ tasks[u][j] \in Nat
  <2>1. processing \in [Workers -> [Jobs -> Nat]]
    BY DEF TypeOK
  <2> DEFINE n == processing[w][k] + 1
  <2>2. processing' = [processing EXCEPT ![w][k] = n]
    BY <1>1
  <2> HIDE DEF n
  <2>3. \A u \in Workers : processing'[u][j] = IF u = w /\ j = k THEN n ELSE processing[u][j]
    BY <1>5, <2>1, <2>2, CountsPut
  <2>4. \A u \in Workers : processing[u][j] \in Nat /\ tasks[u][j] \in Nat
    BY CountsTyped DEF TypeOK
  <2> QED
    BY <2>3, <2>4 DEF n
<1>7. CASE j # k
  <2>1. Fewer(dispatch', dispatch, j)
    BY <1>2, <1>7 DEF Fewer
  <2>2. Hands(j)' = Hands(j)
    BY <1>3, <1>4, <1>7
  <2>3. \A u \in Workers : processing'[u][j] <= processing[u][j]
    BY <1>6, <1>7
  <2>4. /\ job'[j].status = "queued" \/ (Live(j)' /\ ~job'[j].leased) => Free(j)
        /\ Running(j) # {} => job'[j].status = "running" /\ job'[j].leased
    BY <1>1 DEF Sole, Live
  <2> QED
    BY <1>1, <2>1, <2>2, <2>3, <2>4, SoleKept
<1>8. CASE j = k
  <2>1. Hands(j) = {} /\ Running(j) = {} /\ ~Free(j)
    BY <1>2, <1>8 DEF Sole, Free
  <2>2. Places(dispatch', j) = {}
    BY <1>2, <1>8 DEF Sole, AtMostOne
  <2>3. Hands(j)' = {w} /\ Running(j)' = {}
    BY <1>1, <1>3, <1>8, <2>1 DEF Running
  <2>4. ~(job'[j].status = "queued" \/ j \notin created' \/ (Live(j)' /\ ~job'[j].leased))
    BY <1>1, <2>1 DEF Sole, Live
  <2>5. \A u \in Workers : hand[u] # j /\ tasks[u][j] = 0 /\ (hand'[u] = j <=> u = w)
    BY <1>6, <2>1, <2>3 DEF Hands, Running
  <2>6. \A u \in Workers :
          /\ tasks'[u][j] <= 1 /\ (tasks'[u][j] > 0 => j \in renewing'[u])
          /\ processing'[u][j] <= (IF hand'[u] = j THEN 1 ELSE 0) + tasks'[u][j]
    <3>1. \A u \in Workers : processing[u][j] = 0
      BY <1>6, <2>5 DEF Sole
    <3> QED
      BY <1>1, <1>6, <1>8, <2>5, <3>1
  <2>7. AtMostOne(Places(dispatch', j)) /\ AtMostOne(Hands(j)') /\ AtMostOne(Running(j)')
    BY <2>2, <2>3 DEF AtMostOne
  <2> QED
    BY <2>2, <2>3, <2>4, <2>6, <2>7 DEF Sole
<1> QED
  BY <1>7, <1>8

\* Without a stop or a stall every worker keeps reporting, and a job is sent only
\* to the list of one.
LEMMA HealthyStep ==
    ASSUME TypeOK, Healthy, ~MayStall, crashes = 0, crashes' = 0, StepKind
    PROVE  Healthy'
<1>1. ASSUME up' = up, beat' = beat, NEW t \in Targets,
             \A u \in Targets \ {t} : dispatch'[u] = dispatch[u],
             dispatch'[t] # <<>> => dispatch[t] # <<>> \/ \E w \in Workers : TargetOf[w] = t
      PROVE  Healthy'
  BY <1>1 DEF Healthy
<1>2. CASE UNCHANGED <<up, beat, dispatch>>
  BY <1>2 DEF Healthy
<1>3. ASSUME NEW k \in Jobs, Ends(k) PROVE Healthy'
  <2>1. ASSUME NEW t \in Targets, dispatch' = [dispatch EXCEPT ![t] = RemoveFirst(@, k)]
        PROVE  Healthy'
    <3>1. dispatch[t] \in Seq(Jobs) /\ dispatch'[t] = RemoveFirst(dispatch[t], k)
          /\ \A u \in Targets \ {t} : dispatch'[u] = dispatch[u]
      BY <2>1 DEF TypeOK
    <3>2. RemoveFirst(dispatch[t], k) # <<>> => dispatch[t] # <<>>
      <4>1. \/ RemoveFirst(dispatch[t], k) = dispatch[t] \/ \E m \in 1..Len(dispatch[t]) : TRUE
        BY <3>1, RemoveFirstShape
      <4> QED
        BY <3>1, <4>1
    <3> QED
      BY <1>1, <1>3, <3>1, <3>2 DEF Ends
  <2> QED
    BY <1>2, <1>3, <2>1 DEF Ends
<1>4. ASSUME NEW k \in Jobs, NEW t \in Targets, Admitted(k, t) PROVE Healthy'
  <2>1. \A u \in Targets \ {t} : dispatch'[u] = dispatch[u]
    BY <1>4 DEF Admitted, TypeOK
  <2>2. \E w \in Workers : TargetOf[w] = t
    BY <1>4 DEF Admitted, TypeOK
  <2> QED
    BY <1>1, <1>4, <2>1, <2>2 DEF Admitted
<1>5. ASSUME NEW w \in Workers, ClaimPop(w) PROVE Healthy'
  <2>1. TargetOf[w] \in Targets
    BY ConstantsAssumption
  <2>2. \A u \in Targets \ {TargetOf[w]} : dispatch'[u] = dispatch[u]
    BY <1>5, <2>1 DEF ClaimPop, TypeOK
  <2> QED
    BY <1>1, <1>5, <2>1, <2>2 DEF ClaimPop
<1>6. ASSUME NEW w \in Workers, Elsewhere(w) PROVE Healthy'
  <2>1. ~WorkerStops(w)
    BY DEF WorkerStops
  <2> QED
    BY <1>6, <2>1 DEF Elsewhere, Healthy
<1>7. ASSUME NEW k \in Jobs, Breaks(k) PROVE FALSE
  BY <1>7 DEF Breaks
<1> QED
  BY <1>2, <1>3, <1>4, <1>5, <1>6, <1>7
     DEF StepKind, SameWork, Touches, Enqueues, Requeues, Expires, Drops, Started, Returns, Leaves

\* Workers that stopped stay counted.
LEMMA CrashesGrow ==
    ASSUME TypeOK, StepKind, crashes' = 0
    PROVE  crashes = 0
<1>1. crashes \in Nat
  BY DEF TypeOK
<1>2. crashes' = crashes \/ crashes' = crashes + 1
  BY DEF StepKind, SameWork, Touches, Enqueues, Ends, Requeues, Expires, Admitted, Drops, Started,
         Returns, Leaves, ClaimPop, Elsewhere, WorkerStops, Breaks
<1> QED
  BY <1>1, <1>2

\* Every step keeps an id in one place.
LEMMA OneStep ==
    ASSUME TypeOK, TypeOK', Rests, One, [Next]_vars
    PROVE  One'
<1> SUFFICES ASSUME crashes' = 0, ~MayStall PROVE Healthy' /\ \A j \in Jobs : Sole(j)'
  BY DEF One, Undisturbed
<1>0. StepKind
  BY StepKinds
<1>1. crashes = 0 /\ Healthy /\ \A j \in Jobs : Sole(j)
  BY <1>0, CrashesGrow DEF One, Undisturbed
<1>2. Healthy'
  BY <1>0, <1>1, HealthyStep
<1>3. ASSUME NEW j \in Jobs PROVE Sole(j)'
  <2>1. CASE UNCHANGED <<job, processing, hand, dispatch, tasks, renewing, created>>
    BY <1>1, <2>1 DEF Sole, Free, Hands, Running, Live
  <2>2. ASSUME NEW k \in Jobs, Touches(k) \/ Enqueues(k) \/ Ends(k) \/ Requeues(k) \/ Expires(k)
        PROVE  Sole(j)'
    BY <1>1, <2>2, SoleWritten
  <2>3. ASSUME NEW k \in Jobs, NEW t \in Targets, Admitted(k, t) PROVE Sole(j)'
    BY <1>1, <2>3, SoleAdmitted
  <2>4. ASSUME NEW k \in Jobs, NEW w \in Workers, Drops(w, k) \/ Started(w, k) \/ Returns(w, k)
        PROVE  Sole(j)'
    BY <1>1, <2>4, SoleHandled
  <2>5. ASSUME NEW w \in Workers, ClaimPop(w) PROVE Sole(j)'
    BY <1>1, <2>5, SolePopped
  <2>6. ASSUME NEW w \in Workers, Elsewhere(w) PROVE Sole(j)'
    <3>1. ~WorkerStops(w)
      BY <1>1 DEF WorkerStops
    <3> QED
      BY <2>1, <2>6, <3>1 DEF Elsewhere
  <2>7. CASE UNCHANGED <<job, usage, processing>> /\ SameWork
    BY <2>1, <2>7 DEF SameWork
  <2>8. ASSUME NEW k \in Jobs, Breaks(k) PROVE FALSE
    BY <1>1, <2>8 DEF Breaks
  <2> QED
    BY <1>0, <2>2, <2>3, <2>4, <2>5, <2>6, <2>7, <2>8 DEF StepKind
<1> QED
  BY <1>2, <1>3

\* The initial state, and One in every reachable state.
LEMMA OneHolds == Spec => []One
<1>1. Init => One
  <2> SUFFICES ASSUME Init PROVE Healthy /\ \A j \in Jobs : Sole(j)
    BY DEF One
  <2>1. Healthy
    BY DEF Init, Healthy
  <2>2. ASSUME NEW j \in Jobs PROVE Sole(j)
    <3>1. Places(dispatch, j) = {} /\ Hands(j) = {} /\ Running(j) = {}
      BY ConstantsAssumption DEF Init, Places, Hands, Running
    <3>2. \A w \in Workers : tasks[w][j] = 0 /\ processing[w][j] = 0 /\ hand[w] # j
      BY ConstantsAssumption DEF Init
    <3> QED
      BY <3>1, <3>2 DEF Sole, Free, AtMostOne
  <2> QED
    BY <2>1, <2>2
<1>2. TypeOK /\ TypeOK' /\ Rests /\ One /\ [Next]_vars => One'
  BY OneStep
<1> QED
  BY <1>1, <1>2, Basics, PTL DEF Spec

\* _remove_from_processing is called on every path: until a worker stops or
\* stalls, an id on a worker's processing list is in its hand or in one of its
\* coroutines.
THEOREM ProcessingStaysOwned == Spec => []ProcessingIsOwned
<1>1. TypeOK /\ One => ProcessingIsOwned
  <2> SUFFICES ASSUME TypeOK, One, Undisturbed, NEW w \in Workers, NEW j \in Jobs,
                      processing[w][j] > 0, hand[w] # j
               PROVE  tasks[w][j] > 0
    BY DEF ProcessingIsOwned
  <2>1. processing[w][j] <= 0 + tasks[w][j]
    BY DEF One, Sole
  <2>2. processing[w][j] \in Nat /\ tasks[w][j] \in Nat
    BY CountsTyped DEF TypeOK
  <2> QED
    BY <2>1, <2>2
<1> QED
  BY <1>1, Basics, OneHolds, PTL
=============================================================================
