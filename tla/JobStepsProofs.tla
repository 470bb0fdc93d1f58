--------------------------- MODULE JobStepsProofs ---------------------------
(* Invariance proofs for JobSteps: one job at the grain of single Redis     *)
(* commands, for every number of retries and process failures.              *)
EXTENDS JobSteps, TLAPS

-----------------------------------------------------------------------------
(* Type correctness.                                                        *)

\* LREM and the clamped HINCRBY -1 of a natural number give one.
LEMMA Less1Typed == \A n \in Nat : Less1(n) \in Nat
BY DEF Less1

\* What a coroutine makes of the record it read is a record again.
LEMMA RecordTyped ==
    /\ Enqueued \in Record
    /\ \A r \in Record, s \in Statuses : [r EXCEPT !.status = s] \in Record
    /\ \A r \in Record, b \in BOOLEAN : /\ [r EXCEPT !.leased = b] \in Record
                                        /\ [r EXCEPT !.cancel_requested = b] \in Record
    /\ \A r \in Record, s \in Statuses, n \in Nat :
          [r EXCEPT !.status = s, !.retry_count = n] \in Record
    /\ \A r \in Record, n \in Nat : [r EXCEPT !.retry_count = n] \in Record
    /\ \A r \in Record, s \in Statuses, b \in BOOLEAN : [r EXCEPT !.status = s, !.leased = b] \in Record
    /\ \A r \in Record, s \in Statuses, b \in BOOLEAN :
          [r EXCEPT !.status = s, !.reserved = b, !.leased = b] \in Record
    /\ \A r \in Record : r.status \in Statuses /\ r.retry_count \in Nat
<1>1. Enqueued \in Record
  BY DEF Enqueued, Record, Statuses
<1>2. \A r \in Record, s \in Statuses : [r EXCEPT !.status = s] \in Record
  BY DEF Record
<1>3. \A r \in Record, b \in BOOLEAN : [r EXCEPT !.leased = b] \in Record
  BY DEF Record
<1>4. \A r \in Record, b \in BOOLEAN : [r EXCEPT !.cancel_requested = b] \in Record
  BY DEF Record
<1>5. \A r \in Record, s \in Statuses, n \in Nat : [r EXCEPT !.status = s, !.retry_count = n] \in Record
  BY DEF Record
<1>6. \A r \in Record, n \in Nat : [r EXCEPT !.retry_count = n] \in Record
  BY DEF Record
<1>7. \A r \in Record, s \in Statuses, b \in BOOLEAN : [r EXCEPT !.status = s, !.leased = b] \in Record
  BY DEF Record
<1>8. \A r \in Record, s \in Statuses, b \in BOOLEAN :
          [r EXCEPT !.status = s, !.reserved = b, !.leased = b] \in Record
  BY DEF Record
<1>9. \A r \in Record : r.status \in Statuses /\ r.retry_count \in Nat
  BY DEF Record
<1> QED
  BY <1>1, <1>2, <1>3, <1>4, <1>5, <1>6, <1>7, <1>8, <1>9

\* The coroutines, labels and statuses the actions name.
LEMMA Names ==
    /\ "admit" \in Procs /\ "reaper" \in Procs /\ "claim" \in Procs
    /\ "task" \in Procs /\ "lease" \in Procs /\ "cancel" \in Procs
    /\ "queued" \in Statuses /\ "admitted" \in Statuses /\ "running" \in Statuses
    /\ Terminal \subseteq Statuses
    /\ "completed" \in Terminal /\ "failed" \in Terminal /\ "cancelled" \in Terminal
    /\ {"idle", "lrem_pending", "hincr", "save", "zadd", "rpush_dispatch", "release", "zrem",
        "rpush_pending", "read", "generate", "save_terminal", "announce", "release_terminal",
        "zrem_terminal", "lrem_dispatch", "mark", "flag", "over"} \subseteq Labels
BY DEF Procs, Statuses, Terminal, Labels

\* A coroutine that moves on, returns, reads or saves keeps the types of the
\* program counters, of its copy and of the record.
LEMMA HelpersTyped ==
    ASSUME TypeOK, NEW p \in Procs
    PROVE  /\ snap[p] \in Record
           /\ \A l \in Labels : Goto(p, l) => pc' \in [Procs -> Labels]
           /\ Return(p) => pc' \in [Procs -> Labels] /\ snap' \in [Procs -> Record]
           /\ \A r \in Record : Read(p, r) => snap' \in [Procs -> Record]
           /\ Save(p) => rec' \in Record /\ snap' \in [Procs -> Record]
           /\ Release(p) => usage' \in Nat
<1>1. snap \in [Procs -> Record] /\ pc \in [Procs -> Labels] /\ usage \in Nat
  BY DEF TypeOK
<1>2. \A l \in Labels : Goto(p, l) => pc' \in [Procs -> Labels]
  BY <1>1 DEF Goto
<1>3. \A r \in Record : Read(p, r) => snap' \in [Procs -> Record]
  BY <1>1 DEF Read
<1>4. Return(p) => pc' \in [Procs -> Labels] /\ snap' \in [Procs -> Record]
  <2>1. "over" \in Labels /\ "idle" \in Labels
    BY Names
  <2> QED
    BY <1>1, <1>2, <2>1, RecordTyped DEF Return
<1>5. Save(p) => rec' \in Record /\ snap' \in [Procs -> Record]
  BY <1>1 DEF Save
<1>6. Release(p) => usage' \in Nat
  BY <1>1, Less1Typed DEF Release
<1> QED
  BY <1>1, <1>2, <1>3, <1>4, <1>5, <1>6

\* The shared tail of the mark_job_* coroutines keeps the type invariant.
LEMMA MarkTailTyped ==
    ASSUME TypeOK, NEW p \in Procs, MarkTail(p)
    PROVE  TypeOK'
<1> USE HelpersTyped, Names DEF TypeOK, worldVars
<1>1. CASE SaveTerminal(p)
  BY <1>1 DEF SaveTerminal
<1>2. CASE AppendDone(p)
  BY <1>2 DEF AppendDone
<1>3. CASE ReleaseTerminal(p)
  BY <1>3 DEF ReleaseTerminal
<1>4. CASE ZremTerminal(p)
  BY <1>4 DEF ZremTerminal
<1> QED
  BY <1>1, <1>2, <1>3, <1>4 DEF MarkTail

\* mark_job_cancelled and the other mark coroutines read a record and turn it
\* into a terminal one, or return.
LEMMA MarkReadTyped ==
    ASSUME TypeOK, NEW p \in Procs
    PROVE  /\ \A s \in Terminal : MarkRead(p, s) =>
                 pc' \in [Procs -> Labels] /\ snap' \in [Procs -> Record]
           /\ MarkCancelledRead(p) => pc' \in [Procs -> Labels] /\ snap' \in [Procs -> Record]
<1>1. ASSUME NEW s \in Terminal, MarkRead(p, s)
      PROVE  pc' \in [Procs -> Labels] /\ snap' \in [Procs -> Record]
  <2>1. [rec EXCEPT !.status = s] \in Record
    BY RecordTyped, Names DEF TypeOK
  <2>2. "save_terminal" \in Labels
    BY Names
  <2> QED
    BY <1>1, <2>1, <2>2, HelpersTyped DEF MarkRead
<1> QED
  BY <1>1, HelpersTyped, Names DEF MarkCancelledRead

\* The type invariant is kept by every step.
LEMMA TypeStep == TypeOK /\ [Next]_vars => TypeOK'
<1> SUFFICES ASSUME TypeOK, [Next]_vars PROVE TypeOK'
  OBVIOUS
<1> USE HelpersTyped, Names DEF worldVars
<1>1. CASE Admit
  <2>1. CASE AdmitRead
    BY <2>1 DEF AdmitRead, TypeOK
  <2>2. CASE AdmitLrem
    BY <2>2, Less1Typed DEF AdmitLrem, TypeOK
  <2>3. CASE AdmitHincr
    <3>1. [snap["admit"] EXCEPT !.status = "admitted", !.reserved = TRUE, !.leased = TRUE] \in Record
      BY RecordTyped
    <3> QED
      BY <2>3, <3>1 DEF AdmitHincr, TypeOK
  <2>4. CASE AdmitSave
    BY <2>4 DEF AdmitSave, TypeOK
  <2>5. CASE AdmitZadd
    BY <2>5 DEF AdmitZadd, TypeOK
  <2>6. CASE AdmitRpush
    BY <2>6 DEF AdmitRpush, TypeOK
  <2> QED
    BY <1>1, <2>1, <2>2, <2>3, <2>4, <2>5, <2>6 DEF Admit
<1>2. CASE Reaper
  <2>1. CASE ReaperRead
    <3>1. rec.retry_count + 1 \in Nat
      <4>1. rec.retry_count \in Nat
        BY DEF TypeOK, Record
      <4> QED
        BY <4>1
    <3>2. /\ [rec EXCEPT !.status = "failed", !.retry_count = rec.retry_count + 1] \in Record
          /\ [rec EXCEPT !.retry_count = rec.retry_count + 1] \in Record
      BY <3>1, RecordTyped DEF TypeOK
    <3> QED
      BY <2>1, <3>2 DEF ReaperRead, TypeOK
  <2>2. CASE ReaperRelease
    BY <2>2 DEF ReaperRelease, TypeOK
  <2>3. CASE ReaperZrem
    <3>1. [snap["reaper"] EXCEPT !.status = "queued", !.reserved = FALSE, !.leased = FALSE] \in Record
      BY RecordTyped
    <3> QED
      BY <2>3, <3>1 DEF ReaperZrem, TypeOK
  <2>4. CASE ReaperSave
    BY <2>4 DEF ReaperSave, TypeOK
  <2>5. CASE ReaperRpush
    BY <2>5 DEF ReaperRpush, TypeOK
  <2> QED
    BY <1>2, <2>1, <2>2, <2>3, <2>4, <2>5, MarkTailTyped DEF Reaper
<1>3. CASE Claim
  <2>1. CASE ClaimPop
    BY <2>1 DEF ClaimPop, TypeOK
  <2>2. CASE ClaimRead
    <3>1. [rec EXCEPT !.status = "running", !.leased = TRUE] \in Record
      BY RecordTyped DEF TypeOK
    <3> QED
      BY <2>2, <3>1 DEF ClaimRead, TypeOK
  <2>3. CASE ClaimSave
    BY <2>3 DEF ClaimSave, TypeOK
  <2>4. CASE ClaimZadd
    BY <2>4, RecordTyped DEF ClaimZadd, TypeOK
  <2> QED
    BY <1>3, <2>1, <2>2, <2>3, <2>4 DEF Claim
<1>4. CASE Task
  <2>1. CASE TaskCancelled
    BY <2>1, MarkReadTyped DEF TaskCancelled, TypeOK
  <2>2. CASE TaskFinished
    BY <2>2, MarkReadTyped DEF TaskFinished, TypeOK
  <2> QED
    BY <1>4, <2>1, <2>2, MarkTailTyped DEF Task
<1>5. CASE Renew
  <2>1. CASE RenewRead
    <3>1. [rec EXCEPT !.leased = TRUE] \in Record
      BY RecordTyped DEF TypeOK
    <3> QED
      BY <2>1, <3>1 DEF RenewRead, TypeOK
  <2>2. CASE RenewSave
    BY <2>2 DEF RenewSave, TypeOK
  <2>3. CASE RenewZadd
    BY <2>3 DEF RenewZadd, TypeOK
  <2> QED
    BY <1>5, <2>1, <2>2, <2>3 DEF Renew
<1>6. CASE Cancel
  <2>1. CASE CancelRead
    <3>1. rec \in Record /\ (rec.status \notin Terminal => rec.status \in {"queued", "admitted", "running"})
      BY RecordTyped DEF TypeOK, Statuses
    <3> QED
      BY <2>1, <3>1 DEF CancelRead, TypeOK
  <2>2. CASE CancelLrem
    BY <2>2, Less1Typed DEF CancelLrem, TypeOK
  <2>3. CASE CancelMark
    BY <2>3, MarkReadTyped DEF CancelMark, TypeOK
  <2>4. CASE CancelFlag
    <3>1. [snap["cancel"] EXCEPT !.cancel_requested = TRUE] \in Record
      BY RecordTyped
    <3> QED
      BY <2>4, <3>1 DEF CancelFlag, TypeOK
  <2> QED
    BY <1>6, <2>1, <2>2, <2>3, <2>4, MarkTailTyped DEF Cancel
<1>7. CASE ReadDone \/ PollRecord
  BY <1>7 DEF ReadDone, PollRecord, TypeOK
<1>8. CASE LeaseEnds
  <2>1. rec' \in Record
    BY <1>8, RecordTyped DEF LeaseEnds, TypeOK
  <2>2. snap' \in [Procs -> Record]
    BY <1>8, RecordTyped DEF LeaseEnds, TypeOK
  <2> QED
    BY <1>8, <2>1, <2>2 DEF LeaseEnds, TypeOK
<1>9. ASSUME NEW procs, Stop(procs) PROVE pc' \in [Procs -> Labels] /\ snap' \in [Procs -> Record]
  BY <1>9, RecordTyped DEF Stop, TypeOK
<1>10. CASE WorkerStops
  <2>1. stops' \in [worker : Nat, scheduler : Nat]
    BY <1>10 DEF WorkerStops, TypeOK
  <2> QED
    BY <1>9, <1>10, <2>1 DEF WorkerStops, TypeOK
<1>11. CASE WorkerStarts
  BY <1>11 DEF WorkerStarts, TypeOK
<1>12. CASE SchedulerRestarts
  <2>1. stops' \in [worker : Nat, scheduler : Nat]
    BY <1>12 DEF SchedulerRestarts, TypeOK
  <2> QED
    BY <1>9, <1>12, <2>1 DEF SchedulerRestarts, TypeOK
<1>13. CASE UNCHANGED vars
  BY <1>13 DEF vars, TypeOK
<1> QED
  BY <1>1, <1>2, <1>3, <1>4, <1>5, <1>6, <1>7, <1>8, <1>10, <1>11, <1>12, <1>13 DEF Next

\* The initial state is typed.
LEMMA TypeInit == Init => TypeOK
<1> SUFFICES ASSUME Init PROVE TypeOK
  OBVIOUS
<1>1. snap \in [Procs -> Record] /\ rec \in Record
  BY RecordTyped DEF Init
<1>2. pc \in [Procs -> Labels]
  BY Names DEF Init
<1>3. stops \in [worker : Nat, scheduler : Nat]
  BY DEF Init
<1> QED
  BY <1>1, <1>2, <1>3 DEF Init, TypeOK

\* The record, every coroutine's copy of it, the list and usage counters of the
\* gateway and the event stream keep their types in every interleaving of the
\* coroutines with crashes of the worker and of the scheduler.
THEOREM TypeCorrect == Spec => []TypeOK
BY TypeInit, TypeStep, PTL DEF Spec

-----------------------------------------------------------------------------
(* The event stream ends only after the record was settled.                 *)

\* The inductive strengthening of DoneAfterSave: whoever is about to append the
\* done event has saved a terminal record; a terminal status in Redis was saved
\* as such; and the coroutines that write a record back without settling the job
\* (admission, requeue, claim, lease renewal, the cancel flag) hold a copy that
\* is not terminal.
SettledFirst ==
    /\ rec.status \in Terminal => settled
    /\ \A p \in Procs : pc[p] = "announce" => settled
    /\ \A p \in Procs : pc[p] \in {"save", "flag"} => snap[p].status \notin Terminal

DoneInv == TypeOK /\ SettledFirst /\ DoneAfterSave

\* A step of one coroutine leaves the program counters and the copies of the
\* others alone.
LEMMA OneCoroutine ==
    ASSUME TypeOK, NEW p \in Procs
    PROVE  /\ \A l : Goto(p, l) => /\ pc'[p] = l
                                   /\ \A q \in Procs : q # p => pc'[q] = pc[q]
           /\ \A r : Read(p, r) => /\ snap'[p] = r
                                   /\ \A q \in Procs : q # p => snap'[q] = snap[q]
           /\ Return(p) => /\ pc'[p] \in {"idle", "over"}
                           /\ \A q \in Procs : q # p => pc'[q] = pc[q] /\ snap'[q] = snap[q]
<1>1. pc \in [Procs -> Labels] /\ snap \in [Procs -> Record]
  BY DEF TypeOK
<1> QED
  BY <1>1 DEF Goto, Read, Return

\* The status of a record a coroutine has changed.
LEMMA StatusOf ==
    ASSUME NEW r \in Record
    PROVE  /\ [r EXCEPT !.status = "admitted", !.reserved = TRUE, !.leased = TRUE].status = "admitted"
           /\ [r EXCEPT !.status = "queued", !.reserved = FALSE, !.leased = FALSE].status = "queued"
           /\ [r EXCEPT !.status = "running", !.leased = TRUE].status = "running"
           /\ [r EXCEPT !.leased = TRUE].status = r.status
           /\ [r EXCEPT !.leased = FALSE].status = r.status
           /\ [r EXCEPT !.cancel_requested = TRUE].status = r.status
BY DEF Record

\* Admission, requeueing and claiming save statuses that are not terminal.
LEMMA NotTerminal ==
    "queued" \notin Terminal /\ "admitted" \notin Terminal /\ "running" \notin Terminal
BY DEF Terminal

\* The shared tail of the mark_job_* coroutines keeps DoneAfterSave.
LEMMA MarkTailDone ==
    ASSUME DoneInv, NEW p \in Procs, MarkTail(p)
    PROVE  (SettledFirst /\ DoneAfterSave)'
<1> USE OneCoroutine DEF worldVars, DoneInv, SettledFirst, DoneAfterSave
<1>1. CASE SaveTerminal(p)
  BY <1>1 DEF SaveTerminal, Save
<1>2. CASE AppendDone(p)
  BY <1>2 DEF AppendDone, At
<1>3. CASE ReleaseTerminal(p)
  BY <1>3 DEF ReleaseTerminal
<1>4. CASE ZremTerminal(p)
  BY <1>4 DEF ZremTerminal
<1> QED
  BY <1>1, <1>2, <1>3, <1>4 DEF MarkTail

\* mark_job_cancelled and the other mark coroutines settle the job before they
\* go on to announce it.
LEMMA MarkReadDone ==
    ASSUME DoneInv, NEW p \in Procs,
           MarkCancelledRead(p) \/ \E s \in Terminal : MarkRead(p, s),
           UNCHANGED <<rec, done, settled, reader>>
    PROVE  (SettledFirst /\ DoneAfterSave)'
<1>1. /\ pc'[p] \in {"idle", "over", "save_terminal"}
      /\ \A q \in Procs : q # p => pc'[q] = pc[q] /\ snap'[q] = snap[q]
  <2>1. ASSUME NEW s, MarkRead(p, s)
        PROVE  /\ pc'[p] = "save_terminal"
               /\ \A q \in Procs : q # p => pc'[q] = pc[q] /\ snap'[q] = snap[q]
    <3>1. TypeOK /\ Goto(p, "save_terminal")
      BY <2>1 DEF MarkRead, DoneInv
    <3>2. PICK r : Read(p, r)
      BY <2>1 DEF MarkRead
    <3> QED
      BY <3>1, <3>2, OneCoroutine
  <2> QED
    BY <2>1, OneCoroutine DEF MarkCancelledRead, DoneInv
<1> QED
  BY <1>1 DEF DoneInv, SettledFirst, DoneAfterSave

\* DoneAfterSave with its strengthening is kept by every step.
LEMMA DoneStep == DoneInv /\ [Next]_vars => (SettledFirst /\ DoneAfterSave)'
<1> SUFFICES ASSUME DoneInv, [Next]_vars PROVE (SettledFirst /\ DoneAfterSave)'
  OBVIOUS
<1> USE OneCoroutine, Names DEF worldVars, DoneInv, SettledFirst, DoneAfterSave
<1>1. CASE Admit
  <2>1. CASE AdmitRead
    BY <2>1 DEF AdmitRead
  <2>2. CASE AdmitLrem
    BY <2>2 DEF AdmitLrem
  <2>3. CASE AdmitHincr
    <3> DEFINE r == [snap["admit"] EXCEPT !.status = "admitted", !.reserved = TRUE, !.leased = TRUE]
    <3>1. r.status \notin Terminal
      BY HelpersTyped, StatusOf, NotTerminal
    <3>2. Read("admit", r)
      BY <2>3 DEF AdmitHincr
    <3> HIDE DEF r
    <3> QED
      BY <2>3, <3>1, <3>2 DEF AdmitHincr
  <2>4. CASE AdmitSave
    BY <2>4 DEF AdmitSave, Save, At
  <2>5. CASE AdmitZadd
    BY <2>5 DEF AdmitZadd
  <2>6. CASE AdmitRpush
    BY <2>6 DEF AdmitRpush
  <2> QED
    BY <1>1, <2>1, <2>2, <2>3, <2>4, <2>5, <2>6 DEF Admit
<1>2. CASE Reaper
  <2>1. CASE ReaperRead
    BY <2>1 DEF ReaperRead
  <2>2. CASE ReaperRelease
    BY <2>2 DEF ReaperRelease
  <2>3. CASE ReaperZrem
    <3> DEFINE r == [snap["reaper"] EXCEPT !.status = "queued", !.reserved = FALSE, !.leased = FALSE]
    <3>1. r.status \notin Terminal
      BY HelpersTyped, StatusOf, NotTerminal
    <3>2. Read("reaper", r)
      BY <2>3 DEF ReaperZrem
    <3> HIDE DEF r
    <3> QED
      BY <2>3, <3>1, <3>2 DEF ReaperZrem
  <2>4. CASE ReaperSave
    BY <2>4 DEF ReaperSave, Save, At
  <2>5. CASE ReaperRpush
    BY <2>5 DEF ReaperRpush
  <2> QED
    BY <1>2, <2>1, <2>2, <2>3, <2>4, <2>5, MarkTailDone DEF Reaper
<1>3. CASE Claim
  <2>1. CASE ClaimPop
    BY <2>1 DEF ClaimPop
  <2>2. CASE ClaimRead
    <3> DEFINE r == [rec EXCEPT !.status = "running", !.leased = TRUE]
    <3>1. r.status \notin Terminal
      BY StatusOf, NotTerminal DEF TypeOK
    <3>2. Read("claim", r)
      BY <2>2 DEF ClaimRead
    <3> HIDE DEF r
    <3> QED
      BY <2>2, <3>1, <3>2 DEF ClaimRead
  <2>3. CASE ClaimSave
    BY <2>3 DEF ClaimSave, Save, At
  <2>4. CASE ClaimZadd
    <3>1. \A p \in Procs : \/ pc'[p] \in {"idle", "generate"}
                           \/ pc'[p] = pc[p] /\ snap'[p] = snap[p]
      BY <2>4 DEF ClaimZadd, TypeOK
    <3>2. UNCHANGED <<rec, settled, done, reader>>
      BY <2>4 DEF ClaimZadd
    <3> QED
      BY <3>1, <3>2
  <2> QED
    BY <1>3, <2>1, <2>2, <2>3, <2>4 DEF Claim
<1>4. CASE Task
  <2>1. CASE TaskCancelled
    BY <2>1, MarkReadDone DEF TaskCancelled
  <2>2. CASE TaskFinished
    BY <2>2, MarkReadDone DEF TaskFinished
  <2> QED
    BY <1>4, <2>1, <2>2, MarkTailDone DEF Task
<1>5. CASE Renew
  <2>1. CASE RenewRead
    <3> DEFINE r == [rec EXCEPT !.leased = TRUE]
    <3>1. r.status \notin Terminal
      BY <2>1, StatusOf, NotTerminal DEF RenewRead, TypeOK
    <3>2. Read("lease", r)
      BY <2>1 DEF RenewRead
    <3> HIDE DEF r
    <3> QED
      BY <2>1, <3>1, <3>2 DEF RenewRead
  <2>2. CASE RenewSave
    BY <2>2 DEF RenewSave, Save, At
  <2>3. CASE RenewZadd
    BY <2>3 DEF RenewZadd
  <2> QED
    BY <1>5, <2>1, <2>2, <2>3 DEF Renew
<1>6. CASE Cancel
  <2>1. CASE CancelRead
    <3>1. rec.status \notin Terminal => rec.status \in {"queued", "admitted", "running"}
      BY RecordTyped DEF TypeOK, Statuses
    <3> QED
      BY <2>1, <3>1 DEF CancelRead
  <2>2. CASE CancelLrem
    BY <2>2 DEF CancelLrem
  <2>3. CASE CancelMark
    BY <2>3, MarkReadDone DEF CancelMark
  <2>4. CASE CancelFlag
    <3>1. [snap["cancel"] EXCEPT !.cancel_requested = TRUE].status = snap["cancel"].status
      BY HelpersTyped, StatusOf
    <3> QED
      BY <2>4, <3>1 DEF CancelFlag, At
  <2> QED
    BY <1>6, <2>1, <2>2, <2>3, <2>4, MarkTailDone DEF Cancel
<1>7. CASE ReadDone \/ PollRecord
  BY <1>7 DEF ReadDone, PollRecord
<1>8. CASE LeaseEnds
  <2>1. rec'.status = rec.status
    BY <1>8, StatusOf DEF LeaseEnds, TypeOK
  <2>2. ASSUME NEW p \in Procs PROVE snap'[p].status = snap[p].status
    <3> DEFINE r == snap[p]
    <3>1. snap'[p] = [r EXCEPT !.leased = FALSE]
      BY <1>8 DEF LeaseEnds
    <3>2. r \in Record
      BY HelpersTyped
    <3> HIDE DEF r
    <3>3. snap'[p].status = r.status
      BY <3>1, <3>2, StatusOf
    <3> QED
      BY <3>3 DEF r
  <2> QED
    BY <1>8, <2>1, <2>2 DEF LeaseEnds
<1>9. ASSUME NEW procs, Stop(procs), UNCHANGED <<rec, done, settled, reader>>
      PROVE  (SettledFirst /\ DoneAfterSave)'
  BY <1>9 DEF Stop
<1>10. CASE WorkerStops \/ SchedulerRestarts
  BY <1>9, <1>10 DEF WorkerStops, SchedulerRestarts
<1>11. CASE WorkerStarts
  BY <1>11 DEF WorkerStarts
<1>12. CASE UNCHANGED vars
  BY <1>12 DEF vars
<1> QED
  BY <1>1, <1>2, <1>3, <1>4, <1>5, <1>6, <1>7, <1>8, <1>10, <1>11, <1>12 DEF Next

\* A done event on the stream, or a stream that has ended, means that a terminal
\* record was saved before (the mark_job_* coroutines save, then append), however
\* the coroutines' reads and writes of the whole record interleave and wherever
\* the worker or the scheduler stops.
THEOREM DoneAfterSaveHolds == Spec => []DoneAfterSave
<1>1. Init => DoneInv
  <2>1. Init => SettledFirst /\ DoneAfterSave
    BY DEF Init, SettledFirst, DoneAfterSave, Enqueued, Terminal
  <2> QED
    BY <2>1, TypeInit DEF DoneInv
<1>2. DoneInv /\ [Next]_vars => DoneInv'
  BY DoneStep, TypeStep DEF DoneInv
<1>3. DoneInv => DoneAfterSave
  BY DEF DoneInv
<1> QED
  BY <1>1, <1>2, <1>3, PTL DEF Spec
=============================================================================
