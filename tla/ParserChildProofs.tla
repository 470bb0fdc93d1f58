------------------------- MODULE ParserChildProofs -------------------------
(* Invariance proofs for ParserChild: a parser root and its child, for      *)
(* every set of parser coroutines and every number of replays and faults.   *)
EXTENDS ParserChild, FiniteSetTheorems, TLAPS

RootStatuses == {"queued", "running"} \cup Terminal

-----------------------------------------------------------------------------
(* The records and what a save of a changed copy makes of them.             *)

\* A root record with a changed status, retry count, flag or link is a root
\* record.
LEMMA RootTyped ==
    /\ NewRoot \in RootRecord
    /\ \A r \in RootRecord :
          /\ \A s \in RootStatuses : [r EXCEPT !.status = s] \in RootRecord
          /\ \A s \in RootStatuses, n \in Nat :
                [r EXCEPT !.status = s, !.retry_count = n] \in RootRecord
          /\ [r EXCEPT !.child_job_id = TRUE] \in RootRecord
          /\ \A s \in RootStatuses : [r EXCEPT !.status = s, !.child_job_id = TRUE] \in RootRecord
          /\ [r EXCEPT !.cancel_requested = TRUE] \in RootRecord
          /\ r.retry_count \in Nat /\ r.status \in RootStatuses
<1>1. NewRoot \in RootRecord
  BY DEF NewRoot, RootRecord
<1> SUFFICES ASSUME NEW r \in RootRecord
             PROVE  /\ \A s \in RootStatuses : [r EXCEPT !.status = s] \in RootRecord
                    /\ \A s \in RootStatuses, n \in Nat :
                          [r EXCEPT !.status = s, !.retry_count = n] \in RootRecord
                    /\ [r EXCEPT !.child_job_id = TRUE] \in RootRecord
                    /\ \A s \in RootStatuses :
                          [r EXCEPT !.status = s, !.child_job_id = TRUE] \in RootRecord
                    /\ [r EXCEPT !.cancel_requested = TRUE] \in RootRecord
                    /\ r.retry_count \in Nat /\ r.status \in RootStatuses
  BY <1>1
<1> USE DEF RootRecord, RootStatuses
<1>2. \A s \in RootStatuses : [r EXCEPT !.status = s] \in RootRecord
  OBVIOUS
<1>3. \A s \in RootStatuses, n \in Nat : [r EXCEPT !.status = s, !.retry_count = n] \in RootRecord
  OBVIOUS
<1>4. [r EXCEPT !.child_job_id = TRUE] \in RootRecord
  OBVIOUS
<1>5. \A s \in RootStatuses : [r EXCEPT !.status = s, !.child_job_id = TRUE] \in RootRecord
  OBVIOUS
<1>6. [r EXCEPT !.cancel_requested = TRUE] \in RootRecord
  OBVIOUS
<1>7. r.retry_count \in Nat /\ r.status \in RootStatuses
  OBVIOUS
<1> QED
  BY <1>2, <1>3, <1>4, <1>5, <1>6, <1>7

\* The status and the link of a root record after such a change.
LEMMA RootFields ==
    /\ NewRoot.status = "queued" /\ NewRoot.child_job_id = FALSE
    /\ \A r \in RootRecord : \A s, n :
          /\ [r EXCEPT !.status = s].status = s
          /\ [r EXCEPT !.status = s].child_job_id = r.child_job_id
          /\ [r EXCEPT !.status = s, !.retry_count = n].status = s
          /\ [r EXCEPT !.status = s, !.retry_count = n].child_job_id = r.child_job_id
          /\ [r EXCEPT !.child_job_id = TRUE].status = r.status
          /\ [r EXCEPT !.status = s, !.child_job_id = TRUE].status = s
          /\ [r EXCEPT !.cancel_requested = TRUE].status = r.status
          /\ [r EXCEPT !.cancel_requested = TRUE].child_job_id = r.child_job_id
<1>1. NewRoot.status = "queued" /\ NewRoot.child_job_id = FALSE
  BY DEF NewRoot
<1>2. ASSUME NEW r \in RootRecord, NEW s, NEW n
      PROVE  /\ [r EXCEPT !.status = s].status = s
             /\ [r EXCEPT !.status = s].child_job_id = r.child_job_id
             /\ [r EXCEPT !.status = s, !.retry_count = n].status = s
             /\ [r EXCEPT !.status = s, !.retry_count = n].child_job_id = r.child_job_id
             /\ [r EXCEPT !.child_job_id = TRUE].status = r.status
             /\ [r EXCEPT !.status = s, !.child_job_id = TRUE].status = s
             /\ [r EXCEPT !.cancel_requested = TRUE].status = r.status
             /\ [r EXCEPT !.cancel_requested = TRUE].child_job_id = r.child_job_id
  BY DEF RootRecord
<1> QED
  BY <1>1, <1>2

\* The child's record keeps its fields; only the named one changes.
LEMMA KidTyped ==
    ASSUME NEW k \in KidRecord
    PROVE  /\ \A s \in {"queued", "running"} \cup Terminal :
                 [k EXCEPT !.status = s] \in KidRecord /\ [k EXCEPT !.status = s].status = s
           /\ [k EXCEPT !.cancel_requested = TRUE] \in KidRecord
           /\ [k EXCEPT !.cancel_requested = TRUE].status = k.status
           /\ k.status \in {"absent"} \cup RootStatuses
BY DEF KidRecord, RootStatuses

\* The statuses and labels the actions name.
LEMMA Names ==
    /\ "queued" \in RootStatuses /\ "running" \in RootStatuses /\ Terminal \subseteq RootStatuses
    /\ "completed" \in Terminal /\ "failed" \in Terminal /\ "cancelled" \in Terminal
    /\ "queued" \notin Terminal /\ "running" \notin Terminal /\ "absent" \notin Terminal
    /\ {"idle", "cancelled_before", "get_job", "linked", "prepare", "save_prepared", "recheck",
        "lock", "test", "push", "link", "lock_lost", "delete_raw", "adopt", "wait_read", "wait_save",
        "wait_zrem"} \subseteq Labels
BY DEF RootStatuses, Terminal, Labels

-----------------------------------------------------------------------------
(* The child's life: pushed, executed, ended.                               *)

\* Every step leaves the child as it is, writes it anew, moves it on or flags it.
KidMoves ==
    \/ UNCHANGED <<kid, enqueues, answered, executions>>
    \/ /\ \E a \in Attempts : pc[a] = "push"
       /\ kid' = NewKid /\ enqueues' = enqueues + 1 /\ UNCHANGED <<answered, executions>>
    \/ /\ kid.status = "queued" /\ kid'.status = "running"
       /\ executions' = executions + 1 /\ UNCHANGED <<enqueues, answered>>
    \/ /\ kid'.status \in Terminal /\ (answered => answered')
       /\ \/ executions > 0 /\ executions' = executions - 1
          \/ kid.status = "queued" /\ executions' = executions
       /\ enqueues' = enqueues
    \/ /\ kid.status = "running" /\ kid'.status = "running"
       /\ UNCHANGED <<enqueues, answered, executions>>

\* enqueue_child_job_once, the child's worker and cancel_job move the child as
\* KidMoves says.
LEMMA KidStep ==
    ASSUME TypeOK, [Next]_vars
    PROVE  /\ KidMoves /\ kid' \in KidRecord /\ enqueues' \in Nat /\ executions' \in Nat
           /\ answered' \in BOOLEAN
<1>0. kid \in KidRecord /\ enqueues \in Nat /\ executions \in Nat /\ answered \in BOOLEAN
  BY DEF TypeOK
<1>k. /\ \A s \in RootStatuses : kid' = [kid EXCEPT !.status = s] => kid' \in KidRecord /\ kid'.status = s
      /\ kid' = [kid EXCEPT !.cancel_requested = TRUE] => kid' \in KidRecord /\ kid'.status = kid.status
      /\ NewKid \in KidRecord
  BY <1>0, KidTyped DEF RootStatuses, NewKid, KidRecord
<1> USE Names, <1>0, <1>k DEF KidMoves
<1>1. ASSUME NEW a \in Attempts, ClaimRoot(a) \/ ProcessParserJob(a) \/ ParserStops(a),
             ~PushChild(a)
      PROVE  UNCHANGED <<kid, enqueues, answered, executions>>
  BY <1>1 DEF ClaimRoot, ProcessParserJob, ParserStops, CheckCancelled, ParserRefuses, GetJob,
       LinkedChild, Prepare, SavePrepared, Recheck, ReuseChild, ChildRefused, TakeLock, TestChild,
       EnqueueFails, LinkChild, HandoverFails, DeleteRaw, WaitRead, WaitSave, WaitZrem, history
<1>2. ASSUME NEW a \in Attempts, PushChild(a)
      PROVE  KidMoves /\ kid' \in KidRecord /\ enqueues' \in Nat /\ UNCHANGED <<answered, executions>>
  BY <1>2 DEF PushChild
<1>3. CASE RequeueRoot \/ ForgetRoot \/ Mirror \/ CancelRead \/ ChildWorkerStops \/ LockLapses
           \/ UNCHANGED vars
  BY <1>3 DEF RequeueRoot, ForgetRoot, Mirror, MirrorRead, MirrorSave, MirrorEvent, CancelRead,
       ChildWorkerStops, LockLapses, history, vars
<1>4. CASE KidRuns
  BY <1>4 DEF KidRuns, history
<1>5. CASE KidEnds
  <2>1. executions > 0 /\ executions' = executions - 1 /\ enqueues' = enqueues
    BY <1>5 DEF KidEnds
  <2>2. PICK s \in Terminal : EndKid(s)
    BY <1>5 DEF KidEnds
  <2>3. kid' \in KidRecord /\ kid'.status = s /\ answered' \in BOOLEAN /\ (answered => answered')
    BY <2>2 DEF EndKid
  <2> QED
    BY <2>1, <2>3
<1>6. CASE CancelBranch
  BY <1>6 DEF CancelBranch, CancelQueuedRoot, CancelChild, CancelFlag, EndKid
<1> QED
  BY <1>1, <1>2, <1>3, <1>4, <1>5, <1>6 DEF Next

-----------------------------------------------------------------------------
(* The inductive invariant.                                                 *)

\* What a copy of the root claims when n children were pushed and d says whether
\* one was answered: a link means that a child was pushed, a completed status that
\* an execution of it completed.
Backed(r, n, d) ==
    /\ r.child_job_id => n > 0
    /\ r.status = "completed" => d

\* Every copy of the root that a later save may write back, in a parser
\* coroutine, in the mirroring of the child's end and in the cancel request.
CopiesBacked ==
    /\ Backed(root, enqueues, answered) /\ Backed(mirror.root, enqueues, answered)
    /\ Backed(cancel.root, enqueues, answered)
    /\ \A a \in Attempts : Backed(snap[a], enqueues, answered)

\* The labels a parser coroutine reaches only behind a pushed child.
Behind == {"link", "lock_lost", "delete_raw", "adopt", "wait_read"}

\* The hand-over: a child exists once it was pushed; the raw files go and a
\* coroutine passes the push only then; a completed end is mirrored only after an
\* execution completed; a child pushed once is executed once at a time.
HandedOver ==
    /\ enqueues = 0 <=> kid.status = "absent"
    /\ ~raw => enqueues > 0
    /\ mirror.at = "read" => enqueues > 0 /\ (mirror.end = "completed" => answered)
    /\ \A a \in Attempts : pc[a] \in Behind => enqueues > 0
    /\ enqueues <= 1 => executions = IF kid.status = "running" THEN 1 ELSE 0

\* The coroutines between the acquisition and the release of the job lock, those
\* of them whose lock has lapsed, and those about to push.
Inside    == {a \in Attempts : pc[a] \in {"test", "push", "link"}}
Strangers == Inside \ {lock}
Pushers   == {a \in Attempts : pc[a] = "push"}

\* The lock: its holder is inside; each lapse lets one more coroutine in; whoever
\* is about to push found no child, so pushes and pushers together are bounded.
Locked ==
    /\ lock # None => lock \in Inside
    /\ IsFiniteSet(Strangers) /\ Cardinality(Strangers) <= lapses
    /\ IsFiniteSet(Pushers) /\ enqueues + Cardinality(Pushers) <= 1 + lapses

Inv == TypeOK /\ HandedOver /\ CopiesBacked /\ Locked

\* What a copy claims of the child stays true when the child moves on: it never
\* disappears and a completed one stays completed.
LEMMA BackedStays ==
    ASSUME TypeOK, KidMoves, NEW r, Backed(r, enqueues, answered)
    PROVE  Backed(r, enqueues', answered')
<1>1. enqueues > 0 => enqueues' > 0
  BY DEF KidMoves, TypeOK
<1>2. answered => answered'
  BY DEF KidMoves
<1> QED
  BY <1>1, <1>2 DEF Backed

\* The new root is no claim.
LEMMA NewRootBacked == \A n, d : Backed(NewRoot, n, d)
BY RootFields DEF Backed

\* The mark coroutines of the root give it a status that is not completed, or
\* leave a terminal one alone.
LEMMA MarkRoot ==
    ASSUME Inv, MarkRootFailed \/ MarkRootCancelled
    PROVE  root' \in RootRecord /\ Backed(root', enqueues, answered)
<1>1. root \in RootRecord /\ Backed(root, enqueues, answered)
  BY DEF Inv, TypeOK, CopiesBacked
<1>2. ASSUME NEW s \in {"failed", "cancelled"}, root' = [root EXCEPT !.status = s]
      PROVE  root' \in RootRecord /\ Backed(root', enqueues, answered)
  <2>1. root' \in RootRecord /\ root'.status = s /\ root'.child_job_id = root.child_job_id
    BY <1>1, <1>2, RootTyped, RootFields, Names
  <2> QED
    BY <1>1, <2>1 DEF Backed
<1> QED
  BY <1>1, <1>2 DEF MarkRootFailed, MarkRootCancelled

\* Every save of the root writes a record whose claims the child backs.
LEMMA RootStep ==
    ASSUME Inv, [Next]_vars
    PROVE  root' \in RootRecord /\ Backed(root', enqueues', answered')
<1>0. /\ TypeOK /\ KidMoves
      /\ root \in RootRecord /\ Backed(root, enqueues, answered)
      /\ \A a \in Attempts : snap[a] \in RootRecord /\ Backed(snap[a], enqueues, answered)
      /\ mirror.root \in RootRecord /\ Backed(mirror.root, enqueues, answered)
      /\ cancel.root \in RootRecord /\ Backed(cancel.root, enqueues, answered)
  BY KidStep DEF Inv, TypeOK, CopiesBacked
<1> SUFFICES ASSUME TRUE
             PROVE  root' \in RootRecord /\ (Backed(root', enqueues, answered) \/ Backed(root', enqueues', answered'))
  BY <1>0, BackedStays
<1>1. ASSUME NEW a \in Attempts, ClaimRoot(a)
      PROVE  root' \in RootRecord /\ Backed(root', enqueues, answered)
  <2>1. root' = [root EXCEPT !.status = "running"]
    BY <1>1 DEF ClaimRoot
  <2>2. root' \in RootRecord /\ root'.status = "running" /\ root'.child_job_id = root.child_job_id
    <3>1. root \in RootRecord /\ "running" \in RootStatuses
      BY <1>0, Names
    <3>2. root' \in RootRecord
      BY <2>1, <3>1, RootTyped
    <3> QED
      BY <2>1, <3>1, <3>2, RootFields
  <2> QED
    BY <1>0, <2>2 DEF Backed
<1>2. ASSUME NEW a \in Attempts, ProcessParserJob(a)
      PROVE  root' \in RootRecord /\ Backed(root', enqueues, answered)
  <2>1. CASE LinkedChild(a) \/ LinkChild(a)
    <3>1. CASE root' = root
      BY <1>0, <3>1
    <3>2. CASE root' = [root EXCEPT !.child_job_id = TRUE]
      <4>1. root' \in RootRecord /\ root'.status = root.status
        BY <1>0, <3>2, RootTyped, RootFields
      <4>2. enqueues > 0 \/ root' = root
        <5>1. enqueues \in Nat
          BY DEF Inv, TypeOK
        <5> QED
          BY <2>1, <5>1 DEF LinkedChild, LinkChild, Inv, HandedOver, Behind
      <4> QED
        BY <1>0, <4>1, <4>2 DEF Backed
    <3> QED
      BY <2>1, <3>1, <3>2 DEF LinkedChild, LinkChild
  <2>2. CASE SavePrepared(a) \/ WaitSave(a)
    BY <1>0, <2>2 DEF SavePrepared, WaitSave
  <2>3. CASE MarkRootFailed \/ MarkRootCancelled
    BY <2>3, MarkRoot
  <2>4. CASE UNCHANGED root
    BY <1>0, <2>4
  <2> QED
    BY <1>2, <2>1, <2>2, <2>3, <2>4 DEF ProcessParserJob, CheckCancelled, ParserRefuses, GetJob,
         Prepare, Recheck, ReuseChild, ChildRefused, TakeLock, TestChild, PushChild, EnqueueFails, HandoverFails,
         DeleteRaw, WaitRead, WaitZrem
<1>3. CASE RequeueRoot
  <2>1. CASE root' = [root EXCEPT !.status = "queued", !.retry_count = @ + 1]
    <3> DEFINE n == root.retry_count + 1
    <3>1. n \in Nat
      <4>1. root.retry_count \in Nat
        BY <1>0 DEF RootRecord
      <4> QED
        BY <4>1
    <3>2. root' = [root EXCEPT !.status = "queued", !.retry_count = n] /\ "queued" \in RootStatuses
      BY <2>1, Names
    <3> HIDE DEF n
    <3>3. root' \in RootRecord
      BY <1>0, <3>1, <3>2, RootTyped
    <3>4. root'.status = "queued" /\ root'.child_job_id = root.child_job_id
      BY <1>0, <3>2, RootFields
    <3> QED
      BY <1>0, <3>3, <3>4 DEF Backed
  <2> QED
    BY <1>3, <2>1, MarkRoot DEF RequeueRoot
<1>4. CASE MirrorSave
  BY <1>0, <1>4 DEF MirrorSave
<1>5. CASE CancelBranch
  <2>1. CASE CancelFlag
    <3>1. root' = [cancel.root EXCEPT !.cancel_requested = TRUE]
      BY <2>1 DEF CancelFlag
    <3> DEFINE r == cancel.root
    <3>2. root' = [r EXCEPT !.cancel_requested = TRUE] /\ r \in RootRecord /\ Backed(r, enqueues, answered)
      BY <1>0, <3>1
    <3> HIDE DEF r
    <3>3. root' \in RootRecord /\ root'.status = r.status /\ root'.child_job_id = r.child_job_id
      BY <3>2, RootTyped, RootFields
    <3> QED
      BY <3>2, <3>3 DEF Backed
  <2> QED
    BY <1>0, <1>5, <2>1, MarkRoot DEF CancelBranch, CancelQueuedRoot, CancelChild
<1>6. CASE UNCHANGED root
  BY <1>0, <1>6
<1> QED
  BY <1>1, <1>2, <1>3, <1>4, <1>5, <1>6 DEF Next, vars, ParserStops, ForgetRoot, KidRuns, KidEnds,
       Mirror, MirrorRead, MirrorEvent, CancelRead, ChildWorkerStops, LockLapses

\* The copy a parser coroutine keeps is the record it read, that record linked to
\* the child it waits for, or none.
LEMMA SnapStep ==
    ASSUME Inv, [Next]_vars
    PROVE  /\ snap' \in [Attempts -> RootRecord]
           /\ \A a \in Attempts : Backed(snap'[a], enqueues', answered')
<1>0. /\ TypeOK /\ KidMoves /\ snap \in [Attempts -> RootRecord]
      /\ root \in RootRecord /\ Backed(root, enqueues, answered)
      /\ \A a \in Attempts : Backed(snap[a], enqueues, answered)
  BY KidStep DEF Inv, TypeOK, CopiesBacked
<1>1. ASSUME NEW a \in Attempts, NEW r \in RootRecord, Backed(r, enqueues, answered), Keep(a, r)
      PROVE  /\ snap' \in [Attempts -> RootRecord]
             /\ \A b \in Attempts : Backed(snap'[b], enqueues, answered)
  <2>1. snap' = [snap EXCEPT ![a] = r]
    BY <1>1 DEF Keep
  <2>2. snap' \in [Attempts -> RootRecord]
    BY <1>0, <2>1
  <2>3. \A b \in Attempts : snap'[b] = r \/ snap'[b] = snap[b]
    BY <1>0, <2>1
  <2> QED
    BY <1>0, <1>1, <2>2, <2>3
<1>2. ASSUME NEW a \in Attempts, Drop(a)
      PROVE  /\ snap' \in [Attempts -> RootRecord]
             /\ \A b \in Attempts : Backed(snap'[b], enqueues, answered)
  BY <1>1, <1>2, NewRootBacked, RootTyped DEF Drop
<1>3. CASE UNCHANGED snap
  BY <1>0, <1>3, BackedStays
<1>4. CASE \E a \in Attempts : Drop(a)
  BY <1>0, <1>2, <1>4, BackedStays
<1>5. CASE \E a \in Attempts : GetJob(a)
  <2>1. \A b \in Attempts : Backed(snap'[b], enqueues, answered)
    BY <1>0, <1>1, <1>5 DEF GetJob
  <2> QED
    BY <1>0, <1>1, <1>5, <2>1, BackedStays DEF GetJob
<1>6. ASSUME NEW a \in Attempts, WaitRead(a)
      PROVE  /\ snap' \in [Attempts -> RootRecord]
             /\ \A b \in Attempts : Backed(snap'[b], enqueues', answered')
  <2> DEFINE r == [root EXCEPT !.child_job_id = TRUE]
  <2>1. r \in RootRecord /\ r.status = root.status
    BY <1>0, RootTyped, RootFields
  <2>2. Keep(a, r) /\ enqueues > 0
    BY <1>6 DEF WaitRead, Inv, HandedOver, Behind
  <2> HIDE DEF r
  <2>3. Backed(r, enqueues, answered)
    BY <1>0, <2>1, <2>2 DEF Backed
  <2> QED
    BY <1>0, <1>1, <2>1, <2>2, <2>3, BackedStays
<1> QED
  BY <1>3, <1>4, <1>5, <1>6 DEF Next, vars, ClaimRoot, ProcessParserJob, CheckCancelled,
       ParserRefuses, LinkedChild, Prepare, SavePrepared, Recheck, ReuseChild, ChildRefused,
       TakeLock, TestChild, PushChild, EnqueueFails, LinkChild, HandoverFails, DeleteRaw, WaitSave, WaitZrem, Return,
       ParserStops, RequeueRoot, ForgetRoot, KidRuns, KidEnds, Mirror, MirrorRead, MirrorSave,
       MirrorEvent, CancelRead, CancelBranch, ChildWorkerStops, LockLapses

\* A completed end is on its way to the root only when an execution completed, and
\* the record to be saved has the status of that end.
LEMMA MirrorStep ==
    ASSUME Inv, [Next]_vars
    PROVE  /\ mirror' \in [at : {"idle", "read", "save", "event"}, end : Terminal, root : RootRecord]
           /\ mirror'.at = "read" => enqueues' > 0 /\ (mirror'.end = "completed" => answered')
           /\ Backed(mirror'.root, enqueues', answered')
<1> DEFINE M == [at : {"idle", "read", "save", "event"}, end : Terminal, root : RootRecord]
           Goal == /\ mirror' \in M
                   /\ mirror'.at = "read" => enqueues' > 0 /\ (mirror'.end = "completed" => answered')
                   /\ Backed(mirror'.root, enqueues', answered')
<1> SUFFICES Goal
  OBVIOUS
<1>0. /\ TypeOK /\ KidMoves /\ mirror \in M /\ mirror.root \in RootRecord
      /\ Backed(mirror.root, enqueues, answered)
      /\ mirror.at = "read" => enqueues > 0 /\ (mirror.end = "completed" => answered)
      /\ root \in RootRecord /\ Backed(root, enqueues, answered)
      /\ (answered => answered') /\ (enqueues > 0 => enqueues' > 0)
  <2>1. TypeOK /\ KidMoves
    BY KidStep DEF Inv
  <2>2. (answered => answered') /\ (enqueues > 0 => enqueues' > 0)
    BY <2>1 DEF KidMoves, TypeOK
  <2> QED
    BY <2>1, <2>2 DEF Inv, TypeOK, CopiesBacked, HandedOver
<1>1. CASE UNCHANGED mirror
  BY <1>0, <1>1, BackedStays
<1>2. ASSUME NEW s \in Terminal, EndKid(s), enqueues > 0 PROVE Goal
  <2>1. mirror' = [mirror EXCEPT !.at = "read", !.end = s] /\ (s = "completed" => answered')
    BY <1>2 DEF EndKid
  <2>2. mirror' \in M /\ mirror'.root = mirror.root /\ mirror'.end = s
    BY <1>0, <2>1
  <2> QED
    BY <1>0, <1>2, <2>1, <2>2, BackedStays
<1>3. CASE mirror' = Unmirrored \/ mirror' = [Unmirrored EXCEPT !.at = "event"]
  <2>1. NewRoot \in RootRecord
    BY RootTyped
  <2>2. mirror' \in M /\ mirror'.root = NewRoot /\ mirror'.at \in {"idle", "event"}
    BY <1>3, <2>1, Names DEF Unmirrored
  <2> QED
    BY <2>2, NewRootBacked
<1>4. CASE MirrorRead
  <2>1. CASE mirror' = Unmirrored
    BY <1>3, <2>1
  <2>2. CASE Mirrored(mirror.end)
    <3> DEFINE s == mirror.end
               r == [root EXCEPT !.status = s, !.child_job_id = TRUE]
    <3>1. mirror' = [mirror EXCEPT !.at = "save", !.root = r] /\ s \in Terminal /\ mirror.at = "read"
      BY <1>0, <1>4, <2>2 DEF MirrorRead, Mirrored
    <3>2. UNCHANGED <<enqueues, answered>>
      BY <1>4 DEF MirrorRead, history
    <3>3. s = "completed" => answered
      BY <1>0, <3>1
    <3>4. enqueues > 0
      BY <1>0, <3>1
    <3>5. r \in RootRecord /\ r.status = s
      <4> HIDE DEF s
      <4>1. s \in RootStatuses
        BY <3>1, Names
      <4> QED
        BY <1>0, <4>1, RootTyped, RootFields
    <3> HIDE DEF r, s
    <3>6. mirror' \in M /\ mirror'.root = r /\ mirror'.at = "save"
      BY <1>0, <3>1, <3>5
    <3>7. Backed(r, enqueues, answered)
      BY <3>3, <3>4, <3>5 DEF Backed
    <3> QED
      BY <3>2, <3>6, <3>7
  <2> QED
    BY <1>4, <2>1, <2>2 DEF MirrorRead
<1>5. CASE KidEnds
  <2>1. enqueues > 0
    BY <1>5 DEF KidEnds, Inv, HandedOver, TypeOK
  <2> QED
    BY <1>2, <1>5, <2>1, Names DEF KidEnds
<1>6. CASE CancelBranch
  <2>1. CASE kid.status = "queued" /\ EndKid("cancelled")
    <3>1. enqueues > 0
      BY <2>1 DEF Inv, HandedOver, TypeOK
    <3> QED
      BY <1>2, <2>1, <3>1, Names
  <2> QED
    BY <1>1, <1>6, <2>1 DEF CancelBranch, CancelQueuedRoot, CancelChild, CancelFlag
<1>7. CASE MirrorSave \/ MirrorEvent \/ ChildWorkerStops
  BY <1>3, <1>7 DEF MirrorSave, MirrorEvent, ChildWorkerStops
<1>8. CASE UNCHANGED vars
  BY <1>1, <1>8 DEF vars
<1> HIDE DEF M, Goal
<1> QED
  BY <1>1, <1>4, <1>5, <1>6, <1>7, <1>8 DEF Next, ClaimRoot, ProcessParserJob, CheckCancelled,
       ParserRefuses, GetJob, LinkedChild, Prepare, SavePrepared, Recheck, ReuseChild, ChildRefused,
       TakeLock, TestChild, PushChild, EnqueueFails, LinkChild, HandoverFails, DeleteRaw, WaitRead,
       WaitSave, WaitZrem, ParserStops, RequeueRoot, ForgetRoot, KidRuns, Mirror, CancelRead, LockLapses

\* The cancel request holds the record it read, or none.
LEMMA CancelStep ==
    ASSUME Inv, [Next]_vars
    PROVE  /\ cancel' \in [at : {"idle", "branch", "over"}, root : RootRecord]
           /\ Backed(cancel'.root, enqueues', answered')
<1> DEFINE C == [at : {"idle", "branch", "over"}, root : RootRecord]
<1>0. /\ TypeOK /\ KidMoves /\ cancel \in C /\ Backed(cancel.root, enqueues, answered)
      /\ root \in RootRecord /\ Backed(root, enqueues, answered)
  BY KidStep DEF Inv, TypeOK, CopiesBacked
<1>1. CASE CancelRead
  <2>1. CASE cancel' = [cancel EXCEPT !.at = "over"]
    <3>1. cancel' \in C /\ cancel'.root = cancel.root
      BY <1>0, <2>1
    <3> QED
      BY <1>0, <3>1, BackedStays
  <2>2. CASE cancel' = [at |-> "branch", root |-> root]
    <3>1. cancel' \in C /\ cancel'.root = root
      BY <1>0, <2>2
    <3> QED
      BY <1>0, <3>1, BackedStays
  <2> QED
    BY <1>1, <2>1, <2>2 DEF CancelRead
<1>2. CASE CancelBranch
  <2>1. NewRoot \in RootRecord
    BY RootTyped
  <2>2. cancel' \in C /\ cancel'.root = NewRoot
    BY <1>2, <2>1 DEF CancelBranch
  <2> QED
    BY <2>2, NewRootBacked
<1>3. CASE UNCHANGED cancel
  <2>1. cancel'.root = cancel.root
    BY <1>3
  <2> QED
    BY <1>0, <1>3, <2>1, BackedStays
<1> HIDE DEF C
<1> QED
  BY <1>1, <1>2, <1>3 DEF C, Next, vars, ClaimRoot, ProcessParserJob, CheckCancelled,
       ParserRefuses, GetJob, LinkedChild, Prepare, SavePrepared, Recheck, ReuseChild, ChildRefused,
       TakeLock, TestChild, PushChild, EnqueueFails, LinkChild, HandoverFails, DeleteRaw, WaitRead, WaitSave, WaitZrem,
       ParserStops, RequeueRoot, ForgetRoot, KidRuns, KidEnds, Mirror, MirrorRead, MirrorSave,
       MirrorEvent, ChildWorkerStops, LockLapses

\* A parser coroutine passes the push of the child only when the child exists.
LEMMA PcStep ==
    ASSUME Inv, [Next]_vars
    PROVE  /\ pc' \in [Attempts -> Labels]
           /\ \A a \in Attempts : pc'[a] \in Behind => enqueues' > 0
<1>0. /\ KidMoves /\ pc \in [Attempts -> Labels] /\ enqueues \in Nat
      /\ \A a \in Attempts : pc[a] \in Behind => enqueues > 0
      /\ root.child_job_id => enqueues > 0
      /\ enqueues > 0 => enqueues' > 0
      /\ kid.status # "absent" => enqueues > 0
  <2>1. KidMoves
    BY KidStep DEF Inv
  <2>2. enqueues > 0 => enqueues' > 0
    BY <2>1 DEF KidMoves, Inv, TypeOK
  <2> QED
    BY <2>1, <2>2 DEF Inv, TypeOK, CopiesBacked, HandedOver, Backed
<1>1. ASSUME NEW a \in Attempts, NEW l \in Labels, Goto(a, l),
             l \in Behind => enqueues' > 0
      PROVE  /\ pc' \in [Attempts -> Labels]
             /\ \A b \in Attempts : pc'[b] \in Behind => enqueues' > 0
  <2>1. \A b \in Attempts : pc'[b] = l \/ pc'[b] = pc[b]
    BY <1>0, <1>1 DEF Goto
  <2>2. pc' \in [Attempts -> Labels]
    BY <1>0, <1>1 DEF Goto
  <2> QED
    BY <1>0, <1>1, <2>1, <2>2
<1>2. \A a \in Attempts, l \in Labels \ Behind : Goto(a, l) =>
             /\ pc' \in [Attempts -> Labels]
             /\ \A b \in Attempts : pc'[b] \in Behind => enqueues' > 0
  BY <1>1
<1>3. {"idle", "cancelled_before", "get_job", "linked", "prepare", "save_prepared", "recheck",
       "lock", "test", "push", "wait_save", "wait_zrem"} \subseteq Labels \ Behind
  BY DEF Behind, Labels
<1>4. Behind \subseteq Labels
  BY DEF Behind, Labels
<1>5. ASSUME NEW a \in Attempts, ClaimRoot(a) \/ ParserStops(a) \/ ProcessParserJob(a)
      PROVE  /\ pc' \in [Attempts -> Labels]
             /\ \A b \in Attempts : pc'[b] \in Behind => enqueues' > 0
  <2>1. CASE PushChild(a)
    <3>1. enqueues' > 0 /\ Goto(a, "link")
      BY <1>0, <2>1 DEF PushChild
    <3> QED
      BY <1>1, <1>4, <3>1 DEF Behind
  <2>2. CASE LinkChild(a) \/ ReuseChild(a)
    <3>1. enqueues > 0 /\ (Goto(a, "delete_raw") \/ Goto(a, "lock_lost"))
      BY <1>0, <2>2 DEF LinkChild, ReuseChild, Behind
    <3> QED
      BY <1>0, <1>1, <1>4, <3>1 DEF Behind
  <2>2a. CASE TestChild(a)
    <3>1. CASE kid.status = "absent"
      BY <1>2, <1>3, <2>2a, <3>1 DEF TestChild
    <3>2. CASE kid.status # "absent"
      <4>1. Goto(a, "link") /\ enqueues > 0
        BY <1>0, <2>2a, <3>2 DEF TestChild
      <4> QED
        BY <1>0, <1>1, <1>4, <4>1 DEF Behind
    <3> QED
      BY <3>1, <3>2
  <2>3. CASE DeleteRaw(a)
    <3>1. enqueues > 0 /\ Goto(a, "wait_read")
      BY <1>0, <2>3 DEF DeleteRaw, Behind
    <3> QED
      BY <1>0, <1>1, <1>4, <3>1 DEF Behind
  <2>4. CASE LinkedChild(a)
    <3>1. CASE kid.status = "absent"
      BY <1>2, <1>3, <2>4, <3>1 DEF LinkedChild
    <3>2. CASE kid.status # "absent"
      <4>1. Goto(a, "adopt") /\ enqueues > 0
        BY <1>0, <2>4, <3>2 DEF LinkedChild
      <4> QED
        BY <1>0, <1>1, <1>4, <4>1 DEF Behind
    <3> QED
      BY <3>1, <3>2
  <2>5. CASE \E l \in Labels \ Behind : Goto(a, l)
    BY <1>2, <2>5
  <2> QED
    BY <1>3, <1>5, <2>1, <2>2, <2>2a, <2>3, <2>4, <2>5 DEF ClaimRoot, ProcessParserJob,
         CheckCancelled, ParserRefuses, GetJob, Prepare, SavePrepared, Recheck, ChildRefused,
         TakeLock, EnqueueFails,
         HandoverFails, WaitRead, WaitSave, WaitZrem, Return, ParserStops
<1>6. CASE UNCHANGED pc
  BY <1>0, <1>6
<1> QED
  BY <1>5, <1>6 DEF Next, vars, RequeueRoot, ForgetRoot, KidRuns, KidEnds, Mirror, MirrorRead,
       MirrorSave, MirrorEvent, CancelRead, CancelBranch, ChildWorkerStops, LockLapses

\* The raw files, the flags, the lock and the counters keep their types; the raw
\* files go behind the push of the child.
LEMMA RestStep ==
    ASSUME Inv, [Next]_vars
    PROVE  /\ active' \in BOOLEAN /\ raw' \in BOOLEAN /\ done' \in BOOLEAN /\ stalled' \in BOOLEAN
           /\ lock' \in Attempts \cup {None}
           /\ stops' \in [parser : Nat, child : Nat] /\ lapses' \in Nat
           /\ ~raw' => ~raw \/ enqueues > 0
<1>0. /\ active \in BOOLEAN /\ raw \in BOOLEAN /\ done \in BOOLEAN /\ stalled \in BOOLEAN
      /\ lock \in Attempts \cup {None}
      /\ stops \in [parser : Nat, child : Nat] /\ lapses \in Nat
      /\ \A a \in Attempts : pc[a] \in Behind => enqueues > 0
  BY DEF Inv, TypeOK, HandedOver
<1>1. ASSUME NEW a \in Attempts, ClaimRoot(a)
      PROVE  active' \in BOOLEAN /\ UNCHANGED <<raw, done, lock, stops, stalled, lapses>>
  BY <1>0, <1>1 DEF ClaimRoot, history
<1>2. ASSUME NEW a \in Attempts, ProcessParserJob(a)
      PROVE  /\ active' \in BOOLEAN /\ raw' \in BOOLEAN /\ done' \in BOOLEAN
             /\ lock' \in Attempts \cup {None} /\ UNCHANGED <<stops, stalled, lapses>>
             /\ ~raw' => ~raw \/ enqueues > 0
  BY <1>0, <1>2 DEF ProcessParserJob, CheckCancelled, ParserRefuses, GetJob, LinkedChild, Prepare,
       SavePrepared, Recheck, ReuseChild, ChildRefused, TakeLock, TestChild, PushChild, EnqueueFails, LinkChild,
       HandoverFails, DeleteRaw, WaitRead, WaitSave, WaitZrem, MarkRootFailed, MarkRootCancelled,
       history, Behind, Unlock
<1>3. ASSUME NEW a \in Attempts, ParserStops(a)
      PROVE  /\ stops' \in [parser : Nat, child : Nat] /\ lock' \in Attempts \cup {None}
             /\ UNCHANGED <<active, raw, done, stalled, lapses>>
  BY <1>0, <1>3 DEF ParserStops, Unlock
<1>4. CASE RequeueRoot
  BY <1>0, <1>4 DEF RequeueRoot, MarkRootFailed
<1>5. CASE ChildWorkerStops \/ LockLapses
  BY <1>0, <1>5 DEF ChildWorkerStops, LockLapses
<1>6. CASE ForgetRoot \/ KidRuns \/ KidEnds \/ Mirror \/ CancelRead \/ CancelBranch \/ UNCHANGED vars
  BY <1>0, <1>6 DEF vars, ForgetRoot, KidRuns, KidEnds, Mirror, MirrorRead, MirrorSave,
       MirrorEvent, CancelRead, CancelBranch, CancelQueuedRoot, CancelChild, CancelFlag,
       MarkRootCancelled, history
<1> QED
  BY <1>0, <1>1, <1>2, <1>3, <1>4, <1>5, <1>6 DEF Next

-----------------------------------------------------------------------------
(* The job lock.                                                            *)

\* What a step does to the section of enqueue_child_job_once: a lapse makes its
\* holder a stranger, no other step does; a coroutine that finds no child comes to
\* the push, and a push takes one away.
LockMoves ==
    /\ lock' # None => lock' \in Inside'
    /\ \/ Strangers' \subseteq Strangers /\ lapses' = lapses
       \/ Strangers' \subseteq Strangers \cup {lock} /\ lapses' = lapses + 1
    /\ \/ Pushers' \subseteq Pushers /\ enqueues' = enqueues
       \/ enqueues = 0 /\ enqueues' = 0
       \/ \E a \in Pushers : Pushers' \subseteq Pushers \ {a} /\ enqueues' = enqueues + 1

\* The steps of the program, seen from the lock.
LEMMA LockStep == ASSUME Inv, [Next]_vars PROVE LockMoves
<1>0. /\ pc \in [Attempts -> Labels] /\ (lock # None => lock \in Inside) /\ None \notin Attempts
      /\ lock \in Attempts \cup {None}
      /\ enqueues = 0 <=> kid.status = "absent"
  BY ParserAssumption DEF Inv, TypeOK, Locked, HandedOver
<1> USE DEF LockMoves, Strangers, Inside, Pushers
<1>1. ASSUME NEW a \in Attempts, NEW l \in Labels, Goto(a, l)
      PROVE  pc'[a] = l /\ \A b \in Attempts : b # a => pc'[b] = pc[b]
  BY <1>0, <1>1 DEF Goto
<1>2. ASSUME NEW a \in Attempts, NEW l \in Labels, Goto(a, l), pc[a] \notin {"test", "push", "link"},
             l \notin {"test", "push", "link"}, lock' = lock \/ Unlock(a), UNCHANGED <<lapses, enqueues>>
      PROVE  LockMoves
  <2>1. lock' = lock
    BY <1>0, <1>2 DEF Unlock
  <2> QED
    BY <1>0, <1>1, <1>2, <2>1
<1>3. ASSUME NEW a \in Attempts, NEW l \in Labels, Goto(a, l), pc[a] \in {"test", "push", "link"},
             l \notin {"test", "push", "link"}, Unlock(a), UNCHANGED <<lapses, enqueues>>
      PROVE  LockMoves
  BY <1>0, <1>1, <1>3 DEF Unlock
<1>4. ASSUME NEW a \in Attempts, TakeLock(a) PROVE LockMoves
  <2>1. pc'[a] = "test" /\ \A b \in Attempts : b # a => pc'[b] = pc[b]
    BY <1>1, <1>4, Names DEF TakeLock
  <2> QED
    BY <1>0, <1>4, <2>1 DEF TakeLock, history
<1>5. ASSUME NEW a \in Attempts, TestChild(a) PROVE LockMoves
  <2>1. pc[a] = "test" /\ pc'[a] \in {"push", "link"} /\ \A b \in Attempts : b # a => pc'[b] = pc[b]
    BY <1>1, <1>5, Names DEF TestChild
  <2>2. UNCHANGED <<lock, lapses, enqueues>> /\ (pc'[a] = "push" => enqueues = 0)
    <3>1. CASE kid.status = "absent"
      BY <1>0, <1>5, <3>1 DEF TestChild, history
    <3>2. CASE kid.status # "absent"
      BY <1>1, <1>5, <3>2, Names DEF TestChild, history
    <3> QED
      BY <3>1, <3>2
  <2> QED
    BY <1>0, <2>1, <2>2
<1>6. ASSUME NEW a \in Attempts, PushChild(a) PROVE LockMoves
  <2>1. pc[a] = "push" /\ pc'[a] = "link" /\ \A b \in Attempts : b # a => pc'[b] = pc[b]
    BY <1>1, <1>6, Names DEF PushChild
  <2>2. UNCHANGED <<lock, lapses>> /\ enqueues' = enqueues + 1
    BY <1>6 DEF PushChild
  <2> QED
    BY <1>0, <2>1, <2>2
<1>7. ASSUME NEW a \in Attempts, EnqueueFails(a) \/ LinkChild(a) PROVE LockMoves
  <2>1. pc[a] \in {"test", "push", "link"} /\ Unlock(a) /\ UNCHANGED <<lapses, enqueues>>
    BY <1>7 DEF EnqueueFails, LinkChild, history
  <2>2. Goto(a, "idle") \/ Goto(a, "delete_raw") \/ Goto(a, "lock_lost")
    BY <1>7 DEF EnqueueFails, LinkChild, Return
  <2> QED
    BY <1>3, <2>1, <2>2, Names
<1>8. ASSUME NEW a \in Attempts, HandoverFails(a) \/ ParserStops(a) PROVE LockMoves
  <2>1. Goto(a, "idle") /\ Unlock(a) /\ UNCHANGED <<lapses, enqueues>>
    BY <1>8 DEF HandoverFails, ParserStops, Return, history
  <2> QED
    BY <1>2, <1>3, <2>1, Names
<1>9. ASSUME NEW a \in Attempts, ClaimRoot(a) \/ CheckCancelled(a) \/ ParserRefuses(a) \/ GetJob(a)
                  \/ LinkedChild(a) \/ Prepare(a) \/ SavePrepared(a) \/ Recheck(a) \/ ReuseChild(a)
                  \/ ChildRefused(a) \/ DeleteRaw(a) \/ WaitRead(a) \/ WaitSave(a) \/ WaitZrem(a)
      PROVE  LockMoves
  <2> DEFINE Outside == Labels \ {"test", "push", "link"}
  <2>1. {"idle", "cancelled_before", "get_job", "linked", "prepare", "save_prepared", "recheck", "lock",
         "delete_raw", "adopt", "wait_read", "wait_save", "wait_zrem"} \subseteq Outside
    BY DEF Labels
  <2>2. /\ UNCHANGED <<lock, lapses, enqueues>> /\ pc[a] \notin {"test", "push", "link"}
        /\ \E l \in Outside : Goto(a, l)
    BY <1>9, <2>1 DEF ClaimRoot, CheckCancelled, ParserRefuses, GetJob, LinkedChild, Prepare,
         SavePrepared, Recheck, ReuseChild, ChildRefused, DeleteRaw, WaitRead, WaitSave, WaitZrem,
         Return, history
  <2> QED
    BY <1>2, <2>2
<1>10. CASE LockLapses
  BY <1>0, <1>10 DEF LockLapses
<1>11. CASE RequeueRoot \/ ForgetRoot \/ KidRuns \/ KidEnds \/ Mirror \/ CancelRead \/ CancelBranch
            \/ ChildWorkerStops \/ UNCHANGED vars
  <2>1. UNCHANGED <<pc, lock, lapses, enqueues>>
    BY <1>11 DEF RequeueRoot, ForgetRoot, KidRuns, KidEnds, Mirror, MirrorRead, MirrorSave,
         MirrorEvent, CancelRead, CancelBranch, ChildWorkerStops, vars, history
  <2> QED
    BY <1>0, <2>1
<1> HIDE DEF LockMoves
<1> QED
  BY <1>4, <1>5, <1>6, <1>7, <1>8, <1>9, <1>10, <1>11 DEF Next, ProcessParserJob

\* Removing and adding one element of a finite set.
LEMMA SubsetCount ==
    ASSUME NEW S, NEW T, IsFiniteSet(T), S \subseteq T
    PROVE  /\ IsFiniteSet(S) /\ Cardinality(S) \in Nat /\ Cardinality(T) \in Nat
           /\ Cardinality(S) <= Cardinality(T)
BY FS_Subset, FS_CardinalityType

LEMMA ExtendedCount ==
    ASSUME NEW S, NEW T, NEW x, IsFiniteSet(T), S \subseteq T \cup {x}
    PROVE  /\ IsFiniteSet(S) /\ Cardinality(S) \in Nat /\ Cardinality(T) \in Nat
           /\ Cardinality(S) <= Cardinality(T) + 1
<1>1. /\ IsFiniteSet(T \cup {x}) /\ Cardinality(T) \in Nat
      /\ Cardinality(T \cup {x}) = Cardinality(T) \/ Cardinality(T \cup {x}) = Cardinality(T) + 1
  BY FS_AddElement, FS_CardinalityType
<1>2. /\ IsFiniteSet(S) /\ Cardinality(S) \in Nat
      /\ Cardinality(S) <= Cardinality(T \cup {x})
  BY <1>1, SubsetCount
<1> QED
  BY <1>1, <1>2

\* Each lapse of the lock lets at most one more coroutine push.
LEMMA LockedStays == ASSUME Inv, [Next]_vars PROVE Locked'
<1>0. /\ LockMoves /\ Locked /\ enqueues \in Nat /\ lapses \in Nat
  BY LockStep DEF Inv, TypeOK
<1>1. IsFiniteSet(Strangers') /\ Cardinality(Strangers') \in Nat /\ Cardinality(Strangers') <= lapses'
  <2>0. IsFiniteSet(Strangers) /\ Cardinality(Strangers) \in Nat /\ Cardinality(Strangers) <= lapses
    BY <1>0, FS_CardinalityType DEF Locked
  <2>1. CASE Strangers' \subseteq Strangers /\ lapses' = lapses
    BY <1>0, <2>0, <2>1, SubsetCount
  <2>2. CASE Strangers' \subseteq Strangers \cup {lock} /\ lapses' = lapses + 1
    <3>1. /\ IsFiniteSet(Strangers') /\ Cardinality(Strangers') \in Nat
          /\ Cardinality(Strangers') <= Cardinality(Strangers) + 1
      BY <2>0, <2>2, ExtendedCount
    <3> QED
      BY <1>0, <2>0, <2>2, <3>1
  <2> QED
    BY <1>0, <2>1, <2>2 DEF LockMoves
<1>2. lapses' \in Nat /\ lapses <= lapses'
  BY <1>0 DEF LockMoves
<1>3. IsFiniteSet(Pushers') /\ enqueues' + Cardinality(Pushers') <= 1 + lapses'
  <2>0. /\ IsFiniteSet(Pushers) /\ Cardinality(Pushers) \in Nat
        /\ enqueues + Cardinality(Pushers) <= 1 + lapses
    BY <1>0, FS_CardinalityType DEF Locked
  <2>1. CASE Pushers' \subseteq Pushers /\ enqueues' = enqueues
    <3>1. IsFiniteSet(Pushers') /\ Cardinality(Pushers') \in Nat /\ Cardinality(Pushers') <= Cardinality(Pushers)
      BY <2>0, <2>1, SubsetCount
    <3> QED
      BY <1>0, <1>2, <2>0, <2>1, <3>1
  <2>2. CASE enqueues' = 0
    <3>1. Pushers' \subseteq Strangers' \cup {lock'}
      BY DEF Pushers, Strangers, Inside
    <3>2. /\ IsFiniteSet(Pushers') /\ Cardinality(Pushers') \in Nat
          /\ Cardinality(Pushers') <= Cardinality(Strangers') + 1
      BY <1>1, <3>1, ExtendedCount
    <3> QED
      BY <1>1, <1>2, <2>2, <3>2
  <2>3. ASSUME NEW a \in Pushers, Pushers' \subseteq Pushers \ {a}, enqueues' = enqueues + 1
        PROVE  IsFiniteSet(Pushers') /\ enqueues' + Cardinality(Pushers') <= 1 + lapses'
    <3>1. IsFiniteSet(Pushers \ {a}) /\ Cardinality(Pushers \ {a}) = Cardinality(Pushers) - 1
      BY <2>0, FS_RemoveElement
    <3>2. /\ IsFiniteSet(Pushers') /\ Cardinality(Pushers') \in Nat
          /\ Cardinality(Pushers') <= Cardinality(Pushers \ {a})
      BY <2>3, <3>1, SubsetCount
    <3> QED
      BY <1>0, <1>2, <2>0, <2>3, <3>1, <3>2
  <2> QED
    BY <1>0, <2>1, <2>2, <2>3 DEF LockMoves
<1> QED
  BY <1>0, <1>1, <1>3 DEF Locked, LockMoves

-----------------------------------------------------------------------------
(* The theorems.                                                            *)

\* The initial state satisfies the inductive invariant.
LEMMA InvInit == Init => Inv
<1> SUFFICES ASSUME Init PROVE Inv
  OBVIOUS
<1>1. NewRoot \in RootRecord /\ \A n, d : Backed(NewRoot, n, d)
  BY RootTyped, NewRootBacked
<1>2. kid \in KidRecord /\ kid.status = "absent"
  BY DEF Init, KidRecord
<1>3. /\ mirror \in [at : {"idle", "read", "save", "event"}, end : Terminal, root : RootRecord]
      /\ mirror.at = "idle" /\ mirror.root = NewRoot
  BY <1>1, Names DEF Init, Unmirrored
<1>4. /\ cancel \in [at : {"idle", "branch", "over"}, root : RootRecord]
      /\ cancel.root = NewRoot
  BY <1>1 DEF Init
<1>5. pc \in [Attempts -> Labels] /\ snap \in [Attempts -> RootRecord] /\ lock \in Attempts \cup {None}
  BY <1>1, Names DEF Init
<1>6. /\ stops \in [parser : Nat, child : Nat]
      /\ enqueues = 0 /\ enqueues \in Nat /\ executions = 0 /\ executions \in Nat
      /\ lapses = 0 /\ lapses \in Nat /\ answered \in BOOLEAN
  BY DEF Init
<1>7. TypeOK
  BY <1>1, <1>2, <1>3, <1>4, <1>5, <1>6 DEF Init, TypeOK
<1>8. HandedOver
  BY <1>2, <1>3, <1>6 DEF Init, HandedOver, Behind
<1>9. CopiesBacked
  BY <1>1, <1>3, <1>4 DEF Init, CopiesBacked
<1>10. Locked
  <2>1. Strangers = {} /\ Pushers = {} /\ lock = None
    BY DEF Init, Strangers, Inside, Pushers
  <2> QED
    BY <1>6, <2>1, FS_EmptySet DEF Locked
<1> QED
  BY <1>7, <1>8, <1>9, <1>10 DEF Inv

\* Every step keeps the inductive invariant.
LEMMA InvStep == Inv /\ [Next]_vars => Inv'
<1> SUFFICES ASSUME Inv, [Next]_vars PROVE Inv'
  OBVIOUS
<1>1. /\ KidMoves /\ kid' \in KidRecord /\ enqueues' \in Nat /\ executions' \in Nat
      /\ answered' \in BOOLEAN
  BY KidStep DEF Inv
<1>2. TypeOK'
  BY <1>1, RootStep, SnapStep, MirrorStep, CancelStep, PcStep, RestStep DEF TypeOK
<1>3. CopiesBacked'
  BY RootStep, SnapStep, MirrorStep, CancelStep DEF CopiesBacked
<1>4. HandedOver'
  <2>0. /\ enqueues \in Nat /\ executions \in Nat /\ (enqueues = 0 <=> kid.status = "absent")
        /\ enqueues <= 1 => executions = IF kid.status = "running" THEN 1 ELSE 0
    BY DEF Inv, TypeOK, HandedOver
  <2>1. enqueues' = 0 <=> kid'.status = "absent"
    BY <1>1, <2>0, Names DEF KidMoves, NewKid
  <2>2. enqueues' <= 1 => executions' = IF kid'.status = "running" THEN 1 ELSE 0
    BY <1>1, <2>0, Names DEF KidMoves, NewKid
  <2>3. ~raw' => enqueues' > 0
    <3>1. ~raw => enqueues > 0
      BY DEF Inv, HandedOver
    <3>2. enqueues > 0 => enqueues' > 0
      BY <1>1, <2>0 DEF KidMoves
    <3> QED
      BY <3>1, <3>2, RestStep
  <2> QED
    BY <2>1, <2>2, <2>3, MirrorStep, PcStep DEF HandedOver
<1> QED
  BY <1>2, <1>3, <1>4, LockedStays DEF Inv

\* The inductive invariant holds throughout.
LEMMA Invariance == Spec => []Inv
BY InvInit, InvStep, PTL DEF Spec

\* Root, child and every copy of the root held across an await keep their fields;
\* in particular no status but a terminal one of the child is mirrored.
THEOREM TypeCorrect == Spec => []TypeOK
<1>1. Inv => TypeOK
  BY DEF Inv
<1> QED
  BY <1>1, Invariance, PTL

\* enqueue_child_job_once pushes one child for a root and at most one more for each
\* lapse of the job lock, for any number of parser coroutines that work on it at
\* once, replays, stops and cancels.
THEOREM OneChildPushed == Spec => []OneChild
<1>1. Inv => OneChild
  <2> SUFFICES ASSUME Inv PROVE OneChild
    OBVIOUS
  <2>1. /\ enqueues \in Nat /\ lapses \in Nat /\ Cardinality(Pushers) \in Nat
        /\ enqueues + Cardinality(Pushers) <= 1 + lapses
    BY FS_CardinalityType DEF Inv, TypeOK, Locked
  <2> QED
    BY <2>1 DEF OneChild
<1> QED
  BY <1>1, Invariance, PTL

\* delete_staged_raw_files runs only behind the push of the child, so that a
\* replay which still has to parse finds the raw files.
THEOREM RawKept == Spec => []RawKeptForReplay
<1>1. Inv => RawKeptForReplay
  BY DEF Inv, HandedOver, RawKeptForReplay
<1> QED
  BY <1>1, Invariance, PTL

\* No stale save of the root, replay or cancel makes a root completed whose child
\* did not complete.
THEOREM CompletedOnlyByChild == Spec => []CompletedByChild
<1>1. Inv => CompletedByChild
  BY DEF Inv, CopiesBacked, Backed, CompletedByChild
<1> QED
  BY <1>1, Invariance, PTL

\* The child's end is final as long as the lock has not lapsed: no step takes the
\* child out of a terminal status, and none makes it disappear.
KidEndIsFinal == [][kid.status \in Terminal /\ lapses = 0 => kid' = kid]_vars

\* mark_job_* reach the child once, whoever calls them: its worker, the reaper or
\* the cancel of the root; only a second push, after a lapse of the lock, starts it
\* over.
THEOREM KidEndStays == Spec => KidEndIsFinal
<1>1. Inv /\ [Next]_vars => [kid.status \in Terminal /\ lapses = 0 => kid' = kid]_vars
  <2> SUFFICES ASSUME Inv, [Next]_vars, kid.status \in Terminal, lapses = 0 PROVE kid' = kid
    OBVIOUS
  <2>1. KidMoves
    BY KidStep DEF Inv
  <2>2. /\ enqueues \in Nat /\ executions \in Nat /\ Cardinality(Pushers) \in Nat
        /\ IsFiniteSet(Pushers) /\ enqueues + Cardinality(Pushers) <= 1
        /\ enqueues # 0
    BY FS_CardinalityType, Names DEF Inv, TypeOK, Locked, HandedOver
  <2>3. Pushers = {}
    <3>1. Cardinality(Pushers) = 0
      BY <2>2
    <3> QED
      BY <2>2, <3>1, FS_EmptySet
  <2>4. executions = 0
    <3>1. enqueues <= 1
      BY <2>2
    <3> QED
      BY <3>1, Names DEF Inv, HandedOver
  <2> QED
    BY <2>1, <2>3, <2>4, Names DEF KidMoves, Pushers
<1> QED
  BY <1>1, Invariance, PTL DEF Spec, KidEndIsFinal
=============================================================================
