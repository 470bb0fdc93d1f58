--------------------------- MODULE RequestProofs ---------------------------
(***************************************************************************)
(* Proofs about the preparation of a request: the model it runs on, for    *)
(* any models, categories, groups, policies, registries and changes, and   *)
(* the text it sends, for any history, question, documents and limits.     *)
(***************************************************************************)
EXTENDS ModelAccess, Budgets, SequenceTheorems, WellFoundedInduction, TLAPS

Ops == {"none", "login", "models", "switch", "chat"}

\* The handler in flight has the groups of the tokens it was sent with, and the
\* tokens of the browser still carry them; a login brings its own.
HandlerInOrder ==
    /\ handler = [op |-> handler.op, asked |-> handler.asked, groups |-> handler.groups,
                  seen |-> handler.seen, live |-> handler.live]
    /\ handler.op \in Ops
    /\ handler.op \in {"models", "switch", "chat"} =>
          session # None /\ handler.groups = session.groups
SessionIsRecord == session = None \/ session = [groups |-> session.groups, model |-> session.model]
AccessInv == HandlerInOrder /\ SessionIsRecord

\* The inductive invariant holds throughout.
LEMMA AccessInvHolds == AccessSpec => []AccessInv
<1> USE DEF AccessInv, HandlerInOrder, SessionIsRecord, Ops
<1>1. AccessInit => AccessInv
  BY DEF AccessInit, Idle
<1>2. AccessInv /\ [AccessNext]_accessVars => AccessInv'
  <2> SUFFICES ASSUME AccessInv, [AccessNext]_accessVars PROVE AccessInv'
    OBVIOUS
  <2>1. ASSUME NEW op \in Ops \ {"none"}, NEW asked, Begin(op, asked) PROVE AccessInv'
    BY <2>1 DEF Begin, Idle
  <2>2. CASE Requests
    BY <2>1, <2>2 DEF Requests
  <2>3. CASE AppStore
    BY <2>3 DEF AppStore
  <2>4. CASE Login
    BY <2>4 DEF Login, Answer, Idle
  <2>5. CASE SwitchModel
    BY <2>5 DEF SwitchModel, Answer, Idle
  <2>6. CASE ListModels \/ Chat
    BY <2>6 DEF ListModels, Chat, Answer, Idle
  <2>7. CASE UNCHANGED <<handler, session>>
    BY <2>7
  <2>8. WorkerFetch \/ WorkerStore \/ CatalogExpires \/ OllamaChanges \/ FilesChange
            \/ DirectoryChanges \/ UNCHANGED accessVars
        => UNCHANGED <<handler, session>>
    BY DEF WorkerFetch, WorkerStore, CatalogExpires, OllamaChanges, FilesChange,
           DirectoryChanges, accessVars
  <2> QED
    BY <2>2, <2>3, <2>4, <2>5, <2>6, <2>7, <2>8 DEF AccessNext, Handlers
<1> QED
  BY <1>1, <1>2, PTL DEF AccessSpec

\* get_allowed_models_for_user, for a user who is not the validation user: every
\* model has an active category that is general or that a group opens.
LEMMA AllowedIsOpen ==
    ASSUME ~validation, NEW groups, NEW models, NEW m \in Allowed(groups, models)
    PROVE  \E t \in TiersOf(m) \cap Active : t = "general" \/ Opens[t] \cap groups # {}
<1>1. Active # {}
  BY DEF Allowed
<1>2. CASE Registered = {}
  <2>1. PICK t \in AllowedTiers(groups) : m \in policy[t]
    BY <1>1, <1>2 DEF Allowed
  <2> QED
    BY <1>2, <2>1 DEF AllowedTiers, TiersOf, Active
<1>3. CASE Registered # {}
  <2>1. m \in Registered /\ registry[m].tier \in AllowedTiers(groups)
    BY <1>1, <1>3 DEF Allowed
  <2> QED
    BY <1>3, <2>1 DEF AllowedTiers, TiersOf, Active, Registered
<1> QED
  BY <1>2, <1>3

\* The validation user, while there is a registry: only models marked for it.
LEMMA AllowedIsMarked ==
    ASSUME validation, Registered # {}, NEW groups, NEW models, NEW m \in Allowed(groups, models)
    PROVE  m \in Registered /\ registry[m].validation
BY DEF Allowed

\* Whatever the files, the directory, Ollama and the two writers of the catalogue
\* do between login, switch and chat, resolve_model gives a job no model that the
\* groups in the tokens do not open.
THEOREM JobsStayWithinGroups == AccessSpec => WithinGroups
<1> DEFINE Within ==
        /\ job' # None /\ ~validation =>
              \E t \in TiersOf(job') \cap Active :
                  t = "general" \/ Opens[t] \cap session.groups # {}
        /\ job' # None /\ validation /\ Registered # {} =>
              job' \in Registered /\ registry[job'].validation
<1>1. AccessInv /\ [AccessNext]_accessVars => [Within]_job
  <2> SUFFICES ASSUME AccessInv, AccessNext, job' # job, job' # None PROVE Within
    BY DEF accessVars
  <2>1. Chat
    BY DEF AccessNext, Requests, Begin, Handlers, AppStore, Login, SwitchModel, ListModels,
           WorkerFetch, WorkerStore, CatalogExpires, OllamaChanges, FilesChange, DirectoryChanges
  <2>2. handler.groups = session.groups
    BY <2>1 DEF AccessInv, HandlerInOrder, Chat, Answer
  <2>3. job' \in Allowed(session.groups, handler.seen)
    BY <2>1, <2>2 DEF Chat, Resolve
  <2> QED
    BY <2>3, AllowedIsOpen, AllowedIsMarked
<1> QED
  BY <1>1, AccessInvHolds, PTL DEF AccessSpec, WithinGroups

-----------------------------------------------------------------------------
(* Recursion over the positions of a list.                                  *)

\* Induction up to n: a set that holds 0 and with every position the next one
\* holds all positions.
LEMMA Induct ==
    ASSUME NEW n \in Nat, NEW B \in SUBSET (0 .. n), 0 \in B,
           \A i \in 1 .. n : i - 1 \in B => i \in B
    PROVE  B = 0 .. n
<1> DEFINE Bad == (0 .. n) \ B
<1> SUFFICES ASSUME Bad # {} PROVE FALSE
  OBVIOUS
<1>1. IsWellFoundedOn(OpToRel(<, Nat), Nat)
  BY NatLessThanWellFounded
<1>2. Bad \in SUBSET Nat
  OBVIOUS
<1>3. PICK m \in Bad : \A k \in Bad : ~ (<<k, m>> \in OpToRel(<, Nat))
  <2> HIDE DEF Bad
  <2> QED
    BY <1>1, <1>2, WFMin
<1>4. \A k \in Bad : ~ (k < m)
  BY <1>2, <1>3 DEF OpToRel
<1>5. m \in 1 .. n /\ m - 1 \notin Bad /\ m - 1 \in 0 .. n
  BY <1>4
<1> QED
  BY <1>5

\* f starts with a and goes from position to position by step.
Goes(f, n, A, a, step) ==
    f \in [0 .. n -> A] /\ f[0] = a /\ \A i \in 1 .. n : f[i] = step[i][f[i - 1]]

\* There is such a function.
LEMMA RecursionExists ==
    ASSUME NEW A, NEW n \in Nat, NEW a \in A, NEW step \in [1 .. n -> [A -> A]]
    PROVE  \E f : Goes(f, n, A, a, step)
<1> DEFINE Upto(m) == \E f \in [0 .. n -> A] :
                        f[0] = a /\ \A i \in 1 .. n : i <= m => f[i] = step[i][f[i - 1]]
           B == {m \in 0 .. n : Upto(m)}
<1>1. Upto(0)
  <2> DEFINE f == [i \in 0 .. n |-> a]
  <2>1. f \in [0 .. n -> A] /\ f[0] = a /\ \A i \in 1 .. n : i <= 0 => f[i] = step[i][f[i - 1]]
    OBVIOUS
  <2> QED
    BY <2>1
<1>2. ASSUME NEW m \in 1 .. n, Upto(m - 1) PROVE Upto(m)
  <2>1. PICK f \in [0 .. n -> A] :
            f[0] = a /\ \A i \in 1 .. n : i <= m - 1 => f[i] = step[i][f[i - 1]]
    BY <1>2
  <2> DEFINE x == step[m][f[m - 1]]
             g == [f EXCEPT ![m] = x]
  <2>2. x \in A /\ g \in [0 .. n -> A] /\ g[0] = a
    BY <2>1
  <2>3. \A i \in 0 .. n : g[i] = IF i = m THEN x ELSE f[i]
    BY <2>1
  <2>4. ASSUME NEW i \in 1 .. n, i <= m PROVE g[i] = step[i][g[i - 1]]
    <3>1. i - 1 \in 0 .. n /\ i - 1 # m
      BY <2>4
    <3>2. g[i - 1] = f[i - 1]
      BY <2>3, <3>1
    <3> QED
      BY <2>1, <2>3, <2>4, <3>2
  <2> HIDE DEF g
  <2> QED
    BY <2>2, <2>4
<1>3. B = 0 .. n
  <2>1. B \in SUBSET (0 .. n) /\ 0 \in B /\ \A i \in 1 .. n : i - 1 \in B => i \in B
    <3> HIDE DEF Upto
    <3> QED
      BY <1>1, <1>2
  <2> HIDE DEF B
  <2> QED
    BY <2>1, Induct
<1>4. Upto(n)
  <2> HIDE DEF Upto
  <2> QED
    BY <1>3
<1> QED
  BY <1>4 DEF Goes

-----------------------------------------------------------------------------
(* Sums.                                                                    *)

\* f[i] is the sum of the first i numbers.
Sums(f, ns) ==
    /\ f \in [0 .. Len(ns) -> Nat] /\ f[0] = 0
    /\ \A i \in 1 .. Len(ns) : f[i] = f[i - 1] + ns[i]

\* SumOf is the last of the sums.
LEMMA SumOfIs ==
    ASSUME NEW ns \in Seq(Nat)
    PROVE  \E f : Sums(f, ns) /\ SumOf(ns) = f[Len(ns)]
<1> DEFINE n == Len(ns)
           Op(i, x) == x + ns[i]
           first == 0
           step == [i \in 1 .. n |-> [x \in Nat |-> Op(i, x)]]
           Eq(g) == g = [i \in 0 .. n |-> IF i = 0 THEN first ELSE Op(i, g[i - 1])]
           last == CHOOSE g : Eq(g)
<1>1. n \in Nat
  OBVIOUS
<1>2. first \in Nat
  OBVIOUS
<1>3. ASSUME NEW i \in 1 .. n, NEW x \in Nat PROVE Op(i, x) \in Nat
  BY <1>3
<1>4. SumOf(ns) = last[n]
  BY DEF SumOf
<1> HIDE DEF n, Op, first
<1>5. step \in [1 .. n -> [Nat -> Nat]]
  BY <1>3
<1>6. PICK f : Goes(f, n, Nat, first, step)
  <2> HIDE DEF step
  <2> QED
    BY <1>1, <1>2, <1>5, RecursionExists
<1>7. f \in [0 .. n -> Nat] /\ f[0] = first
  BY <1>6 DEF Goes
<1>8. \A i \in 1 .. n : f[i - 1] \in Nat
  BY <1>1, <1>7
<1>9. \A i \in 1 .. n : f[i] = Op(i, f[i - 1])
  <2>1. \A i \in 1 .. n : f[i] = step[i][f[i - 1]]
    <3> HIDE DEF step
    <3> QED
      BY <1>6 DEF Goes
  <2>2. \A i \in 1 .. n : \A x \in Nat : step[i][x] = Op(i, x)
    OBVIOUS
  <2> HIDE DEF step
  <2> QED
    BY <1>8, <2>1, <2>2
<1>10. Eq(f)
  BY <1>7, <1>9
<1>11. Eq(last)
  BY <1>10
<1>12. last[0] = first /\ \A i \in 1 .. n : last[i] = Op(i, last[i - 1])
  <2>1. ASSUME NEW g, Eq(g)
        PROVE  g[0] = first /\ \A i \in 1 .. n : g[i] = Op(i, g[i - 1])
    <3>1. g[0] = first
      BY <1>1, <2>1
    <3>2. ASSUME NEW i \in 1 .. n PROVE g[i] = Op(i, g[i - 1])
      BY <1>1, <2>1
    <3> QED
      BY <3>1, <3>2
  <2> QED
    BY <1>11, <2>1
<1> DEFINE B == {i \in 0 .. n : last[i] = f[i]}
<1> HIDE DEF last
<1>13. B \in SUBSET (0 .. n) /\ 0 \in B /\ \A i \in 1 .. n : i - 1 \in B => i \in B
  BY <1>1, <1>7, <1>9, <1>12
<1>14. last[n] = f[n]
  <2>1. B = 0 .. n
    <3> HIDE DEF B
    <3> QED
      BY <1>1, <1>13, Induct
  <2> QED
    BY <1>1, <2>1
<1> QED
  BY <1>4, <1>7, <1>9, <1>14 DEF Sums, n, Op, first

-----------------------------------------------------------------------------
(* The loops over the history and the documents.                            *)

\* What truncate_text_preserving_ends leaves of n characters: nothing, all, or
\* the limit; one more when the marker leaves room for a single character.
LEMMA TruncatedFacts ==
    ASSUME NEW n \in Nat, NEW l \in Int
    PROVE  /\ Truncated(n, l) \in Nat
           /\ l <= 0 => Truncated(n, l) = 0
           /\ l > 0 /\ n <= l => Truncated(n, l) = n
           /\ l > 0 /\ n > l /\ l # MarkerChars + 1 => Truncated(n, l) = l
           /\ l > 0 /\ n > l /\ l = MarkerChars + 1 => Truncated(n, l) = l + 1
<1> DEFINE q == (l - MarkerChars) \div 2
<1>1. MarkerChars \in Nat \ {0}
  BY BudgetsAssumption
<1>2. q \in Int /\ 2 * q <= l - MarkerChars /\ l - MarkerChars <= 2 * q + 1
  BY <1>1
<1>3. Truncated(n, l) = IF l <= 0 THEN 0
                        ELSE IF n <= l THEN n
                        ELSE IF l <= MarkerChars THEN l
                        ELSE AtLeast(1, q) + MarkerChars
                                + AtLeast(1, l - MarkerChars - AtLeast(1, q))
  BY DEF Truncated
<1> HIDE DEF q
<1> QED
  BY <1>1, <1>2, <1>3 DEF AtLeast

HistoryAcc == [kept : Seq(Message), left : Int]
DocAcc     == [kept : Seq(Document), used : Int]
BlockAcc   == [kept : Seq(Document), used : Int, stop : BOOLEAN]

\* A step of each loop keeps the shape of the accumulator.
LEMMA KeepMessageType ==
    ASSUME NEW m \in Message, NEW acc \in HistoryAcc
    PROVE  KeepMessage(m, acc) \in HistoryAcc
<1> DEFINE n == Truncated(m.len, acc.left)
           m2 == [m EXCEPT !.len = n]
<1>1. n \in Nat
  BY TruncatedFacts DEF Message, HistoryAcc
<1>2. m2 \in Message
  BY <1>1 DEF Message
<1>3. <<m2>> \o acc.kept \in Seq(Message)
  BY <1>2 DEF HistoryAcc
<1>4. KeepMessage(m, acc) = IF ~Speaks(m) \/ n = 0 THEN acc
                            ELSE [kept |-> <<m2>> \o acc.kept, left |-> acc.left - n]
  BY DEF KeepMessage
<1> HIDE DEF n, m2
<1> QED
  BY <1>1, <1>3, <1>4 DEF HistoryAcc

\* trim_document_content keeps the id, and a text as one that is not empty.
LEMMA TrimDocumentType ==
    ASSUME NEW d \in Document
    PROVE  /\ TrimDocument(d) \in Document /\ TrimDocument(d).id = d.id
           /\ TrimDocument(d).len = 0 <=> d.len = 0
BY BudgetsAssumption DEF TrimDocument, WithDocMarker, Document

\* Likewise for one document,
LEMMA KeepDocumentType ==
    ASSUME NEW d \in Document, NEW acc \in DocAcc
    PROVE  KeepDocument(acc, d) \in DocAcc
<1> DEFINE remaining == MaxDocuments - acc.used
           n == IF d.len > remaining THEN WithDocMarker(remaining) ELSE d.len
           d2 == [d EXCEPT !.len = n]
           d3 == [d EXCEPT !.len = DocMarkerChars]
<1>1. n \in Nat
  BY BudgetsAssumption DEF Document, DocAcc, WithDocMarker
<1>2. d2 \in Document /\ d3 \in Document
  <2> HIDE DEF n
  <2> QED
    BY <1>1, BudgetsAssumption DEF Document
<1>3. Append(acc.kept, d2) \in Seq(Document) /\ Append(acc.kept, d3) \in Seq(Document)
  <2> HIDE DEF d2, d3
  <2> QED
    BY <1>2 DEF DocAcc
<1>4. KeepDocument(acc, d) =
        IF d.len = 0 THEN acc
        ELSE IF remaining <= 0 THEN [acc EXCEPT !.kept = Append(acc.kept, d3)]
        ELSE [kept |-> Append(acc.kept, d2), used |-> acc.used + n]
  BY DEF KeepDocument
<1>5. [acc EXCEPT !.kept = Append(acc.kept, d3)] \in DocAcc
  <2> HIDE DEF d3
  <2> QED
    BY <1>3 DEF DocAcc
<1>6. [kept |-> Append(acc.kept, d2), used |-> acc.used + n] \in DocAcc
  <2> HIDE DEF d2, n
  <2> QED
    BY <1>1, <1>3 DEF DocAcc
<1> HIDE DEF n, d2, d3, remaining
<1> QED
  BY <1>4, <1>5, <1>6

\* A chunk is at least its label.
LEMMA ChunkFacts ==
    ASSUME NEW c \in Document
    PROVE  ChunkChars(c) \in Nat /\ ChunkChars(c) >= LabelChars
BY BudgetsAssumption DEF ChunkChars, Document

\* and for one chunk.
LEMMA KeepChunkType ==
    ASSUME NEW c \in Document, NEW acc \in BlockAcc, NEW limit \in Int
    PROVE  KeepChunk(acc, c, limit) \in BlockAcc
<1> DEFINE sep == IF acc.kept = <<>> THEN 0 ELSE 2
           remaining == limit - acc.used - sep
           c0 == [c EXCEPT !.len = 0]
           n == ChunkContent(c.len, remaining - LabelChars - 1)
           c1 == [c EXCEPT !.len = n]
<1>1. sep \in Nat /\ remaining \in Int
  BY DEF BlockAcc
<1>2. ~(remaining <= LabelChars + 1 + DocMarkerChars) => n \in Nat
  <2> HIDE DEF remaining
  <2> QED
    BY <1>1, BudgetsAssumption DEF Document, ChunkContent, AtMost
<1>3. c0 \in Document /\ (n \in Nat => c1 \in Document)
  <2> HIDE DEF n
  <2> QED
    BY DEF Document
<1>4. /\ Append(acc.kept, c) \in Seq(Document) /\ Append(acc.kept, c0) \in Seq(Document)
      /\ n \in Nat => Append(acc.kept, c1) \in Seq(Document)
  <2> HIDE DEF c0, c1, n
  <2> QED
    BY <1>3 DEF BlockAcc
<1>5. KeepChunk(acc, c, limit) =
        IF acc.stop THEN acc
        ELSE IF ChunkChars(c) <= remaining
        THEN [acc EXCEPT !.kept = Append(acc.kept, c), !.used = acc.used + sep + ChunkChars(c)]
        ELSE IF remaining <= LabelChars THEN [acc EXCEPT !.stop = TRUE]
        ELSE IF remaining <= LabelChars + 1 + DocMarkerChars
        THEN [acc EXCEPT !.kept = Append(acc.kept, c0), !.stop = TRUE]
        ELSE [acc EXCEPT !.stop = TRUE, !.kept = Append(acc.kept, c1)]
  BY DEF KeepChunk
<1>6. ChunkChars(c) \in Nat
  BY ChunkFacts
<1> HIDE DEF sep, remaining, c0, c1, n
<1>7. [acc EXCEPT !.kept = Append(acc.kept, c), !.used = acc.used + sep + ChunkChars(c)] \in BlockAcc
  <2> DEFINE k == Append(acc.kept, c)
             u == acc.used + sep + ChunkChars(c)
  <2>1. k \in Seq(Document) /\ u \in Int
    BY <1>1, <1>4, <1>6 DEF BlockAcc
  <2> HIDE DEF k, u
  <2>2. [acc EXCEPT !.kept = k, !.used = u] \in BlockAcc
    BY <2>1 DEF BlockAcc
  <2> QED
    BY <2>2 DEF k, u
<1>8. [acc EXCEPT !.stop = TRUE] \in BlockAcc
  BY DEF BlockAcc
<1>9. [acc EXCEPT !.kept = Append(acc.kept, c0), !.stop = TRUE] \in BlockAcc
  BY <1>4 DEF BlockAcc
<1>10. n \in Nat => [acc EXCEPT !.stop = TRUE, !.kept = Append(acc.kept, c1)] \in BlockAcc
  BY <1>4 DEF BlockAcc
<1> QED
  BY <1>2, <1>5, <1>7, <1>8, <1>9, <1>10

\* f[i]: the history loop after its i newest messages.
Keeps(f, s, chars) ==
    /\ f \in [0 .. Len(s) -> HistoryAcc] /\ f[0] = [kept |-> <<>>, left |-> chars]
    /\ \A i \in 1 .. Len(s) : f[i] = KeepMessage(s[Len(s) + 1 - i], f[i - 1])

\* apply_history_budget runs that loop.
LEMMA KeepMessagesIs ==
    ASSUME NEW s \in Seq(Message), NEW chars \in Int
    PROVE  \E f : Keeps(f, s, chars) /\ KeepMessages(s, chars) = f[Len(s)]
<1> DEFINE n == Len(s)
           Op(i, x) == KeepMessage(s[Len(s) + 1 - i], x)
           first == [kept |-> <<>>, left |-> chars]
           step == [i \in 1 .. n |-> [x \in HistoryAcc |-> Op(i, x)]]
           Eq(g) == g = [i \in 0 .. n |-> IF i = 0 THEN first ELSE Op(i, g[i - 1])]
           last == CHOOSE g : Eq(g)
<1>1. n \in Nat
  OBVIOUS
<1>2. first \in HistoryAcc
  BY DEF HistoryAcc
<1>3. ASSUME NEW i \in 1 .. n, NEW x \in HistoryAcc PROVE Op(i, x) \in HistoryAcc
  <2>1. s[Len(s) + 1 - i] \in Message
    BY <1>3
  <2> QED
    BY <1>3, <2>1, KeepMessageType
<1>4. KeepMessages(s, chars) = last[n]
  BY DEF KeepMessages
<1> HIDE DEF n, Op, first
<1>5. step \in [1 .. n -> [HistoryAcc -> HistoryAcc]]
  BY <1>3
<1>6. PICK f : Goes(f, n, HistoryAcc, first, step)
  <2> HIDE DEF step
  <2> QED
    BY <1>1, <1>2, <1>5, RecursionExists
<1>7. f \in [0 .. n -> HistoryAcc] /\ f[0] = first
  BY <1>6 DEF Goes
<1>8. \A i \in 1 .. n : f[i - 1] \in HistoryAcc
  BY <1>1, <1>7
<1>9. \A i \in 1 .. n : f[i] = Op(i, f[i - 1])
  <2>1. \A i \in 1 .. n : f[i] = step[i][f[i - 1]]
    <3> HIDE DEF step
    <3> QED
      BY <1>6 DEF Goes
  <2>2. \A i \in 1 .. n : \A x \in HistoryAcc : step[i][x] = Op(i, x)
    OBVIOUS
  <2> HIDE DEF step
  <2> QED
    BY <1>8, <2>1, <2>2
<1>10. Eq(f)
  BY <1>7, <1>9
<1>11. Eq(last)
  BY <1>10
<1>12. last[0] = first /\ \A i \in 1 .. n : last[i] = Op(i, last[i - 1])
  <2>1. ASSUME NEW g, Eq(g)
        PROVE  g[0] = first /\ \A i \in 1 .. n : g[i] = Op(i, g[i - 1])
    <3>1. g[0] = first
      BY <1>1, <2>1
    <3>2. ASSUME NEW i \in 1 .. n PROVE g[i] = Op(i, g[i - 1])
      BY <1>1, <2>1
    <3> QED
      BY <3>1, <3>2
  <2> QED
    BY <1>11, <2>1
<1> DEFINE B == {i \in 0 .. n : last[i] = f[i]}
<1> HIDE DEF last
<1>13. B \in SUBSET (0 .. n) /\ 0 \in B /\ \A i \in 1 .. n : i - 1 \in B => i \in B
  BY <1>1, <1>7, <1>9, <1>12
<1>14. last[n] = f[n]
  <2>1. B = 0 .. n
    <3> HIDE DEF B
    <3> QED
      BY <1>1, <1>13, Induct
  <2> QED
    BY <1>1, <2>1
<1> QED
  BY <1>4, <1>7, <1>9, <1>14 DEF Keeps, n, Op, first

TakeMessage(m, kept)  == IF Speaks(m) /\ m.len > 0 THEN <<m>> \o kept ELSE kept
TakeDocument(kept, d) == IF d.len > 0 THEN Append(kept, d) ELSE kept

\* f[i]: the valid ones of the i newest messages.
Validates(f, s) ==
    /\ f \in [0 .. Len(s) -> Seq(Message)] /\ f[0] = <<>>
    /\ \A i \in 1 .. Len(s) : f[i] = TakeMessage(s[Len(s) + 1 - i], f[i - 1])

\* Valid collects them.
LEMMA ValidIs ==
    ASSUME NEW s \in Seq(Message)
    PROVE  \E f : Validates(f, s) /\ Valid(s) = f[Len(s)]
<1> DEFINE n == Len(s)
           Op(i, x) == TakeMessage(s[Len(s) + 1 - i], x)
           first == <<>>
           step == [i \in 1 .. n |-> [x \in Seq(Message) |-> Op(i, x)]]
           Eq(g) == g = [i \in 0 .. n |-> IF i = 0 THEN first ELSE Op(i, g[i - 1])]
           last == CHOOSE g : Eq(g)
<1>1. n \in Nat
  OBVIOUS
<1>2. first \in Seq(Message)
  OBVIOUS
<1>3. ASSUME NEW i \in 1 .. n, NEW x \in Seq(Message) PROVE Op(i, x) \in Seq(Message)
  <2>1. s[Len(s) + 1 - i] \in Message
    BY <1>3
  <2> QED
    BY <1>3, <2>1 DEF TakeMessage
<1>4. Valid(s) = last[n]
  BY DEF Valid, TakeMessage
<1> HIDE DEF n, Op, first
<1>5. step \in [1 .. n -> [Seq(Message) -> Seq(Message)]]
  BY <1>3
<1>6. PICK f : Goes(f, n, Seq(Message), first, step)
  <2> HIDE DEF step
  <2> QED
    BY <1>1, <1>2, <1>5, RecursionExists
<1>7. f \in [0 .. n -> Seq(Message)] /\ f[0] = first
  BY <1>6 DEF Goes
<1>8. \A i \in 1 .. n : f[i - 1] \in Seq(Message)
  BY <1>1, <1>7
<1>9. \A i \in 1 .. n : f[i] = Op(i, f[i - 1])
  <2>1. \A i \in 1 .. n : f[i] = step[i][f[i - 1]]
    <3> HIDE DEF step
    <3> QED
      BY <1>6 DEF Goes
  <2>2. \A i \in 1 .. n : \A x \in Seq(Message) : step[i][x] = Op(i, x)
    OBVIOUS
  <2> HIDE DEF step
  <2> QED
    BY <1>8, <2>1, <2>2
<1>10. Eq(f)
  BY <1>7, <1>9
<1>11. Eq(last)
  BY <1>10
<1>12. last[0] = first /\ \A i \in 1 .. n : last[i] = Op(i, last[i - 1])
  <2>1. ASSUME NEW g, Eq(g)
        PROVE  g[0] = first /\ \A i \in 1 .. n : g[i] = Op(i, g[i - 1])
    <3>1. g[0] = first
      BY <1>1, <2>1
    <3>2. ASSUME NEW i \in 1 .. n PROVE g[i] = Op(i, g[i - 1])
      BY <1>1, <2>1
    <3> QED
      BY <3>1, <3>2
  <2> QED
    BY <1>11, <2>1
<1> DEFINE B == {i \in 0 .. n : last[i] = f[i]}
<1> HIDE DEF last
<1>13. B \in SUBSET (0 .. n) /\ 0 \in B /\ \A i \in 1 .. n : i - 1 \in B => i \in B
  BY <1>1, <1>7, <1>9, <1>12
<1>14. last[n] = f[n]
  <2>1. B = 0 .. n
    <3> HIDE DEF B
    <3> QED
      BY <1>1, <1>13, Induct
  <2> QED
    BY <1>1, <2>1
<1> QED
  BY <1>4, <1>7, <1>9, <1>14 DEF Validates, n, Op, first

\* f[i]: the loop of apply_document_budget after i documents.
KeepsDocs(f, docs) ==
    /\ f \in [0 .. Len(docs) -> DocAcc] /\ f[0] = [kept |-> <<>>, used |-> 0]
    /\ \A i \in 1 .. Len(docs) : f[i] = KeepDocument(f[i - 1], TrimDocument(docs[i]))

\* apply_document_budget runs that loop.
LEMMA KeepDocumentsIs ==
    ASSUME NEW docs \in Seq(Document)
    PROVE  \E f : KeepsDocs(f, docs) /\ KeepDocuments(docs) = f[Len(docs)]
<1> DEFINE n == Len(docs)
           Op(i, x) == KeepDocument(x, TrimDocument(docs[i]))
           first == [kept |-> <<>>, used |-> 0]
           step == [i \in 1 .. n |-> [x \in DocAcc |-> Op(i, x)]]
           Eq(g) == g = [i \in 0 .. n |-> IF i = 0 THEN first ELSE Op(i, g[i - 1])]
           last == CHOOSE g : Eq(g)
<1>1. n \in Nat
  OBVIOUS
<1>2. first \in DocAcc
  BY DEF DocAcc
<1>3. ASSUME NEW i \in 1 .. n, NEW x \in DocAcc PROVE Op(i, x) \in DocAcc
  <2>1. docs[i] \in Document
    BY <1>3
  <2> QED
    BY <1>3, <2>1, TrimDocumentType, KeepDocumentType
<1>4. KeepDocuments(docs) = last[n]
  BY DEF KeepDocuments
<1> HIDE DEF n, Op, first
<1>5. step \in [1 .. n -> [DocAcc -> DocAcc]]
  BY <1>3
<1>6. PICK f : Goes(f, n, DocAcc, first, step)
  <2> HIDE DEF step
  <2> QED
    BY <1>1, <1>2, <1>5, RecursionExists
<1>7. f \in [0 .. n -> DocAcc] /\ f[0] = first
  BY <1>6 DEF Goes
<1>8. \A i \in 1 .. n : f[i - 1] \in DocAcc
  BY <1>1, <1>7
<1>9. \A i \in 1 .. n : f[i] = Op(i, f[i - 1])
  <2>1. \A i \in 1 .. n : f[i] = step[i][f[i - 1]]
    <3> HIDE DEF step
    <3> QED
      BY <1>6 DEF Goes
  <2>2. \A i \in 1 .. n : \A x \in DocAcc : step[i][x] = Op(i, x)
    OBVIOUS
  <2> HIDE DEF step
  <2> QED
    BY <1>8, <2>1, <2>2
<1>10. Eq(f)
  BY <1>7, <1>9
<1>11. Eq(last)
  BY <1>10
<1>12. last[0] = first /\ \A i \in 1 .. n : last[i] = Op(i, last[i - 1])
  <2>1. ASSUME NEW g, Eq(g)
        PROVE  g[0] = first /\ \A i \in 1 .. n : g[i] = Op(i, g[i - 1])
    <3>1. g[0] = first
      BY <1>1, <2>1
    <3>2. ASSUME NEW i \in 1 .. n PROVE g[i] = Op(i, g[i - 1])
      BY <1>1, <2>1
    <3> QED
      BY <3>1, <3>2
  <2> QED
    BY <1>11, <2>1
<1> DEFINE B == {i \in 0 .. n : last[i] = f[i]}
<1> HIDE DEF last
<1>13. B \in SUBSET (0 .. n) /\ 0 \in B /\ \A i \in 1 .. n : i - 1 \in B => i \in B
  BY <1>1, <1>7, <1>9, <1>12
<1>14. last[n] = f[n]
  <2>1. B = 0 .. n
    <3> HIDE DEF B
    <3> QED
      BY <1>1, <1>13, Induct
  <2> QED
    BY <1>1, <2>1
<1> QED
  BY <1>4, <1>7, <1>9, <1>14 DEF KeepsDocs, n, Op, first

\* f[i]: the non-empty ones of the first i documents.
Names(f, docs) ==
    /\ f \in [0 .. Len(docs) -> Seq(Document)] /\ f[0] = <<>>
    /\ \A i \in 1 .. Len(docs) : f[i] = TakeDocument(f[i - 1], docs[i])

\* Named collects them.
LEMMA NamedIs ==
    ASSUME NEW docs \in Seq(Document)
    PROVE  \E f : Names(f, docs) /\ Named(docs) = f[Len(docs)]
<1> DEFINE n == Len(docs)
           Op(i, x) == TakeDocument(x, docs[i])
           first == <<>>
           step == [i \in 1 .. n |-> [x \in Seq(Document) |-> Op(i, x)]]
           Eq(g) == g = [i \in 0 .. n |-> IF i = 0 THEN first ELSE Op(i, g[i - 1])]
           last == CHOOSE g : Eq(g)
<1>1. n \in Nat
  OBVIOUS
<1>2. first \in Seq(Document)
  OBVIOUS
<1>3. ASSUME NEW i \in 1 .. n, NEW x \in Seq(Document) PROVE Op(i, x) \in Seq(Document)
  <2>1. docs[i] \in Document
    BY <1>3
  <2> QED
    BY <1>3, <2>1 DEF TakeDocument
<1>4. Named(docs) = last[n]
  BY DEF Named, TakeDocument
<1> HIDE DEF n, Op, first
<1>5. step \in [1 .. n -> [Seq(Document) -> Seq(Document)]]
  BY <1>3
<1>6. PICK f : Goes(f, n, Seq(Document), first, step)
  <2> HIDE DEF step
  <2> QED
    BY <1>1, <1>2, <1>5, RecursionExists
<1>7. f \in [0 .. n -> Seq(Document)] /\ f[0] = first
  BY <1>6 DEF Goes
<1>8. \A i \in 1 .. n : f[i - 1] \in Seq(Document)
  BY <1>1, <1>7
<1>9. \A i \in 1 .. n : f[i] = Op(i, f[i - 1])
  <2>1. \A i \in 1 .. n : f[i] = step[i][f[i - 1]]
    <3> HIDE DEF step
    <3> QED
      BY <1>6 DEF Goes
  <2>2. \A i \in 1 .. n : \A x \in Seq(Document) : step[i][x] = Op(i, x)
    OBVIOUS
  <2> HIDE DEF step
  <2> QED
    BY <1>8, <2>1, <2>2
<1>10. Eq(f)
  BY <1>7, <1>9
<1>11. Eq(last)
  BY <1>10
<1>12. last[0] = first /\ \A i \in 1 .. n : last[i] = Op(i, last[i - 1])
  <2>1. ASSUME NEW g, Eq(g)
        PROVE  g[0] = first /\ \A i \in 1 .. n : g[i] = Op(i, g[i - 1])
    <3>1. g[0] = first
      BY <1>1, <2>1
    <3>2. ASSUME NEW i \in 1 .. n PROVE g[i] = Op(i, g[i - 1])
      BY <1>1, <2>1
    <3> QED
      BY <3>1, <3>2
  <2> QED
    BY <1>11, <2>1
<1> DEFINE B == {i \in 0 .. n : last[i] = f[i]}
<1> HIDE DEF last
<1>13. B \in SUBSET (0 .. n) /\ 0 \in B /\ \A i \in 1 .. n : i - 1 \in B => i \in B
  BY <1>1, <1>7, <1>9, <1>12
<1>14. last[n] = f[n]
  <2>1. B = 0 .. n
    <3> HIDE DEF B
    <3> QED
      BY <1>1, <1>13, Induct
  <2> QED
    BY <1>1, <2>1
<1> QED
  BY <1>4, <1>7, <1>9, <1>14 DEF Names, n, Op, first

\* f[i]: the loop of _trim_document_block_preserving_labels after i chunks.
KeepsChunks(f, chunks, limit) ==
    /\ f \in [0 .. Len(chunks) -> BlockAcc] /\ f[0] = [kept |-> <<>>, used |-> 0, stop |-> FALSE]
    /\ \A i \in 1 .. Len(chunks) : f[i] = KeepChunk(f[i - 1], chunks[i], limit)

\* That loop builds the block that does not fit whole.
LEMMA KeepChunksIs ==
    ASSUME NEW chunks \in Seq(Document), NEW limit \in Int
    PROVE  \E f : KeepsChunks(f, chunks, limit) /\ KeepChunks(chunks, limit) = f[Len(chunks)]
<1> DEFINE n == Len(chunks)
           Op(i, x) == KeepChunk(x, chunks[i], limit)
           first == [kept |-> <<>>, used |-> 0, stop |-> FALSE]
           step == [i \in 1 .. n |-> [x \in BlockAcc |-> Op(i, x)]]
           Eq(g) == g = [i \in 0 .. n |-> IF i = 0 THEN first ELSE Op(i, g[i - 1])]
           last == CHOOSE g : Eq(g)
<1>1. n \in Nat
  OBVIOUS
<1>2. first \in BlockAcc
  BY DEF BlockAcc
<1>3. ASSUME NEW i \in 1 .. n, NEW x \in BlockAcc PROVE Op(i, x) \in BlockAcc
  <2>1. chunks[i] \in Document
    BY <1>3
  <2> QED
    BY <1>3, <2>1, KeepChunkType
<1>4. KeepChunks(chunks, limit) = last[n]
  BY DEF KeepChunks
<1> HIDE DEF n, Op, first
<1>5. step \in [1 .. n -> [BlockAcc -> BlockAcc]]
  BY <1>3
<1>6. PICK f : Goes(f, n, BlockAcc, first, step)
  <2> HIDE DEF step
  <2> QED
    BY <1>1, <1>2, <1>5, RecursionExists
<1>7. f \in [0 .. n -> BlockAcc] /\ f[0] = first
  BY <1>6 DEF Goes
<1>8. \A i \in 1 .. n : f[i - 1] \in BlockAcc
  BY <1>1, <1>7
<1>9. \A i \in 1 .. n : f[i] = Op(i, f[i - 1])
  <2>1. \A i \in 1 .. n : f[i] = step[i][f[i - 1]]
    <3> HIDE DEF step
    <3> QED
      BY <1>6 DEF Goes
  <2>2. \A i \in 1 .. n : \A x \in BlockAcc : step[i][x] = Op(i, x)
    OBVIOUS
  <2> HIDE DEF step
  <2> QED
    BY <1>8, <2>1, <2>2
<1>10. Eq(f)
  BY <1>7, <1>9
<1>11. Eq(last)
  BY <1>10
<1>12. last[0] = first /\ \A i \in 1 .. n : last[i] = Op(i, last[i - 1])
  <2>1. ASSUME NEW g, Eq(g)
        PROVE  g[0] = first /\ \A i \in 1 .. n : g[i] = Op(i, g[i - 1])
    <3>1. g[0] = first
      BY <1>1, <2>1
    <3>2. ASSUME NEW i \in 1 .. n PROVE g[i] = Op(i, g[i - 1])
      BY <1>1, <2>1
    <3> QED
      BY <3>1, <3>2
  <2> QED
    BY <1>11, <2>1
<1> DEFINE B == {i \in 0 .. n : last[i] = f[i]}
<1> HIDE DEF last
<1>13. B \in SUBSET (0 .. n) /\ 0 \in B /\ \A i \in 1 .. n : i - 1 \in B => i \in B
  BY <1>1, <1>7, <1>9, <1>12
<1>14. last[n] = f[n]
  <2>1. B = 0 .. n
    <3> HIDE DEF B
    <3> QED
      BY <1>1, <1>13, Induct
  <2> QED
    BY <1>1, <2>1
<1> QED
  BY <1>4, <1>7, <1>9, <1>14 DEF KeepsChunks, n, Op, first

\* Induction over lists: a set that holds the empty list, and with a list every
\* list that has one element more in front of it, holds all lists.
LEMMA PrependInduct ==
    ASSUME NEW S, NEW B \in SUBSET Seq(S), <<>> \in B,
           \A m \in S : \A t \in B : <<m>> \o t \in B
    PROVE  B = Seq(S)
<1> SUFFICES ASSUME NEW s \in Seq(S) PROVE s \in B
  OBVIOUS
<1> DEFINE n == Len(s)
           T(i) == [j \in 1 .. i |-> s[n - i + j]]
           P == {i \in 0 .. n : T(i) \in B}
<1>1. n \in Nat /\ s \in [1 .. n -> S]
  OBVIOUS
<1> HIDE DEF n
<1>2. ASSUME NEW i \in 0 .. n PROVE T(i) \in Seq(S) /\ Len(T(i)) = i
  <2>1. i \in Nat /\ \A j \in 1 .. i : n - i + j \in 1 .. n
    BY <1>1, <1>2
  <2>2. \A j \in 1 .. i : s[n - i + j] \in S
    BY <1>1, <2>1
  <2> QED
    BY <2>1, <2>2, IsASeq
<1>3. T(0) \in B
  <2>1. T(0) = <<>>
    BY <1>1, <1>2, EmptySeq
  <2> QED
    BY <2>1
<1>4. ASSUME NEW i \in 1 .. n, T(i - 1) \in B PROVE T(i) \in B
  <2> DEFINE t == T(i - 1)
             m == s[n + 1 - i]
             u == T(i)
  <2>1. i - 1 \in 0 .. n /\ i \in 0 .. n /\ n + 1 - i \in 1 .. n
    BY <1>1, <1>4
  <2>2. t \in Seq(S) /\ Len(t) = i - 1 /\ u \in Seq(S) /\ Len(u) = i /\ m \in S
    BY <1>1, <1>2, <2>1
  <2>3. ASSUME NEW j \in 1 .. i PROVE u[j] = (<<m>> \o t)[j]
    <3>1. u[j] = s[n - i + j]
      OBVIOUS
    <3>2. CASE j = 1
      <4> HIDE DEF t, u
      <4>1. (<<m>> \o t)[j] = m
        BY <2>2, <3>2
      <4> QED
        BY <1>1, <3>1, <3>2, <4>1
    <3>3. CASE j # 1
      <4>1. j - 1 \in 1 .. (i - 1)
        BY <2>1, <3>3
      <4>2. t[j - 1] = s[n - (i - 1) + (j - 1)]
        BY <4>1
      <4>3. n - (i - 1) + (j - 1) = n - i + j
        BY <1>1
      <4> HIDE DEF t, u, m
      <4>4. (<<m>> \o t)[j] = t[j - 1]
        BY <2>2, <3>3
      <4> QED
        BY <3>1, <4>2, <4>3, <4>4
    <3> QED
      BY <3>2, <3>3
  <2>4. u = <<m>> \o t
    <3> HIDE DEF t, u, m
    <3>1. <<m>> \o t \in Seq(S) /\ Len(<<m>> \o t) = i
      BY <2>1, <2>2
    <3> QED
      BY <2>2, <2>3, <3>1, SeqEqual
  <2> HIDE DEF t, u, m
  <2>5. t \in B
    BY <1>4 DEF t
  <2>6. u \in B
    BY <2>2, <2>4, <2>5
  <2> QED
    BY <2>6 DEF u
<1>5. P = 0 .. n
  <2>1. P \in SUBSET (0 .. n) /\ 0 \in P /\ \A i \in 1 .. n : i - 1 \in P => i \in P
    <3> HIDE DEF T
    <3> QED
      BY <1>1, <1>3, <1>4
  <2> HIDE DEF P
  <2> QED
    BY <1>1, <2>1, Induct
<1>6. T(n) = s
  <2>1. \A j \in 1 .. n : T(n)[j] = s[j]
    BY <1>1
  <2>2. T(n) \in Seq(S) /\ Len(T(n)) = n
    BY <1>1, <1>2
  <2> HIDE DEF T
  <2> QED
    BY <2>1, <2>2, SeqEqual DEF n
<1>7. T(n) \in B
  <2> HIDE DEF T
  <2> QED
    BY <1>1, <1>5
<1> QED
  BY <1>6, <1>7

\* The same with the element at the end.
LEMMA AppendInduct ==
    ASSUME NEW S, NEW B \in SUBSET Seq(S), <<>> \in B,
           \A m \in S : \A t \in B : Append(t, m) \in B
    PROVE  B = Seq(S)
<1> SUFFICES ASSUME NEW s \in Seq(S) PROVE s \in B
  OBVIOUS
<1> DEFINE n == Len(s)
           T(i) == [j \in 1 .. i |-> s[j]]
           P == {i \in 0 .. n : T(i) \in B}
<1>1. n \in Nat /\ s \in [1 .. n -> S]
  OBVIOUS
<1> HIDE DEF n
<1>2. ASSUME NEW i \in 0 .. n PROVE T(i) \in Seq(S) /\ Len(T(i)) = i
  <2>1. i \in Nat /\ \A j \in 1 .. i : s[j] \in S
    BY <1>1, <1>2
  <2> QED
    BY <2>1, IsASeq
<1>3. T(0) \in B
  <2>1. T(0) = <<>>
    BY <1>1, <1>2, EmptySeq
  <2> QED
    BY <2>1
<1>4. ASSUME NEW i \in 1 .. n, T(i - 1) \in B PROVE T(i) \in B
  <2> DEFINE t == T(i - 1)
             m == s[i]
             u == T(i)
  <2>1. i - 1 \in 0 .. n /\ i \in 0 .. n
    BY <1>1, <1>4
  <2>2. t \in Seq(S) /\ Len(t) = i - 1 /\ u \in Seq(S) /\ Len(u) = i /\ m \in S
    BY <1>1, <1>2, <2>1
  <2>3. ASSUME NEW j \in 1 .. i PROVE u[j] = Append(t, m)[j]
    <3>1. u[j] = s[j]
      OBVIOUS
    <3>2. CASE j = i
      <4> HIDE DEF t, u
      <4>1. Append(t, m)[j] = m
        BY <2>1, <2>2, <3>2
      <4> QED
        BY <3>1, <3>2, <4>1
    <3>3. CASE j # i
      <4>1. j \in 1 .. (i - 1)
        BY <2>1, <3>3
      <4>2. t[j] = s[j]
        BY <4>1
      <4> HIDE DEF t, u, m
      <4>4. Append(t, m)[j] = t[j]
        BY <2>2, <4>1
      <4> QED
        BY <3>1, <4>2, <4>4
    <3> QED
      BY <3>2, <3>3
  <2>4. u = Append(t, m)
    <3> HIDE DEF t, u, m
    <3>1. Append(t, m) \in Seq(S) /\ Len(Append(t, m)) = i
      BY <2>1, <2>2
    <3> QED
      BY <2>2, <2>3, <3>1, SeqEqual
  <2> HIDE DEF t, u, m
  <2>5. t \in B
    BY <1>4 DEF t
  <2>6. u \in B
    BY <2>2, <2>4, <2>5
  <2> QED
    BY <2>6 DEF u
<1>5. P = 0 .. n
  <2>1. P \in SUBSET (0 .. n) /\ 0 \in P /\ \A i \in 1 .. n : i - 1 \in P => i \in P
    <3> HIDE DEF T
    <3> QED
      BY <1>1, <1>3, <1>4
  <2> HIDE DEF P
  <2> QED
    BY <1>1, <2>1, Induct
<1>6. T(n) = s
  <2>1. \A j \in 1 .. n : T(n)[j] = s[j]
    BY <1>1
  <2>2. T(n) \in Seq(S) /\ Len(T(n)) = n
    BY <1>1, <1>2
  <2> HIDE DEF T
  <2> QED
    BY <2>1, <2>2, SeqEqual DEF n
<1>7. T(n) \in B
  <2> HIDE DEF T
  <2> QED
    BY <1>1, <1>5
<1> QED
  BY <1>6, <1>7

-----------------------------------------------------------------------------
(* What each recursion returns for a list that is longer by one element.    *)

\* SumOf on the empty list, and the type of its result.
LEMMA SumBase ==
    ASSUME NEW s \in Seq(Nat)
    PROVE  SumOf(<<>>) = 0 /\ SumOf(s) \in Nat
<1>1. <<>> \in Seq(Nat) /\ Len(<<>>) = 0
  OBVIOUS
<1>2. SumOf(<<>>) = 0
  <2>1. PICK f : Sums(f, <<>>) /\ SumOf(<<>>) = f[Len(<<>>)]
    BY <1>1, SumOfIs
  <2>2. f[0] = 0
    BY <2>1 DEF Sums
  <2> QED
    BY <1>1, <2>1, <2>2
<1>3. SumOf(s) \in Nat
  <2>1. PICK f : Sums(f, s) /\ SumOf(s) = f[Len(s)]
    BY SumOfIs
  <2>2. f \in [0 .. Len(s) -> Nat]
    BY <2>1 DEF Sums
  <2>3. Len(s) \in 0 .. Len(s)
    OBVIOUS
  <2> QED
    BY <2>1, <2>2, <2>3
<1> QED
  BY <1>2, <1>3

\* A number at the end adds itself to the sum.
LEMMA SumAppend ==
    ASSUME NEW s \in Seq(Nat), NEW m \in Nat
    PROVE  SumOf(Append(s, m)) = SumOf(s) + m
<1> DEFINE t == Append(s, m)
           n == Len(s)
<1>1. n \in Nat /\ t \in Seq(Nat) /\ Len(t) = n + 1
  OBVIOUS
<1>2. t[n + 1] = m /\ \A i \in 1 .. n : t[i] = s[i]
  OBVIOUS
<1> HIDE DEF t
<1>4. PICK f : Sums(f, s) /\ SumOf(s) = f[n]
  BY SumOfIs
<1>5. PICK g : Sums(g, t) /\ SumOf(t) = g[n + 1]
  BY <1>1, SumOfIs
<1> HIDE DEF n
<1>6. f[0] = 0 /\ \A i \in 1 .. n : f[i] = f[i - 1] + s[i]
  BY <1>4 DEF Sums, n
<1>7. g[0] = 0 /\ \A i \in 1 .. (n + 1) : g[i] = g[i - 1] + t[i]
  BY <1>1, <1>5 DEF Sums
<1> DEFINE B == {i \in 0 .. n : g[i] = f[i]}
<1>8. \A i \in 1 .. n : i \in 1 .. (n + 1)
  BY <1>1
<1>9. B \in SUBSET (0 .. n) /\ 0 \in B /\ \A i \in 1 .. n : i - 1 \in B => i \in B
  <2>1. ASSUME NEW i \in 1 .. n, g[i - 1] = f[i - 1] PROVE g[i] = f[i]
    <3>1. g[i] = g[i - 1] + t[i]
      BY <1>7, <1>8
    <3>2. f[i] = f[i - 1] + s[i]
      BY <1>6
    <3> QED
      BY <1>2, <2>1, <3>1, <3>2
  <2>2. 0 \in 0 .. n /\ g[0] = f[0]
    BY <1>1, <1>6, <1>7
  <2>3. \A i \in 1 .. n : i \in 0 .. n
    BY <1>1
  <2> QED
    BY <2>1, <2>2, <2>3
<1>10. B = 0 .. n
  <2> HIDE DEF B
  <2> QED
    BY <1>1, <1>9, Induct
<1>11. g[n] = f[n]
  <2>1. n \in 0 .. n
    BY <1>1
  <2>2. n \in B
    <3> HIDE DEF B
    <3> QED
      BY <1>10, <2>1
  <2> QED
    BY <2>2
<1>12. g[n + 1] = g[n] + m
  <2>1. n + 1 \in 1 .. (n + 1) /\ (n + 1) - 1 = n
    BY <1>1
  <2> QED
    BY <1>2, <1>7, <2>1
<1>13. SumOf(t) = SumOf(s) + m
  BY <1>4, <1>5, <1>11, <1>12
<1> QED
  BY <1>13 DEF t

\* The history loop on the empty list, and the type of its result.
LEMMA KeepMessagesBase ==
    ASSUME NEW s \in Seq(Message), NEW chars \in Int
    PROVE  /\ KeepMessages(<<>>, chars) = [kept |-> <<>>, left |-> chars]
           /\ KeepMessages(s, chars) \in HistoryAcc
<1>1. <<>> \in Seq(Message) /\ Len(<<>>) = 0
  OBVIOUS
<1>2. KeepMessages(<<>>, chars) = [kept |-> <<>>, left |-> chars]
  <2>1. PICK f : Keeps(f, <<>>, chars) /\ KeepMessages(<<>>, chars) = f[Len(<<>>)]
    BY <1>1, KeepMessagesIs
  <2>2. f[0] = [kept |-> <<>>, left |-> chars]
    BY <2>1 DEF Keeps
  <2> QED
    BY <1>1, <2>1, <2>2
<1>3. KeepMessages(s, chars) \in HistoryAcc
  <2>1. PICK f : Keeps(f, s, chars) /\ KeepMessages(s, chars) = f[Len(s)]
    BY KeepMessagesIs
  <2>2. f \in [0 .. Len(s) -> HistoryAcc]
    BY <2>1 DEF Keeps
  <2>3. Len(s) \in 0 .. Len(s)
    OBVIOUS
  <2> QED
    BY <2>1, <2>2, <2>3
<1> QED
  BY <1>2, <1>3

\* The history loop looks at an older message last.
LEMMA KeepMessagesPrepend ==
    ASSUME NEW s \in Seq(Message), NEW m \in Message, NEW chars \in Int
    PROVE  KeepMessages(<<m>> \o s, chars) = KeepMessage(m, KeepMessages(s, chars))
<1> DEFINE t == <<m>> \o s
           n == Len(s)
<1>1. n \in Nat /\ t \in Seq(Message) /\ Len(t) = n + 1
  OBVIOUS
<1>2. t[1] = m /\ \A i \in 1 .. n : t[n + 2 - i] = s[n + 1 - i]
  OBVIOUS
<1> HIDE DEF t
<1>4. PICK f : Keeps(f, s, chars) /\ KeepMessages(s, chars) = f[n]
  BY KeepMessagesIs
<1>5. PICK g : Keeps(g, t, chars) /\ KeepMessages(t, chars) = g[n + 1]
  BY <1>1, KeepMessagesIs
<1> HIDE DEF n
<1>6. /\ f[0] = [kept |-> <<>>, left |-> chars]
      /\ \A i \in 1 .. n : f[i] = KeepMessage(s[n + 1 - i], f[i - 1])
  BY <1>4 DEF Keeps, n
<1>7. /\ g[0] = [kept |-> <<>>, left |-> chars]
      /\ \A i \in 1 .. (n + 1) : g[i] = KeepMessage(t[n + 2 - i], g[i - 1])
  BY <1>1, <1>5 DEF Keeps
<1> DEFINE B == {i \in 0 .. n : g[i] = f[i]}
<1>8. \A i \in 1 .. n : i \in 1 .. (n + 1)
  BY <1>1
<1>9. B \in SUBSET (0 .. n) /\ 0 \in B /\ \A i \in 1 .. n : i - 1 \in B => i \in B
  <2>1. ASSUME NEW i \in 1 .. n, g[i - 1] = f[i - 1] PROVE g[i] = f[i]
    <3>1. g[i] = KeepMessage(t[n + 2 - i], g[i - 1])
      BY <1>7, <1>8
    <3>2. f[i] = KeepMessage(s[n + 1 - i], f[i - 1])
      BY <1>6
    <3> QED
      BY <1>2, <2>1, <3>1, <3>2
  <2>2. 0 \in 0 .. n /\ g[0] = f[0]
    BY <1>1, <1>6, <1>7
  <2>3. \A i \in 1 .. n : i \in 0 .. n
    BY <1>1
  <2> QED
    BY <2>1, <2>2, <2>3
<1>10. B = 0 .. n
  <2> HIDE DEF B
  <2> QED
    BY <1>1, <1>9, Induct
<1>11. g[n] = f[n]
  <2>1. n \in 0 .. n
    BY <1>1
  <2>2. n \in B
    <3> HIDE DEF B
    <3> QED
      BY <1>10, <2>1
  <2> QED
    BY <2>2
<1>12. g[n + 1] = KeepMessage(m, g[n])
  <2>1. n + 1 \in 1 .. (n + 1) /\ (n + 1) - 1 = n /\ n + 2 - (n + 1) = 1
    BY <1>1
  <2> QED
    BY <1>2, <1>7, <2>1
<1>13. KeepMessages(t, chars) = KeepMessage(m, KeepMessages(s, chars))
  BY <1>4, <1>5, <1>11, <1>12
<1> QED
  BY <1>13 DEF t

\* Valid on the empty list, and the type of its result.
LEMMA ValidBase ==
    ASSUME NEW s \in Seq(Message)
    PROVE  Valid(<<>>) = <<>> /\ Valid(s) \in Seq(Message)
<1>1. <<>> \in Seq(Message) /\ Len(<<>>) = 0
  OBVIOUS
<1>2. Valid(<<>>) = <<>>
  <2>1. PICK f : Validates(f, <<>>) /\ Valid(<<>>) = f[Len(<<>>)]
    BY <1>1, ValidIs
  <2>2. f[0] = <<>>
    BY <2>1 DEF Validates
  <2> QED
    BY <1>1, <2>1, <2>2
<1>3. Valid(s) \in Seq(Message)
  <2>1. PICK f : Validates(f, s) /\ Valid(s) = f[Len(s)]
    BY ValidIs
  <2>2. f \in [0 .. Len(s) -> Seq(Message)]
    BY <2>1 DEF Validates
  <2>3. Len(s) \in 0 .. Len(s)
    OBVIOUS
  <2> QED
    BY <2>1, <2>2, <2>3
<1> QED
  BY <1>2, <1>3

\* An older message is in front of the valid ones.
LEMMA ValidPrepend ==
    ASSUME NEW s \in Seq(Message), NEW m \in Message
    PROVE  Valid(<<m>> \o s) = TakeMessage(m, Valid(s))
<1> DEFINE t == <<m>> \o s
           n == Len(s)
<1>1. n \in Nat /\ t \in Seq(Message) /\ Len(t) = n + 1
  OBVIOUS
<1>2. t[1] = m /\ \A i \in 1 .. n : t[n + 2 - i] = s[n + 1 - i]
  OBVIOUS
<1> HIDE DEF t
<1>4. PICK f : Validates(f, s) /\ Valid(s) = f[n]
  BY ValidIs
<1>5. PICK g : Validates(g, t) /\ Valid(t) = g[n + 1]
  BY <1>1, ValidIs
<1> HIDE DEF n
<1>6. f[0] = <<>> /\ \A i \in 1 .. n : f[i] = TakeMessage(s[n + 1 - i], f[i - 1])
  BY <1>4 DEF Validates, n
<1>7. g[0] = <<>> /\ \A i \in 1 .. (n + 1) : g[i] = TakeMessage(t[n + 2 - i], g[i - 1])
  BY <1>1, <1>5 DEF Validates
<1> DEFINE B == {i \in 0 .. n : g[i] = f[i]}
<1>8. \A i \in 1 .. n : i \in 1 .. (n + 1)
  BY <1>1
<1>9. B \in SUBSET (0 .. n) /\ 0 \in B /\ \A i \in 1 .. n : i - 1 \in B => i \in B
  <2>1. ASSUME NEW i \in 1 .. n, g[i - 1] = f[i - 1] PROVE g[i] = f[i]
    <3>1. g[i] = TakeMessage(t[n + 2 - i], g[i - 1])
      BY <1>7, <1>8
    <3>2. f[i] = TakeMessage(s[n + 1 - i], f[i - 1])
      BY <1>6
    <3> QED
      BY <1>2, <2>1, <3>1, <3>2
  <2>2. 0 \in 0 .. n /\ g[0] = f[0]
    BY <1>1, <1>6, <1>7
  <2>3. \A i \in 1 .. n : i \in 0 .. n
    BY <1>1
  <2> QED
    BY <2>1, <2>2, <2>3
<1>10. B = 0 .. n
  <2> HIDE DEF B
  <2> QED
    BY <1>1, <1>9, Induct
<1>11. g[n] = f[n]
  <2>1. n \in 0 .. n
    BY <1>1
  <2>2. n \in B
    <3> HIDE DEF B
    <3> QED
      BY <1>10, <2>1
  <2> QED
    BY <2>2
<1>12. g[n + 1] = TakeMessage(m, g[n])
  <2>1. n + 1 \in 1 .. (n + 1) /\ (n + 1) - 1 = n /\ n + 2 - (n + 1) = 1
    BY <1>1
  <2> QED
    BY <1>2, <1>7, <2>1
<1>13. Valid(t) = TakeMessage(m, Valid(s))
  BY <1>4, <1>5, <1>11, <1>12
<1> QED
  BY <1>13 DEF t

\* The document loop on the empty list, and the type of its result.
LEMMA KeepDocumentsBase ==
    ASSUME NEW s \in Seq(Document)
    PROVE  KeepDocuments(<<>>) = [kept |-> <<>>, used |-> 0] /\ KeepDocuments(s) \in DocAcc
<1>1. <<>> \in Seq(Document) /\ Len(<<>>) = 0
  OBVIOUS
<1>2. KeepDocuments(<<>>) = [kept |-> <<>>, used |-> 0]
  <2>1. PICK f : KeepsDocs(f, <<>>) /\ KeepDocuments(<<>>) = f[Len(<<>>)]
    BY <1>1, KeepDocumentsIs
  <2>2. f[0] = [kept |-> <<>>, used |-> 0]
    BY <2>1 DEF KeepsDocs
  <2> QED
    BY <1>1, <2>1, <2>2
<1>3. KeepDocuments(s) \in DocAcc
  <2>1. PICK f : KeepsDocs(f, s) /\ KeepDocuments(s) = f[Len(s)]
    BY KeepDocumentsIs
  <2>2. f \in [0 .. Len(s) -> DocAcc]
    BY <2>1 DEF KeepsDocs
  <2>3. Len(s) \in 0 .. Len(s)
    OBVIOUS
  <2> QED
    BY <2>1, <2>2, <2>3
<1> QED
  BY <1>2, <1>3

\* The document loop looks at a later document last.
LEMMA KeepDocumentsAppend ==
    ASSUME NEW s \in Seq(Document), NEW m \in Document
    PROVE  KeepDocuments(Append(s, m)) = KeepDocument(KeepDocuments(s), TrimDocument(m))
<1> DEFINE t == Append(s, m)
           n == Len(s)
<1>1. n \in Nat /\ t \in Seq(Document) /\ Len(t) = n + 1
  OBVIOUS
<1>2. t[n + 1] = m /\ \A i \in 1 .. n : t[i] = s[i]
  OBVIOUS
<1> HIDE DEF t
<1>4. PICK f : KeepsDocs(f, s) /\ KeepDocuments(s) = f[n]
  BY KeepDocumentsIs
<1>5. PICK g : KeepsDocs(g, t) /\ KeepDocuments(t) = g[n + 1]
  BY <1>1, KeepDocumentsIs
<1> HIDE DEF n
<1>6. /\ f[0] = [kept |-> <<>>, used |-> 0]
      /\ \A i \in 1 .. n : f[i] = KeepDocument(f[i - 1], TrimDocument(s[i]))
  BY <1>4 DEF KeepsDocs, n
<1>7. /\ g[0] = [kept |-> <<>>, used |-> 0]
      /\ \A i \in 1 .. (n + 1) : g[i] = KeepDocument(g[i - 1], TrimDocument(t[i]))
  BY <1>1, <1>5 DEF KeepsDocs
<1> DEFINE B == {i \in 0 .. n : g[i] = f[i]}
<1>8. \A i \in 1 .. n : i \in 1 .. (n + 1)
  BY <1>1
<1>9. B \in SUBSET (0 .. n) /\ 0 \in B /\ \A i \in 1 .. n : i - 1 \in B => i \in B
  <2>1. ASSUME NEW i \in 1 .. n, g[i - 1] = f[i - 1] PROVE g[i] = f[i]
    <3>1. g[i] = KeepDocument(g[i - 1], TrimDocument(t[i]))
      BY <1>7, <1>8
    <3>2. f[i] = KeepDocument(f[i - 1], TrimDocument(s[i]))
      BY <1>6
    <3> QED
      BY <1>2, <2>1, <3>1, <3>2
  <2>2. 0 \in 0 .. n /\ g[0] = f[0]
    BY <1>1, <1>6, <1>7
  <2>3. \A i \in 1 .. n : i \in 0 .. n
    BY <1>1
  <2> QED
    BY <2>1, <2>2, <2>3
<1>10. B = 0 .. n
  <2> HIDE DEF B
  <2> QED
    BY <1>1, <1>9, Induct
<1>11. g[n] = f[n]
  <2>1. n \in 0 .. n
    BY <1>1
  <2>2. n \in B
    <3> HIDE DEF B
    <3> QED
      BY <1>10, <2>1
  <2> QED
    BY <2>2
<1>12. g[n + 1] = KeepDocument(g[n], TrimDocument(m))
  <2>1. n + 1 \in 1 .. (n + 1) /\ (n + 1) - 1 = n
    BY <1>1
  <2> QED
    BY <1>2, <1>7, <2>1
<1>13. KeepDocuments(t) = KeepDocument(KeepDocuments(s), TrimDocument(m))
  BY <1>4, <1>5, <1>11, <1>12
<1> QED
  BY <1>13 DEF t

\* Named on the empty list, and the type of its result.
LEMMA NamedBase ==
    ASSUME NEW s \in Seq(Document)
    PROVE  Named(<<>>) = <<>> /\ Named(s) \in Seq(Document)
<1>1. <<>> \in Seq(Document) /\ Len(<<>>) = 0
  OBVIOUS
<1>2. Named(<<>>) = <<>>
  <2>1. PICK f : Names(f, <<>>) /\ Named(<<>>) = f[Len(<<>>)]
    BY <1>1, NamedIs
  <2>2. f[0] = <<>>
    BY <2>1 DEF Names
  <2> QED
    BY <1>1, <2>1, <2>2
<1>3. Named(s) \in Seq(Document)
  <2>1. PICK f : Names(f, s) /\ Named(s) = f[Len(s)]
    BY NamedIs
  <2>2. f \in [0 .. Len(s) -> Seq(Document)]
    BY <2>1 DEF Names
  <2>3. Len(s) \in 0 .. Len(s)
    OBVIOUS
  <2> QED
    BY <2>1, <2>2, <2>3
<1> QED
  BY <1>2, <1>3

\* A later document is behind the named ones.
LEMMA NamedAppend ==
    ASSUME NEW s \in Seq(Document), NEW m \in Document
    PROVE  Named(Append(s, m)) = TakeDocument(Named(s), m)
<1> DEFINE t == Append(s, m)
           n == Len(s)
<1>1. n \in Nat /\ t \in Seq(Document) /\ Len(t) = n + 1
  OBVIOUS
<1>2. t[n + 1] = m /\ \A i \in 1 .. n : t[i] = s[i]
  OBVIOUS
<1> HIDE DEF t
<1>4. PICK f : Names(f, s) /\ Named(s) = f[n]
  BY NamedIs
<1>5. PICK g : Names(g, t) /\ Named(t) = g[n + 1]
  BY <1>1, NamedIs
<1> HIDE DEF n
<1>6. f[0] = <<>> /\ \A i \in 1 .. n : f[i] = TakeDocument(f[i - 1], s[i])
  BY <1>4 DEF Names, n
<1>7. g[0] = <<>> /\ \A i \in 1 .. (n + 1) : g[i] = TakeDocument(g[i - 1], t[i])
  BY <1>1, <1>5 DEF Names
<1> DEFINE B == {i \in 0 .. n : g[i] = f[i]}
<1>8. \A i \in 1 .. n : i \in 1 .. (n + 1)
  BY <1>1
<1>9. B \in SUBSET (0 .. n) /\ 0 \in B /\ \A i \in 1 .. n : i - 1 \in B => i \in B
  <2>1. ASSUME NEW i \in 1 .. n, g[i - 1] = f[i - 1] PROVE g[i] = f[i]
    <3>1. g[i] = TakeDocument(g[i - 1], t[i])
      BY <1>7, <1>8
    <3>2. f[i] = TakeDocument(f[i - 1], s[i])
      BY <1>6
    <3> QED
      BY <1>2, <2>1, <3>1, <3>2
  <2>2. 0 \in 0 .. n /\ g[0] = f[0]
    BY <1>1, <1>6, <1>7
  <2>3. \A i \in 1 .. n : i \in 0 .. n
    BY <1>1
  <2> QED
    BY <2>1, <2>2, <2>3
<1>10. B = 0 .. n
  <2> HIDE DEF B
  <2> QED
    BY <1>1, <1>9, Induct
<1>11. g[n] = f[n]
  <2>1. n \in 0 .. n
    BY <1>1
  <2>2. n \in B
    <3> HIDE DEF B
    <3> QED
      BY <1>10, <2>1
  <2> QED
    BY <2>2
<1>12. g[n + 1] = TakeDocument(g[n], m)
  <2>1. n + 1 \in 1 .. (n + 1) /\ (n + 1) - 1 = n
    BY <1>1
  <2> QED
    BY <1>2, <1>7, <2>1
<1>13. Named(t) = TakeDocument(Named(s), m)
  BY <1>4, <1>5, <1>11, <1>12
<1> QED
  BY <1>13 DEF t

\* The loop over the chunks on the empty list, and the type of its result.
LEMMA KeepChunksBase ==
    ASSUME NEW s \in Seq(Document), NEW limit \in Int
    PROVE  /\ KeepChunks(<<>>, limit) = [kept |-> <<>>, used |-> 0, stop |-> FALSE]
           /\ KeepChunks(s, limit) \in BlockAcc
<1>1. <<>> \in Seq(Document) /\ Len(<<>>) = 0
  OBVIOUS
<1>2. KeepChunks(<<>>, limit) = [kept |-> <<>>, used |-> 0, stop |-> FALSE]
  <2>1. PICK f : KeepsChunks(f, <<>>, limit) /\ KeepChunks(<<>>, limit) = f[Len(<<>>)]
    BY <1>1, KeepChunksIs
  <2>2. f[0] = [kept |-> <<>>, used |-> 0, stop |-> FALSE]
    BY <2>1 DEF KeepsChunks
  <2> QED
    BY <1>1, <2>1, <2>2
<1>3. KeepChunks(s, limit) \in BlockAcc
  <2>1. PICK f : KeepsChunks(f, s, limit) /\ KeepChunks(s, limit) = f[Len(s)]
    BY KeepChunksIs
  <2>2. f \in [0 .. Len(s) -> BlockAcc]
    BY <2>1 DEF KeepsChunks
  <2>3. Len(s) \in 0 .. Len(s)
    OBVIOUS
  <2> QED
    BY <2>1, <2>2, <2>3
<1> QED
  BY <1>2, <1>3

\* The loop over the chunks looks at a later chunk last.
LEMMA KeepChunksAppend ==
    ASSUME NEW s \in Seq(Document), NEW m \in Document, NEW limit \in Int
    PROVE  KeepChunks(Append(s, m), limit) = KeepChunk(KeepChunks(s, limit), m, limit)
<1> DEFINE t == Append(s, m)
           n == Len(s)
<1>1. n \in Nat /\ t \in Seq(Document) /\ Len(t) = n + 1
  OBVIOUS
<1>2. t[n + 1] = m /\ \A i \in 1 .. n : t[i] = s[i]
  OBVIOUS
<1> HIDE DEF t
<1>4. PICK f : KeepsChunks(f, s, limit) /\ KeepChunks(s, limit) = f[n]
  BY KeepChunksIs
<1>5. PICK g : KeepsChunks(g, t, limit) /\ KeepChunks(t, limit) = g[n + 1]
  BY <1>1, KeepChunksIs
<1> HIDE DEF n
<1>6. /\ f[0] = [kept |-> <<>>, used |-> 0, stop |-> FALSE]
      /\ \A i \in 1 .. n : f[i] = KeepChunk(f[i - 1], s[i], limit)
  BY <1>4 DEF KeepsChunks, n
<1>7. /\ g[0] = [kept |-> <<>>, used |-> 0, stop |-> FALSE]
      /\ \A i \in 1 .. (n + 1) : g[i] = KeepChunk(g[i - 1], t[i], limit)
  BY <1>1, <1>5 DEF KeepsChunks
<1> DEFINE B == {i \in 0 .. n : g[i] = f[i]}
<1>8. \A i \in 1 .. n : i \in 1 .. (n + 1)
  BY <1>1
<1>9. B \in SUBSET (0 .. n) /\ 0 \in B /\ \A i \in 1 .. n : i - 1 \in B => i \in B
  <2>1. ASSUME NEW i \in 1 .. n, g[i - 1] = f[i - 1] PROVE g[i] = f[i]
    <3>1. g[i] = KeepChunk(g[i - 1], t[i], limit)
      BY <1>7, <1>8
    <3>2. f[i] = KeepChunk(f[i - 1], s[i], limit)
      BY <1>6
    <3> QED
      BY <1>2, <2>1, <3>1, <3>2
  <2>2. 0 \in 0 .. n /\ g[0] = f[0]
    BY <1>1, <1>6, <1>7
  <2>3. \A i \in 1 .. n : i \in 0 .. n
    BY <1>1
  <2> QED
    BY <2>1, <2>2, <2>3
<1>10. B = 0 .. n
  <2> HIDE DEF B
  <2> QED
    BY <1>1, <1>9, Induct
<1>11. g[n] = f[n]
  <2>1. n \in 0 .. n
    BY <1>1
  <2>2. n \in B
    <3> HIDE DEF B
    <3> QED
      BY <1>10, <2>1
  <2> QED
    BY <2>2
<1>12. g[n + 1] = KeepChunk(g[n], m, limit)
  <2>1. n + 1 \in 1 .. (n + 1) /\ (n + 1) - 1 = n
    BY <1>1
  <2> QED
    BY <1>2, <1>7, <2>1
<1>13. KeepChunks(t, limit) = KeepChunk(KeepChunks(s, limit), m, limit)
  BY <1>4, <1>5, <1>11, <1>12
<1> QED
  BY <1>13 DEF t

\* So does a number in front.
LEMMA SumPrepend ==
    ASSUME NEW ns \in Seq(Nat), NEW x \in Nat
    PROVE  SumOf(<<x>> \o ns) = x + SumOf(ns)
<1> DEFINE B == {t \in Seq(Nat) : SumOf(<<x>> \o t) = x + SumOf(t)}
<1>1. <<>> \in B
  <2>1. <<x>> \o <<>> = Append(<<>>, x) /\ <<>> \in Seq(Nat)
    OBVIOUS
  <2>2. SumOf(Append(<<>>, x)) = SumOf(<<>>) + x /\ SumOf(<<>>) = 0
    BY <2>1, SumAppend, SumBase
  <2> QED
    BY <2>1, <2>2
<1>2. ASSUME NEW m \in Nat, NEW t \in B PROVE Append(t, m) \in B
  <2>1. t \in Seq(Nat) /\ <<x>> \o t \in Seq(Nat) /\ Append(t, m) \in Seq(Nat)
    OBVIOUS
  <2>2. <<x>> \o Append(t, m) = Append(<<x>> \o t, m)
    BY <2>1
  <2>3. SumOf(Append(<<x>> \o t, m)) = SumOf(<<x>> \o t) + m
    BY <2>1, SumAppend, SumBase
  <2>4. SumOf(Append(t, m)) = SumOf(t) + m /\ SumOf(t) \in Nat
    BY <2>1, SumAppend, SumBase
  <2>5. SumOf(<<x>> \o t) = x + SumOf(t)
    OBVIOUS
  <2>6. SumOf(<<x>> \o Append(t, m)) = x + SumOf(Append(t, m))
    <3>1. SumOf(<<x>> \o Append(t, m)) = SumOf(Append(<<x>> \o t, m))
      BY <2>2
    <3> HIDE DEF B
    <3> QED
      BY <2>3, <2>4, <2>5, <3>1
  <2> QED
    BY <2>1, <2>6
<1>3. B = Seq(Nat)
  <2>1. B \in SUBSET Seq(Nat)
    OBVIOUS
  <2> HIDE DEF B
  <2> QED
    BY <1>1, <1>2, <2>1, AppendInduct
<1> QED
  BY <1>3

\* The lengths of a list of texts.
Lengths(s) == [i \in DOMAIN s |-> s[i].len]

\* The characters of a list of messages.
LEMMA TotalBase ==
    ASSUME NEW s \in Seq(Message)
    PROVE  /\ Lengths(s) \in Seq(Nat) /\ Len(Lengths(s)) = Len(s) /\ Total(s) \in Nat
           /\ Total(<<>>) = 0
<1>1. \A i \in 1 .. Len(s) : s[i] \in Message
  OBVIOUS
<1>2. Len(s) \in Nat /\ DOMAIN s = 1 .. Len(s) /\ \A i \in 1 .. Len(s) : s[i].len \in Nat
  BY <1>1 DEF Message
<1>3. Lengths(s) = [i \in 1 .. Len(s) |-> s[i].len]
  BY <1>2 DEF Lengths
<1>4. [i \in 1 .. Len(s) |-> s[i].len] \in Seq(Nat)
  BY <1>2, IsASeq
<1>5. Lengths(s) \in Seq(Nat) /\ Len(Lengths(s)) = Len(s)
  BY <1>2, <1>3, <1>4
<1>6. Total(s) \in Nat
  BY <1>5, SumBase DEF Total, Lengths
<1>7. Total(<<>>) = 0
  <2>1. [i \in DOMAIN <<>> |-> (<<>>)[i].len] = <<>>
    OBVIOUS
  <2>2. SumOf(<<>>) = 0
    BY <1>5, SumBase
  <2> QED
    BY <2>1, <2>2 DEF Total
<1> QED
  BY <1>5, <1>6, <1>7

\* A message in front adds its characters to the total.
LEMMA TotalPrepend ==
    ASSUME NEW s \in Seq(Message), NEW m \in Message
    PROVE  Total(<<m>> \o s) = m.len + Total(s)
<1>1. \A t \in Seq(Message) : Lengths(t) \in Seq(Nat) /\ Len(Lengths(t)) = Len(t)
  BY TotalBase
<1>2. \A t : Total(t) = SumOf(Lengths(t))
  BY DEF Total, Lengths
<1>4. m.len \in Nat /\ <<m>> \o s \in Seq(Message) /\ Len(<<m>> \o s) = Len(s) + 1
  BY DEF Message
<1>5. Lengths(<<m>> \o s) = <<m.len>> \o Lengths(s)
  <2> DEFINE u == Lengths(<<m>> \o s)
             v == <<m.len>> \o Lengths(s)
  <2>1. u \in Seq(Nat) /\ Len(u) = Len(s) + 1
    BY <1>1, <1>4
  <2>2. v \in Seq(Nat) /\ Len(v) = Len(s) + 1
    BY <1>1, <1>4
  <2>3. ASSUME NEW i \in 1 .. (Len(s) + 1) PROVE u[i] = v[i]
    <3>1. u[i] = (<<m>> \o s)[i].len
      BY <1>4 DEF Lengths
    <3>2. CASE i = 1
      <4>1. (<<m>> \o s)[i] = m
        BY <3>2
      <4>2. v[i] = m.len
        BY <1>1, <1>4, <3>2
      <4> QED
        BY <3>1, <4>1, <4>2
    <3>3. CASE i # 1
      <4>0. i - 1 \in 1 .. Len(s) /\ i - 1 \in DOMAIN s
        BY <3>3
      <4>1. (<<m>> \o s)[i] = s[i - 1]
        BY <3>3
      <4>2. v[i] = Lengths(s)[i - 1]
        BY <1>1, <1>4, <3>3
      <4>3. Lengths(s)[i - 1] = s[i - 1].len
        BY <4>0 DEF Lengths
      <4> QED
        BY <3>1, <4>1, <4>2, <4>3
    <3> QED
      BY <3>2, <3>3
  <2> HIDE DEF u, v
  <2>4. u = v
    BY <2>1, <2>2, <2>3, SeqEqual
  <2> QED
    BY <2>4 DEF u, v
<1>6. Lengths(s) \in Seq(Nat)
  BY <1>1
<1>8. SumOf(<<m.len>> \o Lengths(s)) = m.len + SumOf(Lengths(s))
  BY <1>4, <1>6, SumPrepend
<1> QED
  BY <1>2, <1>5, <1>8

\* A number for each document of a list, for a list longer by one document.
LEMMA MapAppend ==
    ASSUME NEW s \in Seq(Document), NEW m \in Document, NEW e \in [Document -> Nat]
    PROVE  /\ [i \in DOMAIN s |-> e[s[i]]] \in Seq(Nat)
           /\ [i \in DOMAIN Append(s, m) |-> e[Append(s, m)[i]]]
                = Append([i \in DOMAIN s |-> e[s[i]]], e[m])
<1>1. ASSUME NEW t \in Seq(Document)
      PROVE  /\ DOMAIN t = 1 .. Len(t) /\ Len(t) \in Nat
             /\ [i \in 1 .. Len(t) |-> e[t[i]]] \in Seq(Nat)
             /\ Len([i \in 1 .. Len(t) |-> e[t[i]]]) = Len(t)
  <2>1. Len(t) \in Nat /\ DOMAIN t = 1 .. Len(t) /\ \A i \in 1 .. Len(t) : e[t[i]] \in Nat
    OBVIOUS
  <2>2. [i \in 1 .. Len(t) |-> e[t[i]]] \in Seq(Nat)
    BY <2>1, IsASeq
  <2> QED
    BY <2>1, <2>2
<1>2. Append(s, m) \in Seq(Document) /\ Len(Append(s, m)) = Len(s) + 1 /\ e[m] \in Nat
  OBVIOUS
<1> DEFINE w == [i \in 1 .. Len(s) |-> e[s[i]]]
           u == [i \in 1 .. (Len(s) + 1) |-> e[Append(s, m)[i]]]
           v == Append(w, e[m])
<1>3. w \in Seq(Nat) /\ Len(w) = Len(s)
  BY <1>1
<1>4. u \in Seq(Nat) /\ Len(u) = Len(s) + 1
  BY <1>1, <1>2
<1>5. v \in Seq(Nat) /\ Len(v) = Len(s) + 1
  <2> HIDE DEF w
  <2> QED
    BY <1>2, <1>3
<1>6. ASSUME NEW i \in 1 .. (Len(s) + 1) PROVE u[i] = v[i]
  <2>1. u[i] = e[Append(s, m)[i]]
    OBVIOUS
  <2>2. CASE i = Len(s) + 1
    <3>1. Append(s, m)[i] = m
      BY <2>2
    <3>2. v[i] = e[m]
      <4> HIDE DEF w
      <4> QED
        BY <1>2, <1>3, <2>2
    <3> QED
      BY <2>1, <3>1, <3>2
  <2>3. CASE i # Len(s) + 1
    <3>1. i \in 1 .. Len(s)
      BY <2>3
    <3>2. Append(s, m)[i] = s[i]
      BY <3>1
    <3>3. v[i] = w[i]
      <4> HIDE DEF w
      <4> QED
        BY <1>2, <1>3, <3>1
    <3>4. w[i] = e[s[i]]
      BY <3>1
    <3> QED
      BY <2>1, <3>2, <3>3, <3>4
  <2> QED
    BY <2>2, <2>3
<1>7. u = v
  <2> HIDE DEF u, v
  <2> QED
    BY <1>4, <1>5, <1>6, SeqEqual
<1>8. DOMAIN s = 1 .. Len(s) /\ DOMAIN Append(s, m) = 1 .. (Len(s) + 1)
  BY <1>1, <1>2
<1> QED
  BY <1>3, <1>7, <1>8

\* So does a document at the end.
LEMMA TotalAppend ==
    ASSUME NEW s \in Seq(Document), NEW m \in Document
    PROVE  Total(s) \in Nat /\ Total(<<>>) = 0 /\ Total(Append(s, m)) = Total(s) + m.len
<1> DEFINE e == [d \in Document |-> d.len]
           L(t) == [i \in DOMAIN t |-> e[t[i]]]
<1>1. e \in [Document -> Nat] /\ \A d \in Document : e[d] = d.len
  BY DEF Document
<1>2. ASSUME NEW t \in Seq(Document) PROVE Total(t) = SumOf(L(t))
  <2>1. \A i \in DOMAIN t : t[i] \in Document
    OBVIOUS
  <2>2. \A i \in DOMAIN t : e[t[i]] = t[i].len
    BY <1>1, <2>1
  <2> HIDE DEF e
  <2>3. [i \in DOMAIN t |-> t[i].len] = L(t)
    BY <2>2
  <2> HIDE DEF L
  <2> QED
    BY <2>3 DEF Total
<1> HIDE DEF e
<1>3. L(s) \in Seq(Nat) /\ L(Append(s, m)) = Append(L(s), e[m])
  BY <1>1, MapAppend
<1>4. Append(s, m) \in Seq(Document) /\ e[m] = m.len /\ m.len \in Nat
  BY <1>1 DEF Document
<1>5. L(<<>>) = <<>>
  OBVIOUS
<1> HIDE DEF L
<1>6. SumOf(L(s)) \in Nat /\ SumOf(<<>>) = 0 /\ SumOf(Append(L(s), m.len)) = SumOf(L(s)) + m.len
  BY <1>3, <1>4, SumAppend, SumBase
<1>7. Total(<<>>) = SumOf(<<>>)
  <2>1. <<>> \in Seq(Document)
    OBVIOUS
  <2>2. Total(<<>>) = SumOf(L(<<>>))
    BY <1>2, <2>1
  <2> QED
    BY <1>5, <2>2
<1> QED
  BY <1>2, <1>3, <1>4, <1>6, <1>7

\* A chunk at the end adds its characters and the blank line before it.
LEMMA BlockAppend ==
    ASSUME NEW s \in Seq(Document), NEW m \in Document
    PROVE  /\ BlockChars(s) \in Nat /\ BlockChars(<<>>) = 0
           /\ BlockChars(Append(s, m)) =
                BlockChars(s) + (IF s = <<>> THEN 0 ELSE 2) + ChunkChars(m)
<1> DEFINE e == [d \in Document |-> ChunkChars(d)]
           L(t) == [i \in DOMAIN t |-> e[t[i]]]
<1>1. e \in [Document -> Nat] /\ \A d \in Document : e[d] = ChunkChars(d)
  BY ChunkFacts
<1>2. ASSUME NEW t \in Seq(Document)
      PROVE  BlockChars(t) = SumOf(L(t)) + 2 * AtLeast(0, Len(t) - 1)
  <2>1. \A i \in DOMAIN t : t[i] \in Document
    OBVIOUS
  <2>2. \A i \in DOMAIN t : e[t[i]] = ChunkChars(t[i])
    BY <1>1, <2>1
  <2> HIDE DEF e
  <2>3. [i \in DOMAIN t |-> ChunkChars(t[i])] = L(t)
    BY <2>2
  <2> HIDE DEF L
  <2> QED
    BY <2>3 DEF BlockChars
<1> HIDE DEF e
<1>3. L(s) \in Seq(Nat) /\ L(Append(s, m)) = Append(L(s), e[m])
  BY <1>1, MapAppend
<1>4. Append(s, m) \in Seq(Document) /\ e[m] = ChunkChars(m) /\ ChunkChars(m) \in Nat
  BY <1>1, ChunkFacts
<1>5. L(<<>>) = <<>> /\ <<>> \in Seq(Document)
  OBVIOUS
<1> HIDE DEF L
<1>6. /\ SumOf(L(s)) \in Nat /\ SumOf(<<>>) = 0
      /\ SumOf(Append(L(s), ChunkChars(m))) = SumOf(L(s)) + ChunkChars(m)
  BY <1>3, <1>4, SumAppend, SumBase
<1>7. 2 * AtLeast(0, Len(<<>>) - 1) = 0
  BY DEF AtLeast
<1>8. BlockChars(<<>>) = 0
  <2>1. BlockChars(<<>>) = SumOf(L(<<>>)) + 2 * AtLeast(0, Len(<<>>) - 1)
    BY <1>2, <1>5
  <2>2. SumOf(L(<<>>)) = 0
    BY <1>5, <1>6
  <2> QED
    BY <1>7, <2>1, <2>2
<1>9. Len(s) \in Nat /\ (s = <<>> <=> Len(s) = 0) /\ Len(Append(s, m)) = Len(s) + 1
  OBVIOUS
<1>10. /\ BlockChars(s) = SumOf(L(s)) + 2 * AtLeast(0, Len(s) - 1)
       /\ BlockChars(Append(s, m)) = SumOf(L(s)) + ChunkChars(m) + 2 * AtLeast(0, Len(s))
  <2>1. BlockChars(s) = SumOf(L(s)) + 2 * AtLeast(0, Len(s) - 1)
    BY <1>2
  <2>2. BlockChars(Append(s, m)) = SumOf(L(Append(s, m))) + 2 * AtLeast(0, Len(Append(s, m)) - 1)
    BY <1>2, <1>4
  <2>3. Len(Append(s, m)) - 1 = Len(s)
    BY <1>9
  <2>4. SumOf(L(Append(s, m))) = SumOf(L(s)) + ChunkChars(m)
    BY <1>3, <1>4, <1>6
  <2> QED
    BY <2>1, <2>2, <2>3, <2>4
<1> QED
  BY <1>4, <1>6, <1>8, <1>9, <1>10 DEF AtLeast

-----------------------------------------------------------------------------
(* The history loop.                                                        *)

\* kept is the end of v, of which the first message may be another version.
NewestOf(kept, v) ==
    LET from == Len(v) - Len(kept)
    IN  /\ from >= 0
        /\ \A i \in DOMAIN kept : kept[i].id = v[from + i].id
        /\ \A i \in DOMAIN kept \ {1} : kept[i] = v[from + i]

\* What the loop has done after the messages s.
HistoryInv(s, a, chars) ==
    /\ NewestOf(a.kept, Valid(s))
    /\ a.left > 0 => a.kept = Valid(s)
    /\ Valid(a.kept) = a.kept
    /\ Len(Valid(s)) <= Len(s)
    /\ Total(a.kept) + a.left = chars
    /\ a.left >= -1
    /\ chars = 0 => a.kept = <<>>
    /\ KeepMessages(a.kept, chars) = a

\* An older message in front of v changes nothing.
LEMMA NewestShift ==
    ASSUME NEW kept \in Seq(Message), NEW v \in Seq(Message), NEW m \in Message,
           NewestOf(kept, v)
    PROVE  NewestOf(kept, <<m>> \o v)
<1> DEFINE from == Len(v) - Len(kept)
           w == <<m>> \o v
<1>1. from \in Nat /\ Len(kept) \in Nat /\ Len(v) \in Nat /\ DOMAIN kept = 1 .. Len(kept)
  BY DEF NewestOf
<1>2. Len(w) - Len(kept) = from + 1
  BY <1>1
<1>3. ASSUME NEW i \in DOMAIN kept PROVE w[from + 1 + i] = v[from + i]
  <2>1. from + i \in 1 .. Len(v)
    BY <1>1
  <2> QED
    BY <1>1, <2>1
<1> HIDE DEF w
<1>4. /\ \A i \in DOMAIN kept : kept[i].id = w[from + 1 + i].id
      /\ \A i \in DOMAIN kept \ {1} : kept[i] = w[from + 1 + i]
  <2>1. /\ \A i \in DOMAIN kept : kept[i].id = v[from + i].id
        /\ \A i \in DOMAIN kept \ {1} : kept[i] = v[from + i]
    BY DEF NewestOf
  <2> HIDE DEF from
  <2> QED
    BY <1>3, <2>1
<1>5. NewestOf(kept, w)
  <2> HIDE DEF from
  <2> QED
    BY <1>1, <1>2, <1>4 DEF NewestOf
<1> QED
  BY <1>5 DEF w

\* v behind a shortened message is the end of v behind the message itself.
LEMMA NewestFront ==
    ASSUME NEW v \in Seq(Message), NEW m \in Message, NEW m2 \in Message, m2.id = m.id
    PROVE  NewestOf(<<m2>> \o v, <<m>> \o v)
<1> DEFINE u == <<m2>> \o v
           w == <<m>> \o v
<1>1. /\ u \in Seq(Message) /\ w \in Seq(Message)
      /\ Len(u) = Len(v) + 1 /\ Len(w) = Len(v) + 1 /\ Len(v) \in Nat
  OBVIOUS
<1>2. u[1] = m2 /\ w[1] = m /\ \A i \in 1 .. (Len(v) + 1) : i # 1 => u[i] = w[i]
  OBVIOUS
<1>3. DOMAIN u = 1 .. (Len(v) + 1)
  BY <1>1
<1> HIDE DEF u, w
<1>4. Len(w) - Len(u) = 0 /\ \A i \in 1 .. (Len(v) + 1) : 0 + i = i
  BY <1>1
<1>5. NewestOf(u, w)
  BY <1>2, <1>3, <1>4 DEF NewestOf
<1> QED
  BY <1>5 DEF u, w

\* truncate_text_preserving_ends does not cut its own result again.
LEMMA TruncatedTwice ==
    ASSUME NEW n \in Nat, NEW l \in Int
    PROVE  Truncated(Truncated(n, l), l) = Truncated(n, l)
<1> DEFINE k == Truncated(n, l)
<1>1. /\ k \in Nat
      /\ l <= 0 => k = 0
      /\ l > 0 /\ n <= l => k = n
      /\ l > 0 /\ n > l /\ l # MarkerChars + 1 => k = l
      /\ l > 0 /\ n > l /\ l = MarkerChars + 1 => k = l + 1
  BY TruncatedFacts
<1> HIDE DEF k
<1>2. Truncated(k, l) = k
  <2> DEFINE j == Truncated(k, l)
  <2>1. /\ l <= 0 => j = 0
        /\ l > 0 /\ k <= l => j = k
        /\ l > 0 /\ k > l /\ l # MarkerChars + 1 => j = l
        /\ l > 0 /\ k > l /\ l = MarkerChars + 1 => j = l + 1
    BY <1>1, TruncatedFacts
  <2> HIDE DEF j
  <2>2. j = k
    BY <1>1, <2>1
  <2> QED
    BY <2>2 DEF j
<1> QED
  BY <1>2 DEF k

\* One more message keeps it.
LEMMA HistoryStep ==
    ASSUME NEW s \in Seq(Message), NEW m \in Message, NEW chars \in Nat,
           NEW a \in HistoryAcc, HistoryInv(s, a, chars)
    PROVE  HistoryInv(<<m>> \o s, KeepMessage(m, a), chars)
<1> DEFINE t == <<m>> \o s
           n == Truncated(m.len, a.left)
           m2 == [m EXCEPT !.len = n]
           k2 == <<m2>> \o a.kept
           v == Valid(s)
<1>1. a.kept \in Seq(Message) /\ a.left \in Int /\ m.len \in Nat
  BY DEF HistoryAcc, Message
<1>2. n \in Nat
  BY <1>1, TruncatedFacts
<1>3. m2 \in Message /\ m2.len = n /\ m2.id = m.id /\ m2.role = m.role
  <2> HIDE DEF n
  <2> QED
    BY <1>2 DEF Message
<1>4. v \in Seq(Message) /\ Valid(t) = TakeMessage(m, v)
  BY ValidPrepend, ValidBase
<1>5. Len(t) = Len(s) + 1 /\ Len(s) \in Nat
  OBVIOUS
<1>6. KeepMessage(m, a) = IF ~Speaks(m) \/ n = 0 THEN a
                          ELSE [kept |-> k2, left |-> a.left - n]
  BY DEF KeepMessage
<1>7. /\ NewestOf(a.kept, v)
      /\ a.left > 0 => a.kept = v
      /\ Valid(a.kept) = a.kept
      /\ Len(v) <= Len(s)
      /\ Total(a.kept) + a.left = chars
      /\ a.left >= -1
      /\ chars = 0 => a.kept = <<>>
      /\ KeepMessages(a.kept, chars) = a
  BY DEF HistoryInv
<1>8. /\ a.left <= 0 => n = 0
      /\ a.left > 0 /\ m.len <= a.left => n = m.len
      /\ a.left > 0 /\ m.len > a.left /\ a.left # MarkerChars + 1 => n = a.left
      /\ a.left > 0 /\ m.len > a.left /\ a.left = MarkerChars + 1 => n = a.left + 1
  BY <1>1, TruncatedFacts
<1>9. Len(v) \in Nat /\ Len(<<m>> \o v) = Len(v) + 1
  BY <1>4
<1> HIDE DEF t, v
<1>10. CASE ~(Speaks(m) /\ m.len > 0)
  <2>1. KeepMessage(m, a) = a
    <3>1. m.len = 0 => n = 0
      BY <1>1, <1>8
    <3> HIDE DEF n, k2
    <3> QED
      BY <1>1, <1>6, <1>10, <3>1
  <2>2. Valid(t) = v
    BY <1>4, <1>10 DEF TakeMessage
  <2>3. Len(v) <= Len(t)
    BY <1>5, <1>7, <1>9
  <2>4. HistoryInv(t, a, chars)
    BY <1>7, <2>2, <2>3 DEF HistoryInv
  <2> QED
    BY <2>1, <2>4 DEF t
<1>11. CASE Speaks(m) /\ m.len > 0 /\ a.left <= 0
  <2>1. KeepMessage(m, a) = a
    <3> HIDE DEF n, k2
    <3> QED
      BY <1>6, <1>8, <1>11
  <2>2. Valid(t) = <<m>> \o v
    BY <1>4, <1>11 DEF TakeMessage
  <2>3. Len(Valid(t)) <= Len(t)
    BY <1>5, <1>7, <1>9, <2>2
  <2>4. NewestOf(a.kept, Valid(t))
    BY <1>1, <1>4, <1>7, <2>2, NewestShift
  <2>5. ~(a.left > 0)
    BY <1>1, <1>11
  <2>6. HistoryInv(t, a, chars)
    BY <1>7, <2>3, <2>4, <2>5 DEF HistoryInv
  <2> QED
    BY <2>1, <2>6 DEF t
<1>12. CASE Speaks(m) /\ m.len > 0 /\ a.left > 0
  <2>1. n > 0 /\ n <= a.left + 1 /\ (n # m.len => n >= a.left)
    <3> HIDE DEF n
    <3> QED
      BY <1>1, <1>2, <1>8, <1>12
  <2> DEFINE b == [kept |-> k2, left |-> a.left - n]
  <2>2. KeepMessage(m, a) = b
    <3> HIDE DEF n, k2
    <3> QED
      BY <1>2, <1>6, <1>12, <2>1
  <2>3. Valid(t) = <<m>> \o v
    BY <1>4, <1>12 DEF TakeMessage
  <2>4. a.kept = v
    BY <1>7, <1>12
  <2>5. b.kept = k2 /\ b.left = a.left - n
    <3> HIDE DEF n, k2
    <3> QED
      OBVIOUS
  <2>6. NewestOf(k2, Valid(t))
    <3> HIDE DEF m2
    <3> QED
      BY <1>3, <1>4, <2>3, <2>4, NewestFront
  <2>7. a.left - n > 0 => k2 = Valid(t)
    <3>1. SUFFICES ASSUME a.left - n > 0 PROVE m2 = m
      <4> HIDE DEF m2
      <4> QED
        BY <2>3, <2>4, <3>1
    <3>2. n = m.len
      <4> HIDE DEF n
      <4> QED
        BY <1>1, <1>2, <2>1, <3>1
    <3> QED
      BY <3>2 DEF Message
  <2>8. Valid(k2) = k2
    <3>1. Valid(k2) = TakeMessage(m2, Valid(a.kept))
      <4> HIDE DEF m2
      <4> QED
        BY <1>1, <1>3, ValidPrepend
    <3>2. Speaks(m2) /\ m2.len > 0
      <4> HIDE DEF m2, n
      <4> QED
        BY <1>3, <1>12, <2>1 DEF Speaks
    <3> HIDE DEF m2
    <3> QED
      BY <1>7, <3>1, <3>2 DEF TakeMessage
  <2>9. Len(Valid(t)) <= Len(t)
    BY <1>5, <1>7, <1>9, <2>3
  <2>10. Total(k2) + (a.left - n) = chars
    <3>1. Total(k2) = n + Total(a.kept) /\ Total(a.kept) \in Nat
      <4> HIDE DEF m2, n
      <4> QED
        BY <1>1, <1>3, TotalPrepend, TotalBase
    <3> HIDE DEF k2, n
    <3> QED
      BY <1>1, <1>2, <1>7, <3>1
  <2>11. a.left - n >= -1
    <3> HIDE DEF n
    <3> QED
      BY <1>1, <1>2, <2>1
  <2>12. chars # 0
    <3>1. Total(a.kept) \in Nat
      BY <1>1, <1>3, TotalPrepend, TotalBase
    <3> QED
      BY <1>1, <1>7, <1>12, <3>1
  <2>13. KeepMessages(k2, chars) = b
    <3>1. KeepMessages(k2, chars) = KeepMessage(m2, KeepMessages(a.kept, chars))
      <4> HIDE DEF m2
      <4> QED
        BY <1>1, <1>3, KeepMessagesPrepend
    <3>2. KeepMessages(k2, chars) = KeepMessage(m2, a)
      BY <1>7, <3>1
    <3>3. Truncated(m2.len, a.left) = n
      BY <1>1, <1>3, TruncatedTwice
    <3>4. [m2 EXCEPT !.len = n] = m2
      <4> HIDE DEF m2, n
      <4> QED
        BY <1>3 DEF Message
    <3>5. Speaks(m2) /\ n # 0
      <4> HIDE DEF m2, n
      <4> QED
        BY <1>2, <1>3, <1>12, <2>1 DEF Speaks
    <3> HIDE DEF m2, n
    <3>6. KeepMessage(m2, a) = b
      BY <3>3, <3>4, <3>5 DEF KeepMessage
    <3> QED
      BY <3>2, <3>6
  <2> HIDE DEF b, k2, n
  <2>14. HistoryInv(t, b, chars)
    BY <2>5, <2>6, <2>7, <2>8, <2>9, <2>10, <2>11, <2>12, <2>13 DEF HistoryInv
  <2> QED
    BY <2>2, <2>14 DEF t
<1> QED
  BY <1>1, <1>10, <1>11, <1>12

\* It holds after all of them.
LEMMA HistoryLoop ==
    ASSUME NEW s \in Seq(Message), NEW chars \in Nat
    PROVE  KeepMessages(s, chars) \in HistoryAcc /\ HistoryInv(s, KeepMessages(s, chars), chars)
<1> DEFINE B == {t \in Seq(Message) : HistoryInv(t, KeepMessages(t, chars), chars)}
<1>1. chars \in Int
  OBVIOUS
<1>2. ASSUME NEW t \in Seq(Message) PROVE KeepMessages(t, chars) \in HistoryAcc
  BY <1>1, KeepMessagesBase
<1>3. <<>> \in B
  <2> DEFINE e == [kept |-> <<>>, left |-> chars]
  <2>1. <<>> \in Seq(Message) /\ Len(<<>>) = 0
    OBVIOUS
  <2>2. KeepMessages(<<>>, chars) = e
    BY <1>1, <2>1, KeepMessagesBase
  <2>3. Valid(<<>>) = <<>>
    BY <2>1, ValidBase
  <2>4. Total(<<>>) = 0
    BY <2>1, TotalBase
  <2>5. NewestOf(<<>>, <<>>)
    BY DEF NewestOf
  <2>6. e.kept = <<>> /\ e.left = chars
    OBVIOUS
  <2> HIDE DEF e
  <2>7. HistoryInv(<<>>, e, chars)
    BY <2>1, <2>2, <2>3, <2>4, <2>5, <2>6 DEF HistoryInv
  <2> QED
    BY <2>1, <2>2, <2>7
<1>4. ASSUME NEW x \in Message, NEW t \in B PROVE <<x>> \o t \in B
  <2>1. t \in Seq(Message) /\ HistoryInv(t, KeepMessages(t, chars), chars)
    OBVIOUS
  <2>2. <<x>> \o t \in Seq(Message)
    BY <2>1
  <2> HIDE DEF B
  <2>3. KeepMessages(t, chars) \in HistoryAcc
    BY <1>2, <2>1
  <2>4. KeepMessages(<<x>> \o t, chars) = KeepMessage(x, KeepMessages(t, chars))
    BY <1>1, <2>1, KeepMessagesPrepend
  <2>5. HistoryInv(<<x>> \o t, KeepMessages(<<x>> \o t, chars), chars)
    BY <2>1, <2>3, <2>4, HistoryStep
  <2> QED
    BY <2>2, <2>5 DEF B
<1>5. B = Seq(Message)
  <2>1. B \in SUBSET Seq(Message)
    OBVIOUS
  <2> HIDE DEF B
  <2> QED
    BY <1>3, <1>4, <2>1, PrependInduct
<1> QED
  BY <1>2, <1>5

\* The last messages of a list.
LEMMA LastNFacts ==
    ASSUME NEW s \in Seq(Message), NEW n \in Nat
    PROVE  /\ LastN(s, n) \in Seq(Message) /\ Len(LastN(s, n)) <= n
           /\ Len(s) <= n => LastN(s, n) = s
<1> DEFINE a == AtLeast(1, Len(s) - n + 1)
           t == SubSeq(s, a, Len(s))
<1>1. a \in Nat \ {0} /\ Len(s) \in Nat /\ a >= Len(s) - n + 1 /\ (Len(s) <= n => a = 1)
  BY DEF AtLeast
<1> HIDE DEF a
<1>2. \A i \in a .. Len(s) : s[i] \in Message
  BY <1>1
<1>3. /\ t \in Seq(Message) /\ Len(t) = IF a <= Len(s) THEN Len(s) - a + 1 ELSE 0
      /\ \A i \in 1 .. (Len(s) - a + 1) : t[i] = s[a + i - 1]
  BY <1>1, <1>2, SubSeqProperties
<1> HIDE DEF t
<1>4. Len(t) <= n
  BY <1>1, <1>3
<1>5. ASSUME Len(s) <= n PROVE t = s
  <2>1. a = 1
    BY <1>1, <1>5
  <2>2. Len(t) = Len(s)
    BY <1>1, <1>3, <2>1
  <2>3. \A i \in 1 .. Len(t) : t[i] = s[i]
    BY <1>1, <1>3, <2>1, <2>2
  <2> QED
    BY <1>3, <2>2, <2>3, SeqEqual
<1>6. LastN(s, n) = t
  BY DEF LastN, t, a
<1> QED
  BY <1>3, <1>4, <1>5, <1>6

\* What apply_history_budget keeps of a history.
LEMMA Budgeted ==
    ASSUME NEW h \in Seq(Message), NEW messages \in Nat, NEW chars \in Nat,
           NEW k, k = ApplyHistoryBudget(h, messages, chars),
           NEW v, v = Valid(LastN(h, messages))
    PROVE  /\ k \in Seq(Message) /\ v \in Seq(Message)
           /\ Total(k) \in Nat /\ Total(k) <= chars + 1
           /\ chars = 0 => k = <<>>
           /\ NewestOf(k, v)
           /\ k = v \/ Total(k) >= chars
           /\ Valid(k) = k
           /\ Len(k) <= messages
           /\ ApplyHistoryBudget(k, messages, chars) = k
<1> DEFINE s == LastN(h, messages)
           a == KeepMessages(s, chars)
<1>1. s \in Seq(Message) /\ Len(s) <= messages
  BY LastNFacts
<1>2. a \in HistoryAcc /\ HistoryInv(s, a, chars)
  BY <1>1, HistoryLoop
<1>3. k = a.kept
  BY DEF ApplyHistoryBudget
<1>4. v = Valid(s)
  OBVIOUS
<1> HIDE DEF s, a
<1>5. k \in Seq(Message) /\ a.left \in Int
  BY <1>2, <1>3 DEF HistoryAcc
<1>6. v \in Seq(Message)
  BY <1>1, <1>4, ValidBase
<1>7. /\ NewestOf(k, v) /\ (a.left > 0 => k = v) /\ Valid(k) = k /\ Len(v) <= Len(s)
      /\ Total(k) + a.left = chars /\ a.left >= -1 /\ (chars = 0 => k = <<>>)
      /\ KeepMessages(k, chars) = a
  BY <1>2, <1>3, <1>4 DEF HistoryInv
<1>8. Total(k) \in Nat
  BY <1>5, TotalBase
<1>9. Len(k) <= messages
  <2>1. Len(v) - Len(k) >= 0
    BY <1>7 DEF NewestOf
  <2>2. Len(v) \in Nat /\ Len(k) \in Nat /\ Len(s) \in Nat
    BY <1>1, <1>5, <1>6
  <2> QED
    BY <1>1, <1>7, <2>1, <2>2
<1>10. ApplyHistoryBudget(k, messages, chars) = k
  <2>1. LastN(k, messages) = k
    BY <1>5, <1>9, LastNFacts
  <2> QED
    BY <1>3, <1>7, <2>1 DEF ApplyHistoryBudget
<1>11. Total(k) <= chars + 1 /\ (k = v \/ Total(k) >= chars)
  BY <1>5, <1>7, <1>8
<1> QED
  BY <1>5, <1>6, <1>7, <1>8, <1>9, <1>10, <1>11

\* Lists with a message in front are equal when the messages and the rests are.
LEMMA FrontEqual ==
    ASSUME NEW s \in Seq(Message), NEW t \in Seq(Message), NEW x \in Message, NEW y \in Message,
           <<x>> \o s = <<y>> \o t
    PROVE  x = y /\ s = t
<1> DEFINE u == <<x>> \o s
           v == <<y>> \o t
<1>1. /\ Len(u) = Len(s) + 1 /\ u[1] = x /\ \A i \in 1 .. Len(s) : u[i + 1] = s[i]
      /\ Len(v) = Len(t) + 1 /\ v[1] = y /\ \A i \in 1 .. Len(t) : v[i + 1] = t[i]
      /\ Len(s) \in Nat /\ Len(t) \in Nat
  OBVIOUS
<1>2. u = v
  OBVIOUS
<1> HIDE DEF u, v
<1>3. Len(s) = Len(t) /\ x = y
  BY <1>1, <1>2
<1>4. \A i \in 1 .. Len(s) : s[i] = t[i]
  BY <1>1, <1>2, <1>3
<1> QED
  BY <1>3, <1>4, SeqEqual

\* The history a worker reads from a record, with the white space at the end of the
\* oldest message gone: the budget keeps it too.
LEMMA StrippedFacts ==
    ASSUME NEW h \in Seq(Message), NEW messages \in Nat, NEW chars \in Nat, Len(h) <= messages,
           Valid(h) = h, ApplyHistoryBudget(h, messages, chars) = h,
           NEW n \in Nat, n > 0 => h # <<>> /\ n < h[1].len,
           NEW g, g = Stripped(h, n)
    PROVE  /\ g \in Seq(Message) /\ Valid(g) = g /\ ApplyHistoryBudget(g, messages, chars) = g
           /\ NewestOf(g, h) /\ Len(g) = Len(h) /\ Total(g) = Total(h) - n
<1>1. Total(h) \in Nat /\ NewestOf(h, h) /\ Len(h) \in Nat
  <2>1. \A i \in DOMAIN h : 0 + i = i
    OBVIOUS
  <2> QED
    BY <2>1, TotalBase DEF NewestOf
<1>2. CASE n = 0
  <2>1. g = h
    BY <1>2 DEF Stripped
  <2> QED
    BY <1>1, <1>2, <2>1
<1>3. CASE n > 0
  <2> DEFINE s == Tail(h)
             m == h[1]
             m2 == [m EXCEPT !.len = m.len - n]
  <2>1. /\ h # <<>> /\ n < m.len /\ m \in Message /\ m.len \in Nat
        /\ s \in Seq(Message) /\ Len(h) = Len(s) + 1 /\ Len(s) \in Nat
    <3>1. h # <<>> /\ n < m.len /\ Len(h) # 0
      BY <1>3
    <3>2. m \in Message
      BY <3>1
    <3>3. s \in Seq(Message) /\ Len(h) = Len(s) + 1 /\ Len(s) \in Nat
      BY <3>1
    <3> HIDE DEF m, s
    <3>4. m.len \in Nat
      BY <3>2 DEF Message
    <3> QED
      BY <3>1, <3>2, <3>3, <3>4
  <2>2. h = <<m>> \o s
    <3> DEFINE w == <<m>> \o s
    <3>1. w \in Seq(Message) /\ Len(w) = Len(s) + 1 /\ w[1] = m
          /\ \A i \in 1 .. Len(s) : w[i + 1] = s[i]
      <4> HIDE DEF m, s
      <4> QED
        BY <2>1
    <3>2. \A i \in 1 .. Len(s) : s[i] = h[i + 1]
      BY <2>1
    <3> HIDE DEF w, s
    <3>3. \A i \in 1 .. Len(w) : w[i] = h[i]
      <4> SUFFICES ASSUME NEW i \in 1 .. Len(w) PROVE w[i] = h[i]
        OBVIOUS
      <4>1. CASE i = 1
        BY <3>1, <4>1
      <4>2. CASE i # 1
        <5>1. i - 1 \in 1 .. Len(s) /\ (i - 1) + 1 = i
          BY <2>1, <3>1, <4>2
        <5> QED
          BY <3>1, <3>2, <5>1
      <4> QED
        BY <4>1, <4>2
    <3> QED
      BY <2>1, <3>1, <3>3, SeqEqual DEF w
  <2>3. m2 \in Message /\ m2.len = m.len - n /\ m2.id = m.id /\ m2.role = m.role /\ m2.len > 0
    <3>1. m \in [id : Nat, len : Nat, role : STRING] /\ m.len - n \in Nat /\ m.len - n > 0
      BY <2>1 DEF Message
    <3> HIDE DEF m
    <3>2. /\ m2 \in [id : Nat, len : Nat, role : STRING] /\ m2.len = m.len - n
          /\ m2.id = m.id /\ m2.role = m.role
      BY <3>1
    <3> HIDE DEF m2
    <3> QED
      BY <3>1, <3>2 DEF Message
  <2>4. g = <<m2>> \o s
    <3> DEFINE w == <<m2>> \o s
    <3>1. w \in Seq(Message) /\ Len(w) = Len(s) + 1 /\ w[1] = m2
          /\ \A i \in 1 .. Len(s) : w[i + 1] = s[i]
      <4> HIDE DEF m2, s
      <4> QED
        BY <2>1, <2>3
    <3>2. \A i \in 1 .. Len(s) : s[i] = h[i + 1]
      BY <2>1
    <3>3. g = [h EXCEPT ![1] = m2]
      <4>1. g = [h EXCEPT ![1].len = @ - n]
        BY <1>3 DEF Stripped
      <4> QED
        BY <4>1
    <3> HIDE DEF m2
    <3>4. g \in Seq(Message) /\ Len(g) = Len(h) /\ g[1] = m2
          /\ \A i \in 1 .. Len(h) : i # 1 => g[i] = h[i]
      BY <2>1, <2>3, <3>3
    <3> HIDE DEF w, s
    <3>5. \A i \in 1 .. Len(w) : w[i] = g[i]
      <4> SUFFICES ASSUME NEW i \in 1 .. Len(w) PROVE w[i] = g[i]
        OBVIOUS
      <4>1. CASE i = 1
        BY <3>1, <3>4, <4>1
      <4>2. CASE i # 1
        <5>1. i - 1 \in 1 .. Len(s) /\ (i - 1) + 1 = i /\ i \in 1 .. Len(h)
          BY <2>1, <3>1, <4>2
        <5> QED
          BY <3>1, <3>2, <3>4, <4>2, <5>1
      <4> QED
        BY <4>1, <4>2
    <3> QED
      BY <2>1, <3>1, <3>4, <3>5, SeqEqual DEF w
  <2> HIDE DEF s, m, m2
  <2> DEFINE b == KeepMessages(s, chars)
  <2>5. /\ b \in HistoryAcc /\ b.kept \in Seq(Message) /\ b.left \in Int
        /\ Valid(s) \in Seq(Message) /\ Len(Valid(s)) <= Len(s)
        /\ Len(b.kept) <= Len(s) /\ Len(b.kept) \in Nat
    <3>1. b \in HistoryAcc /\ HistoryInv(s, b, chars)
      BY <2>1, HistoryLoop
    <3>2. Valid(s) \in Seq(Message)
      BY <2>1, ValidBase
    <3> HIDE DEF b
    <3>3. b.kept \in Seq(Message) /\ b.left \in Int
      BY <3>1 DEF HistoryAcc
    <3>4. Len(Valid(s)) <= Len(s) /\ Len(Valid(s)) - Len(b.kept) >= 0
      BY <3>1 DEF HistoryInv, NewestOf
    <3>5. Len(Valid(s)) \in Nat /\ Len(b.kept) \in Nat
      BY <3>2, <3>3
    <3> QED
      BY <2>1, <3>1, <3>2, <3>3, <3>4, <3>5
  <2>6. Speaks(m) /\ Valid(s) = s
    <3>1. <<m>> \o s = IF Speaks(m) /\ m.len > 0 THEN <<m>> \o Valid(s) ELSE Valid(s)
      BY <2>1, <2>2, ValidPrepend DEF TakeMessage
    <3>2. Len(<<m>> \o s) = Len(s) + 1 /\ Len(Valid(s)) \in Nat
      BY <2>1, <2>5
    <3>3. <<m>> \o s # Valid(s)
      BY <2>1, <2>5, <3>2
    <3>4. Speaks(m) /\ <<m>> \o s = <<m>> \o Valid(s)
      BY <3>1, <3>3
    <3> QED
      BY <2>1, <2>5, <3>4, FrontEqual
  <2>7. Valid(g) = g
    <3>1. Speaks(m2)
      BY <2>3, <2>6 DEF Speaks
    <3> QED
      BY <2>1, <2>3, <2>4, <2>6, <3>1, ValidPrepend DEF TakeMessage
  <2>8. KeepMessages(h, chars).kept = h
    <3>1. LastN(h, messages) = h
      BY LastNFacts
    <3> QED
      BY <3>1 DEF ApplyHistoryBudget
  <2> DEFINE c == Truncated(m.len, b.left)
             m1 == [m EXCEPT !.len = c]
  <2>9. b.kept = s /\ c = m.len
    <3>1. KeepMessages(h, chars) = KeepMessage(m, b)
      <4>1. chars \in Int
        OBVIOUS
      <4> QED
        BY <2>1, <2>2, <4>1, KeepMessagesPrepend
    <3>2. c \in Nat
      BY <2>1, <2>5, TruncatedFacts
    <3> HIDE DEF b
    <3>3. KeepMessage(m, b) = IF ~Speaks(m) \/ c = 0 THEN b
                              ELSE [kept |-> <<m1>> \o b.kept, left |-> b.left - c]
      BY DEF KeepMessage
    <3> HIDE DEF c
    <3>4. m1 \in Message /\ m1.len = c
      BY <2>1, <3>2 DEF Message
    <3> HIDE DEF m1
    <3>5. Len(<<m>> \o s) = Len(s) + 1
      BY <2>1
    <3>6. b.kept # <<m>> \o s
      BY <2>1, <2>5, <3>5
    <3> DEFINE bk == b.kept
    <3>9. KeepMessage(m, b).kept = <<m>> \o s
      BY <2>2, <2>8, <3>1
    <3>10. KeepMessage(m, b) = [kept |-> <<m1>> \o bk, left |-> b.left - c]
      BY <3>3, <3>6, <3>9
    <3>11. bk \in Seq(Message)
      BY <2>5
    <3> HIDE DEF bk
    <3>7. <<m>> \o s = <<m1>> \o bk
      BY <3>9, <3>10
    <3>8. m = m1 /\ s = bk
      BY <2>1, <3>4, <3>7, <3>11, FrontEqual
    <3> QED
      BY <3>4, <3>8 DEF bk
  <2>10. Truncated(m2.len, b.left) = m2.len
    <3> DEFINE l == b.left
               k == m.len - n
    <3>1. l \in Int /\ k \in Nat /\ k > 0 /\ k < m.len
      BY <1>3, <2>1, <2>5
    <3>2. /\ l <= 0 => c = 0
          /\ l > 0 /\ m.len <= l => c = m.len
          /\ l > 0 /\ m.len > l /\ l # MarkerChars + 1 => c = l
          /\ l > 0 /\ m.len > l /\ l = MarkerChars + 1 => c = l + 1
      BY <2>1, <3>1, TruncatedFacts
    <3>3. l > 0 /\ k <= l => Truncated(k, l) = k
      BY <3>1, TruncatedFacts
    <3> HIDE DEF c, l, k
    <3>4. l > 0 /\ k <= l
      BY <2>1, <2>9, <3>1, <3>2
    <3> QED
      BY <2>3, <3>3, <3>4 DEF l, k
  <2> HIDE DEF c, m1
  <2>11. KeepMessages(g, chars).kept = g
    <3>1. KeepMessages(g, chars) = KeepMessage(m2, b)
      <4>1. chars \in Int
        OBVIOUS
      <4> QED
        BY <2>1, <2>3, <2>4, <4>1, KeepMessagesPrepend
    <3> HIDE DEF b
    <3>2. Speaks(m2) /\ m2.len # 0
      BY <2>3, <2>6 DEF Speaks
    <3>3. [m2 EXCEPT !.len = m2.len] = m2
      BY <2>3 DEF Message
    <3>4. KeepMessage(m2, b) = [kept |-> <<m2>> \o b.kept, left |-> b.left - m2.len]
      BY <2>10, <3>2, <3>3 DEF KeepMessage
    <3> QED
      BY <2>4, <2>9, <3>1, <3>4
  <2>12. g \in Seq(Message) /\ Len(g) = Len(h)
    BY <2>1, <2>3, <2>4
  <2>13. ApplyHistoryBudget(g, messages, chars) = g
    <3>1. LastN(g, messages) = g
      BY <2>12, LastNFacts
    <3> QED
      BY <2>11, <3>1 DEF ApplyHistoryBudget
  <2>14. NewestOf(g, h)
    BY <2>1, <2>2, <2>3, <2>4, NewestFront
  <2>15. Total(g) = Total(h) - n
    <3>1. Total(h) = m.len + Total(s) /\ Total(g) = m2.len + Total(s) /\ Total(s) \in Nat
      BY <2>1, <2>2, <2>3, <2>4, TotalPrepend, TotalBase
    <3> QED
      BY <2>1, <2>3, <3>1
  <2> QED
    BY <2>7, <2>12, <2>13, <2>14, <2>15
<1> QED
  BY <1>2, <1>3

\* The end of an end is an end.
LEMMA NewestTwice ==
    ASSUME NEW k \in Seq(Message), NEW j \in Seq(Message), NEW v \in Seq(Message),
           NewestOf(k, j), NewestOf(j, v)
    PROVE  NewestOf(k, v)
<1> DEFINE a == Len(j) - Len(k)
           b == Len(v) - Len(j)
           c == Len(v) - Len(k)
<1>1. /\ Len(k) \in Nat /\ Len(j) \in Nat /\ Len(v) \in Nat
      /\ DOMAIN k = 1 .. Len(k) /\ DOMAIN j = 1 .. Len(j)
  OBVIOUS
<1>2. /\ a >= 0 /\ \A i \in DOMAIN k : k[i].id = j[a + i].id
      /\ \A i \in DOMAIN k \ {1} : k[i] = j[a + i]
  BY DEF NewestOf
<1>3. /\ b >= 0 /\ \A i \in DOMAIN j : j[i].id = v[b + i].id
      /\ \A i \in DOMAIN j \ {1} : j[i] = v[b + i]
  BY DEF NewestOf
<1>4. a \in Nat /\ b \in Nat /\ c \in Nat /\ c = a + b
  BY <1>1, <1>2, <1>3
<1>5. \A i \in DOMAIN k : a + i \in DOMAIN j /\ (i # 1 => a + i # 1) /\ b + (a + i) = c + i
  <2>1. Len(j) = a + Len(k)
    BY <1>1
  <2> HIDE DEF a, b, c
  <2> QED
    BY <1>1, <1>4, <2>1
<1> HIDE DEF a, b
<1>6. ASSUME NEW i \in DOMAIN k
      PROVE  k[i].id = v[c + i].id /\ (i # 1 => k[i] = v[c + i])
  <2> HIDE DEF c
  <2>1. j[a + i].id = v[b + (a + i)].id /\ (i # 1 => j[a + i] = v[b + (a + i)])
    BY <1>3, <1>5
  <2> QED
    BY <1>2, <1>5, <2>1
<1>7. c >= 0
  BY <1>4
<1> QED
  BY <1>6, <1>7 DEF NewestOf

-----------------------------------------------------------------------------
(* The loops over documents and chunks.                                     *)

\* What apply_document_budget has done after docs.
DocsInv(docs, a) ==
    /\ Len(a.kept) = Len(Named(docs))
    /\ \A i \in 1 .. Len(a.kept) : a.kept[i].id = Named(docs)[i].id /\ a.kept[i].len > 0
    /\ a.used < MaxDocuments => Total(a.kept) = a.used
    /\ Total(a.kept) <= MaxDocuments + DocMarkerChars * Len(docs)
    /\ (\E i \in 1 .. Len(docs) : docs[i].len > 0) => Named(docs) # <<>>

\* One more document keeps it.
LEMMA DocsStep ==
    ASSUME NEW docs \in Seq(Document), NEW d \in Document, NEW a \in DocAcc, DocsInv(docs, a)
    PROVE  DocsInv(Append(docs, d), KeepDocument(a, TrimDocument(d)))
<1> DEFINE t == Append(docs, d)
           e == TrimDocument(d)
           v == Named(docs)
           remaining == MaxDocuments - a.used
           n == IF e.len > remaining THEN WithDocMarker(remaining) ELSE e.len
           x == IF remaining <= 0 THEN DocMarkerChars ELSE n
           d2 == [e EXCEPT !.len = x]
           k2 == Append(a.kept, d2)
           u2 == IF remaining <= 0 THEN a.used ELSE a.used + n
           b == [kept |-> k2, used |-> u2]
<1>1. /\ e \in Document /\ e.id = d.id /\ (e.len = 0 <=> d.len = 0)
      /\ e.len \in Nat /\ d.len \in Nat
  BY TrimDocumentType DEF Document
<1>2. a.kept \in Seq(Document) /\ a.used \in Int /\ remaining \in Int
  BY BudgetsAssumption DEF DocAcc
<1>3. v \in Seq(Document) /\ Named(t) = TakeDocument(v, d)
  BY NamedAppend, NamedBase
<1>4. t \in Seq(Document) /\ Len(t) = Len(docs) + 1 /\ Len(docs) \in Nat
  OBVIOUS
<1>5. /\ Len(a.kept) = Len(v)
      /\ \A i \in 1 .. Len(a.kept) : a.kept[i].id = v[i].id /\ a.kept[i].len > 0
      /\ a.used < MaxDocuments => Total(a.kept) = a.used
      /\ Total(a.kept) <= MaxDocuments + DocMarkerChars * Len(docs)
      /\ (\E i \in 1 .. Len(docs) : docs[i].len > 0) => v # <<>>
  BY DEF DocsInv
<1>6. DocMarkerChars \in Nat \ {0} /\ MaxDocuments \in Nat
  BY BudgetsAssumption
<1>7. /\ DocMarkerChars * Len(docs) \in Nat
      /\ DocMarkerChars * Len(t) = DocMarkerChars * Len(docs) + DocMarkerChars
  BY <1>4, <1>6
<1>8. Total(a.kept) \in Nat
  BY <1>1, <1>2, TotalAppend
<1>9. t[Len(t)] = d /\ \A i \in 1 .. Len(docs) : t[i] = docs[i]
  BY <1>4
<1> HIDE DEF t, v, e
<1>10. CASE d.len = 0
  <2>1. KeepDocument(a, e) = a
    BY <1>1, <1>10 DEF KeepDocument
  <2>2. Named(t) = v
    BY <1>3, <1>10 DEF TakeDocument
  <2>3. Total(a.kept) <= MaxDocuments + DocMarkerChars * Len(t)
    <3> DEFINE y == DocMarkerChars * Len(t)
               z == DocMarkerChars * Len(docs)
    <3>1. y = z + DocMarkerChars /\ z \in Nat /\ Total(a.kept) <= MaxDocuments + z
      BY <1>5, <1>7
    <3> HIDE DEF y, z
    <3>2. Total(a.kept) <= MaxDocuments + y
      BY <1>6, <1>8, <3>1
    <3> QED
      BY <3>2 DEF y
  <2>4. (\E i \in 1 .. Len(t) : t[i].len > 0) => v # <<>>
    <3> SUFFICES ASSUME NEW i \in 1 .. Len(t), t[i].len > 0 PROVE v # <<>>
      OBVIOUS
    <3>1. i # Len(t)
      BY <1>1, <1>9, <1>10
    <3>2. i \in 1 .. Len(docs)
      BY <1>4, <3>1
    <3> QED
      BY <1>5, <1>9, <3>2
  <2>5. DocsInv(t, a)
    BY <1>5, <2>2, <2>3, <2>4 DEF DocsInv
  <2> QED
    BY <2>1, <2>5 DEF t, e
<1>11. CASE d.len # 0
  <2>1. /\ n \in Nat \ {0} /\ (remaining > 0 => n <= remaining \/ n <= DocMarkerChars)
    <3> HIDE DEF remaining
    <3> QED
      BY <1>1, <1>2, <1>6, <1>11 DEF WithDocMarker
  <2>2. x \in Nat \ {0}
    <3> HIDE DEF n, remaining
    <3> QED
      BY <1>6, <2>1
  <2>3. d2 \in Document /\ d2.id = d.id /\ d2.len = x
    <3> HIDE DEF x
    <3> QED
      BY <1>1, <2>2 DEF Document
  <2>4. KeepDocument(a, e) = b
    <3>1. CASE remaining <= 0
      <4>1. KeepDocument(a, e) = [a EXCEPT !.kept = Append(a.kept, [e EXCEPT !.len = DocMarkerChars])]
        BY <1>1, <1>11, <3>1 DEF KeepDocument
      <4>2. d2 = [e EXCEPT !.len = DocMarkerChars] /\ u2 = a.used
        BY <3>1
      <4> HIDE DEF d2, u2
      <4>3. KeepDocument(a, e) = [a EXCEPT !.kept = k2]
        BY <4>1, <4>2
      <4> HIDE DEF k2
      <4>4. [a EXCEPT !.kept = k2] = [kept |-> k2, used |-> a.used]
        BY DEF DocAcc
      <4> QED
        BY <4>2, <4>3, <4>4
    <3>2. CASE ~(remaining <= 0)
      <4>1. KeepDocument(a, e) = [kept |-> Append(a.kept, [e EXCEPT !.len = n]), used |-> a.used + n]
        BY <1>1, <1>11, <3>2 DEF KeepDocument
      <4>2. x = n /\ u2 = a.used + n
        BY <3>2
      <4> HIDE DEF x, u2, n
      <4> QED
        BY <4>1, <4>2
    <3> QED
      BY <3>1, <3>2
  <2>5. b.kept = k2 /\ b.used = u2
    <3> HIDE DEF k2, u2
    <3> QED
      OBVIOUS
  <2>6. Named(t) = Append(v, d)
    BY <1>1, <1>3, <1>11 DEF TakeDocument
  <2>7. /\ Len(k2) = Len(v) + 1 /\ Len(Append(v, d)) = Len(v) + 1
        /\ Len(v) \in Nat
    <3> HIDE DEF d2
    <3> QED
      BY <1>2, <1>3, <1>5, <2>3
  <2>8. ASSUME NEW i \in 1 .. (Len(v) + 1)
        PROVE  k2[i].id = Append(v, d)[i].id /\ k2[i].len > 0
    <3> HIDE DEF d2, x
    <3>1. CASE i = Len(v) + 1
      <4>1. k2[i] = d2 /\ Append(v, d)[i] = d
        BY <1>2, <1>3, <1>5, <2>3, <3>1
      <4> QED
        BY <2>2, <2>3, <4>1
    <3>2. CASE i # Len(v) + 1
      <4>1. i \in 1 .. Len(v)
        BY <2>7, <3>2
      <4>2. k2[i] = a.kept[i] /\ Append(v, d)[i] = v[i]
        BY <1>2, <1>3, <1>5, <2>3, <4>1
      <4> QED
        BY <1>5, <4>1, <4>2
    <3> QED
      BY <3>1, <3>2
  <2>9. Total(k2) = Total(a.kept) + x
    <3> HIDE DEF d2, x
    <3> QED
      BY <1>2, <2>3, TotalAppend
  <2>10. /\ u2 < MaxDocuments => Total(k2) = u2
         /\ Total(k2) <= MaxDocuments + DocMarkerChars * Len(t)
    <3> DEFINE y == DocMarkerChars * Len(t)
               z == DocMarkerChars * Len(docs)
    <3>1. y = z + DocMarkerChars /\ z \in Nat /\ Total(a.kept) <= MaxDocuments + z
      BY <1>5, <1>7
    <3>2. a.used < MaxDocuments => Total(a.kept) = a.used
      BY <1>5
    <3> HIDE DEF y, z
    <3>3. (u2 < MaxDocuments => Total(k2) = u2) /\ Total(k2) <= MaxDocuments + y
      <4>1. CASE remaining <= 0
        <5>1. u2 = a.used /\ x = DocMarkerChars /\ ~(a.used < MaxDocuments)
          BY <1>2, <1>6, <4>1
        <5> HIDE DEF u2, x, k2
        <5> QED
          BY <1>2, <1>6, <1>8, <2>9, <3>1, <5>1
      <4>2. CASE ~(remaining <= 0)
        <5>1. u2 = a.used + n /\ x = n /\ a.used < MaxDocuments
          BY <1>2, <1>6, <4>2
        <5>2. n \in Nat /\ (n <= MaxDocuments - a.used \/ n <= DocMarkerChars)
          BY <1>2, <2>1, <4>2
        <5> HIDE DEF u2, x, k2, n
        <5> QED
          BY <1>2, <1>6, <1>8, <2>9, <3>1, <3>2, <5>1, <5>2
      <4> QED
        BY <4>1, <4>2
    <3> QED
      BY <3>3 DEF y
  <2>11. Append(v, d) # <<>>
    BY <1>3
  <2> HIDE DEF b, k2, u2
  <2>12. DocsInv(t, b)
    BY <2>5, <2>6, <2>7, <2>8, <2>10, <2>11 DEF DocsInv
  <2> QED
    BY <2>4, <2>12 DEF t, e
<1> QED
  BY <1>10, <1>11

\* It holds after all of them.
LEMMA DocsLoop ==
    ASSUME NEW docs \in Seq(Document)
    PROVE  KeepDocuments(docs) \in DocAcc /\ DocsInv(docs, KeepDocuments(docs))
<1> DEFINE B == {t \in Seq(Document) : DocsInv(t, KeepDocuments(t))}
<1>1. <<>> \in B
  <2> DEFINE e == [kept |-> <<>>, used |-> 0]
  <2>1. <<>> \in Seq(Document) /\ Len(<<>>) = 0
    OBVIOUS
  <2>2. KeepDocuments(<<>>) = e
    BY <2>1, KeepDocumentsBase
  <2>3. Named(<<>>) = <<>>
    BY <2>1, NamedBase
  <2>4. Total(<<>>) = 0
    <3>1. [id |-> 0, len |-> 0, odd |-> FALSE] \in Document
      BY DEF Document
    <3> QED
      BY <2>1, <3>1, TotalAppend
  <2>5. e.kept = <<>> /\ e.used = 0
    OBVIOUS
  <2>6. 0 <= MaxDocuments + DocMarkerChars * 0
    BY BudgetsAssumption
  <2> HIDE DEF e
  <2>7. DocsInv(<<>>, e)
    BY <2>1, <2>3, <2>4, <2>5, <2>6 DEF DocsInv
  <2> QED
    BY <2>1, <2>2, <2>7
<1>2. ASSUME NEW d \in Document, NEW t \in B PROVE Append(t, d) \in B
  <2>1. t \in Seq(Document) /\ DocsInv(t, KeepDocuments(t))
    OBVIOUS
  <2>2. Append(t, d) \in Seq(Document)
    BY <2>1
  <2> HIDE DEF B
  <2>3. KeepDocuments(t) \in DocAcc
    BY <2>1, KeepDocumentsBase
  <2>4. KeepDocuments(Append(t, d)) = KeepDocument(KeepDocuments(t), TrimDocument(d))
    BY <2>1, KeepDocumentsAppend
  <2>5. DocsInv(Append(t, d), KeepDocuments(Append(t, d)))
    BY <2>1, <2>3, <2>4, DocsStep
  <2> QED
    BY <2>2, <2>5 DEF B
<1>3. B = Seq(Document)
  <2>1. B \in SUBSET Seq(Document)
    OBVIOUS
  <2> HIDE DEF B
  <2> QED
    BY <1>1, <1>2, <2>1, AppendInduct
<1> QED
  BY <1>3, KeepDocumentsBase

\* What _trim_document_block_preserving_labels has done after chunks.
BlockInv(chunks, a, limit) ==
    /\ ~a.stop => a.kept = chunks /\ a.used = BlockChars(chunks)
    /\ BlockChars(a.kept) <= limit
    /\ Len(a.kept) <= Len(chunks)
    /\ \A i \in 1 .. (Len(a.kept) - 1) : a.kept[i] = chunks[i]

\* One more chunk keeps it.
LEMMA BlockStep ==
    ASSUME NEW cs \in Seq(Document), NEW c \in Document, NEW limit \in Int,
           NEW a \in BlockAcc, BlockInv(cs, a, limit)
    PROVE  BlockInv(Append(cs, c), KeepChunk(a, c, limit), limit)
<1> DEFINE t == Append(cs, c)
           sep == IF a.kept = <<>> THEN 0 ELSE 2
           remaining == limit - a.used - sep
           c0 == [c EXCEPT !.len = 0]
           n == ChunkContent(c.len, remaining - LabelChars - 1)
           c1 == [c EXCEPT !.len = n]
<1>1. a.kept \in Seq(Document) /\ a.used \in Int /\ a.stop \in BOOLEAN /\ c.len \in Nat
  BY DEF BlockAcc, Document
<1>2. sep \in Nat /\ remaining \in Int
  BY <1>1
<1>3. /\ ~a.stop => a.kept = cs /\ a.used = BlockChars(cs)
      /\ BlockChars(a.kept) <= limit
      /\ Len(a.kept) <= Len(cs)
      /\ \A i \in 1 .. (Len(a.kept) - 1) : a.kept[i] = cs[i]
  BY DEF BlockInv
<1>4. /\ t \in Seq(Document) /\ Len(t) = Len(cs) + 1 /\ Len(cs) \in Nat
      /\ \A i \in 1 .. Len(cs) : t[i] = cs[i]
  OBVIOUS
<1>5. KeepChunk(a, c, limit) =
        IF a.stop THEN a
        ELSE IF ChunkChars(c) <= remaining
        THEN [a EXCEPT !.kept = Append(a.kept, c), !.used = a.used + sep + ChunkChars(c)]
        ELSE IF remaining <= LabelChars THEN [a EXCEPT !.stop = TRUE]
        ELSE IF remaining <= LabelChars + 1 + DocMarkerChars
        THEN [a EXCEPT !.kept = Append(a.kept, c0), !.stop = TRUE]
        ELSE [a EXCEPT !.stop = TRUE, !.kept = Append(a.kept, c1)]
  BY DEF KeepChunk
<1>6. LabelChars \in Nat /\ DocMarkerChars \in Nat \ {0}
  BY BudgetsAssumption
<1>7. ChunkChars(c) \in Nat
  BY ChunkFacts
<1>8. /\ Len(a.kept) \in Nat /\ Len(a.kept) <= Len(t)
      /\ \A i \in 1 .. (Len(a.kept) - 1) : a.kept[i] = t[i]
  <2>1. Len(a.kept) \in Nat
    BY <1>1
  <2>2. \A i \in 1 .. (Len(a.kept) - 1) : i \in 1 .. Len(cs)
    BY <1>3, <1>4, <2>1
  <2> HIDE DEF t
  <2> QED
    BY <1>3, <1>4, <2>1, <2>2
<1>9. ASSUME NEW k, NEW y \in Document, k = Append(a.kept, y), ~a.stop,
             ChunkChars(y) <= remaining
      PROVE  /\ BlockChars(k) = a.used + sep + ChunkChars(y) /\ BlockChars(k) <= limit
             /\ Len(k) <= Len(t) /\ \A i \in 1 .. (Len(k) - 1) : k[i] = t[i]
  <2>1. a.kept = cs /\ a.used = BlockChars(cs)
    BY <1>3, <1>9
  <2>2. BlockChars(k) = BlockChars(cs) + sep + ChunkChars(y)
    BY <1>9, <2>1, BlockAppend
  <2>3. BlockChars(cs) \in Nat /\ ChunkChars(y) \in Nat
    BY <1>9, BlockAppend, ChunkFacts
  <2>4. BlockChars(k) <= limit
    <3>1. ChunkChars(y) <= limit - a.used - sep
      BY <1>9
    <3> HIDE DEF sep
    <3> QED
      BY <1>2, <2>1, <2>2, <2>3, <3>1
  <2>5. Len(k) = Len(cs) + 1 /\ \A i \in 1 .. Len(cs) : k[i] = cs[i]
    BY <1>9, <2>1
  <2>6. Len(k) - 1 = Len(cs)
    BY <1>4, <2>5
  <2> HIDE DEF t, sep
  <2> QED
    BY <1>4, <2>1, <2>2, <2>4, <2>5, <2>6
<1> HIDE DEF t, sep, remaining
<1>10. CASE a.stop
  <2>1. KeepChunk(a, c, limit) = a
    BY <1>5, <1>10
  <2>2. BlockInv(t, a, limit)
    BY <1>3, <1>8, <1>10 DEF BlockInv
  <2> QED
    BY <2>1, <2>2 DEF t
<1>11. CASE ~a.stop /\ ChunkChars(c) <= remaining
  <2> DEFINE k == Append(a.kept, c)
             u == a.used + sep + ChunkChars(c)
             b == [a EXCEPT !.kept = k, !.used = u]
  <2>1. KeepChunk(a, c, limit) = b
    BY <1>5, <1>11
  <2>2. /\ BlockChars(k) = u /\ BlockChars(k) <= limit
        /\ Len(k) <= Len(t) /\ \A i \in 1 .. (Len(k) - 1) : k[i] = t[i]
    BY <1>9, <1>11
  <2>3. k = t
    BY <1>3, <1>11 DEF t
  <2> HIDE DEF k, u
  <2>4. b.kept = k /\ b.used = u
    BY DEF BlockAcc
  <2> HIDE DEF b
  <2>5. BlockInv(t, b, limit)
    BY <2>2, <2>3, <2>4 DEF BlockInv
  <2> QED
    BY <2>1, <2>5 DEF t
<1>12. CASE ~a.stop /\ ~(ChunkChars(c) <= remaining) /\ remaining <= LabelChars
  <2> DEFINE b == [a EXCEPT !.stop = TRUE]
  <2>1. KeepChunk(a, c, limit) = b
    BY <1>5, <1>12
  <2>2. b.kept = a.kept /\ b.stop
    BY DEF BlockAcc
  <2> HIDE DEF b
  <2>3. BlockInv(t, b, limit)
    BY <1>3, <1>8, <2>2 DEF BlockInv
  <2> QED
    BY <2>1, <2>3 DEF t
<1>13. CASE /\ ~a.stop /\ ~(ChunkChars(c) <= remaining) /\ ~(remaining <= LabelChars)
            /\ remaining <= LabelChars + 1 + DocMarkerChars
  <2> DEFINE k == Append(a.kept, c0)
             b == [a EXCEPT !.kept = k, !.stop = TRUE]
  <2>1. KeepChunk(a, c, limit) = b
    BY <1>5, <1>13
  <2>2. c0 \in Document /\ c0.len = 0
    BY DEF Document
  <2>3. ChunkChars(c0) <= remaining
    <3>1. ChunkChars(c0) = LabelChars
      <4> HIDE DEF c0
      <4> QED
        BY <1>6, <2>2 DEF ChunkChars
    <3> QED
      BY <1>2, <1>6, <1>13, <3>1
  <2> HIDE DEF c0
  <2>4. /\ BlockChars(k) <= limit
        /\ Len(k) <= Len(t) /\ \A i \in 1 .. (Len(k) - 1) : k[i] = t[i]
    BY <1>9, <1>13, <2>2, <2>3
  <2> HIDE DEF k
  <2>5. b.kept = k /\ b.stop
    BY DEF BlockAcc
  <2> HIDE DEF b
  <2>6. BlockInv(t, b, limit)
    BY <2>4, <2>5 DEF BlockInv
  <2> QED
    BY <2>1, <2>6 DEF t
<1>14. CASE /\ ~a.stop /\ ~(ChunkChars(c) <= remaining)
            /\ ~(remaining <= LabelChars + 1 + DocMarkerChars)
  <2> DEFINE k == Append(a.kept, c1)
             b == [a EXCEPT !.stop = TRUE, !.kept = k]
  <2>0. ~(remaining <= LabelChars)
    BY <1>2, <1>6, <1>14
  <2>1. KeepChunk(a, c, limit) = b
    BY <1>5, <1>14, <2>0
  <2>2. n \in Nat /\ n <= remaining - LabelChars - 1
    BY <1>1, <1>2, <1>6, <1>14 DEF ChunkContent, AtMost
  <2>3. c1 \in Document /\ c1.len = n
    <3> HIDE DEF n
    <3> QED
      BY <2>2 DEF Document
  <2>4. ChunkChars(c1) <= remaining
    <3> HIDE DEF c1, n
    <3>1. ChunkChars(c1) = LabelChars + (IF n > 0 THEN 1 + n ELSE 0)
      BY <2>3 DEF ChunkChars
    <3> QED
      BY <1>2, <1>6, <2>0, <2>2, <3>1
  <2> HIDE DEF c1
  <2>5. /\ BlockChars(k) <= limit
        /\ Len(k) <= Len(t) /\ \A i \in 1 .. (Len(k) - 1) : k[i] = t[i]
    BY <1>9, <1>14, <2>3, <2>4
  <2> HIDE DEF k
  <2>6. b.kept = k /\ b.stop
    BY DEF BlockAcc
  <2> HIDE DEF b
  <2>7. BlockInv(t, b, limit)
    BY <2>5, <2>6 DEF BlockInv
  <2> QED
    BY <2>1, <2>7 DEF t
<1> QED
  BY <1>10, <1>11, <1>12, <1>13, <1>14

\* The block it returns fits, and is the first chunks, the last one cut.
LEMMA BlockLoop ==
    ASSUME NEW cs \in Seq(Document), NEW limit \in Nat, NEW k, k = KeepChunks(cs, limit).kept
    PROVE  /\ k \in Seq(Document) /\ BlockChars(k) <= limit /\ Len(k) <= Len(cs)
           /\ \A i \in 1 .. (Len(k) - 1) : k[i] = cs[i]
<1> DEFINE B == {t \in Seq(Document) : BlockInv(t, KeepChunks(t, limit), limit)}
<1>0. limit \in Int
  OBVIOUS
<1>1. <<>> \in B
  <2> DEFINE e == [kept |-> <<>>, used |-> 0, stop |-> FALSE]
  <2>1. <<>> \in Seq(Document) /\ Len(<<>>) = 0
    OBVIOUS
  <2>2. KeepChunks(<<>>, limit) = e
    BY <1>0, <2>1, KeepChunksBase
  <2>3. BlockChars(<<>>) = 0
    <3>1. [id |-> 0, len |-> 0, odd |-> FALSE] \in Document
      BY DEF Document
    <3> QED
      BY <2>1, <3>1, BlockAppend
  <2>4. e.kept = <<>> /\ e.used = 0
    OBVIOUS
  <2> HIDE DEF e
  <2>5. BlockInv(<<>>, e, limit)
    BY <2>1, <2>3, <2>4 DEF BlockInv
  <2> QED
    BY <2>1, <2>2, <2>5
<1>2. ASSUME NEW c \in Document, NEW t \in B PROVE Append(t, c) \in B
  <2>1. t \in Seq(Document) /\ BlockInv(t, KeepChunks(t, limit), limit)
    OBVIOUS
  <2>2. Append(t, c) \in Seq(Document)
    BY <2>1
  <2> HIDE DEF B
  <2>3. KeepChunks(t, limit) \in BlockAcc
    BY <1>0, <2>1, KeepChunksBase
  <2>4. KeepChunks(Append(t, c), limit) = KeepChunk(KeepChunks(t, limit), c, limit)
    BY <1>0, <2>1, KeepChunksAppend
  <2>5. BlockInv(Append(t, c), KeepChunks(Append(t, c), limit), limit)
    BY <1>0, <2>1, <2>3, <2>4, BlockStep
  <2> QED
    BY <2>2, <2>5 DEF B
<1>3. B = Seq(Document)
  <2>1. B \in SUBSET Seq(Document)
    OBVIOUS
  <2> HIDE DEF B
  <2> QED
    BY <1>1, <1>2, <2>1, AppendInduct
<1>4. KeepChunks(cs, limit) \in BlockAcc /\ BlockInv(cs, KeepChunks(cs, limit), limit)
  BY <1>0, <1>3, KeepChunksBase
<1> HIDE DEF B
<1> QED
  BY <1>4 DEF BlockInv, BlockAcc

-----------------------------------------------------------------------------
(* The prompt.                                                              *)

Prompt == [id : Nat, whole : BOOLEAN, odd : BOOLEAN, text : Nat, chunks : Seq(Document)]

\* A block with a text in every chunk has at least two characters.
LEMMA BlockNotEmpty ==
    ASSUME NEW cs \in Seq(Document), cs # <<>>, \A i \in 1 .. Len(cs) : cs[i].len > 0
    PROVE  BlockChars(cs) >= 2
<1> DEFINE t == SubSeq(cs, 1, Len(cs) - 1)
           d == cs[Len(cs)]
<1>1. Len(cs) \in Nat \ {0} /\ d \in Document /\ d.len > 0 /\ d.len \in Nat
  <2>1. Len(cs) \in 1 .. Len(cs) /\ Len(cs) \in Nat \ {0}
    OBVIOUS
  <2>2. d \in Document
    BY <2>1
  <2>3. d.len > 0
    BY <2>1
  <2> HIDE DEF d
  <2> QED
    BY <2>1, <2>2, <2>3 DEF Document
<1>2. t \in Seq(Document) /\ cs = Append(t, d)
  <2>1. \A i \in 1 .. (Len(cs) - 1) : cs[i] \in Document
    BY <1>1
  <2>2. /\ t \in Seq(Document) /\ Len(t) = Len(cs) - 1
        /\ \A i \in 1 .. (Len(cs) - 1) : t[i] = cs[i]
    <3>1. 1 \in Int /\ Len(cs) - 1 \in Int
      BY <1>1
    <3>2. /\ t \in Seq(Document) /\ Len(t) = IF 1 <= Len(cs) - 1 THEN Len(cs) - 1 - 1 + 1 ELSE 0
          /\ \A i \in 1 .. (Len(cs) - 1 - 1 + 1) : t[i] = cs[1 + i - 1]
      BY <2>1, <3>1, SubSeqProperties
    <3> HIDE DEF t
    <3>3. Len(t) = Len(cs) - 1
      <4>1. Len(t) = IF 1 <= Len(cs) - 1 THEN Len(cs) - 1 - 1 + 1 ELSE 0
        BY <3>2
      <4> DEFINE n == Len(cs)
      <4>2. n \in Nat \ {0} /\ Len(t) = IF 1 <= n - 1 THEN n - 1 - 1 + 1 ELSE 0
        BY <1>1, <4>1
      <4> HIDE DEF n
      <4>3. Len(t) = n - 1
        BY <4>2
      <4> QED
        BY <4>3 DEF n
    <3>4. \A i \in 1 .. (Len(cs) - 1) : i \in 1 .. (Len(cs) - 1 - 1 + 1) /\ 1 + i - 1 = i
      BY <1>1
    <3> QED
      BY <3>2, <3>3, <3>4
  <2> HIDE DEF t
  <2>3. Append(t, d) \in Seq(Document) /\ Len(Append(t, d)) = Len(cs)
    BY <1>1, <2>2
  <2>4. ASSUME NEW i \in 1 .. Len(cs) PROVE Append(t, d)[i] = cs[i]
    <3>1. CASE i = Len(cs)
      BY <1>1, <2>2, <3>1
    <3>2. CASE i # Len(cs)
      BY <1>1, <2>2, <3>2
    <3> QED
      BY <3>1, <3>2
  <2> QED
    BY <2>2, <2>3, <2>4, SeqEqual
<1> HIDE DEF t, d
<1>3. /\ BlockChars(t) \in Nat
      /\ BlockChars(cs) = BlockChars(t) + (IF t = <<>> THEN 0 ELSE 2) + ChunkChars(d)
  BY <1>1, <1>2, BlockAppend
<1>4. ChunkChars(d) \in Nat /\ ChunkChars(d) >= 2
  BY <1>1, BudgetsAssumption DEF ChunkChars
<1> QED
  BY <1>3, <1>4

\* The prompt the parser builds.
LEMMA BuildPromptFacts ==
    ASSUME NEW question \in Question, NEW docs \in Seq(Document),
           NEW p, p = BuildPrompt(question, docs)
    PROVE  /\ p \in Prompt /\ p.text > 0 /\ p.whole /\ p.chunks = ApplyDocumentBudget(docs)
           /\ DocsInv(docs, KeepDocuments(docs))
<1>1. KeepDocuments(docs) \in DocAcc /\ DocsInv(docs, KeepDocuments(docs))
  BY DocsLoop
<1> DEFINE cs == ApplyDocumentBudget(docs)
           n == question.len + (IF docs = <<>> THEN 0 ELSE FrameChars)
           o == question.odd \/ \E i \in DOMAIN docs : docs[i].odd
<1>2. cs \in Seq(Document)
  BY <1>1 DEF ApplyDocumentBudget, DocAcc
<1>3. question.id \in Nat /\ question.len \in Nat \ {0}
  BY DEF Question
<1>4. n \in Nat /\ n > 0
  BY <1>3, BudgetsAssumption
<1>5. p = [id |-> question.id, whole |-> TRUE, odd |-> o, text |-> n, chunks |-> cs]
  BY DEF BuildPrompt
<1>7. o \in BOOLEAN
  OBVIOUS
<1> HIDE DEF cs, n, o
<1>6. p \in Prompt /\ p.text = n /\ p.whole /\ p.chunks = cs
  BY <1>2, <1>3, <1>4, <1>5, <1>7 DEF Prompt
<1> QED
  BY <1>1, <1>4, <1>6 DEF cs

\* The characters of a prompt.
LEMMA PromptType ==
    ASSUME NEW p \in Prompt
    PROVE  /\ p.text \in Nat /\ p.chunks \in Seq(Document) /\ BlockChars(p.chunks) \in Nat
           /\ PromptChars(p) \in Nat /\ PromptChars(p) = p.text + BlockChars(p.chunks)
<1>1. p.text \in Nat /\ p.chunks \in Seq(Document)
  BY DEF Prompt
<1>2. [id |-> 0, len |-> 0, odd |-> FALSE] \in Document
  BY DEF Document
<1>3. BlockChars(p.chunks) \in Nat
  BY <1>1, <1>2, BlockAppend
<1> QED
  BY <1>1, <1>3 DEF PromptChars

\* How a prompt may be taken apart.
LEMMA ReadingFacts ==
    ASSUME NEW p \in Prompt, NEW r \in Readings(p)
    PROVE  /\ r # <<>> => r[1] \in Reading
           /\ ~p.odd => r = IF p.chunks = <<>> THEN <<>> ELSE <<AsBuilt(p)>>
<1> DEFINE built == IF p.chunks = <<>> THEN <<>> ELSE <<AsBuilt(p)>>
           other == {x \in Misreadings : x.text + x.len <= PromptChars(p) + 2}
<1>1. p.text \in Nat /\ p.chunks \in Seq(Document) /\ BlockChars(p.chunks) \in Nat
  BY PromptType
<1>2. AsBuilt(p) \in Reading
  BY <1>1 DEF AsBuilt, Reading
<1>3. other \subseteq Reading
  BY BudgetsAssumption
<1>4. r \in IF p.odd THEN {built, <<>>} \cup {<<x>> : x \in other} ELSE {built}
  BY DEF Readings
<1> HIDE DEF other
<1>5. r = <<>> \/ r = <<AsBuilt(p)>> \/ \E x \in other : r = <<x>>
  BY <1>4
<1>6. r # <<>> => r[1] \in Reading
  BY <1>2, <1>3, <1>5
<1> QED
  BY <1>4, <1>6

\* What is left of a document block.
LEMMA TrimBlockFacts ==
    ASSUME NEW rd \in Reading, NEW limit \in Nat, limit > 0, NEW t, t = TrimBlock(rd, limit)
    PROVE  /\ t.text \in Nat /\ t.chunks \in Seq(Document) /\ BlockChars(t.chunks) \in Nat
           /\ t.text + BlockChars(t.chunks) <= limit + 1
           /\ Len(t.chunks) <= Len(rd.chunks)
           /\ \A i \in 1 .. (Len(t.chunks) - 1) : t.chunks[i] = rd.chunks[i]
<1> DEFINE cs == rd.chunks
           kept == KeepChunks(cs, limit).kept
           cut == Truncated(rd.len, limit)
<1>1. rd.len \in Nat /\ cs \in Seq(Document) /\ Len(cs) \in Nat
  BY DEF Reading
<1>2. /\ kept \in Seq(Document) /\ BlockChars(kept) <= limit /\ Len(kept) <= Len(cs)
      /\ \A i \in 1 .. (Len(kept) - 1) : kept[i] = cs[i]
  <2> HIDE DEF cs
  <2> QED
    BY <1>1, BlockLoop
<1>3. /\ <<>> \in Seq(Document) /\ Len(<<>>) = 0 /\ BlockChars(<<>>) = 0
      /\ BlockChars(kept) \in Nat
  <2>1. <<>> \in Seq(Document) /\ Len(<<>>) = 0
    OBVIOUS
  <2>2. [id |-> 0, len |-> 0, odd |-> FALSE] \in Document
    BY DEF Document
  <2> QED
    BY <1>2, <2>1, <2>2, BlockAppend
<1>4. cut \in Nat /\ cut <= limit + 1
  <2>1. limit \in Int /\ MarkerChars \in Nat
    BY BudgetsAssumption
  <2>2. /\ cut \in Nat
        /\ limit > 0 /\ rd.len <= limit => cut = rd.len
        /\ limit > 0 /\ rd.len > limit /\ limit # MarkerChars + 1 => cut = limit
        /\ limit > 0 /\ rd.len > limit /\ limit = MarkerChars + 1 => cut = limit + 1
    BY <1>1, <2>1, TruncatedFacts
  <2> HIDE DEF cut
  <2> QED
    BY <1>1, <2>1, <2>2
<1>5. t = IF rd.len <= limit THEN [text |-> rd.len, chunks |-> <<>>]
          ELSE IF kept = <<>> THEN [text |-> cut, chunks |-> <<>>]
          ELSE [text |-> 0, chunks |-> kept]
  BY DEF TrimBlock
<1> HIDE DEF cs, kept, cut
<1>6. CASE t = [text |-> rd.len, chunks |-> <<>>] /\ rd.len <= limit
  BY <1>1, <1>3, <1>6 DEF cs
<1>7. CASE t = [text |-> cut, chunks |-> <<>>]
  BY <1>1, <1>3, <1>4, <1>7 DEF cs
<1>8. CASE t = [text |-> 0, chunks |-> kept]
  BY <1>1, <1>2, <1>3, <1>8 DEF cs
<1> QED
  BY <1>5, <1>6, <1>7, <1>8

\* What trim_prompt_for_total_budget leaves of a prompt.
LEMMA TrimPromptFacts ==
    ASSUME NEW p \in Prompt, NEW r \in Readings(p), NEW limit \in Nat,
           NEW q, q = TrimPrompt(p, r, limit)
    PROVE  /\ q \in Prompt /\ PromptChars(q) <= limit + 1
           /\ PromptChars(p) <= limit => q = p
           /\ ~p.odd => Len(q.chunks) <= Len(p.chunks)
           /\ ~p.odd => \A i \in 1 .. (Len(q.chunks) - 1) : q.chunks[i] = p.chunks[i]
           /\ p.whole /\ ~p.odd /\ p.chunks # <<>> /\ limit > p.text => q.whole
<1> DEFINE rd == r[1]
           t == TrimBlock(rd, limit - rd.text)
           n == rd.text + t.text
           w == (rd = AsBuilt(p))
           cut == Truncated(PromptChars(p), limit)
           q1 == [p EXCEPT !.text = n, !.chunks = t.chunks, !.whole = w]
           q2 == [p EXCEPT !.text = cut, !.chunks = <<>>, !.whole = FALSE]
<1>1. /\ p.text \in Nat /\ p.chunks \in Seq(Document) /\ BlockChars(p.chunks) \in Nat
      /\ PromptChars(p) \in Nat /\ Len(p.chunks) \in Nat
  BY PromptType
<1>2. /\ r # <<>> => rd \in Reading
      /\ ~p.odd => r = IF p.chunks = <<>> THEN <<>> ELSE <<AsBuilt(p)>>
  BY ReadingFacts
<1>3. q = IF PromptChars(p) <= limit THEN p
          ELSE IF r # <<>> /\ limit > rd.text THEN q1 ELSE q2
  BY DEF TrimPrompt
<1>4. ~p.odd /\ r # <<>> => rd = AsBuilt(p) /\ p.chunks # <<>>
  BY <1>2
<1>5. CASE PromptChars(p) <= limit
  <2>1. q = p
    BY <1>3, <1>5
  <2> QED
    BY <1>1, <1>5, <2>1
<1>6. CASE ~(PromptChars(p) <= limit) /\ r # <<>> /\ limit > rd.text
  <2>1. q = q1
    BY <1>3, <1>6
  <2>2. rd \in Reading /\ rd.text \in Nat
    BY <1>2, <1>6 DEF Reading
  <2>3. limit - rd.text \in Nat /\ limit - rd.text > 0
    BY <1>6, <2>2
  <2>4. /\ t.text \in Nat /\ t.chunks \in Seq(Document) /\ BlockChars(t.chunks) \in Nat
        /\ t.text + BlockChars(t.chunks) <= (limit - rd.text) + 1
        /\ Len(t.chunks) <= Len(rd.chunks)
        /\ \A i \in 1 .. (Len(t.chunks) - 1) : t.chunks[i] = rd.chunks[i]
    <3> HIDE DEF rd
    <3> QED
      BY <2>2, <2>3, TrimBlockFacts
  <2> HIDE DEF t, rd
  <2>5. n \in Nat /\ n + BlockChars(t.chunks) <= limit + 1
    BY <2>2, <2>3, <2>4
  <2>6. w \in BOOLEAN
    OBVIOUS
  <2> HIDE DEF n, w
  <2>7. q1 \in Prompt /\ q1.text = n /\ q1.chunks = t.chunks /\ q1.whole = w
    BY <2>4, <2>5, <2>6 DEF Prompt
  <2> HIDE DEF q1
  <2>8. PromptChars(q) = n + BlockChars(t.chunks)
    BY <2>1, <2>7 DEF PromptChars
  <2>9. ASSUME ~p.odd PROVE rd.chunks = p.chunks /\ w
    BY <1>4, <1>6, <2>9 DEF AsBuilt, w
  <2> QED
    BY <1>6, <2>1, <2>4, <2>5, <2>7, <2>8, <2>9
<1>7. CASE ~(PromptChars(p) <= limit) /\ ~(r # <<>> /\ limit > rd.text)
  <2>1. q = q2
    BY <1>3, <1>7
  <2>2. cut \in Nat /\ cut <= limit + 1
    <3>1. limit \in Int /\ MarkerChars \in Nat
      BY BudgetsAssumption
    <3> DEFINE m == PromptChars(p)
    <3>2. m \in Nat
      BY <1>1
    <3> HIDE DEF m
    <3>3. /\ Truncated(m, limit) \in Nat
          /\ limit <= 0 => Truncated(m, limit) = 0
          /\ limit > 0 /\ m <= limit => Truncated(m, limit) = m
          /\ limit > 0 /\ m > limit /\ limit # MarkerChars + 1 => Truncated(m, limit) = limit
          /\ limit > 0 /\ m > limit /\ limit = MarkerChars + 1 => Truncated(m, limit) = limit + 1
      BY <3>1, <3>2, TruncatedFacts
    <3>4. Truncated(m, limit) \in Nat /\ Truncated(m, limit) <= limit + 1
      BY <3>1, <3>2, <3>3
    <3> QED
      BY <3>4 DEF m
  <2>3. <<>> \in Seq(Document) /\ Len(<<>>) = 0 /\ BlockChars(<<>>) = 0
    <3>1. <<>> \in Seq(Document) /\ Len(<<>>) = 0
      OBVIOUS
    <3>2. [id |-> 0, len |-> 0, odd |-> FALSE] \in Document
      BY DEF Document
    <3> QED
      BY <3>1, <3>2, BlockAppend
  <2> HIDE DEF cut
  <2>4. q2 \in Prompt /\ q2.text = cut /\ q2.chunks = <<>>
    BY <2>2, <2>3 DEF Prompt
  <2> HIDE DEF q2
  <2>5. PromptChars(q) = cut + BlockChars(<<>>) /\ Len(q.chunks) = 0
    BY <2>1, <2>3, <2>4 DEF PromptChars
  <2>6. PromptChars(q) <= limit + 1
    BY <2>2, <2>3, <2>5
  <2>7. ~(~p.odd /\ p.chunks # <<>> /\ limit > p.text)
    <3>1. ASSUME ~p.odd, p.chunks # <<>>
          PROVE  r # <<>> /\ rd.text = p.text
      BY <1>2, <3>1 DEF AsBuilt
    <3> QED
      BY <1>7, <3>1
  <2>8. \A i \in 1 .. (Len(q.chunks) - 1) : FALSE
    BY <2>5
  <2> QED
    BY <1>1, <1>7, <2>1, <2>4, <2>5, <2>6, <2>7, <2>8
<1> QED
  BY <1>5, <1>6, <1>7

\* A list is its own end.
LEMMA NewestSelf ==
    ASSUME NEW v \in Seq(Message)
    PROVE  NewestOf(v, v)
<1>1. Len(v) \in Nat /\ Len(v) - Len(v) = 0 /\ \A i \in DOMAIN v : 0 + i = i
  OBVIOUS
<1> QED
  BY <1>1 DEF NewestOf

\* What apply_total_prompt_budget does with a history that is within its own
\* budget: the history yields first, then the prompt.
LEMMA TotalBudget ==
    ASSUME NEW h \in Seq(Message), NEW p \in Prompt, PromptChars(p) >= 1, NEW rd \in Readings(p),
           ApplyHistoryBudget(h, MaxMessages, MaxHistory) = h, Valid(h) = h,
           NEW b, b = ApplyTotalBudget(h, p, rd),
           NEW avail, avail = AtLeast(0, MaxTotal - SystemChars - PromptChars(p)),
           NEW q, q = b.prompt[1]
    PROVE  /\ b = [history |-> b.history, prompt |-> <<q>>]
           /\ b.history \in Seq(Message) /\ NewestOf(b.history, h)
           /\ b.history = h \/ Total(b.history) >= avail
           /\ q \in Prompt
           /\ q = p \/ Total(b.history) \in {0, avail + 1}
           /\ SystemChars + Total(b.history) + PromptChars(q) <= MaxTotal + 1
           /\ ~p.odd => Len(q.chunks) <= Len(p.chunks)
           /\ ~p.odd => \A i \in 1 .. (Len(q.chunks) - 1) : q.chunks[i] = p.chunks[i]
           /\ p.whole /\ ~p.odd /\ p.chunks # <<>> /\ BlockChars(p.chunks) >= 2
                /\ p.text < MaxTotal - SystemChars => q.whole
<1> DEFINE k == ApplyHistoryBudget(h, Len(h), avail)
           remaining == AtLeast(0, MaxTotal - SystemChars - Total(k))
           r == TrimPrompt(p, rd, remaining)
<1>1. MaxTotal \in Nat /\ SystemChars \in Nat /\ SystemChars <= MaxTotal
  BY BudgetsAssumption
<1>2. /\ p.text \in Nat /\ p.chunks \in Seq(Document) /\ BlockChars(p.chunks) \in Nat
      /\ PromptChars(p) \in Nat /\ PromptChars(p) = p.text + BlockChars(p.chunks)
  BY PromptType
<1>3. /\ avail \in Nat
      /\ avail = 0 \/ avail = MaxTotal - SystemChars - PromptChars(p)
  BY <1>1, <1>2 DEF AtLeast
<1>4. b = IF SystemChars + PromptChars(p) + Total(h) <= MaxTotal
          THEN [history |-> h, prompt |-> <<p>>]
          ELSE [history |-> k, prompt |-> <<r>>]
  BY DEF ApplyTotalBudget
<1>5. Total(h) \in Nat
  BY TotalBase
<1>6. CASE SystemChars + PromptChars(p) + Total(h) <= MaxTotal
  <2>1. b = [history |-> h, prompt |-> <<p>>]
    BY <1>4, <1>6
  <2>2. b.history = h /\ b.prompt = <<p>>
    BY <2>1
  <2>3. q = p
    BY <2>2
  <2>4. NewestOf(b.history, h)
    BY <2>2, NewestSelf
  <2>5. SystemChars + Total(h) + PromptChars(p) <= MaxTotal + 1
    BY <1>1, <1>2, <1>5, <1>6
  <2>6. Len(p.chunks) \in Nat
    BY <1>2
  <2> QED
    BY <2>1, <2>2, <2>3, <2>4, <2>5, <2>6
<1>7. CASE ~(SystemChars + PromptChars(p) + Total(h) <= MaxTotal)
  <2>1. b = [history |-> k, prompt |-> <<r>>]
    <3> HIDE DEF k, r
    <3> QED
      BY <1>4, <1>7
  <2>2. b.history = k /\ b.prompt = <<r>> /\ q = r
    <3> HIDE DEF k, r
    <3> QED
      BY <2>1
  <2>3. LastN(h, Len(h)) = h /\ Len(h) \in Nat
    BY LastNFacts
  <2>4. /\ k \in Seq(Message) /\ Total(k) \in Nat /\ Total(k) <= avail + 1
        /\ avail = 0 => k = <<>>
        /\ NewestOf(k, h) /\ (k = h \/ Total(k) >= avail)
    <3>1. /\ k \in Seq(Message) /\ Total(k) \in Nat /\ Total(k) <= avail + 1
          /\ avail = 0 => k = <<>>
          /\ NewestOf(k, Valid(LastN(h, Len(h))))
          /\ k = Valid(LastN(h, Len(h))) \/ Total(k) >= avail
      BY <1>3, <2>3, Budgeted
    <3> HIDE DEF k
    <3> QED
      BY <2>3, <3>1
  <2> HIDE DEF k
  <2>5. avail = 0 => Total(k) = 0
    BY <2>4, TotalBase
  <2>6. SystemChars + Total(k) <= MaxTotal
    BY <1>1, <1>2, <1>3, <2>4, <2>5
  <2>7. remaining \in Nat /\ remaining = MaxTotal - SystemChars - Total(k)
    BY <1>1, <2>4, <2>6 DEF AtLeast
  <2> HIDE DEF remaining
  <2>8. /\ r \in Prompt /\ PromptChars(r) <= remaining + 1
        /\ PromptChars(p) <= remaining => r = p
        /\ ~p.odd => Len(r.chunks) <= Len(p.chunks)
        /\ ~p.odd => \A i \in 1 .. (Len(r.chunks) - 1) : r.chunks[i] = p.chunks[i]
        /\ p.whole /\ ~p.odd /\ p.chunks # <<>> /\ remaining > p.text => r.whole
    BY <2>7, TrimPromptFacts
  <2> HIDE DEF r
  <2>9. PromptChars(r) \in Nat
    BY <2>8, PromptType
  <2>10. SystemChars + Total(k) + PromptChars(r) <= MaxTotal + 1
    BY <1>1, <2>4, <2>7, <2>8, <2>9
  <2>11. r = p \/ Total(k) = 0 \/ Total(k) = avail + 1
    BY <1>1, <1>2, <1>3, <2>4, <2>5, <2>7, <2>8
  <2>12. ASSUME BlockChars(p.chunks) >= 2, p.text < MaxTotal - SystemChars
         PROVE  remaining > p.text
    BY <1>1, <1>2, <1>3, <2>4, <2>5, <2>7, <2>12
  <2>13. p.whole /\ ~p.odd /\ p.chunks # <<>> /\ BlockChars(p.chunks) >= 2
            /\ p.text < MaxTotal - SystemChars => r.whole
    BY <2>8, <2>12
  <2>14. b = [history |-> b.history, prompt |-> <<q>>]
    BY <2>1, <2>2
  <2>15. /\ b.history \in Seq(Message) /\ NewestOf(b.history, h)
         /\ (b.history = h \/ Total(b.history) >= avail)
    BY <2>2, <2>4
  <2>16. q \in Prompt /\ SystemChars + Total(b.history) + PromptChars(q) <= MaxTotal + 1
    BY <2>2, <2>8, <2>10
  <2>17. q = p \/ Total(b.history) \in {0, avail + 1}
    BY <2>2, <2>11
  <2>18. /\ ~p.odd => Len(q.chunks) <= Len(p.chunks)
         /\ ~p.odd => \A i \in 1 .. (Len(q.chunks) - 1) : q.chunks[i] = p.chunks[i]
    BY <2>2, <2>8
  <2> QED
    BY <2>2, <2>13, <2>14, <2>15, <2>16, <2>17, <2>18
<1> QED
  BY <1>6, <1>7

-----------------------------------------------------------------------------
(* Every request.                                                           *)

\* The job record the application writes for its input.
Recorded(i) ==
    [history |-> ApplyHistoryBudget(i.history, MaxMessages, MaxHistory),
     prompt |-> <<BuildPrompt(i.question, i.docs)>>]

\* The inductive invariant: the record is what Enqueue makes of the input, and
\* what is sent is what Run makes of the record.
BudgetInv ==
    /\ input \in Inputs
    /\ record # Nothing =>
        /\ record = Recorded(input)
        /\ blank \in 0 .. MostBlank(input.history, record.history)
        /\ input.docs # <<>> => \E i \in DOMAIN input.docs : input.docs[i].len > 0
    /\ record = Nothing => blank = 0
    /\ sent # Nothing =>
        /\ record # Nothing
        /\ \E r \in Readings(record.prompt[1]) : sent = PrepareMessages(Stored, record.prompt[1], r)

\* It holds throughout.
LEMMA BudgetInvariant == BudgetSpec => []BudgetInv
<1>1. BudgetInit => BudgetInv
  BY DEF BudgetInit, BudgetInv
<1>2. BudgetInv /\ [BudgetNext]_budgetVars => BudgetInv'
  <2> SUFFICES ASSUME BudgetInv, [BudgetNext]_budgetVars PROVE BudgetInv'
    OBVIOUS
  <2>1. CASE Enqueue
    <3>1. record = Nothing /\ sent' = sent /\ input' = input
      BY <2>1 DEF Enqueue
    <3>2. /\ record' = Recorded(input) /\ record' # Nothing
          /\ blank' \in 0 .. MostBlank(input.history, record'.history)
          /\ (input.docs # <<>> => \E i \in DOMAIN input.docs : input.docs[i].len > 0)
      BY <2>1 DEF Enqueue, Recorded, Nothing
    <3>3. sent = Nothing
      BY <3>1 DEF BudgetInv
    <3> QED
      BY <3>1, <3>2, <3>3 DEF BudgetInv
  <2>2. CASE Run
    BY <2>2 DEF Run, BudgetInv, Stored
  <2>3. CASE UNCHANGED budgetVars
    BY <2>3 DEF BudgetInv, budgetVars, Stored
  <2> QED
    BY <2>1, <2>2, <2>3 DEF BudgetNext
<1> QED
  BY <1>1, <1>2, PTL DEF BudgetSpec

\* The record of an input: its history and its prompt.
LEMMA RecordFacts ==
    ASSUME BudgetInv, record # Nothing,
           NEW h, h = Stored, NEW p, p = record.prompt[1],
           NEW v, v = Valid(LastN(input.history, MaxMessages))
    PROVE  /\ input.history \in Seq(Message) /\ input.docs \in Seq(Document)
           /\ record.prompt = <<p>>
           /\ h \in Seq(Message) /\ v \in Seq(Message)
           /\ ApplyHistoryBudget(h, MaxMessages, MaxHistory) = h /\ Valid(h) = h
           /\ NewestOf(h, v) /\ (Len(h) = Len(v) \/ Total(h) >= MaxHistory - MarkerChars + 1)
           /\ p \in Prompt /\ p.text > 0 /\ p.whole /\ PromptChars(p) >= 1
           /\ p.chunks = ApplyDocumentBudget(input.docs)
           /\ DocsInv(input.docs, KeepDocuments(input.docs))
           /\ input.docs # <<>> => p.chunks # <<>> /\ BlockChars(p.chunks) >= 2
<1>1. /\ input.history \in Seq(Message) /\ input.question \in Question
      /\ input.docs \in Seq(Document)
  BY BudgetsAssumption DEF BudgetInv
<1>2. MaxMessages \in Nat /\ MaxHistory \in Nat
  BY BudgetsAssumption
<1>3. record = Recorded(input)
  BY DEF BudgetInv
<1> DEFINE k == record.history
<1>4. /\ k = ApplyHistoryBudget(input.history, MaxMessages, MaxHistory)
      /\ p = BuildPrompt(input.question, input.docs) /\ record.prompt = <<p>>
  BY <1>3 DEF Recorded
<1>9. /\ k \in Seq(Message) /\ v \in Seq(Message) /\ Len(k) <= MaxMessages
      /\ ApplyHistoryBudget(k, MaxMessages, MaxHistory) = k /\ Valid(k) = k
      /\ NewestOf(k, v) /\ (k = v \/ Total(k) >= MaxHistory) /\ Total(k) \in Nat
  BY <1>1, <1>2, <1>4, Budgeted
<1>10. /\ blank \in Nat /\ (blank > 0 => k # <<>> /\ blank < k[1].len)
       /\ blank <= MarkerChars - 1
  <2>1. MarkerChars \in Nat \ {0}
    BY BudgetsAssumption
  <2>2. blank \in 0 .. MostBlank(input.history, k)
    BY DEF BudgetInv
  <2> DEFINE cut == k # <<>> /\ k[1].len <= MarkerChars
                      /\ \E i \in DOMAIN input.history :
                             /\ input.history[i].id = k[1].id
                             /\ input.history[i].len > k[1].len
  <2>3. MostBlank(input.history, k) = IF cut THEN k[1].len - 1 ELSE 0
    BY DEF MostBlank
  <2>4. cut => k # <<>> /\ k[1].len <= MarkerChars
    OBVIOUS
  <2>5. k # <<>> => k[1].len \in Nat
    <3> HIDE DEF k, cut
    <3>1. ASSUME k # <<>> PROVE k[1] \in Message
      BY <1>9, <3>1
    <3> QED
      BY <3>1 DEF Message
  <2> HIDE DEF k, cut
  <2>6. CASE cut
    BY <2>1, <2>2, <2>3, <2>4, <2>5, <2>6
  <2>7. CASE ~cut
    BY <2>1, <2>2, <2>3, <2>7
  <2> QED
    BY <2>6, <2>7
<1>11. h = Stripped(k, blank)
  BY DEF Stored
<1> HIDE DEF k
<1>12. /\ h \in Seq(Message) /\ ApplyHistoryBudget(h, MaxMessages, MaxHistory) = h
       /\ Valid(h) = h /\ NewestOf(h, k) /\ Len(h) = Len(k) /\ Total(h) = Total(k) - blank
  BY <1>2, <1>9, <1>10, <1>11, StrippedFacts
<1>5. /\ h \in Seq(Message) /\ v \in Seq(Message)
      /\ ApplyHistoryBudget(h, MaxMessages, MaxHistory) = h /\ Valid(h) = h
      /\ NewestOf(h, v) /\ (Len(h) = Len(v) \/ Total(h) >= MaxHistory - MarkerChars + 1)
  <2>1. NewestOf(h, v)
    BY <1>9, <1>12, NewestTwice
  <2>2. MarkerChars \in Nat
    BY BudgetsAssumption
  <2>3. Total(k) >= MaxHistory => Total(h) >= MaxHistory - MarkerChars + 1
    BY <1>2, <1>9, <1>10, <1>12, <2>2
  <2> QED
    BY <1>9, <1>12, <2>1, <2>3
<1>6. /\ p \in Prompt /\ p.text > 0 /\ p.whole /\ p.chunks = ApplyDocumentBudget(input.docs)
      /\ DocsInv(input.docs, KeepDocuments(input.docs))
  BY <1>1, <1>4, BuildPromptFacts
<1>7. PromptChars(p) >= 1 /\ p.chunks \in Seq(Document)
  <2>1. /\ p.text \in Nat /\ p.chunks \in Seq(Document) /\ BlockChars(p.chunks) \in Nat
        /\ PromptChars(p) = p.text + BlockChars(p.chunks)
    BY <1>6, PromptType
  <2> QED
    BY <1>6, <2>1
<1>8. ASSUME input.docs # <<>> PROVE p.chunks # <<>> /\ BlockChars(p.chunks) >= 2
  <2>1. p.chunks = KeepDocuments(input.docs).kept
    BY <1>6 DEF ApplyDocumentBudget
  <2>2. /\ Len(p.chunks) = Len(Named(input.docs))
        /\ \A i \in 1 .. Len(p.chunks) : p.chunks[i].len > 0
        /\ (\E i \in 1 .. Len(input.docs) : input.docs[i].len > 0) => Named(input.docs) # <<>>
    BY <1>6, <2>1 DEF DocsInv
  <2>3. \E i \in DOMAIN input.docs : input.docs[i].len > 0
    BY <1>8 DEF BudgetInv
  <2>4. DOMAIN input.docs = 1 .. Len(input.docs)
    BY <1>1
  <2>5. Named(input.docs) # <<>> /\ Named(input.docs) \in Seq(Document)
    BY <1>1, <2>2, <2>3, <2>4, NamedBase
  <2>6. Len(Named(input.docs)) # 0
    BY <2>5
  <2>7. p.chunks # <<>>
    BY <2>2, <2>6
  <2> QED
    BY <1>7, <2>2, <2>7, BlockNotEmpty
<1> QED
  BY <1>1, <1>4, <1>5, <1>6, <1>7, <1>8

\* What is sent for a record, for the reading the worker has made of its prompt.
LEMMA SentFacts ==
    ASSUME BudgetInv, sent # Nothing, NEW h, h = Stored, NEW p, p = record.prompt[1]
    PROVE  \E k, q :
           /\ record # Nothing /\ sent.history = k
           /\ sent.prompt = <<>> \/ sent.prompt = <<q>>
           /\ k \in Seq(Message) /\ NewestOf(k, h)
           /\ k = h \/ Total(k) >= Available
           /\ q \in Prompt
           /\ q = p \/ Total(k) \in {0, Available + 1}
           /\ SystemChars + Total(k) + PromptChars(q) <= MaxTotal + 1
           /\ ~p.odd => Len(q.chunks) <= Len(p.chunks)
           /\ ~p.odd => \A i \in 1 .. (Len(q.chunks) - 1) : q.chunks[i] = p.chunks[i]
           /\ p.whole /\ ~p.odd /\ p.chunks # <<>> /\ BlockChars(p.chunks) >= 2
                /\ p.text < MaxTotal - SystemChars => q.whole
<1>0. PICK r \in Readings(p) : sent = PrepareMessages(h, p, r)
  BY DEF BudgetInv
<1>1. record # Nothing
  BY DEF BudgetInv
<1> DEFINE b == ApplyTotalBudget(h, p, r)
           k == b.history
           q == b.prompt[1]
<1>2. /\ h \in Seq(Message) /\ p \in Prompt /\ PromptChars(p) >= 1
      /\ ApplyHistoryBudget(h, MaxMessages, MaxHistory) = h /\ Valid(h) = h
  BY <1>1, RecordFacts
<1>3. Available = AtLeast(0, MaxTotal - SystemChars - PromptChars(p))
  BY DEF Available
<1>4. /\ b = [history |-> k, prompt |-> <<q>>]
      /\ k \in Seq(Message) /\ NewestOf(k, h)
      /\ k = h \/ Total(k) >= Available
      /\ q \in Prompt
      /\ q = p \/ Total(k) \in {0, Available + 1}
      /\ SystemChars + Total(k) + PromptChars(q) <= MaxTotal + 1
      /\ ~p.odd => Len(q.chunks) <= Len(p.chunks)
      /\ ~p.odd => \A i \in 1 .. (Len(q.chunks) - 1) : q.chunks[i] = p.chunks[i]
      /\ p.whole /\ ~p.odd /\ p.chunks # <<>> /\ BlockChars(p.chunks) >= 2
           /\ p.text < MaxTotal - SystemChars => q.whole
  BY <1>2, <1>3, TotalBudget
<1>5. sent = IF b.history # <<>> /\ SameText(Last(b.history), b.prompt[1])
             THEN [b EXCEPT !.prompt = <<>>] ELSE b
  BY <1>0 DEF PrepareMessages
<1>6. sent.history = k /\ (sent.prompt = <<>> \/ sent.prompt = <<q>>)
  <2>1. b = [history |-> k, prompt |-> <<q>>]
    BY <1>4
  <2>2. sent = [b EXCEPT !.prompt = <<>>] \/ sent = b
    BY <1>5
  <2> HIDE DEF k, q, b
  <2>3. [b EXCEPT !.prompt = <<>>] = [history |-> k, prompt |-> <<>>]
    BY <2>1
  <2>4. sent = [history |-> k, prompt |-> <<>>] \/ sent = [history |-> k, prompt |-> <<q>>]
    BY <2>1, <2>2, <2>3
  <2> QED
    BY <2>4
<1> HIDE DEF k, q, b
<1> QED
  BY <1>1, <1>4, <1>6

\* WithinBudget follows: TotalBudget for what is sent, DocsLoop for the record.
LEMMA WithinBudgetLemma == BudgetInv => WithinBudget
<1> SUFFICES ASSUME BudgetInv PROVE WithinBudget
  OBVIOUS
<1>1. ASSUME sent # Nothing
      PROVE  SystemChars + Total(sent.history)
                + (IF sent.prompt = <<>> THEN 0 ELSE PromptChars(sent.prompt[1])) <= MaxTotal + 1
  <2>1. PICK k, q :
        /\ sent.history = k /\ (sent.prompt = <<>> \/ sent.prompt = <<q>>)
        /\ k \in Seq(Message) /\ q \in Prompt
        /\ SystemChars + Total(k) + PromptChars(q) <= MaxTotal + 1
    BY <1>1, SentFacts
  <2>2. /\ Total(k) \in Nat /\ PromptChars(q) \in Nat /\ SystemChars \in Nat
        /\ MaxTotal \in Nat
    BY <2>1, TotalBase, PromptType, BudgetsAssumption
  <2>3. CASE sent.prompt = <<>>
    BY <2>1, <2>2, <2>3
  <2>4. CASE sent.prompt = <<q>>
    <3>1. sent.prompt # <<>> /\ sent.prompt[1] = q
      BY <2>4
    <3> QED
      BY <2>1, <3>1
  <2> QED
    BY <2>1, <2>3, <2>4
<1>2. ASSUME record # Nothing
      PROVE  Total(record.prompt[1].chunks) <= MaxDocuments + DocMarkerChars * Len(input.docs)
  <2>1. /\ record.prompt[1].chunks = ApplyDocumentBudget(input.docs)
        /\ DocsInv(input.docs, KeepDocuments(input.docs))
    BY <1>2, RecordFacts
  <2> QED
    BY <2>1 DEF DocsInv, ApplyDocumentBudget
<1> QED
  BY <1>1, <1>2 DEF WithinBudget

\* BudgetsAgree follows: the loop returns its own result unchanged, also stripped.
LEMMA BudgetsAgreeLemma == BudgetInv => BudgetsAgree
<1> SUFFICES ASSUME BudgetInv PROVE BudgetsAgree
  OBVIOUS
<1>1. CASE record = Nothing
  <2>1. Stored = <<>> /\ <<>> \in Seq(Message) /\ Len(<<>>) = 0
    BY <1>1 DEF Nothing, Stored, Stripped, BudgetInv
  <2>2. MaxMessages \in Nat /\ MaxHistory \in Int
    BY BudgetsAssumption
  <2>3. LastN(<<>>, MaxMessages) = <<>>
    <3> DEFINE e == <<>>
    <3>1. e \in Seq(Message) /\ Len(e) <= MaxMessages
      BY <2>1, <2>2
    <3> HIDE DEF e
    <3>2. LastN(e, MaxMessages) = e
      BY <2>2, <3>1, LastNFacts
    <3> QED
      BY <3>2 DEF e
  <2>4. KeepMessages(<<>>, MaxHistory) = [kept |-> <<>>, left |-> MaxHistory]
    BY <2>1, <2>2, KeepMessagesBase
  <2>5. ApplyHistoryBudget(<<>>, MaxMessages, MaxHistory) = <<>>
    BY <2>3, <2>4 DEF ApplyHistoryBudget
  <2> QED
    BY <2>1, <2>5 DEF BudgetsAgree
<1>2. CASE record # Nothing
  <2>1. ApplyHistoryBudget(Stored, MaxMessages, MaxHistory) = Stored
    BY <1>2, RecordFacts
  <2> QED
    BY <2>1 DEF BudgetsAgree
<1> QED
  BY <1>1, <1>2

\* NewestHistory follows: the end of an end of the valid messages is one.
LEMMA NewestHistoryLemma == BudgetInv => NewestHistory
<1> SUFFICES ASSUME BudgetInv, sent # Nothing PROVE NewestHistory
  BY DEF NewestHistory
<1> DEFINE h == Stored
           v == Valid(LastN(input.history, MaxMessages))
           bound == MaxHistory - MarkerChars + 1
<1>1. PICK k :
      /\ record # Nothing /\ sent.history = k /\ k \in Seq(Message)
      /\ NewestOf(k, h) /\ (k = h \/ Total(k) >= Available)
  BY SentFacts
<1>2. /\ h \in Seq(Message) /\ v \in Seq(Message) /\ NewestOf(h, v)
      /\ (Len(h) = Len(v) \/ Total(h) >= bound)
  BY <1>1, RecordFacts
<1> HIDE DEF h
<1>3. NewestOf(k, v)
  <2> HIDE DEF v
  <2> QED
    BY <1>1, <1>2, NewestTwice
<1>4. Len(k) = Len(v) \/ Total(k) >= bound \/ Total(k) >= Available
  BY <1>1, <1>2
<1>5. Total(k) \in Nat /\ bound \in Int /\ Available \in Int
  <2>1. Total(k) \in Nat /\ bound \in Int /\ MaxTotal \in Int /\ SystemChars \in Int
    BY <1>1, TotalBase, BudgetsAssumption
  <2>2. PromptChars(record.prompt[1]) \in Nat
    BY <1>1, RecordFacts, PromptType
  <2> QED
    BY <2>1, <2>2 DEF Available, AtLeast
<1>6. Len(v) - Len(k) > 0 => Total(k) >= AtMost(bound, Available)
  <2>1. ASSUME Len(k) = Len(v) PROVE ~(Len(v) - Len(k) > 0)
    <3>1. Len(v) \in Nat
      BY <1>2
    <3> HIDE DEF v
    <3> QED
      BY <2>1, <3>1
  <2> HIDE DEF bound, v
  <2>2. Total(k) >= bound \/ Total(k) >= Available => Total(k) >= AtMost(bound, Available)
    BY <1>5 DEF AtMost
  <2> QED
    BY <1>4, <2>1, <2>2
<1>7. /\ Len(v) - Len(k) >= 0
      /\ \A i \in DOMAIN k : k[i].id = v[(Len(v) - Len(k)) + i].id
      /\ \A i \in DOMAIN k \ {1} : k[i] = v[(Len(v) - Len(k)) + i]
  <2> HIDE DEF v
  <2> QED
    BY <1>3 DEF NewestOf
<1> QED
  BY <1>1, <1>6, <1>7 DEF NewestHistory

\* HistoryYields follows from TotalBudget.
LEMMA HistoryYieldsLemma == BudgetInv => HistoryYields
<1> SUFFICES ASSUME BudgetInv, sent # Nothing, sent.prompt # <<>>, sent.prompt # record.prompt
             PROVE  Total(sent.history) \in {0, Available + 1}
  BY DEF HistoryYields
<1> DEFINE p == record.prompt[1]
<1>1. PICK k, q :
      /\ record # Nothing /\ sent.history = k /\ (sent.prompt = <<>> \/ sent.prompt = <<q>>)
      /\ q = p \/ Total(k) \in {0, Available + 1}
  BY SentFacts
<1>2. record.prompt = <<p>>
  BY <1>1, RecordFacts
<1> QED
  BY <1>1, <1>2

\* DocumentsKept follows: DocsLoop for the record, BlockLoop for what is sent.
LEMMA DocumentsKeptLemma == BudgetInv => DocumentsKept
<1> SUFFICES ASSUME BudgetInv PROVE DocumentsKept
  OBVIOUS
<1> DEFINE named == Named(input.docs)
           before == record.prompt[1]
           after == sent.prompt[1]
<1>1. ASSUME record # Nothing
      PROVE  /\ Len(before.chunks) = Len(named)
             /\ \A i \in DOMAIN named : before.chunks[i].id = named[i].id
  <2>1. /\ input.docs \in Seq(Document)
        /\ before.chunks = ApplyDocumentBudget(input.docs)
        /\ DocsInv(input.docs, KeepDocuments(input.docs))
    BY <1>1, RecordFacts
  <2>2. named \in Seq(Document)
    BY <2>1, NamedBase
  <2>3. DOMAIN named = 1 .. Len(named)
    BY <2>2
  <2>4. /\ Len(before.chunks) = Len(named)
        /\ \A i \in 1 .. Len(before.chunks) : before.chunks[i].id = named[i].id
    BY <2>1 DEF DocsInv, ApplyDocumentBudget
  <2> QED
    BY <2>3, <2>4
<1>2. ASSUME sent # Nothing, sent.prompt # <<>>, input.docs # <<>>, ~before.odd
      PROVE  /\ Len(after.chunks) <= Len(before.chunks)
             /\ \A i \in 1 .. (Len(after.chunks) - 1) : after.chunks[i] = before.chunks[i]
             /\ before.text < MaxTotal - SystemChars => after.whole
  <2>1. PICK q :
        /\ record # Nothing /\ (sent.prompt = <<>> \/ sent.prompt = <<q>>)
        /\ Len(q.chunks) <= Len(before.chunks)
        /\ \A i \in 1 .. (Len(q.chunks) - 1) : q.chunks[i] = before.chunks[i]
        /\ before.whole /\ before.chunks # <<>> /\ BlockChars(before.chunks) >= 2
             /\ before.text < MaxTotal - SystemChars => q.whole
    BY <1>2, SentFacts
  <2>2. before.whole /\ before.chunks # <<>> /\ BlockChars(before.chunks) >= 2
    BY <1>2, <2>1, RecordFacts
  <2>3. after = q
    BY <1>2, <2>1
  <2> QED
    BY <2>1, <2>2, <2>3
<1> QED
  BY <1>1, <1>2 DEF DocumentsKept

\* Whatever the history, the question, the documents and the limits are, all that
\* prepare_ollama_messages_with_metrics sends, the system prompt included, is at
\* most one character above MAX_TOTAL_PROMPT_CHARS, and the documents the parser
\* puts in a prompt exceed MAX_DOCUMENT_CHARS at most by a marker each.
THEOREM RequestsWithinBudget == BudgetSpec => []WithinBudget
BY BudgetInvariant, WithinBudgetLemma, PTL

\* After the application, the worker and the total budget have cut the history in
\* turn it is the newest valid messages of the thread without a gap, only the
\* oldest shortened, and one is missing only when the characters are used up, but
\* for less than a marker of white space that was stripped from the oldest.
THEOREM RequestsKeepNewestHistory == BudgetSpec => []NewestHistory
BY BudgetInvariant, NewestHistoryLemma, PTL

\* apply_history_budget returns its own result unchanged but for the white space a
\* cut left at the end of its oldest message: the worker finds the history the
\* application stored within the budget, however often it applies it.
THEOREM RequestBudgetsAgree == BudgetSpec => []BudgetsAgree
BY BudgetInvariant, BudgetsAgreeLemma, PTL

\* apply_total_prompt_budget cuts the prompt only after the history has gone, or
\* when a marker made the oldest message kept one character too long.
THEOREM RequestHistoryYields == BudgetSpec => []HistoryYields
BY BudgetInvariant, HistoryYieldsLemma, PTL

\* The parser names every non-empty document; unless a text holds a header or a label
\* of the prompt itself, trim_prompt_for_total_budget sends a prefix of them of which
\* only the last is cut, and the text around them stays whole when it fits.
THEOREM RequestDocumentsKept == BudgetSpec => []DocumentsKept
BY BudgetInvariant, DocumentsKeptLemma, PTL

=============================================================================
