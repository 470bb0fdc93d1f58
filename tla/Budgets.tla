------------------------------ MODULE Budgets ------------------------------
(***************************************************************************)
(* How much text a request sends to the model: the history and total       *)
(* prompt budgets of src/llm_gateway.py, which the application applies     *)
(* when it enqueues a job and the worker applies again when it runs it,    *)
(* and the document budget of src/parser_stage.py.                         *)
(*                                                                         *)
(* A text is its length and an id that tells two texts apart.  A message   *)
(* cut short may end in white space, which the next strip() removes.  A    *)
(* cut document never does (rstrip() would only shorten it further).       *)
(* The worker finds the documents in the prompt again by their headers and *)
(* labels; an "odd" text holds such a line itself and may be misread.      *)
(***************************************************************************)
EXTENDS Integers, Sequences, SequencesExt

CONSTANTS
    MaxMessages,     \* MAX_HISTORY_MESSAGES
    MaxHistory,      \* MAX_HISTORY_CHARS
    MaxTotal,        \* MAX_TOTAL_PROMPT_CHARS
    MaxDocuments,    \* MAX_DOCUMENT_CHARS
    SystemChars,     \* len(SYSTEM_PROMPT)
    MarkerChars,     \* len(TRUNCATION_MARKER)
    DocMarkerChars,  \* len(DOCUMENT_TRUNCATION_MARKER)
    LabelChars,      \* length of a "[Document i: name]" line
    FrameChars,      \* length of a document prompt without question and documents
    Misreadings,     \* what a prompt with an odd text may be taken for
    Inputs           \* requests: [history, question, docs]; a question is never
                     \* empty (an upload without one gets a fixed text)

Message  == [id : Nat, len : Nat, role : STRING]
Question == [id : Nat, len : Nat \ {0}, odd : BOOLEAN]
Document == [id : Nat, len : Nat, odd : BOOLEAN]
\* A prompt taken apart: the text outside the document block, the length of the
\* block and the labelled chunks in it.
Reading  == [text : Nat, len : Nat, chunks : Seq(Document)]

ASSUME BudgetsAssumption ==
    /\ MaxMessages \in Nat /\ MaxHistory \in Nat /\ MaxTotal \in Nat
    /\ MaxDocuments \in Nat /\ LabelChars \in Nat /\ FrameChars \in Nat
    /\ SystemChars \in 0..MaxTotal
    /\ MarkerChars \in Nat \ {0} /\ DocMarkerChars \in Nat \ {0}
    /\ Misreadings \subseteq Reading
    /\ Inputs \subseteq [history : Seq(Message), question : Question, docs : Seq(Document)]

VARIABLES
    input,   \* the request as it reaches the application
    record,  \* history and prompt of the job record
    blank,   \* white space at the end of the record's oldest message
    sent     \* history and prompt of the messages sent to Ollama

budgetVars == <<input, record, blank, sent>>

Nothing == [history |-> <<>>, prompt |-> <<>>]

AtMost(a, b)  == IF a < b THEN a ELSE b
AtLeast(a, b) == IF a > b THEN a ELSE b

SumOf(ns) ==
    LET sum[i \in 0 .. Len(ns)] == IF i = 0 THEN 0 ELSE sum[i - 1] + ns[i]
    IN  sum[Len(ns)]

Total(texts) == SumOf([i \in DOMAIN texts |-> texts[i].len])

-----------------------------------------------------------------------------
(* Plain texts and the history                                              *)

\* truncate_text_preserving_ends: the two ends around the marker, each at
\* least one character long.
Truncated(n, limit) ==
    LET preserved == limit - MarkerChars
        head == AtLeast(1, preserved \div 2)
    IN  IF limit <= 0 THEN 0
        ELSE IF n <= limit THEN n
        ELSE IF limit <= MarkerChars THEN limit
        ELSE head + MarkerChars + AtLeast(1, preserved - head)

LastN(s, n) == SubSeq(s, AtLeast(1, Len(s) - n + 1), Len(s))

Speaks(m) == m.role \in {"user", "assistant"}

\* One message of apply_history_budget's loop.
KeepMessage(m, acc) ==
    LET n == Truncated(m.len, acc.left)
    IN  IF ~Speaks(m) \/ n = 0 THEN acc
        ELSE [kept |-> <<[m EXCEPT !.len = n]>> \o acc.kept, left |-> acc.left - n]

KeepMessages(s, chars) ==
    LET acc[i \in 0 .. Len(s)] ==
            IF i = 0 THEN [kept |-> <<>>, left |-> chars]
            ELSE KeepMessage(s[Len(s) + 1 - i], acc[i - 1])     \* newest first
    IN  acc[Len(s)]

ApplyHistoryBudgetOldestFirst(history, messages, chars) ==
    Reverse(KeepMessages(Reverse(LastN(history, messages)), chars).kept)

ApplyHistoryBudget(history, messages, chars) ==
    KeepMessages(LastN(history, messages), chars).kept

\* A message cut without a marker keeps its first characters, of which all but the
\* first may be white space.  It is the oldest one kept: it uses up the budget.
MostBlank(history, kept) ==
    IF /\ kept # <<>> /\ kept[1].len <= MarkerChars
       /\ \E i \in DOMAIN history : history[i].id = kept[1].id /\ history[i].len > kept[1].len
    THEN kept[1].len - 1 ELSE 0

\* The strip() of the next application.
Stripped(history, n) == IF n = 0 THEN history ELSE [history EXCEPT ![1].len = @ - n]

-----------------------------------------------------------------------------
(* Documents                                                                *)

\* A text cut to a budget that ends in "\n[DOCUMENT_TRUNCATED]"; the marker
\* alone when no character of the text fits before it.
WithDocMarker(limit) ==
    IF limit > DocMarkerChars + 1 THEN limit ELSE DocMarkerChars

\* trim_document_content: what the extraction of one file returns.
TrimDocument(doc) ==
    [doc EXCEPT !.len = IF @ <= MaxDocuments THEN @ ELSE WithDocMarker(MaxDocuments)]

\* One document of apply_document_budget's loop: once the budget is used up a
\* document keeps its name and the bare marker, which is not counted.
KeepDocumentInBudget(acc, doc) ==
    LET remaining == MaxDocuments - acc.used
        n == IF doc.len > remaining THEN WithDocMarker(remaining) ELSE doc.len
    IN  IF doc.len = 0 \/ remaining <= 0 THEN acc
        ELSE [kept |-> Append(acc.kept, [doc EXCEPT !.len = n]), used |-> acc.used + n]

KeepDocument(acc, doc) ==
    LET remaining == MaxDocuments - acc.used
        n == IF doc.len > remaining THEN WithDocMarker(remaining) ELSE doc.len
    IN  IF doc.len = 0 THEN acc
        ELSE IF remaining <= 0
        THEN [acc EXCEPT !.kept = Append(@, [doc EXCEPT !.len = DocMarkerChars])]
        ELSE [kept |-> Append(acc.kept, [doc EXCEPT !.len = n]), used |-> acc.used + n]

KeepDocuments(docs) ==
    LET acc[i \in 0 .. Len(docs)] ==
            IF i = 0 THEN [kept |-> <<>>, used |-> 0]
            ELSE KeepDocument(acc[i - 1], TrimDocument(docs[i]))
    IN  acc[Len(docs)]

ApplyDocumentBudget(docs) == KeepDocuments(docs).kept

\* The document block: labelled chunks, a blank line between two of them.
ChunkChars(c) == LabelChars + (IF c.len > 0 THEN 1 + c.len ELSE 0)

BlockChars(chunks) ==
    SumOf([i \in DOMAIN chunks |-> ChunkChars(chunks[i])]) + 2 * AtLeast(0, Len(chunks) - 1)

\* _truncate_document_chunk_content
ChunkContent(n, limit) ==
    IF n <= limit THEN n
    ELSE IF limit <= DocMarkerChars + 1 THEN AtMost(limit, DocMarkerChars)
    ELSE limit

\* One chunk of _trim_document_block_preserving_labels: whole while it fits; the
\* first that does not is cut, or reduced to its label, and ends the block.
KeepChunk(acc, c, limit) ==
    LET sep == IF acc.kept = <<>> THEN 0 ELSE 2
        remaining == limit - acc.used - sep
    IN  IF acc.stop THEN acc
        ELSE IF ChunkChars(c) <= remaining
        THEN [acc EXCEPT !.kept = Append(@, c), !.used = @ + sep + ChunkChars(c)]
        ELSE IF remaining <= LabelChars THEN [acc EXCEPT !.stop = TRUE]
        ELSE IF remaining <= LabelChars + 1 + DocMarkerChars
        THEN [acc EXCEPT !.kept = Append(@, [c EXCEPT !.len = 0]), !.stop = TRUE]
        ELSE [acc EXCEPT !.stop = TRUE, !.kept = Append(@,
                 [c EXCEPT !.len = ChunkContent(c.len, remaining - LabelChars - 1)])]

KeepChunks(chunks, limit) ==
    LET acc[i \in 0 .. Len(chunks)] ==
            IF i = 0 THEN [kept |-> <<>>, used |-> 0, stop |-> FALSE]
            ELSE KeepChunk(acc[i - 1], chunks[i], limit)
    IN  acc[Len(chunks)]

\* _trim_document_block_preserving_labels of a block with these chunks: whole, the
\* chunks that fit, or, when not even a label does, cut as a plain text.
TrimBlock(block, limit) ==
    LET kept == KeepChunks(block.chunks, limit).kept
    IN  IF block.len <= limit THEN [text |-> block.len, chunks |-> <<>>]
        ELSE IF kept = <<>> THEN [text |-> Truncated(block.len, limit), chunks |-> <<>>]
        ELSE [text |-> 0, chunks |-> kept]

-----------------------------------------------------------------------------
(* The prompt                                                               *)

\* A prompt is its text outside the documents and the labelled chunks inside.
\* `whole`: the text outside the documents has not been cut.
PromptChars(p) == p.text + BlockChars(p.chunks)

\* _build_document_prompt, or the bare question of a plain chat.
BuildPrompt(question, docs) ==
    [id |-> question.id, whole |-> TRUE,
     odd |-> question.odd \/ \E i \in DOMAIN docs : docs[i].odd,
     text |-> question.len + (IF docs = <<>> THEN 0 ELSE FrameChars),
     chunks |-> ApplyDocumentBudget(docs)]

\* _parse_document_prompt_sections and _split_document_chunks: the headers and the
\* labels are searched in the text.  No reading (<<>>) when a header or the divider
\* before the request is not found.  With a header or a label in an odd text the
\* block may end early (what follows counts as text outside, what lies between the
\* last divider and the header is lost) or fall into other chunks.
AsBuilt(p) == [text |-> p.text, len |-> BlockChars(p.chunks), chunks |-> p.chunks]

Readings(p) ==
    LET built == IF p.chunks = <<>> THEN <<>> ELSE <<AsBuilt(p)>>
        fits(r) == r.text + r.len <= PromptChars(p) + 2     \* "\n\n" after the header
    IN  IF p.odd THEN {built, <<>>} \cup {<<r>> : r \in {x \in Misreadings : fits(x)}}
        ELSE {built}

\* trim_prompt_for_total_budget of a prompt read as r: only the documents shrink
\* while the rest fits.
TrimPrompt(p, r, limit) ==
    LET block == TrimBlock(r[1], limit - r[1].text)
    IN  IF PromptChars(p) <= limit THEN p
        ELSE IF r # <<>> /\ limit > r[1].text
        THEN [p EXCEPT !.text = r[1].text + block.text, !.chunks = block.chunks,
                       !.whole = (r[1] = AsBuilt(p))]
        ELSE [p EXCEPT !.text = Truncated(PromptChars(p), limit), !.chunks = <<>>,
                       !.whole = FALSE]

\* apply_total_prompt_budget: history gives way to the prompt.
ApplyTotalBudgetWithoutSystem(history, p, r) ==
    LET budgeted == ApplyHistoryBudget(history, MaxMessages, MaxHistory)
    IN  IF PromptChars(p) + Total(budgeted) <= MaxTotal
        THEN [history |-> budgeted, prompt |-> <<p>>]
        ELSE [history |-> ApplyHistoryBudget(budgeted, Len(budgeted),
                              AtLeast(0, MaxTotal - PromptChars(p))),
              prompt |-> <<TrimPrompt(p, r, MaxTotal)>>]

ApplyTotalBudgetPromptFirst(history, p, r) ==
    LET budgeted == ApplyHistoryBudget(history, MaxMessages, MaxHistory)
    IN  [history |-> budgeted,
         prompt |-> <<TrimPrompt(p, r, AtLeast(0, MaxTotal - SystemChars - Total(budgeted)))>>]

ApplyTotalBudget(history, p, r) ==
    LET budgeted == ApplyHistoryBudget(history, MaxMessages, MaxHistory)
        available == AtLeast(0, MaxTotal - SystemChars - PromptChars(p))
        trimmed == ApplyHistoryBudget(budgeted, Len(budgeted), available)
        remaining == AtLeast(0, MaxTotal - SystemChars - Total(trimmed))
    IN  IF SystemChars + PromptChars(p) + Total(budgeted) <= MaxTotal
        THEN [history |-> budgeted, prompt |-> <<p>>]
        ELSE [history |-> trimmed, prompt |-> <<TrimPrompt(p, r, remaining)>>]

\* prepare_ollama_messages_with_metrics: a prompt that repeats the last message
\* of the history is not sent twice.
SameText(m, p) == p.chunks = <<>> /\ m.id = p.id /\ m.len = p.text

PrepareMessages(history, p, r) ==
    LET b == ApplyTotalBudget(history, p, r)
    IN  IF b.history # <<>> /\ SameText(Last(b.history), b.prompt[1])
        THEN [b EXCEPT !.prompt = <<>>] ELSE b

-----------------------------------------------------------------------------
(* A request: enqueued by the application, run by the worker                *)

BudgetInit == input \in Inputs /\ record = Nothing /\ blank = 0 /\ sent = Nothing

\* api_chat and the upload handlers budget the history; the parser budgets the
\* documents and builds the prompt.  No prompt is built from empty documents.
EnqueueWholeHistory ==
    /\ record = Nothing
    /\ record' = [history |-> input.history,
                  prompt |-> <<BuildPrompt(input.question, input.docs)>>]
    /\ UNCHANGED <<input, blank, sent>>

Enqueue ==
    /\ record = Nothing
    /\ input.docs # <<>> => \E i \in DOMAIN input.docs : input.docs[i].len > 0
    /\ record' = [history |-> ApplyHistoryBudget(input.history, MaxMessages, MaxHistory),
                  prompt |-> <<BuildPrompt(input.question, input.docs)>>]
    /\ blank' \in 0 .. MostBlank(input.history, record'.history)
    /\ UNCHANGED <<input, sent>>

\* The worker composes the messages of the job; a retry composes them again.
Stored == Stripped(record.history, blank)

Run ==
    /\ record # Nothing /\ sent = Nothing
    /\ \E r \in Readings(record.prompt[1]) : sent' = PrepareMessages(Stored, record.prompt[1], r)
    /\ UNCHANGED <<input, record, blank>>

BudgetNext == Enqueue \/ Run

BudgetSpec == BudgetInit /\ [][BudgetNext]_budgetVars

-----------------------------------------------------------------------------
(* Properties                                                               *)

\* The messages of a history that can be sent, and the documents with a text.
Valid(s) ==
    LET taken[i \in 0 .. Len(s)] ==
            IF i = 0 THEN <<>>
            ELSE LET m == s[Len(s) + 1 - i]
                 IN  IF Speaks(m) /\ m.len > 0 THEN <<m>> \o taken[i - 1] ELSE taken[i - 1]
    IN  taken[Len(s)]

Named(docs) ==
    LET taken[i \in 0 .. Len(docs)] ==
            IF i = 0 THEN <<>>
            ELSE IF docs[i].len > 0 THEN Append(taken[i - 1], docs[i]) ELSE taken[i - 1]
    IN  taken[Len(docs)]

Available == AtLeast(0, MaxTotal - SystemChars - PromptChars(record.prompt[1]))

\* Everything sent to the model, the system prompt included, is within the total
\* budget or one character above it (truncate_text_preserving_ends keeps a
\* character at both ends, also when there is room for one only), and the documents
\* the parser puts in a prompt exceed theirs at most by a truncation marker each.
WithinBudget ==
    /\ sent # Nothing =>
        SystemChars + Total(sent.history)
            + (IF sent.prompt = <<>> THEN 0 ELSE PromptChars(sent.prompt[1]))
        <= MaxTotal + 1
    /\ record # Nothing =>
        Total(record.prompt[1].chunks) <= MaxDocuments + DocMarkerChars * Len(input.docs)

\* The history that is sent, after three applications of the budget by two
\* processes, is the newest valid messages of the thread without a gap, only the
\* oldest of them shortened, and a message is left out only when the
\* characters are used up, but for the white space at the end of a cut message.
NewestHistory ==
    LET valid == Valid(LastN(input.history, MaxMessages))
        kept == sent.history
        from == Len(valid) - Len(kept)
    IN  sent # Nothing =>
            /\ from >= 0
            /\ \A i \in DOMAIN kept : kept[i].id = valid[from + i].id
            /\ \A i \in DOMAIN kept \ {1} : kept[i] = valid[from + i]
            /\ from > 0 => Total(kept) >= AtMost(MaxHistory - MarkerChars + 1, Available)

\* The worker's own application of the budget changes nothing in the history the
\* application stored in the job but the white space a cut left at the end of the
\* oldest message: the two agree, also for a job that is retried or passed from a
\* parser job to its child.
BudgetsAgree ==
    ApplyHistoryBudget(Stored, MaxMessages, MaxHistory) = Stored

\* The prompt is shortened only after the history has gone, or when the oldest
\* message kept is one character too long because of its marker.
HistoryYields ==
    sent # Nothing /\ sent.prompt # <<>> /\ sent.prompt # record.prompt =>
        Total(sent.history) \in {0, Available + 1}

\* The parser names every non-empty document in their order.  Of a prompt without
\* odd texts the model gets a prefix of the documents of which only the last is
\* shortened, and the instructions and the question around them stay whole when
\* they fit.  (The documents behind the prefix are left out with their labels, and
\* no marker says so; a prompt with an odd text may lose any part of itself.)
DocumentsKept ==
    LET named == Named(input.docs)
        before == record.prompt[1]
        after == sent.prompt[1]
    IN  /\ record # Nothing => Len(before.chunks) = Len(named)
        /\ record # Nothing => \A i \in DOMAIN named : before.chunks[i].id = named[i].id
        /\ sent # Nothing /\ sent.prompt # <<>> /\ input.docs # <<>> /\ ~before.odd =>
            /\ Len(after.chunks) <= Len(before.chunks)
            /\ \A i \in 1..(Len(after.chunks) - 1) : after.chunks[i] = before.chunks[i]
            /\ before.text < MaxTotal - SystemChars => after.whole

=============================================================================
