------------------------------ MODULE ChatLog ------------------------------
(***************************************************************************)
(* What the chat store promises the web application: one bounded log of    *)
(* messages per thread, changed only by appending, clearing or importing   *)
(* the history of the old single-thread layout, and reads that answer with *)
(* the log as it was at one moment of the request.  The relational copy,   *)
(* the dual write and the read cutover are invisible here; Conversation    *)
(* implements this specification.                                          *)
(***************************************************************************)
EXTENDS Sequences, Naturals

CONSTANTS Requests, Threads, Messages, NoMessages,
          MaxHistory,         \* max_history: the log keeps its newest entries
          Old                 \* the history of the old layout

VARIABLES log,      \* the messages of each thread
          asked,    \* what each request has read
          answered  \* what each request was answered with

logVars == <<log, asked, answered>>

\* The newest MaxHistory messages of s: RPUSH is followed by LTRIM.
Newest(s) == SubSeq(s, IF Len(s) > MaxHistory THEN Len(s) - MaxHistory + 1 ELSE 1, Len(s))

LogInit ==
    /\ log = [t \in Threads |-> <<>>]
    /\ asked = [p \in Requests |-> <<>>]
    /\ answered = [p \in Requests |-> NoMessages]

LogAppend(t, m) ==
    /\ log' = [log EXCEPT ![t] = Newest(Append(@, m))]
    /\ UNCHANGED <<asked, answered>>

LogImport(t) ==
    /\ log' = [log EXCEPT ![t] = Newest(@ \o Old)]
    /\ UNCHANGED <<asked, answered>>

LogClear(t) ==
    /\ log' = [log EXCEPT ![t] = <<>>]
    /\ UNCHANGED <<asked, answered>>

LogAsk(p, t) ==
    /\ asked' = [asked EXCEPT ![p] = log[t]]
    /\ UNCHANGED <<log, answered>>

LogAnswer(p) ==
    /\ answered' = [answered EXCEPT ![p] = asked[p]]
    /\ UNCHANGED <<log, asked>>

LogForget(p) ==
    /\ answered' = [answered EXCEPT ![p] = NoMessages]
    /\ asked' = [asked EXCEPT ![p] = <<>>]
    /\ UNCHANGED log

LogNext ==
    \/ \E t \in Threads : LogClear(t) \/ LogImport(t)
    \/ \E t \in Threads, m \in Messages : LogAppend(t, m)
    \/ \E p \in Requests, t \in Threads : LogAsk(p, t)
    \/ \E p \in Requests : LogAnswer(p) \/ LogForget(p)

LogSpec == LogInit /\ [][LogNext]_logVars
=============================================================================
