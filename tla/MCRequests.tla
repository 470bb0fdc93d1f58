----------------------------- MODULE MCRequests -----------------------------
(* Small instances of ModelAccess and Budgets, the two halves of preparing a *)
(* chat request.  They share no state: the texts vary while the files, the   *)
(* catalogue and the session stand still, and the other way round.           *)
EXTENDS ModelAccess, Budgets

-----------------------------------------------------------------------------
(* Two models, of the general and the coding category                       *)

TwoTiers == <<"general", "coding">>
DevOpensCoding == [t \in {"general", "coding"} |-> IF t = "coding" THEN {"dev"} ELSE {}]

Files(general, coding) ==
    [t \in {"general", "coding"} |-> IF t = "general" THEN general ELSE coding]
SomePolicies == {Files({1}, {2}), Files({1}, {}), Files({}, {}), Files({2}, {1})}

Entry(tier, marked) == [tier |-> tier, validation |-> marked]
SomeRegistries ==
    {<<None, None>>, <<Entry("general", TRUE), Entry("coding", FALSE)>>,
     <<Entry("coding", TRUE), Entry(None, TRUE)>>}

-----------------------------------------------------------------------------
(* Texts around the limits of the budgets                                   *)

MessageOf(i) == [id : {i}, len : {0, 1, 3, 4, 5, 6, 8, 11}, role : {"user"}]
                  \cup [id : {i}, len : {3}, role : {"tool"}]
ShortMessage(i, n) == [id |-> i, len |-> n, role |-> "user"]
Histories ==
    {<<>>} \cup {<<a>> : a \in MessageOf(1)} \cup {<<a, b>> : a \in MessageOf(1), b \in MessageOf(2)}
    \cup {<<a, b, c>> : a \in MessageOf(1), b \in MessageOf(2), c \in MessageOf(3)}
    \cup {<<ShortMessage(1, 3), ShortMessage(2, k), ShortMessage(3, l), ShortMessage(4, m)>> :
              k \in {1, 4}, l \in {2, 3, 6}, m \in {2, 4, 6}}

\* Plain chats: questions up to and above the total budget.
Chats == [history : Histories, question : [id : {0}, len : 1..20, odd : {FALSE}], docs : {<<>>}]

\* Questions that hold the headers of a document prompt.
OddChats ==
    [history : {<<>>, <<[id |-> 1, len |-> 6, role |-> "user"]>>},
     question : [id : {0}, len : 13..24, odd : {TRUE}], docs : {<<>>}]

\* The last message repeats the question.
Repeats ==
    [history : {<<[id |-> 1, len |-> 5, role |-> "user"],
                  [id |-> 0, len |-> n, role |-> "user"]>> : n \in 1..12},
     question : [id : {0}, len : 1..12, odd : {FALSE}], docs : {<<>>}]

DocumentOf(i) == [id : {i}, len : {0, 1, 2, 3, 5, 9, 12}, odd : {FALSE}]
OddDocument == [id : {4}, len : {3, 9, 12}, odd : {TRUE}]
Uploads ==
    [history : {<<>>, <<[id |-> 1, len |-> 6, role |-> "user"]>>},
     question : [id : {0}, len : {1, 4, 7, 10, 12, 13, 16, 17, 20}, odd : {FALSE}],
     docs : {<<a>> : a \in DocumentOf(1)} \cup {<<a, b>> : a \in DocumentOf(1), b \in DocumentOf(2)}
            \cup {<<a, b, c>> : a \in DocumentOf(1), b \in DocumentOf(2), c \in DocumentOf(3)}
            \cup {<<a>> : a \in OddDocument} \cup {<<a, b>> : a \in OddDocument, b \in DocumentOf(1)}]

\* The block ends early, or falls into no chunk, one or two.
Chunk(n) == [id |-> 5, len |-> n, odd |-> TRUE]
SomeMisreadings ==
    [text : {2, 8, 14, 21}, len : {1, 7, 15}, chunks : {<<>>, <<Chunk(2)>>, <<Chunk(1), Chunk(6)>>}]

AllInputs == Chats \cup OddChats \cup Repeats \cup Uploads

-----------------------------------------------------------------------------
OneInput == CHOOSE i \in Chats : i.history = <<>>

Init ==
    \/ AccessInit /\ input = OneInput /\ record = Nothing /\ blank = 0 /\ sent = Nothing
    \/ /\ BudgetInit
       /\ AccessInit /\ ollama = {} /\ directory = {} /\ ~validation
       /\ policy = Files({1}, {2}) /\ registry = <<None, None>>

Next ==
    \/ input = OneInput /\ AccessNext /\ UNCHANGED budgetVars
    \/ input # OneInput /\ BudgetNext /\ UNCHANGED accessVars

FairSpec == Init /\ [][Next]_<<accessVars, budgetVars>> /\ AccessFairness
=============================================================================
