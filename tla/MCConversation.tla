--------------------------- MODULE MCConversation ---------------------------
(* Small instances of Conversation. *)
EXTENDS Conversation

RequestSymmetry == Permutations(Requests)

\* The old layout holds one message.
OneOld == <<[by |-> Default, role |-> "user"]>>

\* Every handler for a new thread, and for the default thread those that meet
\* the old layout's history.
AllCalls ==
    ({"chat", "stream", "files", "read", "create", "clear", "delete", "migrate"} \X {New})
        \cup ({"read", "clear", "migrate"} \X {Default})
ReadDefault == {<<"read", Default>>}
=============================================================================
