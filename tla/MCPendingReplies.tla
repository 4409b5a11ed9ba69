------------------------- MODULE MCPendingReplies -------------------------
(***************************************************************************)
(* Client workloads for PendingReplies on two conversations.               *)
(***************************************************************************)
EXTENDS PendingReplies

CONSTANTS v1, v2

Opens(c) == [kind |-> "open", conv |-> c]
Closes(c) == [kind |-> "close", conv |-> c]
Asks(c) == [kind |-> "request", conv |-> c]

\* Requests on one conversation up to its cap and past it; a close with two
\* replies owed; a conversation closed with a reply owed and opened again;
\* requests on two conversations.
MCWorkloads ==
    {<<Opens(v1), Asks(v1), Asks(v1), Asks(v1)>>,
     <<Opens(v1), Asks(v1), Asks(v1), Closes(v1)>>,
     <<Opens(v1), Asks(v1), Closes(v1), Opens(v1), Asks(v1)>>,
     <<Opens(v1), Opens(v2), Asks(v1), Asks(v2)>>}
=============================================================================
