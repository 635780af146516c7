----------------------------- MODULE MCResearch -----------------------------
EXTENDS Research

\* Two stories of the first day about one name, an hour apart; mock news about
\* a name that is not traded.
MCPub == [a \in Articles |-> IF a = "late" THEN 1 ELSE 0]
MCAbout == [a \in Titles |-> IF a \in Mocks THEN "draft" ELSE "RELIANCE"]

\* One fault, or one chat of the advisor.
FaultsOrChats == {[faults |-> 1, chats |-> 0], [faults |-> 0, chats |-> 1]}
NoFaults == {[faults |-> 0, chats |-> 0]}
TwoModels == <<"first", "second">>
=============================================================================
