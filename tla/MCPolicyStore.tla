--------------------------- MODULE MCPolicyStore ---------------------------
EXTENDS PolicyStore

\* Nothing is frozen; IPS A and another id are frozen.
NoneFrozen == [id \in Ids |-> None]
SomeFrozen == [id \in Ids |-> IF id = "test" THEN None ELSE TermsA]
=============================================================================
