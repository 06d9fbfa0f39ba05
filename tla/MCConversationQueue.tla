------------------------ MODULE MCConversationQueue ------------------------
EXTENDS ConversationQueue

CONSTANTS m1, m2, p1, ann, bob

\* m1 and the plan are ann's, the other messages bob's
OwnerOf == [a \in Askers |-> IF a \in {m1, p1} THEN ann ELSE bob]

=============================================================================
