--------------------------- MODULE MCEmulatedBoards ---------------------------
EXTENDS EmulatedBoards

CONSTANTS b1, b2, k

\* Two boards whose ids begin with the same sixteen characters.
SameName == [b \in {b1, b2} |-> k]

=============================================================================
