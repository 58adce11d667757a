----------------------------- MODULE MCFrontend -----------------------------
EXTENDS Frontend

\* Two calls of one tool; a hook thinks about the second, which then answers at
\* once.
MCCalls == <<"c1", "c2">>
MCNameOf == [c1 |-> "edit", c2 |-> "edit"]
=============================================================================
