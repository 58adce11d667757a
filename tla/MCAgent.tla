------------------------------ MODULE MCAgent ------------------------------
(* Instances of Agent for TLC.                                             *)
EXTENDS Agent

CONSTANT Second   \* one of Texts

\* Every way the server can answer.
EveryReply == AllReplies

\* Three agents: one that uploads files, one whose history came back with a
\* call without result, and one that is neither. Where no upload multiplies
\* the states a second text comes, so that the callbacks of a landing turn can
\* overtake the text that turn has taken.
MCInit ==
    /\ Init
    /\ ~(uploads /\ dangling)
    /\ \A t \in Texts : place[t] = "history" <=> (uploads /\ t = Second)
MCSpec == MCInit /\ [][Next]_vars /\ Fairness
=============================================================================
