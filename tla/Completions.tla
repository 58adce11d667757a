---------------------------- MODULE Completions ----------------------------
(***************************************************************************)
(* What the program promises about every asynchronous request (include/    *)
(* clm/host.h): an accepted request is answered by exactly one callback,   *)
(* one that is refused by none, and once the owner is gone none runs.      *)
(***************************************************************************)
EXTENDS Naturals

CONSTANT Ids

VARIABLES
    st,            \* a request's life: idle, refused, open, settled, dropped
    answers        \* callbacks run for it

vars == <<st, answers>>

Init ==
    /\ st = [i \in Ids |-> "idle"]
    /\ answers = [i \in Ids |-> 0]

\* The request is taken.
Accept(i) ==
    /\ st[i] = "idle"
    /\ \A j \in Ids : st[j] # "dropped"
    /\ st' = [st EXCEPT ![i] = "open"]
    /\ UNCHANGED answers

\* It is not: there will be no callback.
Refuse(i) ==
    /\ st[i] = "idle"
    /\ st' = [st EXCEPT ![i] = "refused"]
    /\ UNCHANGED answers

\* The one callback of each request of S.
Settle(S) ==
    /\ \A i \in S : st[i] = "open"
    /\ st' = [i \in Ids |-> IF i \in S THEN "settled" ELSE st[i]]
    /\ answers' = [i \in Ids |-> IF i \in S THEN answers[i] + 1 ELSE answers[i]]

\* A request answered before the call that makes it returns.
Inline(i) ==
    /\ st[i] = "idle"
    /\ st' = [st EXCEPT ![i] = "settled"]
    /\ answers' = [answers EXCEPT ![i] = @ + 1]

\* The owner goes: what is open is never answered.
DropAll ==
    /\ st' = [i \in Ids |-> IF st[i] = "open" THEN "dropped" ELSE st[i]]
    /\ UNCHANGED answers

Next ==
    \/ \E i \in Ids : Accept(i) \/ Refuse(i) \/ Inline(i)
    \/ \E S \in SUBSET Ids : Settle(S)
    \/ DropAll

Spec == Init /\ [][Next]_vars
=============================================================================
