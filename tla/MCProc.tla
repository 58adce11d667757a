------------------------------- MODULE MCProc -------------------------------
EXTENDS Proc

\* A line longer than the cap, a byte of stderr and an empty line.
MCScript ==
    <<[fd |-> "out", ch |-> "x"], [fd |-> "out", ch |-> "x"], [fd |-> "err", ch |-> "x"],
      [fd |-> "out", ch |-> "nl"], [fd |-> "out", ch |-> "nl"]>>
=============================================================================
