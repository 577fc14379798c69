----------------------------- MODULE MCFeedback -----------------------------
(* Constants of Feedback for model checking.                               *)
EXTENDS Feedback

Requests    == {"request", "absent"}
Interrupted == {"crash", "file", "push", "request", "absent"}
PushFault   == {"push"}
WithAndWithoutDry == {FALSE, TRUE}
NeverDry    == {FALSE}
All         == {0}
AllOrFirst  == {0, 1}
=============================================================================
