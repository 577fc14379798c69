------------------------------ MODULE PoolSpec ------------------------------
(***************************************************************************)
(* What wait_for_completion promises its caller, with no threads, locks or *)
(* pipes: works are taken in index order, each is run once and its code    *)
(* stored once, and the call returns when all are done. A call that could  *)
(* not start any thread returns with every work untouched.                 *)
(***************************************************************************)
EXTENDS Integers

CONSTANTS WorkCount, Codes

Works == 0..WorkCount - 1

VARIABLES stage, code, returned
vars == <<stage, code, returned>>

Init ==
  /\ stage = [w \in Works |-> "pending"]
  /\ code = [w \in Works |-> 0]
  /\ returned = FALSE

Take(w) ==
  /\ ~returned
  /\ stage[w] = "pending"
  /\ \A v \in Works : v < w => stage[v] # "pending"
  /\ stage' = [stage EXCEPT ![w] = "running"]
  /\ UNCHANGED <<code, returned>>

Finish(w) ==
  /\ ~returned
  /\ stage[w] = "running"
  /\ stage' = [stage EXCEPT ![w] = "done"]
  /\ \E c \in Codes : code' = [code EXCEPT ![w] = c]
  /\ UNCHANGED returned

Return ==
  /\ ~returned
  /\ \/ \A w \in Works : stage[w] = "done"
     \/ \A w \in Works : stage[w] = "pending"
  /\ returned' = TRUE
  /\ UNCHANGED <<stage, code>>

Next == (\E w \in Works : Take(w) \/ Finish(w)) \/ Return

Spec     == Init /\ [][Next]_vars
FairSpec == Spec /\ WF_vars(Next)
=============================================================================
