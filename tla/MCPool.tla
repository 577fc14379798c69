------------------------------- MODULE MCPool -------------------------------
(* Small instances of the thread pool.                                      *)
EXTENDS Pool

Prints(o, e) == [s \in Streams |-> IF s = "out" THEN o ELSE e]
Does(o, e, c) == [prints |-> Prints(o, e), status |-> c, killed |-> FALSE]

\* A command that overfills the error pipe before it succeeds, one that prints
\* on both streams and fails, and one that a signal ends.
MCPrograms == {Does(0, 2, 0), Does(1, 1, 1), [Does(1, 0, 0) EXCEPT !.killed = TRUE]}

MCFirst == {0}
MCTwo   == {0, 1}

MCNoFaults  == {}
MCAllFaults == {"mutex", "thread", "pipe", "fork", "select", "read", "wait"}
=============================================================================
