------------------------------- MODULE MCText -------------------------------
(***************************************************************************)
(* Small instances of the two readers of text: an initial state has work   *)
(* for the configuration file or for the feedback templates, never both.   *)
(***************************************************************************)
EXTENDS Config, Template

\* The name of the first key begins the second, and so does a form shorter than both.
MCIds    == {"stud", "student", "student_id", "other"}
MCNames  == <<"student", "student_id">>
MCBegins == [stud |-> {1, 2}, student |-> {1, 2}, student_id |-> {2}, other |-> {}]
MCCells  == <<"105", "90">>
MCPlain  == {<<>>, <<"text">>}
MCKinds  == {"text", "dollar", "file", "missing", "label", "unknown"}

MCInit ==
  \/ kinds = <<>> /\ file = [r \in Rows |-> <<>>] /\ Init /\ FormatInit
  \/ text = <<>> /\ Init /\ FormatInit
MCNext ==
  \/ Next /\ UNCHANGED formatVars
  \/ parsing # "on" /\ FormatNext /\ UNCHANGED vars
MCSpec == MCInit /\ [][MCNext]_<<vars, formatVars>>

MCTypeOK == TypeOK /\ FormatTypeOK
=============================================================================
