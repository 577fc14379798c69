------------------------------ MODULE Template ------------------------------
(***************************************************************************)
(* The two stages that turn a feedback template into the texts of issues:  *)
(* format_report_by_file_replacement puts files of the student's directory *)
(* into every report when homework is graded, format_feedback_issues puts  *)
(* columns of the sheet into the reports when grades are announced.        *)
(*                                                                         *)
(* Texts are sequences of "$$", "${", "}" and names: "./file" and "label"  *)
(* are found, in the student's directory and in the sheet, others are not. *)
(***************************************************************************)
EXTENDS Integers, Sequences, SequencesExt

CONSTANTS
  RowCount,  \* students, by their row in the sheet
  Cells,     \* what column label holds in each row
  Contents,  \* contents a student's file may have
  Kinds,     \* pieces a template may be put together from, see Piece
  MaxPieces  \* bound on the length of a template

Rows == 1..RowCount

AllKinds  == {"text", "dollar", "file", "missing", "label", "unknown"}
PlainWord == STRING \ {"$$", "${", "}"}

\* Commands that use the templates stop at a sheet without rows.
ASSUME RowsAreCounted == RowCount \in Nat \ {0} /\ MaxPieces \in Nat
ASSUME KindsArePieces == Kinds \subseteq AllKinds

\* No file has braces or dollars; the second stage reads those of files that do as
\* the template's, see README.md.
PlainFiles == Contents \subseteq Seq(PlainWord)

VARIABLES
  kinds,      \* history: the pieces of the template
  template,   \* report_template_<title>.md
  file,       \* contents of ./file in each student's directory
  stage,      \* "files", "labels", then "done", "abort" (a label is unknown) or "crash"
  y, i,       \* the row, and the place in its format
  depth,      \* of braces
  identifier, \* place where the text after ${ begins, 0 is null
  success,    \* whether all labels were found
  reports,    \* results of the first stage
  issues      \* results of the second

formatVars == <<kinds, template, file, stage, y, i, depth, identifier, success, reports, issues>>

Piece(kind) ==
  CASE kind = "text"    -> <<"text">>
    [] kind = "dollar"  -> <<"$$">>
    [] kind = "file"    -> <<"${", "./file", "}">>
    [] kind = "missing" -> <<"${", "./file", "${", "label", "}", "}">>
    [] kind = "label"   -> <<"${", "label", "}">>
    [] kind = "unknown" -> <<"${", "label", "${", "label", "}", "}">>

FormatTypeOK ==
  /\ file \in [Rows -> Contents]
  /\ stage \in {"files", "labels", "done", "abort", "crash"}
  /\ y \in 1..RowCount + 1 /\ i \in Nat \ {0}
  /\ depth \in Nat /\ identifier \in Nat
  /\ success \in BOOLEAN
  /\ DOMAIN reports = Rows /\ DOMAIN issues = Rows

FormatInit ==
  /\ \E n \in 0..MaxPieces : kinds \in [1..n -> Kinds]
  /\ template = FlattenSeq([n \in DOMAIN kinds |-> Piece(kinds[n])])
  /\ file \in [Rows -> Contents]
  /\ stage = "files" /\ y = 1 /\ i = 1 /\ depth = 0 /\ identifier = 0
  /\ success = TRUE
  /\ reports = [r \in Rows |-> <<>>] /\ issues = [r \in Rows |-> <<>>]

-----------------------------------------------------------------------------

Working == stage \in {"files", "labels"}
format == IF stage = "files" THEN template ELSE reports[y]
c      == format[i]
More   == Working /\ y <= RowCount /\ i <= Len(format)

Emit(seq) ==
  IF stage = "files" THEN reports' = [reports EXCEPT ![y] = @ \o seq] /\ UNCHANGED issues
  ELSE issues' = [issues EXCEPT ![y] = @ \o seq] /\ UNCHANGED reports

Fixed == UNCHANGED <<kinds, template, file, stage, y>>

\* Kept as it is for the second stage, which makes it a dollar sign.
Dollars ==
  /\ More /\ c = "$$"
  /\ Emit(IF stage = "files" THEN <<"$$">> ELSE <<"$">>)
  /\ i' = i + 1
  /\ Fixed /\ UNCHANGED <<depth, identifier, success>>

\* Mutant: an inner brace moves the beginning of the identifier.
Open_Inner ==
  /\ More /\ c = "${"
  /\ depth' = depth + 1
  /\ identifier' = i + 1
  /\ i' = i + 1
  /\ Fixed /\ UNCHANGED <<success, reports, issues>>

Open ==
  /\ More /\ c = "${"
  /\ depth' = depth + 1
  /\ identifier' = IF depth = 0 THEN i + 1 ELSE identifier
  /\ i' = i + 1
  /\ Fixed /\ UNCHANGED <<success, reports, issues>>

Identifier == SubSeq(format, identifier, i - 1)

\* A file that does not exist is empty.
FileReplacement ==
  IF Identifier # <<>> /\ Identifier[1] = "./file"
  THEN IF Len(Identifier) = 1 THEN file[y] ELSE <<>>
  ELSE <<"${">> \o Identifier \o <<"}">>

\* At depth 0, too: there the identifier is the last one, or null.
CloseReport ==
  /\ More /\ c = "}" /\ stage = "files"
  /\ IF depth > 1 THEN Emit(<<>>) /\ UNCHANGED stage
     ELSE IF identifier = 0 THEN stage' = "crash" /\ UNCHANGED <<reports, issues>>
     ELSE Emit(FileReplacement) /\ UNCHANGED stage
  /\ depth' = IF depth = 0 THEN 0 ELSE depth - 1
  /\ i' = i + 1
  /\ UNCHANGED <<kinds, template, file, y, identifier, success>>

\* A brace at depth 0 is dropped.
CloseIssue ==
  /\ More /\ c = "}" /\ stage = "labels"
  /\ IF depth = 1
     THEN /\ Emit(IF Identifier = <<"label">> THEN <<Cells[y]>> ELSE <<>>)
          /\ success' = (success /\ Identifier = <<"label">>)
     ELSE UNCHANGED <<reports, issues, success>>
  /\ depth' = IF depth = 0 THEN 0 ELSE depth - 1
  /\ i' = i + 1
  /\ Fixed /\ UNCHANGED identifier

Text ==
  /\ More /\ c \notin {"$$", "${", "}"}
  /\ Emit(IF depth = 0 THEN <<c>> ELSE <<>>)
  /\ i' = i + 1
  /\ Fixed /\ UNCHANGED <<depth, identifier, success>>

\* Depth and identifier start anew with every row.
NextRow ==
  /\ Working /\ y <= RowCount /\ ~More
  /\ y' = y + 1 /\ i' = 1 /\ depth' = 0 /\ identifier' = 0
  /\ UNCHANGED <<kinds, template, file, stage, success, reports, issues>>

\* One label that was not found in one row keeps all grades from being announced.
NextStage ==
  /\ Working /\ y > RowCount
  /\ IF stage = "files" THEN stage' = "labels" /\ y' = 1
     ELSE stage' = (IF success THEN "done" ELSE "abort") /\ UNCHANGED y
  /\ UNCHANGED <<kinds, template, file, i, depth, identifier, success, reports, issues>>

FormatNext ==
  \/ Dollars \/ Open \/ CloseReport \/ CloseIssue \/ Text \/ NextRow \/ NextStage

FormatSpec == FormatInit /\ [][FormatNext]_formatVars

-----------------------------------------------------------------------------
(* What must hold.                                                         *)

Expansion(kind, row) ==
  CASE kind = "text"    -> <<"text">>
    [] kind = "dollar"  -> <<"$">>
    [] kind = "file"    -> file[row]
    [] kind = "missing" -> <<>>
    [] kind = "label"   -> <<Cells[row]>>

\* For a template of well-formed pieces the two stages, which both scan for braces
\* and dollars, together do what each piece says: files are inserted as they are
\* and columns looked up, row by row; an unknown label, and nothing else, keeps
\* the grades from being announced (README.md, "Feedback format").
Expanded ==
  ~Working =>
    IF \E n \in DOMAIN kinds : kinds[n] = "unknown" THEN stage = "abort"
    ELSE /\ stage = "done"
         /\ \A row \in Rows :
              issues[row] = FlattenSeq([n \in DOMAIN kinds |-> Expansion(kinds[n], row)])

=============================================================================
