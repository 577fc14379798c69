------------------------------ MODULE Feedback ------------------------------
(***************************************************************************)
(* How reports reach the students: grade_homework writes them into a clone *)
(* of the feedback repository and pushes it, announce_grade reads a clone  *)
(* and edits or creates an issue in every student's repository. Clones     *)
(* stay in the cache, in a directory named after the commit they were made *)
(* of, and the next command uses them again.                               *)
(*                                                                         *)
(* Gradings are numbered, whoever runs them. A report is the number of the *)
(* grading that wrote it, 0 when there is none; a commit has the number of *)
(* the grading that made it, commit 0 is the repository as it was set up.  *)
(***************************************************************************)
EXTENDS Integers, Sequences

CONSTANTS
  StudentCount,  \* rows of the sheet
  MaxRound,      \* bound on the gradings
  MaxIssues,     \* bound on the issues of a student
  Announcing,    \* whether announce-grade is run
  DryRuns,       \* how the option --dry is used
  OnlyRepos,     \* rows the option --only-repo is used with, 0 for without
  Faults         \* what may go wrong in this instance

Students == 1..StudentCount
Rounds   == 0..MaxRound
Reports  == [Students -> Rounds]

ASSUME BoundsAreNat   == StudentCount \in Nat /\ MaxRound \in Nat /\ MaxIssues \in Nat
ASSUME OptionsAreBool == Announcing \in BOOLEAN /\ DryRuns \subseteq BOOLEAN
ASSUME OnlyAreRows    == OnlyRepos \subseteq 0..StudentCount
ASSUME FaultsAreKnown == Faults \subseteq {"crash", "file", "push", "request", "absent", "lookup"}

VARIABLES
  \* GitHub
  remote,   \* head of the feedback repository
  tree,     \* reports in each commit
  past,     \* each commit with those before it, {} until it is made
  issues,   \* bodies of the issues "Grade for ..." of each student, oldest first
  \* files
  clones,   \* by commit: reports in the working tree and HEAD
  scores,   \* lines written to out_path: row, and the grading the score is from or 0
  \* the command that runs
  phase,    \* "idle" between commands
  dry, only,
  mine,     \* number of this grading
  dir,      \* its clone of the feedback repository
  base,     \* parent_commit
  at,       \* y, the row of the sheet
  repos,    \* rows whose repository was found
  passed,   \* rows whose grade command exited with 0
  bodies,   \* issue_bodies
  numbers,  \* issue_numbers, 0 for none
  last      \* number of the newest grading

github == <<remote, tree, past, issues>>
local  == <<dry, only, mine, dir, base, repos, passed, bodies, numbers>>
vars   == <<github, clones, scores, phase, at, local, last>>

None == [y \in Students |-> 0]

\* Every variable has the type its comment says; rows and numbers stay within the bounds.
TypeOK ==
  /\ remote \in Rounds
  /\ tree \in [Rounds -> Reports] /\ past \in [Rounds -> SUBSET Rounds]
  /\ issues \in [Students -> Seq(Rounds)]
  /\ DOMAIN clones \subseteq Rounds
  /\ \A c \in DOMAIN clones : clones[c] \in [work : Reports, head : Rounds]
  /\ scores \in Seq(Students \X Rounds)
  /\ phase \in {"idle", "grade", "report", "write", "push", "summary", "announce"}
  /\ dry \in BOOLEAN /\ only \in 0..StudentCount
  /\ mine \in 0..last /\ dir \in Rounds /\ base \in Rounds
  /\ at \in 1..StudentCount + 1
  /\ repos \subseteq Students /\ passed \subseteq repos
  /\ bodies \in Reports /\ numbers \in [Students -> Nat]
  /\ last \in Rounds

Init ==
  /\ remote = 0 /\ tree = [c \in Rounds |-> None] /\ past = [c \in Rounds |-> IF c = 0 THEN {0} ELSE {}]
  /\ issues = [y \in Students |-> <<>>]
  /\ clones = <<>> /\ scores = <<>>
  /\ phase = "idle" /\ dry = FALSE /\ only = 0 /\ mine = 0 /\ dir = 0 /\ base = 0 /\ at = 1
  /\ repos = {} /\ passed = {} /\ bodies = None /\ numbers = None
  /\ last = 0

-----------------------------------------------------------------------------
\* The command returns or is killed: only files and GitHub remain.
Leave ==
  /\ phase' = "idle" /\ at' = 1
  /\ dry' = FALSE /\ only' = 0 /\ mine' = 0 /\ dir' = 0 /\ base' = 0
  /\ repos' = {} /\ passed' = {} /\ bodies' = None /\ numbers' = None

\* Killed. The lines of out_path still in the buffer are lost.
Crash ==
  /\ "crash" \in Faults
  /\ phase # "idle"
  /\ Leave
  /\ \E n \in 0..Len(scores) : scores' = SubSeq(scores, 1, n)
  /\ UNCHANGED <<github, clones, last>>

\* Mutant: the directory is named after the repository alone.
WithClone_Unnamed(c) ==
  IF DOMAIN clones = {} THEN [d \in {c} |-> [work |-> tree[c], head |-> c]]
  ELSE [d \in {c} |-> clones[CHOOSE any \in DOMAIN clones : TRUE]]

\* A clone is its working tree and HEAD, in a directory named after the commit.
WithClone(c) ==
  IF c \in DOMAIN clones THEN clones
  ELSE [d \in DOMAIN clones \cup {c} |->
          IF d = c THEN [work |-> tree[c], head |-> c] ELSE clones[d]]

\* cache_repository with the latest commit: a directory of that name is used as
\* it is, whatever was done in it, otherwise the commit is cloned.
UseFeedbackRepo ==
  /\ dir' = remote
  /\ clones' = WithClone(remote)

\* The repositories found: the one of --only-repo, or those with the prefix. A
\* student has none before accepting the homework, and a lost page hides some.
Found(o) ==
  IF o # 0 THEN {{o}}
  ELSE IF "absent" \in Faults THEN SUBSET Students ELSE {Students}

-----------------------------------------------------------------------------
(* grade_homework.                                                         *)

\* Up to the creation of out_path, which is emptied. A command that gives up
\* before that, without user or clone, changes nothing.
BeginGrade(d, o) ==
  /\ phase = "idle"
  /\ last < MaxRound
  /\ UseFeedbackRepo
  /\ phase' = "grade" /\ dry' = d /\ only' = o
  /\ last' = last + 1 /\ mine' = last + 1
  /\ scores' = <<>>
  /\ UNCHANGED <<github, at, base, repos, passed, bodies, numbers>>

\* Mutant: exit codes are looked at even for rows without a repository.
Grade_Unfound ==
  /\ phase = "grade"
  /\ repos' \in Found(only)
  /\ passed' \in SUBSET Students
  /\ phase' = "report"
  /\ UNCHANGED <<github, clones, scores, at, dry, only, mine, dir, base, bodies, numbers, last>>

\* The grade commands have run, what the pool promises, and the sheet is there.
Grade ==
  /\ phase = "grade"
  /\ repos' \in Found(only)
  /\ passed' \in SUBSET repos'
  /\ phase' = "report"
  /\ UNCHANGED <<github, clones, scores, at, dry, only, mine, dir, base, bodies, numbers, last>>

\* The repository of --only-repo or the sheet cannot be retrieved: out_path
\* stays empty, no report is written and nothing is pushed.
GradeFails ==
  /\ "request" \in Faults
  /\ phase = "grade"
  /\ Leave
  /\ UNCHANGED <<github, clones, scores, last>>

\* A line of out_path. With --only-repo, only the row of that repository has one.
Score(value) ==
  scores' = IF only = 0 \/ at \in repos THEN Append(scores, <<at, value>>) ELSE scores

WorkWith(y, report) == [clones EXCEPT ![dir].work[y] = report]

\* Mutant: the old report is deleted before the exit code is looked at.
SkipReport_Deletes ==
  /\ phase = "report" /\ at \in Students \ passed
  /\ Score(0)
  /\ clones' = IF at \in repos THEN WorkWith(at, 0) ELSE clones
  /\ at' = at + 1
  /\ UNCHANGED <<github, phase, local, last>>

\* A student without a repository, or whose command failed: the report stays.
SkipReport ==
  /\ phase = "report" /\ at \in Students \ passed
  /\ Score(0)
  /\ at' = at + 1
  /\ UNCHANGED <<github, clones, phase, local, last>>

DeleteReport ==
  /\ phase = "report" /\ at \in passed
  /\ clones' = WorkWith(at, 0)
  /\ phase' = "write"
  /\ UNCHANGED <<github, scores, at, local, last>>

\* The score is printed even when the report could not be created.
WriteReport ==
  /\ phase = "write"
  /\ \/ clones' = WorkWith(at, mine)
     \/ "file" \in Faults /\ UNCHANGED clones
  /\ Score(mine)
  /\ at' = at + 1
  /\ phase' = "report"
  /\ UNCHANGED <<github, local, last>>

\* Mutant: a dry run only leaves out the push.
FinishDry_Stays ==
  /\ phase = "report" /\ at > StudentCount /\ dry
  /\ phase' = "summary"
  /\ UNCHANGED <<github, clones, scores, at, local, last>>

\* A dry run moves the clone out of the way of later commands. Whether it could
\* is not looked at.
FinishDry ==
  /\ phase = "report" /\ at > StudentCount /\ dry
  /\ \/ clones' = [c \in DOMAIN clones \ {dir} |-> clones[c]]
     \/ "file" \in Faults /\ UNCHANGED clones
  /\ phase' = "summary"
  /\ UNCHANGED <<github, scores, at, local, last>>

\* Mutant: the commit replaces HEAD, as git commit --amend does.
Commit_Amends ==
  /\ phase = "report" /\ at > StudentCount /\ ~dry
  /\ LET head == clones[dir].head IN
       /\ tree' = [tree EXCEPT ![mine] = clones[dir].work]
       /\ past' = [past EXCEPT ![mine] = (past[head] \ {head}) \cup {mine}]
       /\ base' = head
  /\ clones' = [clones EXCEPT ![dir].head = mine]
  /\ phase' = "push"
  /\ UNCHANGED <<remote, issues, scores, at, dry, only, mine, dir, repos, passed, bodies, numbers, last>>

\* Mutant: only the files git knows are committed, as with git_index_update_all.
Commit_Tracked ==
  /\ phase = "report" /\ at > StudentCount /\ ~dry
  /\ LET head == clones[dir].head IN
       /\ tree' = [tree EXCEPT ![mine] =
            [y \in Students |-> IF tree[head][y] = 0 THEN 0 ELSE clones[dir].work[y]]]
       /\ past' = [past EXCEPT ![mine] = past[head] \cup {mine}]
       /\ base' = head
  /\ clones' = [clones EXCEPT ![dir].head = mine]
  /\ phase' = "push"
  /\ UNCHANGED <<remote, issues, scores, at, dry, only, mine, dir, repos, passed, bodies, numbers, last>>

\* push_to_remote: everything in the working tree becomes a commit on HEAD.
Commit ==
  /\ phase = "report" /\ at > StudentCount /\ ~dry
  /\ LET head == clones[dir].head IN
       /\ tree' = [tree EXCEPT ![mine] = clones[dir].work]
       /\ past' = [past EXCEPT ![mine] = past[head] \cup {mine}]
       /\ base' = head
  /\ clones' = [clones EXCEPT ![dir].head = mine]
  /\ phase' = "push"
  /\ UNCHANGED <<remote, issues, scores, at, dry, only, mine, dir, repos, passed, bodies, numbers, last>>

\* Something before the push fails, and nothing is committed.
CommitFails ==
  /\ "push" \in Faults
  /\ phase = "report" /\ at > StudentCount /\ ~dry
  /\ phase' = "summary"
  /\ UNCHANGED <<github, clones, scores, at, local, last>>

\* GitHub accepts what comes after its head.
Accepted ==
  /\ remote \in past[clones[dir].head]
  /\ remote' = clones[dir].head

\* The push is acknowledged, and HEAD goes back to the parent.
Push ==
  /\ phase = "push"
  /\ Accepted
  /\ clones' = [clones EXCEPT ![dir].head = base]
  /\ phase' = "summary"
  /\ UNCHANGED <<tree, past, issues, scores, at, local, last>>

\* The push is rejected, or it or the acknowledgement is lost: HEAD stays at the
\* new commit and the reports stay in the working tree.
PushFails ==
  /\ phase = "push"
  /\ \/ remote \notin past[clones[dir].head] /\ UNCHANGED remote
     \/ "push" \in Faults /\ (Accepted \/ UNCHANGED remote)
  /\ phase' = "summary"
  /\ UNCHANGED <<tree, past, issues, clones, scores, at, local, last>>

\* The summary is printed and out_path closed.
Summary ==
  /\ phase = "summary"
  /\ Leave
  /\ UNCHANGED <<github, clones, scores, last>>

-----------------------------------------------------------------------------
(* announce_grade.                                                         *)

\* Mutant: only open issues are listed, and the student has closed some.
IssueNumbers_Open(found) ==
  \E closed \in SUBSET found :
    numbers' = [y \in Students |-> IF y \in found \ closed THEN Len(issues[y]) ELSE 0]

\* The newest issue of that title, the first GitHub lists. A page that is lost
\* looks like the end of the list.
IssueNumbers(found) ==
  \E lost \in IF "lookup" \in Faults THEN SUBSET found ELSE {{}} :
    numbers' = [y \in Students |-> IF y \in found \ lost THEN Len(issues[y]) ELSE 0]

\* The clone, the issues of every repository, the sheet, and then all reports.
BeginAnnounce(d, o) ==
  /\ Announcing
  /\ phase = "idle"
  /\ \A y \in Students : Len(issues[y]) < MaxIssues
  /\ UseFeedbackRepo
  /\ repos' \in Found(o)
  /\ IssueNumbers(repos')
  /\ bodies' = clones'[remote].work
  /\ phase' = "announce" /\ dry' = d /\ only' = o
  /\ UNCHANGED <<github, scores, at, mine, base, passed, last>>

Edit(y)   == issues' = [issues EXCEPT ![y][numbers[y]] = bodies[y]]
Create(y) == issues' = [issues EXCEPT ![y] = Append(@, bodies[y])]

\* The student of the row. A response that is lost counts as a failure and
\* changes nothing else; the request may have been carried out.
Announce ==
  /\ phase = "announce" /\ at \in Students
  /\ \/ at \in repos /\ ~dry /\ numbers[at] # 0 /\ Edit(at)
     \/ at \in repos /\ ~dry /\ numbers[at] = 0 /\ Create(at)
     \/ (at \notin repos \/ dry \/ "request" \in Faults) /\ UNCHANGED issues
  /\ at' = at + 1
  /\ UNCHANGED <<remote, tree, past, clones, scores, phase, local, last>>

\* All rows are done, or there is no sheet, or some body refers to a label that
\* the sheet does not have, and then no row is.
FinishAnnounce ==
  /\ phase = "announce" /\ at \in {1, StudentCount + 1}
  /\ Leave
  /\ UNCHANGED <<github, clones, scores, last>>

-----------------------------------------------------------------------------
\* Another assistant grades one student on another machine and pushes.
OthersPush ==
  /\ last < MaxRound
  /\ last' = last + 1
  /\ \E y \in Students : tree' = [tree EXCEPT ![last + 1] = [tree[remote] EXCEPT ![y] = last + 1]]
  /\ past' = [past EXCEPT ![last + 1] = past[remote] \cup {last + 1}]
  /\ remote' = last + 1
  /\ UNCHANGED <<issues, clones, scores, phase, at, local>>

Next ==
  \/ \E d \in DryRuns, o \in OnlyRepos : BeginGrade(d, o) \/ BeginAnnounce(d, o)
  \/ Grade \/ GradeFails
  \/ SkipReport \/ DeleteReport \/ WriteReport
  \/ FinishDry \/ Commit \/ CommitFails \/ Push \/ PushFails \/ Summary
  \/ Announce \/ FinishAnnounce
  \/ OthersPush \/ Crash

Spec == Init /\ [][Next]_vars

-----------------------------------------------------------------------------
\* A student has at most one issue for the grade, however often announce-grade
\* is run, interrupted and run again (hand_curl.c:344-403, hand.c:1008-1034).
OneIssue == \A y \in Students : Len(issues[y]) <= 1

\* What is pushed agrees with what out_path says: every row has its line, and a
\* score comes with the report of the same grading, written by this run and
\* contained in the commit (hand.c:739-798, hand_git2.c:127-162).
ScoresMatchReports ==
  phase = "push" =>
    /\ only = 0 => Len(scores) = StudentCount
    /\ \A i \in DOMAIN scores :
         LET y == scores[i][1] IN
         /\ only = 0 => y = i
         /\ IF scores[i][2] = 0 THEN y \notin passed
            ELSE y \in passed /\ scores[i][2] = mine /\ tree[mine][y] = mine

\* As long as nobody else pushes after the clone was chosen, the push can
\* succeed, whatever happened to earlier pushes from the same clone
\* (hand_git2.c:113-125, 144-177).
PushPossible ==
  phase = "push" /\ remote = dir => remote \in past[clones[dir].head]

\* Pushing never takes back what is published: no student's report becomes older
\* or disappears (hand.c:766-795, hand_git2.c:144-173).
PublishedAdvances == [][\A y \in Students : tree'[remote'][y] >= tree[remote][y]]_vars

\* Nothing is announced that was not published: the body of every issue is the
\* student's report in some commit that the feedback repository contains.
AnnouncedIsPublished ==
  \A y \in Students : \A i \in DOMAIN issues[y] :
    \E c \in past[remote] : tree[c][y] = issues[y][i]

\* A student who was given a grade is never shown an older report instead.
AnnouncedAdvances ==
  [][\A y \in Students : \A i \in DOMAIN issues[y] : issues'[y][i] >= issues[y][i]]_vars
=============================================================================
