--------------------------- MODULE FeedbackProof ---------------------------
(***************************************************************************)
(* Proofs about the way of the reports for every number of students,       *)
(* gradings and announcements, every use of the options, and the faults    *)
(* each theorem admits.                                                    *)
(***************************************************************************)
EXTENDS Feedback, SequenceTheorems, TLAPS

\* The command works in a clone, and has not committed yet.
Grading   == phase \in {"grade", "report", "write"}
UsesClone == Grading \/ phase = "push"

\* A report is written for a student whose command passed, in a clone that exists,
\* and between commands no result is left.
Placed ==
  /\ phase = "idle" => passed = {}
  /\ phase = "write" => at \in passed
  /\ UsesClone => dir \in DOMAIN clones

Typed == TypeOK /\ Placed

\* No commit is newer than the newest grading.
Known ==
  /\ remote <= last /\ base <= last
  /\ \A c \in DOMAIN clones : c <= last /\ clones[c].head <= last
  /\ \A c \in Rounds : past[c] \subseteq 0..last

\* What GitHub and the clones stand at is a commit that contains itself, and a
\* clone never loses the commit it was made of.
Rooted ==
  /\ remote \in past[remote]
  /\ \A c \in DOMAIN clones : {c, clones[c].head} \subseteq past[clones[c].head]

\* A commit contains all that the commits before it contain.
Nested == \A c \in Rounds : \A a \in past[c] : past[a] \subseteq past[c]

\* The number of a grading is used by no commit until it commits.
Unused ==
  Grading =>
    /\ mine # remote
    /\ \A c \in DOMAIN clones : c # mine /\ clones[c].head # mine
    /\ \A c \in Rounds : mine \notin past[c]
    /\ \A a \in past[clones[dir].head] : a < mine

\* While the push is under way, HEAD is the new commit on top of the old one, and
\* no clone was made of it.
OnTop ==
  phase = "push" =>
    /\ clones[dir].head = mine
    /\ {dir, base} \subseteq past[base]
    /\ past[base] \subseteq past[mine]
    /\ mine \notin DOMAIN clones

History == Known /\ Rooted /\ Nested /\ Unused /\ OnTop

\* Reports do not become older from a commit to a later one.
CommitsAdvance ==
  /\ \A c \in Rounds : \A y \in Students : tree[c][y] <= c
  /\ \A c \in Rounds : \A a \in past[c] : \A y \in Students : tree[a][y] <= tree[c][y]

\* Nor from the commits of a clone to its working tree, but for the one report
\* that is being replaced.
WorkAdvances ==
  /\ \A c \in DOMAIN clones : \A y \in Students :
       /\ clones[c].work[y] <= last
       /\ \/ phase = "write" /\ c = dir /\ y = at
          \/ \A a \in past[clones[c].head] : tree[a][y] <= clones[c].work[y]
  /\ Grading => \A y \in Students : clones[dir].work[y] <= mine

Advance == CommitsAdvance /\ WorkAdvances
-----------------------------------------------------------------------------
\* The bounds of the instance are natural numbers.
LEMMA Bounds == StudentCount \in Nat /\ MaxRound \in Nat
BY BoundsAreNat

\* Using a clone adds at most the clone of the head, freshly made.
LEMMA CloneUsed ==
  ASSUME TypeOK, NEW c \in Rounds
  PROVE  /\ DOMAIN WithClone(c) = DOMAIN clones \cup {c}
         /\ \A d \in DOMAIN clones : WithClone(c)[d] = clones[d]
         /\ c \notin DOMAIN clones => WithClone(c)[c] = [work |-> tree[c], head |-> c]
BY DEF WithClone, TypeOK

\* With a clone of its own for every command, the clones keep their type.
LEMMA CloneTyped ==
  ASSUME TypeOK, NEW c \in Rounds
  PROVE  /\ DOMAIN WithClone(c) \subseteq Rounds
         /\ \A d \in DOMAIN WithClone(c) : WithClone(c)[d] \in [work : Reports, head : Rounds]
<1>1. tree[c] \in Reports
  BY DEF TypeOK
<1>2. [work |-> tree[c], head |-> c] \in [work : Reports, head : Rounds]
  BY <1>1
<1>3. DOMAIN WithClone(c) = DOMAIN clones \cup {c}
  BY CloneUsed
<1>4. ASSUME NEW d \in DOMAIN clones
      PROVE  d \in Rounds /\ WithClone(c)[d] \in [work : Reports, head : Rounds]
  <2>1. WithClone(c)[d] = clones[d]
    BY CloneUsed
  <2> QED BY <2>1 DEF TypeOK
<1>5. c \notin DOMAIN clones => WithClone(c)[c] \in [work : Reports, head : Rounds]
  BY <1>2, CloneUsed
<1> QED BY <1>3, <1>4, <1>5

\* Replacing a report changes one report of one clone.
LEMMA ReportReplaced ==
  ASSUME TypeOK, NEW y \in Students, NEW r \in Rounds, dir \in DOMAIN clones
  PROVE  /\ DOMAIN WorkWith(y, r) = DOMAIN clones
         /\ \A c \in DOMAIN clones :
              /\ WorkWith(y, r)[c] \in [work : Reports, head : Rounds]
              /\ WorkWith(y, r)[c].head = clones[c].head
              /\ c # dir => WorkWith(y, r)[c] = clones[c]
              /\ \A z \in Students :
                   WorkWith(y, r)[c].work[z] = IF c = dir /\ z = y THEN r ELSE clones[c].work[z]
<1>1. DOMAIN WorkWith(y, r) = DOMAIN clones
  BY DEF WorkWith
<1>2. ASSUME NEW c \in DOMAIN clones, c # dir
      PROVE  WorkWith(y, r)[c] = clones[c]
  BY <1>2 DEF WorkWith
<1>3. WorkWith(y, r)[dir] = [clones[dir] EXCEPT !.work[y] = r]
  BY DEF WorkWith
<1>4. clones[dir] \in [work : Reports, head : Rounds]
  BY DEF TypeOK
<1>5. /\ WorkWith(y, r)[dir] \in [work : Reports, head : Rounds]
      /\ WorkWith(y, r)[dir].head = clones[dir].head
      /\ \A z \in Students :
           WorkWith(y, r)[dir].work[z] = IF z = y THEN r ELSE clones[dir].work[z]
  BY <1>3, <1>4 DEF Reports
<1>6. \A c \in DOMAIN clones : clones[c] \in [work : Reports, head : Rounds]
  BY DEF TypeOK
<1> QED BY <1>1, <1>2, <1>5, <1>6

-----------------------------------------------------------------------------
\* The initial state has the types of TypeOK.
LEMMA InitTyped == Init => Typed
<1> SUFFICES ASSUME Init PROVE Typed
  OBVIOUS
<1> USE Bounds
<1>1. None \in Reports /\ None \in [Students -> Nat]
  BY DEF None, Reports, Rounds
<1>2. 0 \in Rounds /\ \A c \in Rounds : (IF c = 0 THEN {0} ELSE {}) \in SUBSET Rounds
  BY DEF Rounds
<1>3. DOMAIN clones = {} /\ scores \in Seq(Students \X Rounds)
  BY DEF Init
<1>4. issues \in [Students -> Seq(Rounds)]
  BY DEF Init
<1>5. at \in 1..StudentCount + 1 /\ only \in 0..StudentCount /\ mine \in 0..last
  BY DEF Init
<1>6. tree \in [Rounds -> Reports] /\ past \in [Rounds -> SUBSET Rounds]
  BY <1>1, <1>2 DEF Init
<1>7. TypeOK
  BY <1>1, <1>2, <1>3, <1>4, <1>5, <1>6 DEF Init, TypeOK
<1>8. Placed
  BY DEF Init, Placed, UsesClone, Grading
<1> QED BY <1>7, <1>8 DEF Typed

\* A command that ends leaves well-typed variables.
LEMMA LeaveTyped ==
  ASSUME Typed, Leave, UNCHANGED <<remote, tree, past, issues, clones, last>>,
         scores' \in Seq(Students \X Rounds)
  PROVE  Typed'
<1>1. None \in Reports /\ None \in [Students -> Nat]
  BY Bounds DEF None, Reports, Rounds
<1>2. 0 \in Rounds /\ 1 \in 1..StudentCount + 1 /\ 0 \in 0..StudentCount
  BY Bounds DEF Rounds
<1>3. 0 \in 0..last
  BY Bounds DEF Typed, TypeOK, Rounds
<1>4. TypeOK'
  BY <1>1, <1>2, <1>3 DEF Leave, Typed, TypeOK
<1>5. Placed'
  BY DEF Leave, Placed, UsesClone, Grading
<1> QED BY <1>4, <1>5 DEF Typed

\* A line is added to the scores only for a student.
LEMMA ScoreTyped ==
  ASSUME TypeOK, at \in Students, NEW value \in Rounds, Score(value)
  PROVE  scores' \in Seq(Students \X Rounds)
BY DEF Score, TypeOK

\* Steps of grade_homework before the commit keep the types.
LEMMA GradingTyped ==
  ASSUME Typed,
         \/ \E d \in DryRuns, o \in OnlyRepos : BeginGrade(d, o)
         \/ Grade \/ GradeFails \/ SkipReport \/ DeleteReport \/ WriteReport
  PROVE  Typed'
<1> USE Bounds DEF github, local
<1>0. 0 \in Rounds /\ last \in Rounds /\ mine \in Rounds
  BY DEF Typed, TypeOK, Rounds
<1>1. ASSUME NEW d \in DryRuns, NEW o \in OnlyRepos, BeginGrade(d, o)
      PROVE  Typed'
  <2>1. d \in BOOLEAN /\ o \in 0..StudentCount
    BY OptionsAreBool, OnlyAreRows
  <2>2. remote \in Rounds /\ clones' = WithClone(remote) /\ dir' = remote
    BY <1>1 DEF BeginGrade, UseFeedbackRepo, Typed, TypeOK
  <2>3. /\ DOMAIN clones' \subseteq Rounds
        /\ \A c \in DOMAIN clones' : clones'[c] \in [work : Reports, head : Rounds]
        /\ dir' \in DOMAIN clones'
    BY <2>2, CloneTyped, CloneUsed DEF Typed
  <2>4. last' \in Rounds /\ mine' \in 0..last'
    BY <1>1 DEF BeginGrade, Typed, TypeOK, Rounds
  <2>5. scores' \in Seq(Students \X Rounds)
    BY <1>1 DEF BeginGrade
  <2> QED BY <1>1, <2>1, <2>2, <2>3, <2>4, <2>5
          DEF BeginGrade, Typed, TypeOK, Placed
<1>2. CASE Grade
  <2>1. repos' \subseteq Students /\ passed' \subseteq repos'
    <3>1. \A o \in 0..StudentCount : Found(o) \subseteq SUBSET Students
      BY DEF Found, Students
    <3> QED BY <1>2, <3>1 DEF Grade, Typed, TypeOK
  <2> QED BY <1>2, <2>1 DEF Grade, Typed, TypeOK, Placed, UsesClone, Grading
<1>3. CASE GradeFails
  BY <1>3, LeaveTyped DEF GradeFails, Typed, TypeOK
<1>4. CASE SkipReport
  <2>1. at \in Students /\ Score(0)
    BY <1>4 DEF SkipReport
  <2>2. scores' \in Seq(Students \X Rounds)
    BY <1>0, <2>1, ScoreTyped DEF Typed
  <2>3. at' \in 1..StudentCount + 1
    BY <1>4, <2>1 DEF SkipReport, Students
  <2> QED BY <1>4, <2>2, <2>3 DEF SkipReport, Typed, TypeOK, Placed, UsesClone, Grading
<1>5. CASE DeleteReport
  <2>1. at \in Students /\ at \in passed /\ dir \in DOMAIN clones
    BY <1>5 DEF DeleteReport, Typed, TypeOK, Placed, UsesClone, Grading
  <2>2. clones' = WorkWith(at, 0)
    BY <1>5 DEF DeleteReport
  <2>3. /\ DOMAIN clones' = DOMAIN clones
        /\ \A c \in DOMAIN clones' : clones'[c] \in [work : Reports, head : Rounds]
    BY <1>0, <2>1, <2>2, ReportReplaced DEF Typed
  <2> QED BY <1>5, <2>1, <2>3 DEF DeleteReport, Typed, TypeOK, Placed
<1>6. CASE WriteReport
  <2>1. at \in Students /\ dir \in DOMAIN clones /\ Score(mine)
    BY <1>6 DEF WriteReport, Typed, TypeOK, Placed, UsesClone, Grading
  <2>2. clones' = WorkWith(at, mine) \/ clones' = clones
    BY <1>6 DEF WriteReport
  <2>3. /\ DOMAIN clones' = DOMAIN clones
        /\ \A c \in DOMAIN clones' : clones'[c] \in [work : Reports, head : Rounds]
    BY <1>0, <2>1, <2>2, ReportReplaced DEF Typed, TypeOK
  <2>4. scores' \in Seq(Students \X Rounds)
    BY <1>0, <2>1, ScoreTyped DEF Typed
  <2>5. at' \in 1..StudentCount + 1
    BY <1>6, <2>1 DEF WriteReport, Students
  <2> QED BY <1>6, <2>1, <2>3, <2>4, <2>5 DEF WriteReport, Typed, TypeOK, Placed
<1> QED BY <1>1, <1>2, <1>3, <1>4, <1>5, <1>6

\* Steps of grade_homework from the commit on keep the types.
LEMMA PushingTyped ==
  ASSUME Typed, FinishDry \/ Commit \/ CommitFails \/ Push \/ PushFails \/ Summary
  PROVE  Typed'
<1> USE Bounds DEF github, local
<1>1. CASE FinishDry
  BY <1>1 DEF FinishDry, Typed, TypeOK, Placed, UsesClone, Grading
<1>2. CASE Commit
  <2> DEFINE head == clones[dir].head
  <2>1. dir \in DOMAIN clones /\ mine \in Rounds /\ head \in Rounds /\ clones[dir].work \in Reports
    BY <1>2 DEF Commit, Typed, TypeOK, Placed, UsesClone, Grading, Rounds
  <2>2. tree' \in [Rounds -> Reports]
    BY <1>2, <2>1 DEF Commit, Typed, TypeOK
  <2>3. past' \in [Rounds -> SUBSET Rounds]
    <3>1. past[head] \cup {mine} \in SUBSET Rounds
      BY <2>1 DEF Typed, TypeOK
    <3> QED BY <1>2, <2>1, <3>1 DEF Commit, Typed, TypeOK
  <2>4. /\ DOMAIN clones' = DOMAIN clones
        /\ \A c \in DOMAIN clones' : clones'[c] \in [work : Reports, head : Rounds]
    BY <1>2, <2>1 DEF Commit, Typed, TypeOK
  <2>5. base' \in Rounds
    BY <1>2, <2>1 DEF Commit
  <2> QED BY <1>2, <2>1, <2>2, <2>3, <2>4, <2>5 DEF Commit, Typed, TypeOK, Placed
<1>3. CASE CommitFails
  BY <1>3 DEF CommitFails, Typed, TypeOK, Placed, UsesClone, Grading
<1>4. CASE Push
  <2>1. dir \in DOMAIN clones /\ base \in Rounds /\ clones[dir].head \in Rounds
    BY <1>4 DEF Push, Typed, TypeOK, Placed, UsesClone
  <2>2. /\ DOMAIN clones' = DOMAIN clones
        /\ \A c \in DOMAIN clones' : clones'[c] \in [work : Reports, head : Rounds]
    BY <1>4, <2>1 DEF Push, Typed, TypeOK
  <2> QED BY <1>4, <2>1, <2>2 DEF Push, Accepted, Typed, TypeOK, Placed, UsesClone, Grading
<1>5. CASE PushFails
  <2>1. clones[dir].head \in Rounds
    BY <1>5 DEF PushFails, Typed, TypeOK, Placed, UsesClone
  <2> QED BY <1>5, <2>1 DEF PushFails, Accepted, Typed, TypeOK, Placed, UsesClone, Grading
<1>6. CASE Summary
  BY <1>6, LeaveTyped DEF Summary, Typed, TypeOK
<1> QED BY <1>1, <1>2, <1>3, <1>4, <1>5, <1>6

\* Steps of announce_grade keep the types.
LEMMA AnnouncingTyped ==
  ASSUME Typed,
         \/ \E d \in DryRuns, o \in OnlyRepos : BeginAnnounce(d, o)
         \/ Announce \/ FinishAnnounce
  PROVE  Typed'
<1> USE Bounds DEF github, local
<1>1. ASSUME NEW d \in DryRuns, NEW o \in OnlyRepos, BeginAnnounce(d, o)
      PROVE  Typed'
  <2>1. d \in BOOLEAN /\ o \in 0..StudentCount
    BY OptionsAreBool, OnlyAreRows
  <2>2. remote \in Rounds /\ clones' = WithClone(remote) /\ dir' = remote
    BY <1>1 DEF BeginAnnounce, UseFeedbackRepo, Typed, TypeOK
  <2>3. /\ DOMAIN clones' \subseteq Rounds
        /\ \A c \in DOMAIN clones' : clones'[c] \in [work : Reports, head : Rounds]
        /\ dir' \in DOMAIN clones'
    BY <2>2, CloneTyped, CloneUsed DEF Typed
  <2>4. bodies' \in Reports
    BY <1>1, <2>2, <2>3 DEF BeginAnnounce
  <2>5. repos' \subseteq Students
    BY <1>1, <2>1 DEF BeginAnnounce, Found, Students
  <2>6. numbers' \in [Students -> Nat]
    <3>1. \A y \in Students : Len(issues[y]) \in Nat
      BY DEF Typed, TypeOK
    <3> QED BY <1>1, <3>1 DEF BeginAnnounce, IssueNumbers
  <2>7. passed' \subseteq repos'
    BY <1>1 DEF BeginAnnounce, Typed, Placed
  <2> QED BY <1>1, <2>1, <2>2, <2>3, <2>4, <2>5, <2>6, <2>7
          DEF BeginAnnounce, Typed, TypeOK, Placed, UsesClone, Grading
<1>2. CASE Announce
  <2>0. issues \in [Students -> Seq(Rounds)]
    BY DEF Typed, TypeOK
  <2>1. at \in Students /\ bodies[at] \in Rounds /\ issues[at] \in Seq(Rounds) /\ numbers[at] \in Nat
    BY <1>2 DEF Announce, Typed, TypeOK, Reports
  <2>2. ASSUME Edit(at) PROVE issues' \in [Students -> Seq(Rounds)]
    <3>1. [issues[at] EXCEPT ![numbers[at]] = bodies[at]] \in Seq(Rounds)
      <4>1. CASE numbers[at] \in 1..Len(issues[at])
        BY <2>1, <4>1, ExceptSeq
      <4>2. CASE numbers[at] \notin 1..Len(issues[at])
        <5>1. [issues[at] EXCEPT ![numbers[at]] = bodies[at]] = issues[at]
          BY <2>1, <4>2, LenProperties
        <5> QED BY <2>1, <5>1
      <4> QED BY <4>1, <4>2
    <3>2. issues' = [issues EXCEPT ![at] = [issues[at] EXCEPT ![numbers[at]] = bodies[at]]]
      BY <2>2 DEF Edit
    <3> QED BY <2>0, <2>1, <3>1, <3>2
  <2>3. ASSUME Create(at) PROVE issues' \in [Students -> Seq(Rounds)]
    <3>1. Append(issues[at], bodies[at]) \in Seq(Rounds)
      BY <2>1
    <3>2. issues' = [issues EXCEPT ![at] = Append(issues[at], bodies[at])]
      BY <2>3 DEF Create
    <3> QED BY <2>0, <2>1, <3>1, <3>2
  <2>4. issues' \in [Students -> Seq(Rounds)]
    BY <1>2, <2>2, <2>3 DEF Announce, Typed, TypeOK
  <2>5. at' \in 1..StudentCount + 1
    BY <1>2, <2>1 DEF Announce, Students
  <2> QED BY <1>2, <2>4, <2>5 DEF Announce, Typed, TypeOK, Placed, UsesClone, Grading
<1>3. CASE FinishAnnounce
  BY <1>3, LeaveTyped DEF FinishAnnounce, Typed, TypeOK
<1> QED BY <1>1, <1>2, <1>3

\* The push of another assistant keeps the types.
LEMMA OthersTyped ==
  ASSUME Typed, OthersPush
  PROVE  Typed'
<1> USE Bounds
<1>1. last + 1 \in Rounds /\ remote \in Rounds /\ mine \in 0..last + 1
  BY DEF OthersPush, Typed, TypeOK, Rounds
<1>2. tree' \in [Rounds -> Reports]
  <2>1. PICK y \in Students : tree' = [tree EXCEPT ![last + 1] = [tree[remote] EXCEPT ![y] = last + 1]]
    BY DEF OthersPush
  <2>2. tree[remote] \in Reports /\ tree \in [Rounds -> Reports]
    BY <1>1 DEF Typed, TypeOK
  <2>3. [tree[remote] EXCEPT ![y] = last + 1] \in Reports
    BY <1>1, <2>2 DEF Reports
  <2> QED BY <1>1, <2>1, <2>2, <2>3
<1>3. past' \in [Rounds -> SUBSET Rounds]
  BY <1>1 DEF OthersPush, Typed, TypeOK
<1> QED BY <1>1, <1>2, <1>3
        DEF OthersPush, local, Typed, TypeOK, Placed, UsesClone, Grading

\* A killed command leaves a part of the lines of out_path.
LEMMA CrashTyped ==
  ASSUME Typed, Crash
  PROVE  Typed'
<1>1. PICK n \in 0..Len(scores) : scores' = SubSeq(scores, 1, n)
  BY DEF Crash
<1>2. scores \in Seq(Students \X Rounds)
  BY DEF Typed, TypeOK
<1>3. scores' \in Seq(Students \X Rounds)
  BY <1>1, <1>2
<1> QED BY <1>3, LeaveTyped DEF Crash, github

\* Every step keeps the types.
LEMMA StepTyped == Typed /\ [Next]_vars => Typed'
<1> SUFFICES ASSUME Typed, [Next]_vars PROVE Typed'
  OBVIOUS
<1>1. CASE UNCHANGED vars
  BY <1>1 DEF vars, github, local, Typed, TypeOK, Placed, UsesClone, Grading
<1>2. CASE Next
  BY <1>2, GradingTyped, PushingTyped, AnnouncingTyped, OthersTyped, CrashTyped DEF Next
<1> QED BY <1>1, <1>2

\* The types, and where a report is written, hold in every reachable state.
LEMMA TypedHolds == Spec => []Typed
BY InitTyped, StepTyped, PTL DEF Spec

\* All variables of the way of the reports stay well typed: rows and numbers
\* within their bounds, clones complete, issues made of reports (hand.c:585-850,
\* 918-1074).
THEOREM TypeCorrect == Spec => []TypeOK
BY TypedHolds, PTL DEF Typed

-----------------------------------------------------------------------------
(* The history of the feedback repository.                                 *)

\* No clone, no history but commit 0 at the start.
LEMMA InitHistory == Init => History
BY Bounds
   DEF Init, History, Known, Rooted, Nested, Unused, OnTop, Grading, Rounds

\* A step that leaves the commits alone, and makes no clone stand elsewhere,
\* keeps the history.
LEMMA HistoryKept ==
  ASSUME History, UNCHANGED <<remote, past>>,
         last <= last', base' <= last', last \in Int, last' \in Int,
         \A c \in Rounds : c \in Int,
         DOMAIN clones' \subseteq DOMAIN clones, DOMAIN clones \subseteq Rounds,
         \A c \in DOMAIN clones' : clones'[c].head = clones[c].head,
         \A c \in DOMAIN clones : clones[c].head \in Rounds,
         past \in [Rounds -> SUBSET Rounds], remote \in Rounds,
         Grading' => Grading /\ UNCHANGED <<mine, dir>> /\ dir \in DOMAIN clones',
         phase' = "push" => phase = "push" /\ UNCHANGED <<mine, dir, base>> /\ dir \in DOMAIN clones'
  PROVE  History'
<1>1. Known'
  <2>1. remote' <= last' 
    BY DEF History, Known
  <2>2. \A c \in DOMAIN clones' : c <= last' /\ clones'[c].head <= last'
    BY DEF History, Known
  <2>3. \A c \in Rounds : past'[c] \subseteq 0..last'
    BY DEF History, Known
  <2> QED BY <2>1, <2>2, <2>3 DEF Known
<1>2. Rooted'
  BY DEF History, Rooted
<1>3. Nested'
  BY DEF History, Nested
<1>4. Unused'
  BY DEF History, Unused
<1>5. OnTop'
  BY DEF History, OnTop
<1> QED BY <1>1, <1>2, <1>3, <1>4, <1>5 DEF History

\* What the proofs use of the types.
LEMMA TypesUsed ==
  ASSUME Typed
  PROVE  /\ Rounds = 0..MaxRound /\ MaxRound \in Nat
         /\ last \in Rounds /\ remote \in Rounds /\ base \in Rounds /\ dir \in Rounds
         /\ mine \in 0..last
         /\ past \in [Rounds -> SUBSET Rounds]
         /\ tree \in [Rounds -> [Students -> Rounds]]
         /\ DOMAIN clones \subseteq Rounds
         /\ \A c \in DOMAIN clones :
              /\ clones[c].head \in Rounds
              /\ clones[c].work \in [Students -> Rounds]
BY Bounds DEF Typed, TypeOK, Rounds, Reports

\* Replacing a report, or removing a clone, moves no clone to another commit.
LEMMA HeadsKept ==
  ASSUME Typed, SkipReport \/ DeleteReport \/ WriteReport \/ FinishDry
  PROVE  /\ DOMAIN clones' \subseteq DOMAIN clones
         /\ \A c \in DOMAIN clones' : clones'[c].head = clones[c].head
         /\ Grading' => DOMAIN clones' = DOMAIN clones
<1>1. CASE SkipReport
  BY <1>1 DEF SkipReport
<1>2. CASE DeleteReport
  <2>1. at \in Students /\ dir \in DOMAIN clones /\ 0 \in Rounds
    BY <1>2, Bounds DEF DeleteReport, Typed, TypeOK, Placed, UsesClone, Grading, Rounds
  <2> QED BY <1>2, <2>1, ReportReplaced DEF DeleteReport, Typed
<1>3. CASE WriteReport
  <2>1. at \in Students /\ dir \in DOMAIN clones /\ mine \in Rounds
    BY <1>3, Bounds DEF WriteReport, Typed, TypeOK, Placed, UsesClone, Grading, Rounds
  <2> QED BY <1>3, <2>1, ReportReplaced DEF WriteReport, Typed
<1>4. CASE FinishDry
  BY <1>4 DEF FinishDry, Grading
<1> QED BY <1>1, <1>2, <1>3, <1>4

\* The steps that neither choose a clone nor make or push a commit.
Local ==
  \/ Grade \/ GradeFails \/ SkipReport \/ DeleteReport \/ WriteReport
  \/ FinishDry \/ CommitFails \/ Summary \/ Announce \/ FinishAnnounce \/ Crash

\* They leave commits and clones where they are.
LEMMA LocalKeeps ==
  ASSUME Typed, Local
  PROVE  /\ UNCHANGED <<remote, past, tree, last>>
         /\ base' = base \/ base' = 0
         /\ DOMAIN clones' \subseteq DOMAIN clones
         /\ \A c \in DOMAIN clones' : clones'[c].head = clones[c].head
         /\ Grading' => Grading /\ UNCHANGED <<mine, dir>> /\ DOMAIN clones' = DOMAIN clones
         /\ phase' # "push"
<1> USE DEF github, local, Leave, Grading
<1>1. CASE Grade
  BY <1>1 DEF Grade
<1>2. CASE GradeFails
  BY <1>2 DEF GradeFails
<1>3. CASE SkipReport \/ DeleteReport \/ WriteReport \/ FinishDry
  BY <1>3, HeadsKept DEF SkipReport, DeleteReport, WriteReport, FinishDry
<1>4. CASE CommitFails \/ Summary
  BY <1>4 DEF CommitFails, Summary
<1>5. CASE Announce
  BY <1>5 DEF Announce
<1>6. CASE FinishAnnounce \/ Crash
  BY <1>6 DEF FinishAnnounce, Crash
<1> QED BY <1>1, <1>2, <1>3, <1>4, <1>5, <1>6 DEF Local

\* They keep the history.
LEMMA LocalHistory ==
  ASSUME Typed, History, Local
  PROVE  History'
<1>1. last \in Int /\ base' <= last' /\ \A c \in Rounds : c \in Int
  BY LocalKeeps, TypesUsed DEF History, Known
<1>2. Grading' => dir \in DOMAIN clones
  BY LocalKeeps DEF Typed, Placed, UsesClone
<1> QED BY <1>1, <1>2, LocalKeeps, TypesUsed, HistoryKept

\* Choosing a clone keeps the history: a fresh one stands at the head of GitHub.
LEMMA BeginHistory ==
  ASSUME Typed, History, NEW d, NEW o, BeginGrade(d, o) \/ BeginAnnounce(d, o)
  PROVE  History'
<1>1. /\ clones' = WithClone(remote) /\ dir' = remote
      /\ UNCHANGED <<remote, past, base>>
      /\ last' = last \/ last' = last + 1
  <2>1. CASE BeginGrade(d, o)
    BY <2>1 DEF BeginGrade, UseFeedbackRepo, github
  <2>2. CASE BeginAnnounce(d, o)
    BY <2>2 DEF BeginAnnounce, UseFeedbackRepo, github
  <2> QED BY <2>1, <2>2
<1>2. /\ DOMAIN clones' = DOMAIN clones \cup {remote}
      /\ \A c \in DOMAIN clones' : clones'[c].head = IF c \in DOMAIN clones THEN clones[c].head ELSE c
  <2>1. TypeOK /\ remote \in Rounds
    BY DEF Typed, TypeOK
  <2>2. DOMAIN clones' = DOMAIN clones \cup {remote}
    BY <1>1, <2>1, CloneUsed
  <2>3. \A c \in DOMAIN clones : clones'[c] = clones[c]
    BY <1>1, <2>1, CloneUsed
  <2>4. remote \notin DOMAIN clones => clones'[remote] = [work |-> tree[remote], head |-> remote]
    BY <1>1, <2>1, CloneUsed
  <2> QED BY <2>2, <2>3, <2>4
<1>3. Known'
  <2>1. remote <= last /\ base <= last /\ last <= last'
    BY <1>1, TypesUsed DEF History, Known
  <2>2. \A c \in DOMAIN clones' : c <= last' /\ clones'[c].head <= last'
    BY <1>1, <1>2, <2>1, TypesUsed DEF History, Known
  <2>3. \A c \in Rounds : past'[c] \subseteq 0..last'
    BY <1>1, <2>1, TypesUsed DEF History, Known
  <2> QED BY <1>1, <2>1, <2>2, <2>3, TypesUsed DEF Known
<1>4. Rooted'
  BY <1>1, <1>2 DEF History, Rooted
<1>5. Nested'
  BY <1>1 DEF History, Nested
<1>6. Unused'
  <2>1. CASE BeginGrade(d, o)
    <3>1. mine' = last + 1
      BY <2>1 DEF BeginGrade
    <3>2. \A c \in Rounds : past'[c] \subseteq 0..last
      BY <1>1 DEF History, Known
    <3>3. \A c \in DOMAIN clones' : c <= last /\ clones'[c].head <= last /\ clones'[c].head \in Rounds
      BY <1>2, TypesUsed DEF History, Known
    <3>4. remote \in DOMAIN clones' /\ remote <= last
      BY <1>2 DEF History, Known
    <3> QED BY <1>1, <3>1, <3>2, <3>3, <3>4, TypesUsed DEF Unused
  <2>2. CASE BeginAnnounce(d, o)
    BY <2>2 DEF BeginAnnounce, Unused, Grading
  <2> QED BY <2>1, <2>2
<1>7. OnTop'
  BY DEF BeginGrade, BeginAnnounce, OnTop
<1> QED BY <1>3, <1>4, <1>5, <1>6, <1>7 DEF History

\* A commit is put on top of HEAD and of all it contains.
LEMMA CommitHistory ==
  ASSUME Typed, History, Commit
  PROVE  History'
<1> DEFINE head == clones[dir].head
<1>1. /\ dir \in DOMAIN clones /\ head \in Rounds /\ mine \in Rounds /\ Grading
      /\ mine <= last /\ head <= last
  BY TypesUsed DEF Commit, Typed, Placed, UsesClone, Grading, History, Known
<1>2. /\ past' = [past EXCEPT ![mine] = past[head] \cup {mine}]
      /\ clones' = [clones EXCEPT ![dir].head = mine]
      /\ base' = head /\ UNCHANGED <<remote, mine, dir, last>> /\ phase' = "push"
  BY DEF Commit
<1>3. /\ DOMAIN clones' = DOMAIN clones
      /\ \A c \in DOMAIN clones : clones'[c].head = IF c = dir THEN mine ELSE clones[c].head
  BY <1>1, <1>2 DEF Typed, TypeOK
<1>4. /\ past'[mine] = past[head] \cup {mine}
      /\ \A c \in Rounds : c # mine => past'[c] = past[c]
  BY <1>1, <1>2, TypesUsed
<1>5. /\ mine # remote
      /\ \A c \in DOMAIN clones : c # mine /\ clones[c].head # mine
      /\ \A c \in Rounds : mine \notin past[c]
  BY <1>1 DEF History, Unused
<1>6. Known'
  <2>1. \A c \in Rounds : past'[c] \subseteq 0..last'
    BY <1>1, <1>2, <1>4, TypesUsed DEF History, Known
  <2>2. \A c \in DOMAIN clones' : c <= last' /\ clones'[c].head <= last'
    BY <1>1, <1>2, <1>3 DEF History, Known
  <2> QED BY <1>1, <1>2, <2>1, <2>2 DEF History, Known
<1>7. Rooted'
  <2>1. remote' \in past'[remote']
    BY <1>2, <1>4, <1>5, TypesUsed DEF History, Rooted
  <2>2. ASSUME NEW c \in DOMAIN clones', c # dir
        PROVE  {c, clones'[c].head} \subseteq past'[clones'[c].head]
    <3>1. clones'[c].head = clones[c].head /\ clones[c].head # mine /\ clones[c].head \in Rounds
      BY <1>3, <1>5, <2>2, TypesUsed
    <3>2. past'[clones[c].head] = past[clones[c].head]
      BY <1>4, <3>1
    <3> QED BY <1>3, <3>1, <3>2 DEF History, Rooted
  <2>3. {dir, clones'[dir].head} \subseteq past'[clones'[dir].head]
    BY <1>1, <1>3, <1>4 DEF History, Rooted
  <2> QED BY <2>1, <2>2, <2>3 DEF Rooted
<1>8. Nested'
  <2>1. ASSUME NEW c \in Rounds, NEW a \in past'[c]
        PROVE  past'[a] \subseteq past'[c]
    <3>1. CASE c # mine
      BY <1>4, <1>5, <2>1, <3>1, TypesUsed DEF History, Nested
    <3>2. CASE c = mine /\ a # mine
      BY <1>1, <1>4, <2>1, <3>2, TypesUsed DEF History, Nested
    <3>3. CASE c = mine /\ a = mine
      BY <3>3
    <3> QED BY <3>1, <3>2, <3>3
  <2> QED BY <2>1 DEF Nested
<1>9. Unused'
  BY <1>2 DEF Unused, Grading
<1>10. OnTop'
  <2>1. {dir, base'} \subseteq past'[base'] /\ past'[base'] \subseteq past'[mine]
    BY <1>1, <1>2, <1>4, <1>5 DEF History, Rooted
  <2>2. clones'[dir].head = mine /\ mine \notin DOMAIN clones'
    BY <1>1, <1>3, <1>5
  <2> QED BY <1>2, <2>1, <2>2 DEF OnTop
<1> QED BY <1>6, <1>7, <1>8, <1>9, <1>10 DEF History

\* A push moves the head of GitHub to HEAD, and HEAD may go back to its parent.
LEMMA PushHistory ==
  ASSUME Typed, History, Push \/ PushFails
  PROVE  History'
<1>1. /\ phase = "push" /\ phase' = "summary" /\ dir \in DOMAIN clones
      /\ UNCHANGED <<past, mine, dir, base, last>>
  BY DEF Push, PushFails, local, Typed, Placed, UsesClone
<1>2. /\ clones[dir].head = mine
      /\ {dir, base} \subseteq past[base]
      /\ mine \in past[mine]
  BY <1>1 DEF History, OnTop, Rooted
<1>3. remote' = remote \/ remote' = mine
  BY <1>2 DEF Push, PushFails, Accepted
<1>4. /\ DOMAIN clones' = DOMAIN clones
      /\ \A c \in DOMAIN clones :
           clones'[c].head = clones[c].head \/ (c = dir /\ clones'[c].head = base)
  <2>1. CASE Push
    <3>1. clones' = [clones EXCEPT ![dir].head = base]
      BY <2>1 DEF Push
    <3> QED BY <1>1, <3>1 DEF Typed, TypeOK
  <2>2. CASE PushFails
    BY <2>2 DEF PushFails
  <2> QED BY <2>1, <2>2
<1>5. Known'
  <2>1. remote' <= last' /\ base' <= last'
    BY <1>1, <1>3, TypesUsed DEF History, Known
  <2>2. \A c \in DOMAIN clones' : c <= last' /\ clones'[c].head <= last'
    BY <1>1, <1>4, <2>1, TypesUsed DEF History, Known
  <2>3. \A c \in Rounds : past'[c] \subseteq 0..last'
    BY <1>1 DEF History, Known
  <2> QED BY <2>1, <2>2, <2>3 DEF Known
<1>6. Rooted'
  BY <1>1, <1>2, <1>3, <1>4 DEF History, Rooted
<1>7. Nested'
  BY <1>1 DEF History, Nested
<1>8. Unused' /\ OnTop'
  BY <1>1 DEF Unused, OnTop, Grading
<1> QED BY <1>5, <1>6, <1>7, <1>8 DEF History

\* The number of another assistant's commit is new.
LEMMA NewCommit ==
  ASSUME Typed, History, OthersPush
  PROVE  /\ last + 1 \in Rounds
         /\ remote # last + 1 /\ remote < last + 1 /\ base # last + 1 /\ mine # last + 1
         /\ \A c \in Rounds : last + 1 \notin past[c] /\ past[c] \subseteq Rounds
         /\ \A c \in DOMAIN clones : c # last + 1 /\ clones[c].head # last + 1
<1>1. last \in 0..MaxRound /\ mine \in 0..last /\ remote \in 0..MaxRound /\ base \in 0..MaxRound
  BY DEF Typed, TypeOK, Rounds
<1>2. last + 1 \in Rounds
  BY <1>1, Bounds DEF OthersPush, Rounds
<1>3. remote # last + 1 /\ remote < last + 1 /\ base # last + 1 /\ mine # last + 1
  BY <1>1, Bounds DEF History, Known
<1>4. ASSUME NEW c \in Rounds
      PROVE  last + 1 \notin past[c] /\ past[c] \subseteq Rounds
  <2>1. past[c] \subseteq 0..last
    BY DEF History, Known
  <2> QED BY <1>1, <2>1, Bounds DEF Rounds
<1>5. ASSUME NEW c \in DOMAIN clones
      PROVE  c # last + 1 /\ clones[c].head # last + 1
  <2>1. c <= last /\ clones[c].head <= last
    BY DEF History, Known
  <2> QED BY <1>1, <2>1
<1> QED BY <1>2, <1>3, <1>4, <1>5

\* The commit of another assistant is on top of what GitHub has.
LEMMA OthersHistory ==
  ASSUME Typed, History, OthersPush
  PROVE  History'
<1>1. /\ past' = [past EXCEPT ![last + 1] = past[remote] \cup {last + 1}]
      /\ remote' = last + 1 /\ last' = last + 1 /\ last + 1 \in Rounds
      /\ UNCHANGED <<clones, phase, mine, dir, base>>
  BY NewCommit DEF OthersPush, local
<1>2. /\ past'[last + 1] = past[remote] \cup {last + 1}
      /\ \A c \in Rounds : c # last + 1 => past'[c] = past[c]
  BY <1>1, TypesUsed
<1>3. \A c \in Rounds : last + 1 \notin past[c]
  BY NewCommit
<1>4. \A c \in DOMAIN clones : c # last + 1 /\ clones[c].head # last + 1
  BY NewCommit
<1>5. remote # last + 1 /\ base # last + 1 /\ mine # last + 1
  BY NewCommit
<1>6. Known'
  BY <1>1, <1>2, TypesUsed DEF History, Known
<1>7. Rooted'
  BY <1>1, <1>2, <1>4, TypesUsed DEF History, Rooted
<1>8. Nested'
  <2>1. ASSUME NEW c \in Rounds, NEW a \in past'[c]
        PROVE  past'[a] \subseteq past'[c]
    <3>1. CASE c # last + 1
      BY <1>2, <1>3, <2>1, <3>1, TypesUsed DEF History, Nested
    <3>2. CASE c = last + 1 /\ a # last + 1
      BY <1>2, <2>1, <3>2, TypesUsed DEF History, Nested
    <3>3. CASE c = last + 1 /\ a = last + 1
      BY <3>3
    <3> QED BY <3>1, <3>2, <3>3
  <2> QED BY <2>1 DEF Nested
<1>9. Unused'
  <2> SUFFICES ASSUME Grading PROVE Unused'
    BY <1>1 DEF Unused, Grading
  <2>1. dir \in DOMAIN clones /\ clones[dir].head \in Rounds
    BY TypesUsed DEF Typed, Placed, UsesClone
  <2>2. \A c \in Rounds : mine \notin past'[c]
    BY <1>1, <1>2, <1>5, TypesUsed DEF History, Unused
  <2>3. \A a \in past'[clones[dir].head] : a < mine
    BY <1>2, <1>4, <2>1 DEF History, Unused
  <2> QED BY <1>1, <1>5, <2>2, <2>3 DEF History, Unused
<1>10. OnTop'
  <2> SUFFICES ASSUME phase = "push" PROVE OnTop'
    BY <1>1 DEF OnTop
  <2>1. past'[base] = past[base] /\ past'[mine] = past[mine]
    BY <1>2, <1>5, TypesUsed
  <2> QED BY <1>1, <2>1 DEF History, OnTop
<1> QED BY <1>6, <1>7, <1>8, <1>9, <1>10 DEF History

\* Every step keeps the history.
LEMMA StepHistory == Typed /\ History /\ [Next]_vars => History'
<1> SUFFICES ASSUME Typed, History, [Next]_vars PROVE History'
  OBVIOUS
<1>1. CASE UNCHANGED vars
  BY <1>1 DEF vars, github, local, History, Known, Rooted, Nested, Unused, OnTop, Grading
<1>2. CASE Next
  BY <1>2, LocalHistory, BeginHistory, CommitHistory, PushHistory, OthersHistory DEF Next, Local
<1> QED BY <1>1, <1>2

\* The history holds in every reachable state.
LEMMA HistoryHolds == Spec => []History
BY TypedHolds, InitHistory, StepHistory, PTL DEF Spec

\* A push on top of an unchanged GitHub is a fast-forward, after any sequence of
\* dry runs, failed pushes and kills: no earlier command leaves the clone in a
\* state from which grading cannot be published (hand_git2.c:113-125, 144-177).
THEOREM PushStaysPossible == Spec => []PushPossible
<1>1. Typed /\ History => PushPossible
  BY DEF History, Rooted, PushPossible, Typed, Placed, UsesClone
<1> QED BY <1>1, TypedHolds, HistoryHolds, PTL

-----------------------------------------------------------------------------
(* Reports never become older.                                             *)

\* Rounds and reports can be compared.
LEMMA Numbers ==
  ASSUME Typed
  PROVE  /\ \A c \in Rounds : c \in Int /\ 0 <= c
         /\ last \in Int /\ mine \in Int /\ mine <= last
         /\ \A c \in Rounds : \A y \in Students : tree[c][y] \in Int
         /\ \A c \in DOMAIN clones : \A y \in Students :
              clones[c].work[y] \in Int /\ 0 <= clones[c].work[y]
<1>1. \A c \in Rounds : c \in Int /\ 0 <= c
  BY TypesUsed
<1>2. last \in Int /\ mine \in Int /\ mine <= last
  BY TypesUsed
<1>3. \A c \in Rounds : \A y \in Students : tree[c][y] \in Rounds
  BY TypesUsed
<1>4. \A c \in DOMAIN clones : \A y \in Students : clones[c].work[y] \in Rounds
  BY TypesUsed
<1> QED BY <1>1, <1>2, <1>3, <1>4

\* At the start there are no reports.
LEMMA InitAdvance == Init => Advance
<1> SUFFICES ASSUME Init PROVE Advance
  OBVIOUS
<1>1. \A c \in Rounds : \A y \in Students : tree[c][y] = 0
  BY DEF Init, None
<1>2. \A c \in Rounds : c >= 0 /\ past[c] \subseteq Rounds
  BY Bounds DEF Init, Rounds
<1>3. CommitsAdvance
  BY <1>1, <1>2, Bounds DEF CommitsAdvance, Rounds
<1>4. WorkAdvances
  BY DEF Init, WorkAdvances, Grading
<1> QED BY <1>3, <1>4 DEF Advance

\* Commits advance as long as no commit is made.
LEMMA CommitsKept ==
  ASSUME CommitsAdvance, UNCHANGED <<tree, past>>
  PROVE  CommitsAdvance'
BY DEF CommitsAdvance

\* Working trees advance as long as they, and what HEAD contains, stay the same.
LEMMA WorkKept ==
  ASSUME WorkAdvances, UNCHANGED <<tree, past>>, phase # "write",
         last \in Int, last' \in Int, last <= last',
         DOMAIN clones' \subseteq DOMAIN clones,
         \A c \in DOMAIN clones' :
           /\ \A y \in Students : clones[c].work[y] \in Int
           /\ clones'[c].work = clones[c].work
           /\ past[clones'[c].head] \subseteq past[clones[c].head],
         Grading' => Grading /\ UNCHANGED <<mine, dir>> /\ dir \in DOMAIN clones'
  PROVE  WorkAdvances'
<1>1. ASSUME NEW c \in DOMAIN clones', NEW y \in Students
      PROVE  /\ clones'[c].work[y] <= last'
             /\ \A a \in past'[clones'[c].head] : tree'[a][y] <= clones'[c].work[y]
  <2>1. clones[c].work[y] <= last /\ clones[c].work[y] \in Int
    BY <1>1 DEF WorkAdvances
  <2>2. \A a \in past[clones[c].head] : tree[a][y] <= clones[c].work[y]
    BY <1>1 DEF WorkAdvances
  <2>3. clones'[c].work[y] = clones[c].work[y]
    BY <1>1
  <2>4. \A a \in past'[clones'[c].head] : a \in past[clones[c].head]
    BY <1>1
  <2> QED BY <2>1, <2>2, <2>3, <2>4
<1>2. Grading' => \A y \in Students : clones'[dir'].work[y] <= mine'
  BY DEF WorkAdvances
<1> QED BY <1>1, <1>2 DEF WorkAdvances

\* Steps on files: without a report left half replaced, trees advance.
LEMMA LocalAdvance ==
  ASSUME "crash" \notin Faults, "file" \notin Faults, Typed, History, Advance, Local
  PROVE  Advance'
<1>0. CommitsAdvance'
  BY LocalKeeps, CommitsKept DEF Advance
<1>1. \A c \in DOMAIN clones : \A y \in Students : clones[c].work[y] \in Int
  BY Numbers
<1>2. CASE DeleteReport
  <2>1. at \in Students /\ dir \in DOMAIN clones /\ 0 \in Rounds /\ clones' = WorkWith(at, 0)
    BY <1>2, Bounds DEF DeleteReport, Typed, TypeOK, Placed, UsesClone, Grading, Rounds
  <2>2. /\ UNCHANGED <<tree, past, at, dir, mine, last>> /\ phase' = "write"
        /\ phase = "report" /\ Grading
    BY <1>2 DEF DeleteReport, github, local, Grading
  <2>3. /\ DOMAIN clones' = DOMAIN clones
        /\ \A c \in DOMAIN clones :
             /\ clones'[c].head = clones[c].head
             /\ \A z \in Students :
                  clones'[c].work[z] = IF c = dir /\ z = at THEN 0 ELSE clones[c].work[z]
    BY <2>1, ReportReplaced DEF Typed
  <2>4. ASSUME NEW c \in DOMAIN clones', NEW y \in Students
        PROVE  /\ clones'[c].work[y] <= last'
               /\ \/ phase' = "write" /\ c = dir' /\ y = at'
                  \/ \A a \in past'[clones'[c].head] : tree'[a][y] <= clones'[c].work[y]
    <3>1. clones[c].work[y] <= last /\ \A a \in past[clones[c].head] : tree[a][y] <= clones[c].work[y]
      BY <2>2, <2>3 DEF Advance, WorkAdvances
    <3>2. 0 <= last
      BY Numbers, TypesUsed
    <3>3. CASE c = dir /\ y = at
      BY <2>2, <2>3, <3>2, <3>3
    <3>4. CASE ~(c = dir /\ y = at)
      BY <2>2, <2>3, <3>1, <3>4
    <3> QED BY <3>3, <3>4
  <2>5. \A y \in Students : clones'[dir'].work[y] <= mine'
    <3>1. \A y \in Students : clones[dir].work[y] <= mine
      BY <2>2 DEF Advance, WorkAdvances
    <3>2. \A y \in Students :
            clones'[dir].work[y] = IF y = at THEN 0 ELSE clones[dir].work[y]
      BY <2>1, <2>3
    <3>3. 0 <= mine /\ mine \in Int
      BY TypesUsed
    <3> QED BY <2>2, <3>1, <3>2, <3>3
  <2>6. WorkAdvances'
    BY <2>4, <2>5 DEF WorkAdvances
  <2> QED BY <1>0, <2>6 DEF Advance
<1>3. CASE WriteReport
  <2>1. at \in Students /\ dir \in DOMAIN clones /\ mine \in Rounds /\ clones' = WorkWith(at, mine)
    BY <1>3, Bounds DEF WriteReport, Typed, TypeOK, Placed, UsesClone, Grading, Rounds
  <2>2. /\ UNCHANGED <<tree, past, dir, mine, last>> /\ phase' = "report"
        /\ phase = "write" /\ Grading
    BY <1>3 DEF WriteReport, github, local, Grading
  <2>3. /\ DOMAIN clones' = DOMAIN clones
        /\ \A c \in DOMAIN clones :
             /\ clones'[c].head = clones[c].head
             /\ \A z \in Students :
                  clones'[c].work[z] = IF c = dir /\ z = at THEN mine ELSE clones[c].work[z]
    BY <2>1, ReportReplaced DEF Typed
  <2>4. ASSUME NEW c \in DOMAIN clones', NEW y \in Students
        PROVE  /\ clones'[c].work[y] <= last'
               /\ \A a \in past'[clones'[c].head] : tree'[a][y] <= clones'[c].work[y]
    <3>1. CASE c = dir /\ y = at
      <4>1. clones'[c].head \in Rounds /\ past'[clones'[c].head] \in SUBSET Rounds
        BY <2>1, <2>2, <2>3, TypesUsed
      <4>2. ASSUME NEW a \in past[clones[dir].head]
            PROVE  tree[a][at] <= mine
        <5>1. a < mine /\ a \in Rounds
          BY <2>2, <3>1, <4>1, <2>3, <4>2 DEF History, Unused
        <5>2. tree[a][at] <= a /\ tree[a][at] \in Int
          BY <2>1, <5>1, Numbers DEF Advance, CommitsAdvance
        <5> QED BY <5>1, <5>2, Numbers
      <4>3. clones'[c].work[y] = mine /\ clones'[c].head = clones[dir].head
        BY <2>1, <2>3, <3>1
      <4> QED BY <2>2, <3>1, <4>2, <4>3, Numbers
    <3>2. CASE ~(c = dir /\ y = at)
      <4>1. clones[c].work[y] <= last /\ \A a \in past[clones[c].head] : tree[a][y] <= clones[c].work[y]
        BY <2>3, <3>2 DEF Advance, WorkAdvances
      <4>2. clones'[c].work[y] = clones[c].work[y] /\ clones'[c].head = clones[c].head
        BY <2>3, <3>2
      <4> QED BY <2>2, <4>1, <4>2
    <3> QED BY <3>1, <3>2
  <2>5. \A y \in Students : clones'[dir'].work[y] <= mine'
    <3>1. \A y \in Students : clones[dir].work[y] <= mine
      BY <2>2 DEF Advance, WorkAdvances
    <3>2. \A y \in Students :
            clones'[dir].work[y] = IF y = at THEN mine ELSE clones[dir].work[y]
      BY <2>1, <2>3
    <3> QED BY <2>2, <3>1, <3>2, Numbers
  <2>6. WorkAdvances'
    BY <2>4, <2>5 DEF WorkAdvances
  <2> QED BY <1>0, <2>6 DEF Advance
<1>4. CASE ~DeleteReport /\ ~WriteReport
  <2>1. phase # "write" /\ \A c \in DOMAIN clones' : clones'[c].work = clones[c].work
    <3> USE <1>4 DEF Local
    <3>1. CASE Grade \/ GradeFails \/ SkipReport
      BY <3>1 DEF Grade, GradeFails, SkipReport
    <3>2. CASE FinishDry
      BY <3>2 DEF FinishDry
    <3>3. CASE CommitFails \/ Summary \/ Announce \/ FinishAnnounce
      BY <3>3 DEF CommitFails, Summary, Announce, FinishAnnounce
    <3>4. ~Crash
      BY DEF Crash
    <3> QED BY <3>1, <3>2, <3>3, <3>4
  <2>2. /\ UNCHANGED <<tree, past, last>>
        /\ DOMAIN clones' \subseteq DOMAIN clones
        /\ \A c \in DOMAIN clones' : clones'[c].head = clones[c].head
        /\ Grading' => Grading /\ UNCHANGED <<mine, dir>> /\ DOMAIN clones' = DOMAIN clones
    BY LocalKeeps
  <2>3. Grading => dir \in DOMAIN clones
    BY DEF Typed, Placed, UsesClone
  <2>4. WorkAdvances'
    BY <1>1, <2>1, <2>2, <2>3, WorkKept, TypesUsed DEF Advance
  <2> QED BY <1>0, <2>4 DEF Advance
<1> QED BY <1>2, <1>3, <1>4

\* A fresh clone holds the reports of its commit.
LEMMA BeginAdvance ==
  ASSUME Typed, History, Advance, NEW d, NEW o, BeginGrade(d, o) \/ BeginAnnounce(d, o)
  PROVE  Advance'
<1>1. /\ clones' = WithClone(remote) /\ dir' = remote
      /\ UNCHANGED <<tree, past>> /\ phase = "idle" /\ phase' # "write"
      /\ \/ last' = last + 1 /\ mine' = last + 1
         \/ last' = last /\ phase' = "announce"
  <2>1. CASE BeginGrade(d, o)
    BY <2>1 DEF BeginGrade, UseFeedbackRepo, github
  <2>2. CASE BeginAnnounce(d, o)
    BY <2>2 DEF BeginAnnounce, UseFeedbackRepo, github
  <2> QED BY <2>1, <2>2
<1>2. remote \in Rounds /\ last \in Int /\ last <= last' /\ remote <= last
  BY <1>1, TypesUsed DEF History, Known
<1>3. TypeOK
  BY DEF Typed
<1>4. DOMAIN clones' = DOMAIN clones \cup {remote}
  BY <1>1, <1>2, <1>3, CloneUsed
<1>5. ASSUME NEW c \in DOMAIN clones', NEW y \in Students
      PROVE  /\ clones'[c].work[y] <= last
             /\ \A a \in past[clones'[c].head] : tree[a][y] <= clones'[c].work[y]
  <2>1. CASE c \in DOMAIN clones
    <3>1. clones'[c] = clones[c]
      BY <1>1, <1>2, <1>3, <2>1, CloneUsed
    <3> QED BY <1>1, <2>1, <3>1 DEF Advance, WorkAdvances
  <2>2. CASE c \notin DOMAIN clones
    <3>1. c = remote /\ clones'[c] = [work |-> tree[c], head |-> c]
      BY <1>1, <1>2, <1>3, <1>4, <2>2, CloneUsed
    <3>2. clones'[c].work = tree[c] /\ clones'[c].head = c /\ c \in Rounds
      BY <1>2, <3>1
    <3>3. tree[c][y] \in Rounds /\ tree[c][y] <= c /\ \A a \in past[c] : tree[a][y] <= tree[c][y]
      BY <3>2, TypesUsed DEF Advance, CommitsAdvance
    <3> QED BY <1>2, <3>1, <3>2, <3>3, TypesUsed
  <2> QED BY <2>1, <2>2
<1>6. \A c \in DOMAIN clones' : clones'[c].work \in [Students -> Rounds]
  BY <1>1, <1>2, <1>3, CloneTyped DEF Reports
<1>7. ASSUME NEW c \in DOMAIN clones', NEW y \in Students
      PROVE  clones'[c].work[y] <= last'
  BY <1>2, <1>5, <1>6, <1>1, TypesUsed
<1>8. Grading' => \A y \in Students : clones'[dir'].work[y] <= mine'
  BY <1>1, <1>4, <1>7 DEF Grading
<1>9. WorkAdvances'
  BY <1>1, <1>5, <1>7, <1>8 DEF WorkAdvances
<1> QED BY <1>1, <1>9, CommitsKept DEF Advance

\* A commit takes the working tree, which has what HEAD has or newer.
LEMMA CommitAdvance ==
  ASSUME Typed, History, Advance, Commit
  PROVE  Advance'
<1> DEFINE head == clones[dir].head
<1>1. /\ dir \in DOMAIN clones /\ head \in Rounds /\ mine \in Rounds
      /\ Grading /\ phase = "report"
  BY TypesUsed DEF Commit, Typed, Placed, UsesClone, Grading
<1>2. /\ tree' = [tree EXCEPT ![mine] = clones[dir].work]
      /\ past' = [past EXCEPT ![mine] = past[head] \cup {mine}]
      /\ clones' = [clones EXCEPT ![dir].head = mine]
      /\ UNCHANGED <<mine, dir, last>> /\ phase' = "push"
  BY DEF Commit
<1>3. /\ DOMAIN clones' = DOMAIN clones
      /\ \A c \in DOMAIN clones :
           /\ clones'[c].head = IF c = dir THEN mine ELSE clones[c].head
           /\ clones'[c].work = clones[c].work
  BY <1>1, <1>2 DEF Typed, TypeOK
<1>4. /\ past'[mine] = past[head] \cup {mine} /\ tree'[mine] = clones[dir].work
      /\ \A c \in Rounds : c # mine => past'[c] = past[c] /\ tree'[c] = tree[c]
  BY <1>1, <1>2, TypesUsed
<1>5. /\ \A c \in DOMAIN clones : clones[c].head # mine
      /\ \A c \in Rounds : mine \notin past[c] /\ past[c] \subseteq Rounds
  BY <1>1, TypesUsed DEF History, Unused
<1>6. \A c \in DOMAIN clones : \A y \in Students : \A a \in past[clones[c].head] :
        tree[a][y] <= clones[c].work[y]
  BY <1>1 DEF Advance, WorkAdvances
<1>7. \A y \in Students : clones[dir].work[y] <= mine /\ clones[dir].work[y] \in Int
  BY <1>1, Numbers DEF Advance, WorkAdvances
<1>8. CommitsAdvance'
  <2>1. ASSUME NEW c \in Rounds, NEW y \in Students
        PROVE  tree'[c][y] <= c
    BY <1>4, <1>7 DEF Advance, CommitsAdvance
  <2>2. ASSUME NEW c \in Rounds, NEW a \in past'[c], NEW y \in Students
        PROVE  tree'[a][y] <= tree'[c][y]
    <3>1. CASE c # mine
      <4>1. a \in past[c] /\ a # mine /\ a \in Rounds
        BY <1>4, <1>5, <2>2, <3>1
      <4> QED BY <1>4, <3>1, <4>1 DEF Advance, CommitsAdvance
    <3>2. CASE c = mine /\ a # mine
      <4>1. a \in past[head] /\ a \in Rounds
        BY <1>1, <1>4, <1>5, <2>2, <3>2
      <4> QED BY <1>1, <1>4, <1>6, <3>2, <4>1
    <3>3. CASE c = mine /\ a = mine
      BY <1>4, <1>7, <3>3
    <3> QED BY <3>1, <3>2, <3>3
  <2> QED BY <2>1, <2>2 DEF CommitsAdvance
<1>9. WorkAdvances'
  <2>1. ASSUME NEW c \in DOMAIN clones', NEW y \in Students
        PROVE  /\ clones'[c].work[y] <= last'
               /\ \A a \in past'[clones'[c].head] : tree'[a][y] <= clones'[c].work[y]
    <3>1. clones'[c].work[y] <= last'
      BY <1>2, <1>3 DEF Advance, WorkAdvances
    <3>2. CASE c # dir
      <4>1. past'[clones'[c].head] = past[clones[c].head]
        BY <1>3, <1>4, <1>5, <3>2, TypesUsed
      <4>2. \A a \in past[clones[c].head] : a # mine /\ a \in Rounds
        BY <1>3, <1>5, TypesUsed
      <4> QED BY <1>3, <1>4, <1>6, <3>1, <4>1, <4>2
    <3>3. CASE c = dir
      <4>1. ASSUME NEW a \in past'[mine]
            PROVE  tree'[a][y] <= clones[dir].work[y]
        <5>1. CASE a = mine
          BY <1>4, <1>7, <5>1
        <5>2. CASE a # mine
          <6>1. a \in past[head] /\ a \in Rounds
            BY <1>1, <1>4, <1>5, <4>1, <5>2
          <6> QED BY <1>1, <1>4, <1>6, <5>2, <6>1
        <5> QED BY <5>1, <5>2
      <4> QED BY <1>1, <1>3, <3>1, <3>3, <4>1
    <3> QED BY <3>2, <3>3
  <2> QED BY <1>2, <2>1 DEF WorkAdvances, Grading
<1> QED BY <1>8, <1>9 DEF Advance

\* A push changes no report, and leaves HEAD where it is or at the parent.
LEMMA PushAdvance ==
  ASSUME Typed, History, Advance, Push \/ PushFails
  PROVE  Advance'
<1>1. /\ phase = "push" /\ phase' = "summary" /\ dir \in DOMAIN clones
      /\ UNCHANGED <<tree, past, last>>
  BY DEF Push, PushFails, Typed, Placed, UsesClone
<1>2. past[base] \subseteq past[clones[dir].head]
  BY <1>1 DEF History, OnTop
<1>3. /\ DOMAIN clones' = DOMAIN clones
      /\ \A c \in DOMAIN clones :
           /\ clones'[c].work = clones[c].work
           /\ clones'[c].head = clones[c].head \/ (c = dir /\ clones'[c].head = base)
  <2>1. CASE Push
    <3>1. clones' = [clones EXCEPT ![dir].head = base]
      BY <2>1 DEF Push
    <3> QED BY <1>1, <3>1 DEF Typed, TypeOK
  <2>2. CASE PushFails
    BY <2>2 DEF PushFails
  <2> QED BY <2>1, <2>2
<1>4. \A c \in DOMAIN clones' : past[clones'[c].head] \subseteq past[clones[c].head]
  BY <1>2, <1>3
<1>5. ~Grading'
  BY <1>1 DEF Grading
<1>6. last \in Int /\ last <= last'
  BY <1>1, Numbers
<1>7. WorkAdvances'
  BY <1>1, <1>3, <1>4, <1>5, <1>6, Numbers, WorkKept DEF Advance
<1> QED BY <1>1, <1>7, CommitsKept DEF Advance

\* The commit of another assistant replaces one report by a newer one.
LEMMA OthersAdvance ==
  ASSUME Typed, History, Advance, OthersPush
  PROVE  Advance' /\ \A y \in Students : tree[remote][y] <= tree'[remote'][y]
<1>1. PICK s \in Students : tree' = [tree EXCEPT ![last + 1] = [tree[remote] EXCEPT ![s] = last + 1]]
  BY DEF OthersPush
<1>2. /\ past' = [past EXCEPT ![last + 1] = past[remote] \cup {last + 1}]
      /\ remote' = last + 1 /\ last' = last + 1 /\ last + 1 \in Rounds
      /\ UNCHANGED <<clones, phase, at, mine, dir>>
  BY NewCommit DEF OthersPush, local
<1>3. /\ past'[last + 1] = past[remote] \cup {last + 1}
      /\ \A y \in Students : tree'[last + 1][y] = IF y = s THEN last + 1 ELSE tree[remote][y]
      /\ \A c \in Rounds : c # last + 1 => past'[c] = past[c] /\ tree'[c] = tree[c]
  BY <1>1, <1>2, TypesUsed
<1>4. /\ remote # last + 1 /\ remote < last + 1
      /\ \A c \in Rounds : last + 1 \notin past[c] /\ past[c] \subseteq Rounds
      /\ \A c \in DOMAIN clones : clones[c].head # last + 1
  BY NewCommit
<1>5. \A c \in Rounds : \A y \in Students : tree[c][y] <= c /\ tree[c][y] \in Int /\ c \in Int
  BY Numbers DEF Advance, CommitsAdvance
<1>6. \A c \in Rounds : \A a \in past[c] : \A y \in Students : tree[a][y] <= tree[c][y]
  BY DEF Advance, CommitsAdvance
<1>7. \A y \in Students : tree[remote][y] <= tree'[last + 1][y] /\ tree'[last + 1][y] <= last + 1
  <2>1. remote \in Rounds /\ remote < last + 1 /\ last + 1 \in Int
    BY <1>4, TypesUsed
  <2>2. \A y \in Students : tree[remote][y] \in Int /\ tree[remote][y] <= remote /\ remote \in Int
    BY <1>5, <2>1
  <2> QED BY <1>3, <2>1, <2>2
<1>10. \A y \in Students : tree'[last + 1][y] \in Int
  <2>1. remote \in Rounds /\ last + 1 \in Int
    BY TypesUsed, Numbers
  <2> QED BY <1>3, <1>5, <2>1
<1>8. CommitsAdvance'
  <2>1. ASSUME NEW c \in Rounds, NEW y \in Students
        PROVE  tree'[c][y] <= c
    BY <1>3, <1>5, <1>7
  <2>2. ASSUME NEW c \in Rounds, NEW a \in past'[c], NEW y \in Students
        PROVE  tree'[a][y] <= tree'[c][y]
    <3>1. CASE c # last + 1
      <4>1. a \in past[c] /\ a # last + 1 /\ a \in Rounds
        BY <1>3, <1>4, <2>2, <3>1
      <4> QED BY <1>3, <1>6, <3>1, <4>1
    <3>2. CASE c = last + 1 /\ a # last + 1
      <4>1. a \in past[remote] /\ a \in Rounds /\ remote \in Rounds
        BY <1>3, <1>4, <2>2, <3>2, TypesUsed
      <4>2. tree'[a][y] = tree[a][y] /\ tree[a][y] <= tree[remote][y]
        BY <1>3, <1>6, <3>2, <4>1
      <4>3. tree[remote][y] <= tree'[last + 1][y]
        BY <1>7
      <4>4. tree[a][y] \in Int /\ tree[remote][y] \in Int /\ tree'[last + 1][y] \in Int
        BY <1>5, <1>10, <4>1
      <4> QED BY <3>2, <4>2, <4>3, <4>4
    <3>3. CASE c = last + 1 /\ a = last + 1
      <4>1. tree'[last + 1][y] \in Int
        BY <1>10
      <4> QED BY <3>3, <4>1
    <3> QED BY <3>1, <3>2, <3>3
  <2> QED BY <2>1, <2>2 DEF CommitsAdvance
<1>9. WorkAdvances'
  <2>1. ASSUME NEW c \in DOMAIN clones, NEW y \in Students
        PROVE  /\ clones[c].work[y] <= last + 1
               /\ \/ phase = "write" /\ c = dir /\ y = at
                  \/ \A a \in past'[clones[c].head] : tree'[a][y] <= clones[c].work[y]
    <3>1. clones[c].work[y] <= last + 1
      BY Numbers DEF Advance, WorkAdvances
    <3>2. past'[clones[c].head] = past[clones[c].head] /\ clones[c].head \in Rounds
      BY <1>3, <1>4, TypesUsed
    <3>3. \A a \in past[clones[c].head] : tree'[a] = tree[a]
      BY <1>3, <1>4, <3>2
    <3> QED BY <3>1, <3>2, <3>3 DEF Advance, WorkAdvances
  <2>2. Grading => \A y \in Students : clones[dir].work[y] <= mine
    BY DEF Advance, WorkAdvances
  <2> QED BY <1>2, <2>1, <2>2 DEF WorkAdvances, Grading
<1> QED BY <1>2, <1>7, <1>8, <1>9 DEF Advance

\* Every step keeps Advance, unless a report may be left half replaced.
LEMMA StepAdvance ==
  ASSUME "crash" \notin Faults, "file" \notin Faults
  PROVE  Typed /\ History /\ Advance /\ [Next]_vars => Advance'
<1> SUFFICES ASSUME Typed, History, Advance, [Next]_vars PROVE Advance'
  OBVIOUS
<1>1. CASE UNCHANGED vars
  BY <1>1 DEF vars, github, local, Advance, CommitsAdvance, WorkAdvances, Grading
<1>2. CASE Next
  BY <1>2, LocalAdvance, BeginAdvance, CommitAdvance, PushAdvance, OthersAdvance DEF Next, Local
<1> QED BY <1>1, <1>2

\* What a step does to the published reports.
LEMMA StepPublishes ==
  ASSUME "crash" \notin Faults, "file" \notin Faults, Typed, History, Advance, [Next]_vars
  PROVE  \A y \in Students : tree[remote][y] <= tree'[remote'][y]
<1>1. \A y \in Students : tree[remote][y] <= tree[remote][y]
  BY Numbers, TypesUsed
<1>2. CASE UNCHANGED vars
  BY <1>1, <1>2 DEF vars, github
<1>3. CASE Local
  BY <1>1, <1>3, LocalKeeps
<1>4. CASE \E d \in DryRuns, o \in OnlyRepos : BeginGrade(d, o) \/ BeginAnnounce(d, o)
  BY <1>1, <1>4 DEF BeginGrade, BeginAnnounce, github
<1>5. CASE Commit
  <2>1. mine # remote
    BY <1>5 DEF Commit, History, Unused, Grading
  <2>2. tree'[remote'] = tree[remote]
    BY <1>5, <2>1, TypesUsed DEF Commit
  <2> QED BY <1>1, <2>2
<1>6. CASE Push \/ PushFails
  <2>1. tree' = tree
    BY <1>6 DEF Push, PushFails
  <2>2. CASE remote' = remote
    BY <1>1, <2>1, <2>2
  <2>3. CASE Accepted
    <3>1. clones[dir].head \in Rounds
      BY <1>6, TypesUsed DEF Push, PushFails, Typed, Placed, UsesClone
    <3> QED BY <2>1, <2>3, <3>1 DEF Accepted, Advance, CommitsAdvance
  <2> QED BY <1>6, <2>2, <2>3 DEF Push, PushFails
<1>7. CASE OthersPush
  BY <1>7, OthersAdvance
<1> QED BY <1>2, <1>3, <1>4, <1>5, <1>6, <1>7 DEF Next, Local

\* Unless hand is killed or a report file cannot be written, no push takes back
\* what is published: after failed pushes, dry runs, failing commands and pushes
\* of other assistants, every student's report is at least as new as before
\* (hand.c:766-795, hand_git2.c:144-173).
THEOREM PublishingAdvances ==
  ASSUME "crash" \notin Faults, "file" \notin Faults
  PROVE  Spec => PublishedAdvances
<1>1. Typed /\ History /\ Advance /\ [Next]_vars =>
        [\A y \in Students : tree'[remote'][y] >= tree[remote][y]]_vars
  BY StepPublishes, TypesUsed
<1>2. Typed /\ History /\ Advance /\ [Next]_vars => Advance'
  BY StepAdvance
<1> QED BY <1>1, <1>2, InitAdvance, TypedHolds, HistoryHolds, PTL DEF Spec, PublishedAdvances

-----------------------------------------------------------------------------
(* The issues.                                                             *)

\* While grades are announced, the numbers of the rows to come are up to date.
Listed ==
  phase = "announce" => \A y \in repos : y >= at => numbers[y] = Len(issues[y])

\* Editing an issue leaves their number, creating one adds one.
LEMMA IssuesChanged ==
  ASSUME Typed, Announce
  PROVE  /\ \A y \in Students : y # at => issues'[y] = issues[y]
         /\ \/ Len(issues'[at]) = Len(issues[at])
            \/ at \in repos /\ numbers[at] = 0 /\ Len(issues'[at]) = Len(issues[at]) + 1
<1>1. at \in Students /\ issues \in [Students -> Seq(Rounds)] /\ bodies[at] \in Rounds
  BY DEF Announce, Typed, TypeOK, Reports
<1>2. CASE Edit(at)
  <2>1. issues' = [issues EXCEPT ![at] = [issues[at] EXCEPT ![numbers[at]] = bodies[at]]]
    BY <1>2 DEF Edit
  <2>2. issues'[at] = [issues[at] EXCEPT ![numbers[at]] = bodies[at]]
    BY <1>1, <2>1
  <2>3. Len(issues'[at]) = Len(issues[at])
    <3>1. CASE numbers[at] \in 1..Len(issues[at])
      BY <1>1, <2>2, <3>1, ExceptSeq
    <3>2. CASE numbers[at] \notin 1..Len(issues[at])
      BY <1>1, <2>2, <3>2, LenProperties
    <3> QED BY <3>1, <3>2
  <2> QED BY <1>1, <2>1, <2>3
<1>3. CASE Create(at) /\ at \in repos /\ numbers[at] = 0
  <2>1. issues' = [issues EXCEPT ![at] = Append(issues[at], bodies[at])]
    BY <1>3 DEF Create
  <2>2. Len(Append(issues[at], bodies[at])) = Len(issues[at]) + 1
    BY <1>1
  <2> QED BY <1>1, <1>3, <2>1, <2>2
<1>4. CASE issues' = issues
  BY <1>4
<1> QED BY <1>2, <1>3, <1>4 DEF Announce

\* No student has an issue at the start.
LEMMA InitOneIssue == Init => OneIssue /\ Listed
BY DEF Init, OneIssue, Listed

\* With every lookup answered, no step gives a student a second issue.
LEMMA StepOneIssue ==
  ASSUME "lookup" \notin Faults
  PROVE  Typed /\ OneIssue /\ Listed /\ [Next]_vars => OneIssue' /\ Listed'
<1> SUFFICES ASSUME Typed, OneIssue, Listed, [Next]_vars PROVE OneIssue' /\ Listed'
  OBVIOUS
<1>0. \A y \in Students : Len(issues[y]) \in Nat
  BY DEF Typed, TypeOK
<1>1. CASE UNCHANGED vars
  BY <1>1 DEF vars, github, local, OneIssue, Listed
<1>2. ASSUME NEW d \in DryRuns, NEW o \in OnlyRepos, BeginAnnounce(d, o)
      PROVE  OneIssue' /\ Listed'
  <2>1. issues' = issues
    BY <1>2 DEF BeginAnnounce, github
  <2>2. repos' \subseteq Students
    <3>1. o \in 0..StudentCount
      BY OnlyAreRows
    <3> QED BY <1>2, <3>1, Bounds DEF BeginAnnounce, Found, Students
  <2>3. numbers' = [y \in Students |-> IF y \in repos' THEN Len(issues[y]) ELSE 0]
    BY <1>2 DEF BeginAnnounce, IssueNumbers
  <2> QED BY <2>1, <2>2, <2>3 DEF OneIssue, Listed
<1>3. CASE Announce
  <2>1. at \in Students /\ at' = at + 1 /\ at \in Int /\ repos \subseteq Students
        /\ phase = "announce" /\ UNCHANGED <<repos, numbers, phase>>
    BY <1>3, Bounds DEF Announce, local, Typed, TypeOK, Students
  <2>2. \A y \in Students : y # at => issues'[y] = issues[y]
    BY <1>3, IssuesChanged
  <2>3. Len(issues'[at]) <= 1
    <3>1. at \in repos /\ numbers[at] = 0 => Len(issues[at]) = 0
      BY <2>1 DEF Listed
    <3>2. Len(issues[at]) <= 1 /\ Len(issues[at]) \in Nat
      BY <1>0, <2>1 DEF OneIssue
    <3> QED BY <1>3, <3>1, <3>2, IssuesChanged
  <2>4. OneIssue'
    BY <2>2, <2>3 DEF OneIssue
  <2>5. ASSUME NEW y \in repos, y >= at + 1
        PROVE  numbers[y] = Len(issues'[y])
    <3>1. y \in Students /\ y # at /\ y >= at
      BY <2>1, <2>5, Bounds DEF Students
    <3> QED BY <2>1, <2>2, <3>1 DEF Listed
  <2> QED BY <2>1, <2>4, <2>5 DEF Listed
<1>4. ASSUME issues' = issues, phase' # "announce" \/ UNCHANGED <<phase, at, repos, numbers>>
      PROVE  OneIssue' /\ Listed'
  BY <1>4 DEF OneIssue, Listed
<1>5. CASE Grade \/ GradeFails \/ SkipReport \/ DeleteReport \/ WriteReport \/ FinishDry
  BY <1>4, <1>5
     DEF Grade, GradeFails, SkipReport, DeleteReport, WriteReport, FinishDry, github, Leave
<1>6. CASE Commit \/ CommitFails \/ Push \/ PushFails \/ Summary
  BY <1>4, <1>6 DEF Commit, CommitFails, Push, PushFails, Summary, github, Leave
<1>7. CASE FinishAnnounce \/ OthersPush \/ Crash
  BY <1>4, <1>7 DEF FinishAnnounce, OthersPush, Crash, github, local, Leave
<1>8. ASSUME NEW d, NEW o, BeginGrade(d, o)
      PROVE  OneIssue' /\ Listed'
  BY <1>4, <1>8 DEF BeginGrade, github
<1> QED BY <1>1, <1>2, <1>3, <1>5, <1>6, <1>7, <1>8 DEF Next

\* As long as GitHub answers the questions for existing issues, no student gets a
\* second one, whether announcing is interrupted, repeated, run for one student
\* only, or its requests are lost (hand_curl.c:344-403, hand.c:1008-1034).
THEOREM AtMostOneIssue ==
  ASSUME "lookup" \notin Faults
  PROVE  Spec => []OneIssue
<1>1. Typed /\ OneIssue /\ Listed /\ [Next]_vars => OneIssue' /\ Listed'
  BY StepOneIssue
<1> QED BY <1>1, InitOneIssue, TypedHolds, PTL DEF Spec

-----------------------------------------------------------------------------
(* What is announced is published.                                         *)

\* A clone that a command may use next is what GitHub has.
Clean ==
  \A c \in DOMAIN clones :
    c = remote /\ ~(c = dir /\ phase \in {"report", "write", "push"}) => clones[c].work = tree[c]

Published(y, report) == \E c \in past[remote] : tree[c][y] = report

Shown ==
  /\ \A y \in Students : \A i \in DOMAIN issues[y] : Published(y, issues[y][i])
  /\ phase = "announce" => \A y \in Students : Published(y, bodies[y])

\* What is published stays so, whoever pushes.
LEMMA StaysPublished ==
  ASSUME Typed, History, [Next]_vars, NEW y \in Students, NEW report, Published(y, report)
  PROVE  Published(y, report)'
<1>1. PICK c \in past[remote] : tree[c][y] = report
  BY DEF Published
<1>2. c \in Rounds
  BY <1>1, TypesUsed
<1>3. ASSUME UNCHANGED <<remote, past, tree>>
      PROVE  Published(y, report)'
  BY <1>1, <1>3 DEF Published
<1>4. CASE UNCHANGED vars
  BY <1>3, <1>4 DEF vars, github
<1>5. CASE Local
  BY <1>3, <1>5, LocalKeeps
<1>6. CASE \E d \in DryRuns, o \in OnlyRepos : BeginGrade(d, o) \/ BeginAnnounce(d, o)
  BY <1>3, <1>6 DEF BeginGrade, BeginAnnounce, github
<1>7. CASE Commit
  <2>1. mine # remote /\ mine \notin past[remote] /\ remote' = remote
    BY <1>7, TypesUsed DEF Commit, History, Unused, Grading
  <2>2. past'[remote] = past[remote] /\ tree'[c] = tree[c]
    BY <1>1, <1>2, <1>7, <2>1, TypesUsed DEF Commit
  <2> QED BY <1>1, <2>1, <2>2 DEF Published
<1>8. CASE Push \/ PushFails
  <2>1. UNCHANGED <<tree, past>>
    BY <1>8 DEF Push, PushFails
  <2>2. CASE remote' = remote
    BY <1>3, <2>1, <2>2
  <2>3. CASE Accepted
    <3>1. remote' \in Rounds /\ remote \in past[remote']
      BY <1>8, <2>3, TypesUsed DEF Accepted, Push, PushFails, Typed, Placed, UsesClone
    <3>2. c \in past[remote']
      BY <1>1, <3>1 DEF History, Nested
    <3> QED BY <1>1, <2>1, <3>2 DEF Published
  <2> QED BY <1>8, <2>2, <2>3 DEF Push, PushFails
<1>9. CASE OthersPush
  <2>1. last + 1 \in Rounds /\ c # last + 1
    BY <1>1, <1>9, NewCommit, TypesUsed
  <2>2. tree'[c] = tree[c] /\ remote' = last + 1 /\ c \in past'[last + 1]
    BY <1>1, <1>2, <1>9, <2>1, TypesUsed DEF OthersPush
  <2> QED BY <1>1, <2>2 DEF Published
<1> QED BY <1>4, <1>5, <1>6, <1>7, <1>8, <1>9 DEF Next, Local

\* There is no clone and no issue at the start.
LEMMA InitShown == Init => Clean /\ Shown
BY DEF Init, Clean, Shown

\* Clones other than the one that is worked in stay clean.
LEMMA StepClean ==
  ASSUME {"crash", "file", "push"} \cap Faults = {}
  PROVE  Typed /\ History /\ Clean /\ [Next]_vars => Clean'
<1> SUFFICES ASSUME Typed, History, Clean, [Next]_vars PROVE Clean'
  OBVIOUS
<1>1. CASE UNCHANGED vars
  BY <1>1 DEF vars, github, local, Clean
<1>2. ASSUME NEW d, NEW o, BeginGrade(d, o) \/ BeginAnnounce(d, o)
      PROVE  Clean'
  <2>1. phase = "idle" /\ clones' = WithClone(remote) /\ UNCHANGED <<remote, tree>>
    <3>1. CASE BeginGrade(d, o)
      BY <3>1 DEF BeginGrade, UseFeedbackRepo, github
    <3>2. CASE BeginAnnounce(d, o)
      BY <3>2 DEF BeginAnnounce, UseFeedbackRepo, github
    <3> QED BY <1>2, <3>1, <3>2
  <2>2. TypeOK /\ remote \in Rounds
    BY DEF Typed, TypeOK
  <2>3. clones'[remote].work = tree[remote]
    <3>1. CASE remote \in DOMAIN clones
      BY <2>1, <2>2, <3>1, CloneUsed DEF Clean
    <3>2. CASE remote \notin DOMAIN clones
      <4>1. clones'[remote] = [work |-> tree[remote], head |-> remote]
        BY <2>1, <2>2, <3>2, CloneUsed
      <4> QED BY <4>1
    <3> QED BY <3>1, <3>2
  <2> QED BY <2>1, <2>3 DEF Clean
<1>3. CASE Grade \/ GradeFails \/ SkipReport
  BY <1>3 DEF Grade, GradeFails, SkipReport, github, local, Leave, Clean
<1>4. CASE DeleteReport \/ WriteReport
  <2>1. at \in Students /\ dir \in DOMAIN clones /\ 0 \in Rounds /\ mine \in Rounds
    BY <1>4, Bounds DEF DeleteReport, WriteReport, Typed, TypeOK, Placed, UsesClone, Grading, Rounds
  <2>2. /\ UNCHANGED <<remote, tree, dir>> /\ phase' \in {"report", "write"}
        /\ clones' = WorkWith(at, 0) \/ clones' = WorkWith(at, mine)
    BY <1>4 DEF DeleteReport, WriteReport, github, local
  <2>3. DOMAIN clones' = DOMAIN clones /\ \A c \in DOMAIN clones : c # dir => clones'[c] = clones[c]
    BY <2>1, <2>2, ReportReplaced DEF Typed
  <2> QED BY <2>2, <2>3 DEF Clean
<1>5. CASE FinishDry
  <2>1. /\ clones' = [c \in DOMAIN clones \ {dir} |-> clones[c]]
        /\ UNCHANGED <<remote, tree>>
    BY <1>5 DEF FinishDry, github
  <2> QED BY <2>1 DEF Clean
<1>6. CASE Commit
  <2>1. dir \in DOMAIN clones /\ remote # mine
    BY <1>6 DEF Commit, Typed, Placed, UsesClone, Grading, History, Unused
  <2>2. /\ tree' = [tree EXCEPT ![mine] = clones[dir].work] /\ UNCHANGED <<remote, dir>>
        /\ clones' = [clones EXCEPT ![dir].head = mine] /\ phase' = "push"
    BY <1>6 DEF Commit
  <2>3. tree'[remote] = tree[remote]
    BY <2>1, <2>2, TypesUsed
  <2>4. DOMAIN clones' = DOMAIN clones /\ \A c \in DOMAIN clones : c # dir => clones'[c] = clones[c]
    BY <2>2
  <2> QED BY <2>2, <2>3, <2>4 DEF Clean
<1>7. CASE Push
  <2>1. remote' = mine /\ mine \notin DOMAIN clones
    BY <1>7 DEF Push, Accepted, History, OnTop
  <2>2. DOMAIN clones' = DOMAIN clones
    BY <1>7 DEF Push
  <2> QED BY <2>1, <2>2 DEF Clean
<1>8. CASE PushFails
  <2>1. /\ remote \notin past[clones[dir].head]
        /\ UNCHANGED <<remote, tree, clones, dir>> /\ dir \in DOMAIN clones
    BY <1>8 DEF PushFails, local, Typed, Placed, UsesClone
  <2>2. dir # remote
    BY <2>1 DEF History, Rooted
  <2> QED BY <2>1, <2>2 DEF Clean
<1>9. CASE Summary \/ Announce \/ FinishAnnounce
  BY <1>9 DEF Summary, Announce, FinishAnnounce, github, local, Leave, Clean
<1>10. CASE OthersPush
  <2>1. remote' = last + 1 /\ clones' = clones /\ last + 1 \notin DOMAIN clones
    BY <1>10, NewCommit DEF OthersPush
  <2> QED BY <2>1 DEF Clean
<1>11. ~CommitFails /\ ~Crash
  BY DEF CommitFails, Crash
<1> QED BY <1>1, <1>2, <1>3, <1>4, <1>5, <1>6, <1>7, <1>8, <1>9, <1>10, <1>11 DEF Next

\* What a step adds to the issues is published.
LEMMA StepShown ==
  ASSUME {"crash", "file", "push"} \cap Faults = {}
  PROVE  Typed /\ History /\ Clean /\ Shown /\ [Next]_vars => Shown'
<1> SUFFICES ASSUME Typed, History, Clean, Shown, [Next]_vars PROVE Shown'
  OBVIOUS
<1>1. ASSUME issues' = issues, phase' # "announce" \/ UNCHANGED <<phase, bodies>>
      PROVE  Shown'
  BY <1>1, StaysPublished DEF Shown
<1>2. CASE UNCHANGED vars
  BY <1>1, <1>2 DEF vars, github, local
<1>3. ASSUME NEW d \in DryRuns, NEW o \in OnlyRepos, BeginAnnounce(d, o)
      PROVE  Shown'
  <2>1. /\ issues' = issues /\ UNCHANGED <<remote, past, tree>>
        /\ clones' = WithClone(remote) /\ bodies' = clones'[remote].work /\ phase' = "announce"
    BY <1>3 DEF BeginAnnounce, UseFeedbackRepo, github
  <2>2. Clean'
    BY StepClean
  <2>3. remote \in DOMAIN clones'
    <3>1. TypeOK /\ remote \in Rounds
      BY DEF Typed, TypeOK
    <3> QED BY <2>1, <3>1, CloneUsed
  <2>4. bodies' = tree[remote]
    BY <2>1, <2>2, <2>3 DEF Clean
  <2>5. ASSUME NEW y \in Students
        PROVE  Published(y, bodies[y])'
    <3>1. remote \in past[remote] /\ tree[remote][y] = bodies'[y]
      BY <2>4 DEF History, Rooted
    <3> QED BY <2>1, <3>1 DEF Published
  <2> QED BY <2>1, <2>5, StaysPublished DEF Shown
<1>4. CASE Announce
  <2>1. /\ at \in Students /\ issues \in [Students -> Seq(Rounds)]
        /\ phase = "announce" /\ UNCHANGED bodies
    BY <1>4 DEF Announce, local, Typed, TypeOK
  <2>2. ASSUME NEW y \in Students, NEW i \in DOMAIN issues'[y]
        PROVE  (i \in DOMAIN issues[y] /\ issues'[y][i] = issues[y][i]) \/ issues'[y][i] = bodies[y]
    <3>1. CASE Edit(at)
      <4>1. issues' = [issues EXCEPT ![at] = [issues[at] EXCEPT ![numbers[at]] = bodies[at]]]
        BY <3>1 DEF Edit
      <4>2. CASE y = at
        <5>1. issues'[y] = [issues[y] EXCEPT ![numbers[y]] = bodies[y]]
          BY <2>1, <4>1, <4>2
        <5> QED BY <2>2, <5>1
      <4>3. CASE y # at
        BY <2>1, <2>2, <4>1, <4>3
      <4> QED BY <4>2, <4>3
    <3>2. CASE Create(at)
      <4>1. issues' = [issues EXCEPT ![at] = Append(issues[at], bodies[at])]
        BY <3>2 DEF Create
      <4>2. CASE y = at
        <5>1. issues'[y] = Append(issues[y], bodies[y]) /\ issues[y] \in Seq(Rounds)
          BY <2>1, <4>1, <4>2
        <5> QED BY <2>2, <5>1
      <4>3. CASE y # at
        BY <2>1, <2>2, <4>1, <4>3
      <4> QED BY <4>2, <4>3
    <3>3. CASE issues' = issues
      BY <2>2, <3>3
    <3> QED BY <1>4, <3>1, <3>2, <3>3 DEF Announce
  <2>3. ASSUME NEW y \in Students, NEW i \in DOMAIN issues'[y]
        PROVE  Published(y, issues'[y][i])
    <3>1. CASE i \in DOMAIN issues[y] /\ issues'[y][i] = issues[y][i]
      <4>1. Published(y, issues[y][i])
        BY <2>3, <3>1 DEF Shown
      <4> QED BY <3>1, <4>1
    <3>2. CASE issues'[y][i] = bodies[y]
      <4>1. Published(y, bodies[y])
        BY <2>1, <2>3 DEF Shown
      <4> QED BY <3>2, <4>1
    <3> QED BY <2>2, <2>3, <3>1, <3>2
  <2>4. ASSUME NEW y \in Students, NEW i \in DOMAIN issues'[y]
        PROVE  Published(y, issues[y][i])'
    <3>1. UNCHANGED <<remote, past, tree>>
      BY <1>4 DEF Announce
    <3>2. Published(y, issues'[y][i])
      BY <2>3, <2>4
    <3> QED BY <3>1, <3>2 DEF Published
  <2>5. \A y \in Students : Published(y, bodies[y])'
    BY <2>1, StaysPublished DEF Shown
  <2> QED BY <2>1, <2>4, <2>5 DEF Shown
<1>5. CASE Grade \/ GradeFails \/ SkipReport \/ DeleteReport \/ WriteReport \/ FinishDry
  BY <1>1, <1>5
     DEF Grade, GradeFails, SkipReport, DeleteReport, WriteReport, FinishDry, github, local, Leave
<1>6. CASE Commit \/ CommitFails \/ Push \/ PushFails \/ Summary
  BY <1>1, <1>6 DEF Commit, CommitFails, Push, PushFails, Summary, github, local, Leave
<1>7. CASE FinishAnnounce \/ OthersPush \/ Crash
  BY <1>1, <1>7 DEF FinishAnnounce, OthersPush, Crash, github, local, Leave
<1>8. ASSUME NEW d, NEW o, BeginGrade(d, o)
      PROVE  Shown'
  BY <1>1, <1>8 DEF BeginGrade, github
<1> QED BY <1>2, <1>3, <1>4, <1>5, <1>6, <1>7, <1>8 DEF Next

\* Unless hand is killed, a push fails for another reason than a newer commit, or
\* a file operation fails, students are shown only reports that the feedback
\* repository contains or contained, dry runs or not (hand.c:800-816, 932-937).
THEOREM OnlyPublishedAnnounced ==
  ASSUME {"crash", "file", "push"} \cap Faults = {}
  PROVE  Spec => []AnnouncedIsPublished
<1>1. Typed /\ History /\ Clean /\ [Next]_vars => Clean'
  BY StepClean
<1>2. Typed /\ History /\ Clean /\ Shown /\ [Next]_vars => Shown'
  BY StepShown
<1>3. Shown => AnnouncedIsPublished
  BY DEF Shown, Published, AnnouncedIsPublished
<1> QED BY <1>1, <1>2, <1>3, InitShown, TypedHolds, HistoryHolds, PTL DEF Spec

-----------------------------------------------------------------------------
(* The scores and the reports.                                             *)

\* A command begins with the first row.
Starting == phase \in {"idle", "grade"} => at = 1

\* Line i of out_path is the row's own, and its score comes with the report that
\* is in the working tree, and from there in the commit.
Told(i) ==
  LET y == scores[i][1] IN
  /\ y < at
  /\ only = 0 => y = i
  /\ IF scores[i][2] = 0 THEN y \notin passed
     ELSE /\ y \in passed /\ scores[i][2] = mine
          /\ IF phase = "push" THEN tree[mine][y] = mine ELSE clones[dir].work[y] = mine

\* While a grading works in its clone, every row up to at has its line.
Written ==
  UsesClone =>
    /\ mine > 0
    /\ phase = "grade" => scores = <<>>
    /\ phase = "push" => at = StudentCount + 1
    /\ only = 0 => Len(scores) = at - 1
    /\ \A i \in DOMAIN scores : Told(i)

\* A line is added at the end, or none with --only-repo.
LEMMA LineAdded ==
  ASSUME Typed, at \in Students, NEW value \in Rounds, Score(value)
  PROVE  /\ only = 0 => Len(scores') = Len(scores) + 1
         /\ \A i \in DOMAIN scores' :
              \/ i \in DOMAIN scores /\ scores'[i] = scores[i]
              \/ (only = 0 => i = Len(scores) + 1) /\ scores'[i] = <<at, value>>
<1>1. scores \in Seq(Students \X Rounds) /\ <<at, value>> \in Students \X Rounds
  BY DEF Typed, TypeOK
<1>2. CASE scores' = Append(scores, <<at, value>>)
  BY <1>1, <1>2, AppendProperties
<1>3. CASE only # 0 /\ scores' = scores
  BY <1>3
<1> QED BY <1>2, <1>3 DEF Score

\* The rows in out_path are students, the scores gradings.
LEMMA LinesTyped ==
  ASSUME Typed, NEW i \in DOMAIN scores
  PROVE  scores[i][1] \in Students /\ scores[i][1] \in Int /\ scores[i][2] \in Rounds
<1>1. scores[i] \in Students \X Rounds
  BY DEF Typed, TypeOK
<1> QED BY <1>1, Bounds DEF Students

\* A command that passed has its score and its report; the others keep both.
LEMMA ReportWritten ==
  ASSUME "file" \notin Faults, Typed, Written,
         SkipReport \/ DeleteReport \/ WriteReport
  PROVE  Written'
<1>1. /\ at \in Students /\ at \in Int /\ UsesClone /\ phase \in {"report", "write"}
      /\ dir \in DOMAIN clones /\ 0 \in Rounds /\ mine \in Rounds /\ mine > 0
  <2>1. at \in Students /\ phase \in {"report", "write"}
    BY DEF SkipReport, DeleteReport, WriteReport, Typed, TypeOK, Placed
  <2>2. UsesClone
    BY <2>1 DEF UsesClone, Grading
  <2> QED BY <2>1, <2>2, Bounds, TypesUsed DEF Typed, Placed, Written, Students, Rounds
<1>2. UNCHANGED <<only, mine, dir, passed>> /\ phase' \in {"report", "write"}
  BY DEF SkipReport, DeleteReport, WriteReport, local
<1>3. \A i \in DOMAIN scores : Told(i)
  BY <1>1 DEF Written
<1>4. CASE SkipReport
  <2>1. Score(0) /\ at' = at + 1 /\ clones' = clones /\ at \notin passed
    BY <1>4 DEF SkipReport
  <2>2. ASSUME NEW i \in DOMAIN scores'
        PROVE  Told(i)'
    <3>1. CASE i \in DOMAIN scores /\ scores'[i] = scores[i]
      BY <1>1, <1>2, <1>3, <2>1, <3>1, LinesTyped DEF Told
    <3>2. CASE (only = 0 => i = Len(scores) + 1) /\ scores'[i] = <<at, 0>>
      BY <1>1, <1>2, <2>1, <3>2 DEF Told, Written
    <3> QED BY <1>1, <2>1, <3>1, <3>2, LineAdded
  <2>3. only' = 0 => Len(scores') = at' - 1
    BY <1>1, <1>2, <2>1, LineAdded DEF Written
  <2> QED BY <1>1, <1>2, <2>2, <2>3 DEF Written
<1>5. CASE DeleteReport
  <2>1. clones' = WorkWith(at, 0) /\ UNCHANGED <<scores, at>>
    BY <1>5 DEF DeleteReport
  <2>2. \A z \in Students : z # at => clones'[dir].work[z] = clones[dir].work[z]
    BY <1>1, <2>1, ReportReplaced DEF Typed
  <2>3. ASSUME NEW i \in DOMAIN scores'
        PROVE  Told(i)'
    BY <1>1, <1>2, <1>3, <2>1, <2>2, <2>3, LinesTyped DEF Told
  <2> QED BY <1>1, <1>2, <2>1, <2>3 DEF Written
<1>6. CASE WriteReport
  <2>1. clones' = WorkWith(at, mine) /\ Score(mine) /\ at' = at + 1 /\ at \in passed
    BY <1>6 DEF WriteReport, Typed, Placed
  <2>2. \A z \in Students : clones'[dir].work[z] = IF z = at THEN mine ELSE clones[dir].work[z]
    BY <1>1, <2>1, ReportReplaced DEF Typed
  <2>3. ASSUME NEW i \in DOMAIN scores'
        PROVE  Told(i)'
    <3>1. CASE i \in DOMAIN scores /\ scores'[i] = scores[i]
      BY <1>1, <1>2, <1>3, <2>1, <2>2, <3>1, LinesTyped DEF Told
    <3>2. CASE (only = 0 => i = Len(scores) + 1) /\ scores'[i] = <<at, mine>>
      BY <1>1, <1>2, <2>1, <2>2, <3>2 DEF Told, Written
    <3> QED BY <1>1, <2>1, <3>1, <3>2, LineAdded
  <2>4. only' = 0 => Len(scores') = at' - 1
    BY <1>1, <1>2, <2>1, LineAdded DEF Written
  <2> QED BY <1>1, <1>2, <2>3, <2>4 DEF Written
<1> QED BY <1>4, <1>5, <1>6

\* Every step keeps the lines right, unless a report cannot be written.
LEMMA StepWritten ==
  ASSUME "file" \notin Faults
  PROVE  Typed /\ Starting /\ Written /\ [Next]_vars => Starting' /\ Written'
<1> SUFFICES ASSUME Typed, Starting, Written, [Next]_vars PROVE Starting' /\ Written'
  OBVIOUS
<1>1. CASE UNCHANGED vars
  BY <1>1 DEF vars, github, local, Starting, Written, Told, UsesClone, Grading
<1>2. ASSUME NEW d, NEW o, BeginGrade(d, o)
      PROVE  Starting' /\ Written'
  <2>1. scores' = <<>> /\ phase' = "grade" /\ at' = 1 /\ mine' = last + 1
    BY <1>2 DEF BeginGrade, Starting
  <2>2. last + 1 > 0
    BY TypesUsed
  <2> QED BY <2>1, <2>2 DEF Starting, Written
<1>3. ASSUME NEW d, NEW o, BeginAnnounce(d, o)
      PROVE  Starting' /\ Written'
  BY <1>3 DEF BeginAnnounce, Starting, Written, UsesClone, Grading
<1>4. CASE Grade
  <2>1. /\ scores' = <<>> /\ phase' = "report" /\ at' = 1 /\ UNCHANGED <<only, mine>> /\ mine > 0
    BY <1>4 DEF Grade, Starting, Written, UsesClone, Grading
  <2> QED BY <2>1 DEF Starting, Written
<1>5. CASE SkipReport \/ DeleteReport \/ WriteReport
  <2>1. Starting'
    BY <1>5 DEF SkipReport, DeleteReport, WriteReport, Starting
  <2> QED BY <1>5, <2>1, ReportWritten
<1>6. CASE Commit
  <2>1. /\ phase = "report" /\ phase' = "push" /\ UsesClone /\ at > StudentCount
        /\ tree' = [tree EXCEPT ![mine] = clones[dir].work]
        /\ UNCHANGED <<scores, at, only, mine, passed>>
    BY <1>6 DEF Commit, UsesClone, Grading
  <2>2. at = StudentCount + 1
    BY <2>1, Bounds DEF Typed, TypeOK
  <2>3. tree'[mine] = clones[dir].work
    BY <2>1, TypesUsed
  <2>4. ASSUME NEW i \in DOMAIN scores'
        PROVE  Told(i)'
    BY <2>1, <2>3, <2>4 DEF Written, Told
  <2> QED BY <2>1, <2>2, <2>4 DEF Starting, Written
<1>7. CASE FinishDry \/ CommitFails \/ Push \/ PushFails
  BY <1>7 DEF FinishDry, CommitFails, Push, PushFails, Starting, Written, UsesClone, Grading
<1>8. CASE GradeFails \/ Summary \/ FinishAnnounce \/ Crash
  BY <1>8 DEF GradeFails, Summary, FinishAnnounce, Crash, Leave, Starting, Written, UsesClone, Grading
<1>9. CASE Announce
  BY <1>9 DEF Announce, Starting, Written, UsesClone, Grading
<1>10. CASE OthersPush
  <2>1. /\ UNCHANGED <<scores, phase, at, only, mine, dir, passed, clones>>
        /\ \E y \in Students : tree' = [tree EXCEPT ![last + 1] = [tree[remote] EXCEPT ![y] = last + 1]]
    BY <1>10 DEF OthersPush, local
  <2>2. tree'[mine] = tree[mine]
    BY <2>1, TypesUsed
  <2>3. ASSUME NEW i \in DOMAIN scores', Told(i)
        PROVE  Told(i)'
    BY <2>1, <2>2, <2>3 DEF Told
  <2> QED BY <2>1, <2>3 DEF Starting, Written, UsesClone, Grading
<1> QED BY <1>1, <1>2, <1>3, <1>4, <1>5, <1>6, <1>7, <1>8, <1>9, <1>10 DEF Next

\* Unless a report file cannot be written, what is pushed agrees with out_path,
\* whatever was left in the clone, whoever else pushes and whenever hand is
\* killed: every row has its line, and a score comes with this grading's report in
\* the commit (hand.c:739-798, hand_git2.c:127-162).
THEOREM ScoresComeWithReports ==
  ASSUME "file" \notin Faults
  PROVE  Spec => []ScoresMatchReports
<1>1. Init => Starting /\ Written
  BY DEF Init, Starting, Written, UsesClone, Grading
<1>2. Typed /\ Starting /\ Written /\ [Next]_vars => Starting' /\ Written'
  BY StepWritten
<1>3. Typed /\ Written => ScoresMatchReports
  BY Bounds DEF Written, Told, ScoresMatchReports, UsesClone
<1> QED BY <1>1, <1>2, <1>3, TypedHolds, PTL DEF Spec

-----------------------------------------------------------------------------
(* No older report is announced.                                           *)

\* While grades are announced, nobody was given a newer report than the one to
\* be announced.
Fresh ==
  phase = "announce" =>
    \A y \in Students : \A i \in DOMAIN issues[y] : issues[y][i] <= bodies[y]

\* Every step keeps the bodies up to date, under the faults that keep the clones
\* clean.
LEMMA StepFresh ==
  ASSUME {"crash", "file", "push"} \cap Faults = {}
  PROVE  Typed /\ History /\ Advance /\ Clean /\ Shown /\ Fresh /\ [Next]_vars =>
           /\ Fresh'
           /\ \A y \in Students : \A i \in DOMAIN issues[y] : issues[y][i] <= issues'[y][i]
<1> SUFFICES ASSUME Typed, History, Advance, Clean, Shown, Fresh, [Next]_vars
             PROVE  /\ Fresh'
                    /\ \A y \in Students : \A i \in DOMAIN issues[y] : issues[y][i] <= issues'[y][i]
  OBVIOUS
<1>0. ASSUME NEW y \in Students
      PROVE  /\ issues[y] \in Seq(Rounds) /\ bodies[y] \in Int
             /\ \A i \in DOMAIN issues[y] : issues[y][i] \in Int
  <2>1. issues[y] \in Seq(Rounds) /\ bodies[y] \in Rounds
    BY DEF Typed, TypeOK, Reports
  <2>2. \A i \in DOMAIN issues[y] : issues[y][i] \in Rounds
    BY <2>1
  <2>3. \A r \in Rounds : r \in Int
    BY Numbers
  <2> QED BY <2>1, <2>2, <2>3
<1>1. ASSUME issues' = issues, phase' # "announce" \/ UNCHANGED <<phase, bodies>>
      PROVE  /\ Fresh'
             /\ \A y \in Students : \A i \in DOMAIN issues[y] : issues[y][i] <= issues'[y][i]
  BY <1>0, <1>1 DEF Fresh
<1>2. CASE UNCHANGED vars
  BY <1>1, <1>2 DEF vars, github, local
<1>3. ASSUME NEW d \in DryRuns, NEW o \in OnlyRepos, BeginAnnounce(d, o)
      PROVE  /\ Fresh'
             /\ \A y \in Students : \A i \in DOMAIN issues[y] : issues[y][i] <= issues'[y][i]
  <2>1. /\ issues' = issues /\ UNCHANGED <<remote, past, tree>>
        /\ clones' = WithClone(remote) /\ bodies' = clones'[remote].work
    BY <1>3 DEF BeginAnnounce, UseFeedbackRepo, github
  <2>2. Clean'
    BY StepClean
  <2>3. remote \in DOMAIN clones'
    <3>1. TypeOK /\ remote \in Rounds
      BY DEF Typed, TypeOK
    <3> QED BY <2>1, <3>1, CloneUsed
  <2>4. clones'[remote].work = tree[remote]
    <3>1. \/ clones'[remote].work = tree'[remote]
          \/ remote = dir' /\ phase' \in {"report", "write", "push"}
      BY <2>1, <2>2, <2>3 DEF Clean
    <3>2. phase' = "announce"
      BY <1>3 DEF BeginAnnounce
    <3> QED BY <2>1, <3>1, <3>2
  <2>6. bodies' = tree[remote]
    BY <2>1, <2>4
  <2>5. ASSUME NEW y \in Students, NEW i \in DOMAIN issues[y]
        PROVE  issues[y][i] <= tree[remote][y]
    <3>1. PICK c \in past[remote] : tree[c][y] = issues[y][i]
      BY DEF Shown, Published
    <3>2. tree[c][y] <= tree[remote][y]
      BY TypesUsed DEF Advance, CommitsAdvance
    <3> QED BY <3>1, <3>2
  <2> QED BY <1>0, <2>1, <2>5, <2>6 DEF Fresh
<1>4. CASE Announce
  <2>1. /\ phase = "announce" /\ at \in Students /\ UNCHANGED <<bodies, phase>>
        /\ issues \in [Students -> Seq(Rounds)]
    BY <1>4 DEF Announce, local, Typed, TypeOK
  <2>2. ASSUME NEW y \in Students, NEW i \in DOMAIN issues'[y]
        PROVE  \/ i \in DOMAIN issues[y] /\ issues'[y][i] = issues[y][i]
               \/ issues'[y][i] = bodies[y]
    <3>1. CASE Edit(at)
      <4>1. issues' = [issues EXCEPT ![at] = [issues[at] EXCEPT ![numbers[at]] = bodies[at]]]
        BY <3>1 DEF Edit
      <4> QED BY <2>1, <2>2, <4>1
    <3>2. CASE Create(at)
      <4>1. issues' = [issues EXCEPT ![at] = Append(issues[at], bodies[at])]
        BY <3>2 DEF Create
      <4>2. CASE y = at
        <5>1. issues'[y] = Append(issues[y], bodies[y]) /\ issues[y] \in Seq(Rounds)
          BY <2>1, <4>1, <4>2
        <5> QED BY <2>2, <5>1
      <4>3. CASE y # at
        BY <2>1, <2>2, <4>1, <4>3
      <4> QED BY <4>2, <4>3
    <3>3. CASE issues' = issues
      BY <2>2, <3>3
    <3> QED BY <1>4, <3>1, <3>2, <3>3 DEF Announce
  <2>3. \A y \in Students : \A i \in DOMAIN issues[y] : i \in DOMAIN issues'[y]
    <3>1. CASE Edit(at)
      BY <2>1, <3>1 DEF Edit
    <3>2. CASE Create(at)
      <4>1. issues' = [issues EXCEPT ![at] = Append(issues[at], bodies[at])]
        BY <3>2 DEF Create
      <4> QED BY <2>1, <4>1
    <3>3. CASE issues' = issues
      BY <3>3
    <3> QED BY <1>4, <3>1, <3>2, <3>3 DEF Announce
  <2>4. \A y \in Students : \A i \in DOMAIN issues[y] : issues[y][i] <= bodies[y]
    BY <2>1 DEF Fresh
  <2>5. Fresh'
    BY <1>0, <2>1, <2>2, <2>4 DEF Fresh
  <2>6. ASSUME NEW y \in Students, NEW i \in DOMAIN issues[y]
        PROVE  issues[y][i] <= issues'[y][i]
    BY <1>0, <2>2, <2>3, <2>4
  <2> QED BY <2>5, <2>6
<1>5. CASE Grade \/ GradeFails \/ SkipReport \/ DeleteReport \/ WriteReport \/ FinishDry
  BY <1>1, <1>5
     DEF Grade, GradeFails, SkipReport, DeleteReport, WriteReport, FinishDry, github, local, Leave
<1>6. CASE Commit \/ CommitFails \/ Push \/ PushFails \/ Summary
  BY <1>1, <1>6 DEF Commit, CommitFails, Push, PushFails, Summary, github, local, Leave
<1>7. CASE FinishAnnounce \/ OthersPush \/ Crash
  BY <1>1, <1>7 DEF FinishAnnounce, OthersPush, Crash, github, local, Leave
<1>8. ASSUME NEW d, NEW o, BeginGrade(d, o)
      PROVE  /\ Fresh'
             /\ \A y \in Students : \A i \in DOMAIN issues[y] : issues[y][i] <= issues'[y][i]
  BY <1>1, <1>8 DEF BeginGrade, github
<1> QED BY <1>2, <1>3, <1>4, <1>5, <1>6, <1>7, <1>8 DEF Next

\* Unless hand is killed, a push fails for another reason than a newer commit, or
\* a file operation fails, no issue is ever changed to an older report, whichever
\* numbers the lookups found and whoever pushed in between (hand.c:932-937,
\* 1008-1034).
THEOREM AnnouncingAdvances ==
  ASSUME {"crash", "file", "push"} \cap Faults = {}
  PROVE  Spec => AnnouncedAdvances
<1> DEFINE Newer == \A y \in Students : \A i \in DOMAIN issues[y] : issues'[y][i] >= issues[y][i]
<1>1. Typed /\ History /\ Advance /\ Clean /\ Shown /\ Fresh /\ [Next]_vars => Fresh' /\ [Newer]_vars
  <2>1. ASSUME Typed, \A y \in Students : \A i \in DOMAIN issues[y] : issues[y][i] <= issues'[y][i]
        PROVE  Newer
    BY <2>1
  <2> QED BY <2>1, StepFresh
<1>2. Typed /\ History /\ Advance /\ [Next]_vars => Advance'
  BY StepAdvance
<1>3. Typed /\ History /\ Clean /\ [Next]_vars => Clean'
  BY StepClean
<1>4. Typed /\ History /\ Clean /\ Shown /\ [Next]_vars => Shown'
  BY StepShown
<1>5. Init => Fresh
  BY DEF Init, Fresh
<1> QED BY <1>1, <1>2, <1>3, <1>4, <1>5, InitAdvance, InitShown, TypedHolds, HistoryHolds, PTL
        DEF Spec, AnnouncedAdvances
=============================================================================
