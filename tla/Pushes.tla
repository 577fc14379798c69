------------------------------- MODULE Pushes -------------------------------
(***************************************************************************)
(* retrieve_pushes_before_cutoff: which commit of every student repository *)
(* is graded, and when it counts as pushed. GitHub is asked for creation   *)
(* times, for the latest commits and then for the pages of the events of   *)
(* each repository, newest first, while students go on pushing.            *)
(*                                                                         *)
(* Commit 0 is the one a repository is created with, commit n that of the  *)
(* n-th push to the requested branch.                                      *)
(***************************************************************************)
EXTENDS Integers, FiniteSets, Sequences, SequencesExt, FiniteSetsExt

CONSTANTS
  RepoCount,  \* repositories found for the homework
  MaxWorker,  \* requests in flight at once (MAX_WORKER)
  PageSize,   \* events in a page (per_page)
  Cutoff,     \* the end of late submission
  MaxTime,    \* bound on the clock
  MaxEvents,  \* bound on what happens in one repository
  MaxPushes,  \* bound on the pushes to all repositories together
  MaxPage,    \* bound on the page number
  Faults,     \* which requests may be lost, and whether repositories may be moved
  MayMiss     \* whether GitHub may fail to report an event, or let it expire

Repos  == 1..RepoCount
NoHash == -1   \* a GitCommitHash that is all zero
Event  == [kind : {"repo", "branch", "push", "other"}, time : 1..MaxTime, commit : 0..MaxEvents]

ASSUME CountsArePos == {RepoCount, MaxWorker, PageSize, MaxTime, MaxPage} \subseteq Nat \ {0}
ASSUME BoundsAreNat == {MaxEvents, MaxPushes} \subseteq Nat /\ Cutoff \in Nat \ {0}
ASSUME FaultsAreRequests == Faults \subseteq {"created", "latest", "page", "moved"}
ASSUME MayMissIsBool == MayMiss \in BOOLEAN

VARIABLES
  now,       \* the clock
  created,   \* creation time of each repository, 0 before it exists
  pushed,    \* times of the pushes to the requested branch, oldest first
  events,    \* what GitHub reports of each repository, newest first
  moved,     \* repositories renamed or transferred since they were listed
  phase,     \* "idle", then where the function stands: "created", "latest", "pages", "done"
  started,   \* when the command began
  at,        \* repositories in the finished batches
  page,      \* the page number, common to the batch
  answered,  \* repositories of the batch already handled in this round
  worker_done,
  out_hash, out_push_time,                     \* the results
  latest_push_times, latest_push_hashes,       \* newest push seen so far
  last_resort_push_times, last_resort_hashes   \* creation time, latest commit

github == <<now, created, pushed, events, moved>>
round  == <<at, page, answered, worker_done>>
found  == <<out_hash, out_push_time, latest_push_times, latest_push_hashes>>
resort == <<last_resort_push_times, last_resort_hashes>>
vars   == <<github, phase, started, round, found, resort>>

TypeOK ==
  /\ now \in 1..MaxTime
  /\ created \in [Repos -> 0..MaxTime]
  /\ pushed \in [Repos -> Seq(1..MaxTime)]
  /\ events \in [Repos -> Seq(Event)]
  /\ moved \in SUBSET Repos
  /\ phase \in {"idle", "created", "latest", "pages", "done"}
  /\ started \in 0..MaxTime
  /\ at \in Nat /\ page \in Nat \ {0}
  /\ answered \in SUBSET Repos
  /\ worker_done \in [Repos -> BOOLEAN]
  /\ {out_push_time, latest_push_times, last_resort_push_times} \subseteq [Repos -> 0..MaxTime]
  /\ {out_hash, latest_push_hashes, last_resort_hashes} \subseteq [Repos -> NoHash..MaxEvents]

Init ==
  LET all(value) == [r \in Repos |-> value] IN
  /\ now = 1
  /\ created = all(0) /\ pushed = all(<<>>) /\ events = all(<<>>) /\ moved = {}
  /\ phase = "idle" /\ started = 0
  /\ at = 0 /\ page = 1 /\ answered = {} /\ worker_done = all(FALSE)
  /\ out_hash = all(NoHash) /\ out_push_time = all(0)
  /\ latest_push_hashes = all(NoHash) /\ latest_push_times = all(0)
  /\ last_resort_hashes = all(NoHash) /\ last_resort_push_times = all(0)

-----------------------------------------------------------------------------
(* GitHub and the students.                                                *)

Tick ==
  /\ now < MaxTime /\ phase # "done"
  /\ now' = now + 1
  /\ UNCHANGED <<created, pushed, events, moved, phase, started, round, found, resort>>

LatestOf(r) == Len(pushed[r])   \* the latest commit of the branch

Report(r, kind, commit) ==
  \/ events' = [events EXCEPT ![r] = <<[kind |-> kind, time |-> now, commit |-> commit]>> \o @]
  \/ MayMiss /\ UNCHANGED events

\* A student accepts the homework: reported as the creation of the repository
\* or of its branch.
CreateRepo(r) ==
  /\ phase = "idle" /\ created[r] = 0
  /\ created' = [created EXCEPT ![r] = now]
  /\ \E kind \in {"repo", "branch"} : Report(r, kind, 0)
  /\ UNCHANGED <<now, pushed, moved, phase, started, round, found, resort>>

AllPushes == {rn \in Repos \X (1..MaxEvents) : rn[2] <= Len(pushed[rn[1]])}

Push(r) ==
  /\ phase # "done" /\ created[r] > 0 /\ Len(pushed[r]) < MaxEvents
  /\ Cardinality(AllPushes) < MaxPushes
  /\ pushed' = [pushed EXCEPT ![r] = Append(@, now)]
  /\ Report(r, "push", Len(pushed[r]) + 1)
  /\ UNCHANGED <<now, created, moved, phase, started, round, found, resort>>

\* Anything else that fills pages: issues, pushes to other branches.
OtherEvent(r) ==
  /\ phase # "done" /\ created[r] > 0 /\ Len(events[r]) < MaxEvents
  /\ events' = [events EXCEPT ![r] = <<[kind |-> "other", time |-> now, commit |-> 0]>> \o @]
  /\ UNCHANGED <<now, created, pushed, moved, phase, started, round, found, resort>>

\* What is asked of the old name of a repository is answered with a redirection,
\* which hand does not follow.
Move(r) ==
  /\ "moved" \in Faults /\ phase \notin {"idle", "done"}
  /\ moved' = moved \cup {r}
  /\ UNCHANGED <<now, created, pushed, events, phase, started, round, found, resort>>

-----------------------------------------------------------------------------
(* retrieve_pushes_before_cutoff.                                          *)

\* The repositories were found by their prefix, so all of them exist.
Start ==
  /\ phase = "idle" /\ \A r \in Repos : created[r] > 0
  /\ phase' = "created"
  /\ started' = now
  /\ UNCHANGED <<github, round, found, resort>>

\* Mutant: updated_at of the repository is read instead of created_at.
RetrieveCreationTimes_UpdatedAt ==
  /\ phase = "created"
  /\ \E lost \in SUBSET (IF "created" \in Faults THEN Repos ELSE {}) :
       last_resort_push_times' = [r \in Repos |-> IF r \in lost \cup moved THEN 0 ELSE now]
  /\ phase' = "latest"
  /\ UNCHANGED <<github, started, round, found, last_resort_hashes>>

\* Creation times never change, so when each is read makes no difference.
RetrieveCreationTimes ==
  /\ phase = "created"
  /\ \E lost \in SUBSET (IF "created" \in Faults THEN Repos ELSE {}) :
       last_resort_push_times' = [r \in Repos |-> IF r \in lost \cup moved THEN 0
                                                 ELSE created[r]]
  /\ phase' = "latest"
  /\ UNCHANGED <<github, started, round, found, last_resort_hashes>>

Batch == {r \in Repos : at < r /\ r <= at + MaxWorker}

\* Mutant: the latest commit of another branch, one nothing was pushed to.
LatestCommit_OtherBranch(r) ==
  /\ phase = "latest"
  /\ r \in Batch \ answered
  /\ answered' = answered \cup {r}
  /\ last_resort_hashes' = [last_resort_hashes EXCEPT ![r] = 0]
  /\ UNCHANGED <<github, phase, started, at, page, worker_done, found, last_resort_push_times>>

LatestCommit(r) ==
  /\ phase = "latest"
  /\ r \in Batch \ answered
  /\ answered' = answered \cup {r}
  /\ \/ r \notin moved /\ last_resort_hashes' = [last_resort_hashes EXCEPT ![r] = LatestOf(r)]
     \/ (r \in moved \/ "latest" \in Faults) /\ UNCHANGED last_resort_hashes
  /\ UNCHANGED <<github, phase, started, at, page, worker_done, found, last_resort_push_times>>

\* The next batch, or the next phase when there is none.
NextLatestBatch ==
  /\ phase = "latest"
  /\ answered = Batch
  /\ answered' = {}
  /\ IF at + MaxWorker < RepoCount
     THEN at' = at + MaxWorker /\ UNCHANGED phase
     ELSE at' = 0 /\ phase' = "pages"
  /\ UNCHANGED <<github, started, page, worker_done, found, resort>>

PageOf(list, p) ==
  SubSeq(list, (p - 1) * PageSize + 1, Min({p * PageSize, Len(list)}))

\* The event that ends the search: a push, or the creation of the repository or
\* of the branch, before the cutoff.
Stops(e) == e.kind # "other" /\ e.time < Cutoff

\* The events of a page that are looked at, the one that ends the search included.
Scanned(list) ==
  LET stop == {i \in DOMAIN list : Stops(list[i])}
  IN IF stop = {} THEN list ELSE SubSeq(list, 1, Min(stop))

\* Mutant: pushes after the cutoff count as known pushes, too.
Unreported_AnyTime(time, hash, latest) == time > 0 /\ hash # latest

\* The newest push that was reported, if it is before the cutoff, is not the
\* latest commit: that one was pushed by no reported event.
Unreported(time, hash, latest) == time > 0 /\ hash # latest /\ time < Cutoff

\* The commit and the time the event that ends the search stands for: creating
\* the repository or the branch stands for its latest commit.
Result(e, latest) == <<IF e.kind = "push" THEN e.commit ELSE latest, e.time>>

\* What handling the events of one response leaves behind for its repository.
Handle(r, list) ==
  LET seen     == Scanned(list)
      pushes   == {i \in DOMAIN seen : seen[i].kind = "push"}
      newest   == seen[Min(pushes)]
      newer    == pushes # {} /\ newest.time > latest_push_times[r]
      time     == IF newer THEN newest.time ELSE latest_push_times[r]
      hash     == IF newer THEN newest.commit ELSE latest_push_hashes[r]
      latest   == last_resort_hashes[r]
      stopped  == seen # <<>> /\ Stops(Last(seen))
      out      == IF Unreported(time, hash, latest) THEN <<latest, time>>
                  ELSE IF stopped THEN Result(Last(seen), latest)
                  ELSE <<out_hash[r], out_push_time[r]>>
      resorted == IF out[2] = 0 THEN <<latest, last_resort_push_times[r]>> ELSE out
  IN /\ latest_push_times' = [latest_push_times EXCEPT ![r] = time]
     /\ latest_push_hashes' = [latest_push_hashes EXCEPT ![r] = hash]
     /\ out_hash' = [out_hash EXCEPT ![r] = resorted[1]]
     /\ out_push_time' = [out_push_time EXCEPT ![r] = resorted[2]]
     /\ worker_done' = [worker_done EXCEPT ![r] = stopped \/ list = <<>>]

\* A redirection is a JSON object. cJSON_ArrayForEach walks its members, too, and
\* they count as events, of no kind that is looked for.
Redirection == <<[kind |-> "other", time |-> 1, commit |-> 0]>>

\* A response that is lost or no JSON has no events, like the page after the last.
EventPage(r) ==
  /\ phase = "pages"
  /\ r \in Batch \ answered /\ ~worker_done[r]
  /\ answered' = answered \cup {r}
  /\ \/ Handle(r, IF r \in moved THEN Redirection ELSE PageOf(events[r], page))
     \/ "page" \in Faults /\ Handle(r, <<>>)
  /\ UNCHANGED <<github, phase, started, at, page, resort>>

\* Mutant: the page number is not advanced.
NextPage_SamePage ==
  /\ phase = "pages"
  /\ \A r \in Batch : r \in answered \/ worker_done[r]
  /\ \E r \in Batch : ~worker_done[r]
  /\ answered' = {}
  /\ UNCHANGED <<github, phase, started, at, page, worker_done, found, resort>>

\* The pages of a repository that was moved never end; they are followed up to a
\* bound.
NextPage ==
  /\ phase = "pages" /\ page < MaxPage
  /\ \A r \in Batch : r \in answered \/ worker_done[r]
  /\ \E r \in Batch : ~worker_done[r]
  /\ answered' = {}
  /\ page' = page + 1
  /\ UNCHANGED <<github, phase, started, at, worker_done, found, resort>>

\* Mutant: the next batch goes on with the page number of the one before.
NextPageBatch_KeepsPage ==
  /\ phase = "pages"
  /\ \A r \in Batch : worker_done[r]
  /\ answered' = {}
  /\ IF at + MaxWorker < RepoCount
     THEN at' = at + MaxWorker /\ UNCHANGED phase
     ELSE phase' = "done" /\ UNCHANGED at
  /\ UNCHANGED <<github, started, page, worker_done, found, resort>>

\* Mutant: pages are counted from 0.
NextPageBatch_FromZero ==
  /\ phase = "pages"
  /\ \A r \in Batch : worker_done[r]
  /\ answered' = {}
  /\ page' = 0
  /\ IF at + MaxWorker < RepoCount
     THEN at' = at + MaxWorker /\ UNCHANGED phase
     ELSE phase' = "done" /\ UNCHANGED at
  /\ UNCHANGED <<github, started, worker_done, found, resort>>

NextPageBatch ==
  /\ phase = "pages"
  /\ \A r \in Batch : worker_done[r]
  /\ answered' = {}
  /\ page' = 1
  /\ IF at + MaxWorker < RepoCount
     THEN at' = at + MaxWorker /\ UNCHANGED phase
     ELSE phase' = "done" /\ UNCHANGED at
  /\ UNCHANGED <<github, started, worker_done, found, resort>>

-----------------------------------------------------------------------------
Student == Tick \/ \E r \in Repos : CreateRepo(r) \/ Push(r) \/ OtherEvent(r) \/ Move(r)

Program ==
  \/ RetrieveCreationTimes
  \/ \E r \in Repos : LatestCommit(r) \/ EventPage(r)
  \/ NextLatestBatch \/ NextPage \/ NextPageBatch

Next == Student \/ Start \/ Program

Spec == Init /\ [][Next]_vars

\* A request is answered or times out after 60 s, and the program goes on.
FairSpec == Spec /\ WF_vars(Program)

-----------------------------------------------------------------------------
(* Properties.                                                             *)

Before(r)      == {n \in DOMAIN pushed[r] : pushed[r][n] < Cutoff}
LastBefore(r)  == Max({0} \cup Before(r))
PushTime(r, n) == IF n = 0 THEN created[r] ELSE pushed[r][n]
Done(r)        == phase = "done" \/ r <= at

\* Collecting after the cutoff, from a GitHub that reports everything, grades
\* the last commit pushed before the cutoff and dates it right, however many
\* pages precede it and whatever students push meanwhile.
ExactAfterCutoff ==
  phase = "done" /\ started >= Cutoff =>
    \A r \in Repos \ moved : LastBefore(r) > 0 =>
      out_hash[r] = LastBefore(r) /\ out_push_time[r] = PushTime(r, LastBefore(r))

\* Collecting before the cutoff races with pushes: the commit graded may miss
\* the newest push, but is never older than what was there at the start.
NotOlderThanStart ==
  phase = "done" =>
    \A r \in Repos \ moved :
      \A n \in Before(r) : pushed[r][n] < started => out_hash[r] >= n

\* Nobody is charged for pushing later than the graded commit was pushed, also
\* when events are missing or responses are lost (collecting after the cutoff).
NeverOvercharged ==
  phase = "done" /\ started >= Cutoff =>
    \A r \in Repos :
      out_hash[r] # NoHash => out_push_time[r] <= PushTime(r, out_hash[r])

\* A submission of a repository that existed before the cutoff is dated before
\* it, so that its late days stay within cutoff_days.
DatedBeforeCutoff ==
  phase = "done" => \A r \in Repos : created[r] < Cutoff => out_push_time[r] < Cutoff

\* Asked for the pages of a repository that was moved and has no answer that ends
\* its search yet.
Endless == phase = "pages" /\ \E r \in Batch \cap moved : ~worker_done[r]

\* The search ends for every repository of every batch, however students push
\* meanwhile: page and worker_done start anew for each batch. It goes on for ever
\* in one case only: for a repository GitHub answers for with a redirection, page
\* after page.
Collected == (phase = "created" ~> phase = "done") \/ <>[]Endless

=============================================================================
