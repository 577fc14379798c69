# A verification project for hand2

hand2 (`src/code`) collects, grades and announces the homework of a course: students push to
repositories of a GitHub organization, teaching assistants run `hand` on their machine. This
directory models the parts of the program whose correctness depends on the order of events, and
on arithmetic that is easy to get wrong, checks the models with TLC and proves the main results
with TLAPS.

## 1. The system

One process, started once per command, no state of its own but two directories: `cache` (clones of
repositories, named `<repo>_<commit>`) and `log`. It talks to GitHub and Google through libcurl,
clones and pushes through libgit2, and runs the grade command of a homework as a child process for
every student repository.

| Component (source) | State it keeps | Operations | Interaction | What is hard |
|---|---|---|---|---|
| Thread pool (`linux_main.c:267-466`) | `next_to_work`, `works[]`, `callback_lock`, pipes, children | create and join threads, claim a work, fork, drain, wait, call back | called by `grade_homework`, which reads `works[i].exit_code` afterwards | claims race; descriptors leak into other children; two pipes to drain; every system call can fail |
| Late submission (`hand.c:7-77`) | none | `calculate_cutoff`, `calculate_late_submission_day` | the cutoff decides which push is graded, the late days its penalty | two different computations that have to agree on weekends, noon and midnight |
| Collection of pushes (`hand_curl.c:405-438, 485-523, 698-852`) | per repository: newest push seen, last resort, result; per batch: page, `worker_done` | creation times, latest commits, pages of events | GitHub and the students, who go on pushing; used by collect, clone and grade | paging while events are added, missing or expired events, lost responses |
| Other queries (`hand_curl.c:241-403, 440-483, 549-696`) | per batch: page, `worker_done` | users, issues, default branches, members, invitations, repositories | used by invite, grade, announce | a lost page looks like the last one |
| Request groups (`hand_curl.c:10-175`) | workers of a curl multi handle | begin, assign, complete, end | under every query | failures are seen as empty responses |
| Repository cache (`hand_git2.c`) | directories `cache/tmp` and `cache/<repo>_<commit>` | cache, clone, push | file system, GitHub | crash between steps, success is "the directory exists" |
| Commands (`hand.c:89-1074`) | output file, feedback repository, issues | collect, clone, grade, announce, invite, config-check | compose all of the above | stale reports, repeated runs, partial failures |
| Templates (`hand.c:517-569, 852-916`) | nesting depth | two stages of `${...}` replacement | grade and announce | nesting, escapes, unmatched braces |
| Configuration (`hand_config.c`) | lexer position, ring of four tokens | load, look ahead | `run_hand` | ring at its limit, prefixes of keys |
| Buffers (`hand_buffer.c`) | capacity and use | reserve, write, append | everywhere | growth at powers of two |
| Windows port (`win32_main.c`) | as the pool | as the pool | | static conversion buffers shared by threads |

What makes each of them correct: every repository is graded exactly once per run and its result is
its own (pool); nobody is charged more days than the deadline allows and no late push is free
(late submission); the commit graded is the last one pushed before the cutoff (collection); no
student is left out (queries); a directory in the cache holds the commit it is named after (cache);
a report that is announced was produced by the grading that was published (commands).
`PROJECT.json` lists the components with their state of modelling, and the hazards of this code
with the properties that answer them.

## 2. Modules

| Module | Models |
|---|---|
| `Pool` | `linux_wait_for_completion`, `linux_thread_proc`, `linux_exec_process`, the children and their pipes |
| `PoolSpec` | what the pool promises its caller, implemented by `Pool` |
| `Deadline` | `calculate_cutoff` step by step, `calculate_late_submission_day`, and a repository that is collected again and again |
| `Pushes` | `retrieve_pushes_before_cutoff` together with GitHub and the students |
| `Feedback` | `grade_homework` and `announce_grade` as far as reports go, with `cache_repository`, `push_to_remote` and the issue requests, run again and again |
| `Checkout` | `cache_repository`, `clone_repository` and the commands built on them, `grade_homework` up to the end of its child processes, `bulk_clone`, `delete_cache_and_log`, run one after another on one disk |
| `Listing` | the lists read page by page: `retrieve_team_members`, `retrieve_existing_invitations`, `retrieve_repos_by_prefix` |
| `Invite` | `invite_students` and `github_users_exist`, on top of `Listing`, while students accept |
| `Config` | `load_config` with `parse_key_value_pair`, `peek_token` and `eat_tokens` |
| `Template` | `format_report_by_file_replacement` and `format_feedback_issues`, one after the other |
| `MCPool`, `MCDeadline`, `MCPushes`, `MCFeedback`, `MCCheckout`, `MCInvite`, `MCText` | constants for TLC; `MCText` composes `Config` and `Template` |
| `PoolProof`, `DeadlineProof`, `PushesProof`, `FeedbackProof`, `CheckoutProof`, `InviteProof`, `ConfigProof`, `TemplateProof` | theorems and their proofs; `InviteProof` is about `Listing` too, `TemplateProof` about `MCText` |

A definition named `X_Something` under a comment that begins "Mutant" is not part of a model: it is
the definition `X` with a plausible bug. Each property is checked to be violated when the mutant
listed for it in `PROJECT.json` takes the place of `X`.

### Pool

Each thread has a location `pc[t]`; the names follow `linux_exec_process` from top to bottom: `read`
and `claim` are the two halves of the loop in `linux_thread_proc` (the read of `next_to_work` and the
compare-and-swap), `begin`/`beginCall` and `end`/`endCall` are before and inside the two callbacks,
`pipe`, `fork`, `close`, `drain` and `wait` the life of the child, `store` the assignment to
`works[i].exit_code`. The main thread stands at `init`, `create`, `join` or `returned`, with its loop
index in `at`. A child is named after its work, which is sound because a work is run once
(`OwnedOnce`).

The pipes are what is delicate. `ends[w]` is the set of processes that hold a write end of the pipes
of work `w`: hand itself from `pipe` to `close`, the child, and every child another thread forks in
between, because the descriptors are not close-on-exec. `ReadStream` sees the end of a stream only when
that set is empty, and `ReadFails` is a `read` that returns -1, which the code takes for the end of the
stream (`linux_main.c:328`, `339`); `lost` remembers on which streams that happened. A pipe holds `PipeCap` bytes, and a child that wants to write more blocks. Bytes
are counted, not represented. The two pipes of a work are created, inherited and closed in one step
each; a fork between the two calls would leak one of them instead of both, which only delays the
end of that one stream, as the leak of both does.

`Fork` chooses what the child will do: any of `Programs` if the work has a checkout, or exit with 255
when `chdir` fails, which for a work without a checkout (`work_dir` null) is the only possibility.
A command is taken to end by itself, and nothing it started keeps the pipes open after it.

`Faults` says which calls may fail: `pthread_mutex_init`, `pthread_create`, `pipe`, `fork`, `select`,
`read`, `waitpid`. The growth of the buffers, the log files and what the callbacks print are left out.

### Deadline

The weekday of a time is computed as `calendar_time` does, at a fixed UTC+8. `Extend` is one
iteration of the loop in `calculate_cutoff` and `ReturnCutoff` what follows it. `Collect` is a run of
collect-homework that finds a newer push before the cutoff. Integers are unbounded:
`day_left * 86400` overflows an `int` only for more than 24855 days.

### Pushes

Time is a clock that may tick at any moment. Commit 0 is the one the repository starts with, commit n
belongs to the n-th push to the requested branch. `events` is what GitHub reports, newest first;
with `MayMiss` a push or the creation may go unreported, which is also what an expired event looks
like. Students push between any two responses. `Handle` is everything the code does with one
response: the scan up to the first event that ends the search, the newest push seen, the
replacement by an unreported latest commit, the last resort, and `worker_done`. A response that is
lost, or is no JSON, has no events (`Faults`). A repository may be renamed or transferred after it was
listed (`Move`): GitHub then answers for its old name with a redirection, a JSON object, which holds
no creation time and no commit, but whose members `cJSON_ArrayForEach` walks like events
(`Redirection`), on every page anew. Responses of one batch are handled in any order,
which covers the order in which the requests themselves were answered.

### Feedback

Any number of commands, one after the other on this machine, and other assistants on theirs. What
outlives a command is GitHub (`remote`, the head of the feedback repository; `tree`, the reports in
each commit; `past`, the commits a commit contains; `issues`) and the files: `clones`, the directories
`cache/<feedback_repo>_<commit>`, each a working tree and a HEAD, and `scores`, the lines of
`out_path`. Gradings are numbered, and a report, a commit or a score is the number of the grading it
comes from, so "older" is a comparison; texts are left out. `mine` is the number of the grading that
runs, `dir` the clone it works in, named after the head it was made of, `base` is `parent_commit`.

`grade_homework` is `BeginGrade` (up to the truncation of `out_path`), `Grade` (repositories,
commands and sheet; that every exit code is there is what `PoolSpec` promises), for each row either
`SkipReport` or `DeleteReport` followed by `WriteReport`, and then `FinishDry` or `Commit` and
`Push`. A grading may push from a clone whose earlier push failed: HEAD is then the unpublished
commit and `base` after it. `Push` moves GitHub's head if the new commit comes after it and resets
HEAD softly, so the working tree keeps the reports. `announce_grade` is `BeginAnnounce` (the clone,
the issue numbers, all reports), one `Announce` for each row, and `FinishAnnounce`. `OthersPush` is
another assistant's whole grading of a student from a clone of the head, at any moment.

`Faults` has `crash` (killed anywhere), `file` (a report or a rename fails), `push` (anything in
`push_to_remote` fails, or the acknowledgement is lost), `request` (a lost response of a write, or a
sheet that cannot be read), `absent` (a repository is not listed) and `lookup` (the list of issues is
lost). Two commands at the same time on one machine share the cache and are not modelled.

### Checkout

The disk is a function from places to directories: `<cache>/<repo>_<commit>` for every repository and
commit, `<cache>/tmp`, and the directories under the one given to bulk-clone. A directory is its
checked out commit (or `Rest`, a part of what there was) and the contents of its `test` and `docker`
directories: the student's own, those of a commit of the template, edited by hand, empty, partial or
missing. `pc` follows `clone_repository` from the deletion of `tmp` (`DeleteTmp`) over `GitClone`,
`GitReset` and `ReplaceOld` to `Rename`, and then the preparation of the student's directory,
`DeleteSubDir` and `CopySubDir` for each of the two. A checkout that fails is not an error of its own:
`Success` is the existence of the directory, as in the code. `Start` begins a command, which knows
nothing of earlier ones but the disk; what the code looks up on GitHub before is the choice of the
hashes in `ListStudents`, with `Pushes` for how they are found. Around a command students push,
assistants edit the cached template (`EditTemplate`), which grading is meant to pick up, and commands
that ran in a directory may leave anything in its tests (`Finish`).

`Faults` has `crash` (killed before, in the middle of or after any operation, `Halfway`), `git` (a
query, a clone or a reset fails), `rename` (its result is ignored), `delete` (`linux_delete_directory`
leaves all, a part or the empty directory of `tmp`, of the directory to be replaced or of a special
one), `copy` (`linux_copy_directory` makes no directory, an empty one or one that lacks files, or
pieces of files) and `clean` (what is left when the cache is deleted). The results of deletions and
copies are ignored by all callers, so the command goes on: `git_clone` refuses a `tmp` that is not empty
and `rename` such a target (`Vacant`). `missed` and `spoilt` are history: the special directories this
command failed to delete or to copy, and the places of which a `clean` left a part. One student after another is cloned and
prepared, as in the code; the child processes are `Pool`'s.

### Listing and Invite

A list is a sequence of names on GitHub. `Answer` is the response to one page of a batch, taken from
the list as it is at that moment, or empty when it is lost. When a batch is complete, `ParsePage` appends
its pages one by one, and the reading ends at the first empty one. `results` keeps what the pages
hold, and `Retrieved` is what the arrays of the code have of it: all of it, or the repositories that
begin with the title. Students who accept move from the invitations into the
list of members at any place, new repositories are put in front. `change` records whether pages may
have shifted under the reading, which is what the properties depend on. `Invite` reads two lists,
asks for accounts in batches (`UsersExist`: `Asked(i)` is the name that goes into the URL), stops if
one does not exist, and invites the rest in the order of the file.

### Config and Template

Characters are left out: the configuration file is the sequence of its tokens, where a character the
lexer does not know is a token like the end of the file, which is what it returns. `PeekToken` is one
call of `peek_token`, `EatTokens` of `eat_tokens`; `TakePair` and `SkipTokens` are the outcomes of
`parse_key_value_pair`. `Begins` says which keys an identifier is the beginning of, since keys are
compared over the length of the identifier, and `Names` what each key is called; as in `g_config_name`
no name begins an earlier one (`NamesInOrder`).

`Template` runs the same text through both stages for all students: `depth`, `identifier` and the
position are the variables of the two loops, which differ at a closing brace (`CloseReport`,
`CloseIssue`). A template is put together from pieces, well formed or with a nested `${`; the expected
text of each piece is `Expansion`. The sheet has at least one row, as the commands make sure before
they use the templates (`hand.c:735`, `hand.c:977`).

The two readers share nothing. `MCText` runs them next to each other so that one run checks both: an
initial state has a configuration file or a template, never both, and the templates are expanded
when the configuration has been read.

## 3. Runs

| Run | Expect | Question |
|---|---|---|
| `pool` | pass | two threads, two works, pipes of one byte, commands that overfill them, one killed by a signal: exclusion, termination, refinement with liveness |
| `pool_faults` | pass | the same with every call failing now and then and a work without a checkout: codes, complete output of every stream that was read to its end, safety refinement, and which hangs are possible |
| `deadline` | pass | four times of day on seven weekdays, -1 to 16 days |
| `pushes` | pass | two repositories in two batches, pages of one event, two pushes and other events, repositories moved meanwhile: which commit, its date, and that the search of every batch ends |
| `pushes_faults` | pass | one repository, three times, unreported events, lost responses and redirections: the dates |
| `feedback` | pass | dry runs, `--only-repo`, announcements, lost requests: scores against reports, which report a student is shown, nothing published is taken back |
| `feedback_faults` | pass | crashes and every failure but a lost list of issues: issues are not doubled, pushes stay possible |
| `checkout` | pass | two students, commands in any order, pushes and edits, one kill or failure of any kind anywhere, deletions and copies done in part included: the cache against its names, the tests against the template, later commands get everybody |
| `invite` | pass | three accounts and a name that is none, lists that change while they are read two pages at a time, lost responses: nothing missed, nobody invited twice, nobody forgotten |
| `text` | pass | every configuration file of up to six tokens; every template of up to three pieces for two students |
| `feedback_unpublished` | violation | reports of a failed push are announced |
| `invite_unchecked` | violation | a name beyond the first batch is invited without being an account |

`CHECK_DEADLOCK FALSE` is set where the system stops by itself: `Deadline`, `Pushes`, `Feedback`,
`Invite` and `MCText` when nothing is left to do within the bounds, and `pool_faults`, where a failing
`select` or `read` really can hang it (`HangsOnlyUnread` says that these are the only ways). In `pool` a deadlock before `returned`
would be an error.

**Bounds.** Two threads and two works are enough for every pair of threads to meet in every pair of
locations; the proofs cover any number. A pipe of one byte makes "full" and "empty" meet after one
write; commands write zero, one or two bytes per stream, so that the second blocks. In `Deadline`
the arithmetic depends on the weekday, on the time of day only through noon and midnight, and on the
number of days; 16 days are four iterations of the loop and contain every combination of weekday and
odd or even number of weekend days; the proofs lift the bound. In `Pushes`, times 1 to 3 with the
cutoff at 3 give events before and at the cutoff, which counts as too late already, and a start on
each side (`pushes_faults`; the run with two batches has the times 1 and 2 and the cutoff at 2). Two
pushes (`MaxPushes`), to one repository or one to each, the creation and other events on pages of one
event make three pages and more, shifted by pushes that arrive in between. `MaxPage` cuts off the pages
of a repository that was moved, which have no end; the others have at most four, and the empty
page after them, so that the bound of five stops no other search. In `Feedback` two students show a row that changes
next to one that must not; three gradings give a clone that is used again after others pushed, or
before; two issues are one too many. Crashes multiply the states, so `feedback_faults` has two
gradings, and announcements between them.

In `Checkout` two students are needed for one directory to be in use while another is made; one push
gives every repository an old and a new commit, or none; one special directory is enough since the
two are treated alike and independently (the proofs have both, and the number of students, pushes
and mishaps is theirs to choose), and one mishap of any kind at any of its places meets everything that commands
before and after it left; for the safety properties the proofs cover any number of them.
In `Invite` pages of one entry, two to a batch, make lists of three entries two batches, and two
changes can move an entry over the edge of a page in both directions. In `text` six tokens are two
pairs in a row, or one between fragments of others, and more than the ring holds; three pieces put
each kind before, between and after every other.

`PublishedAdvances` is checked with pushes that GitHub rejects, and proved with pushes that fail in
any way. `CacheFaithful`, `TestsReplaced` and `Recovers` are checked, and the first two proved, under all
faults of `Checkout`; what they except is named in them place by place, `missed` and `spoilt`.

**Fairness.** `Pool`: weak fairness of the main thread, of each thread and of each child. The kernel
schedules threads and children, and `callback_lock` is free again after a bounded callback. Weak
fairness is enough for the lock in these runs since no thread can take it for ever: each takes it
twice per work. The children are fair because they are assumed to end: there is no timeout on
grading, on purpose (`hand_platform.h:28-31`). `Deadline`: the loop runs. `Pushes`: the program goes
on, every request being answered or given up after 60 s; students owe nothing, and push or move
repositories at any moment. `Collected` therefore holds without any help of theirs, and its exception,
`Endless`, is a loop of the program that goes on for ever.
`Checkout`: a command goes on by itself, libgit2 and the file system being assumed to answer, and
sooner or later somebody gives the next one; nobody has to push, edit, clean or fail.

## 4. Findings

1. `feedback_unpublished`: a failed push leaves its reports in the working tree of the cached clone
   (`hand.c:813`). GitHub's head has not moved, so announce-grade uses that clone as it is
   (`hand_git2.c:122`) and announces grades the feedback repository does not contain.
2. `invite_unchecked`: `github_users_exist` puts the name at the place in the batch into the URL and the
   answer at the place in the array (`hand_curl.c:330`), so from the 65th student on it is the name of
   another student that is looked up, and one that is no account is invited.

Limits of what the properties promise, each excluded by an assumption of theirs or of the run:

- Thread pool. A command that never ends keeps the pool from returning; all liveness assumes that
  commands end. `works[]` is zeroed and `exit_code == 0` means success, so if the mutex or every thread
  fails to be created all students are graded without a run of the command (`linux_main.c:453`):
  `ReturnComplete` allows for it, `UnpreparedFails` and `CodesMatch` are about executed works.
- Late submission. With weekends as one day, a deadline before a weekend and two days, say Thursday
  night, grants until Saturday night, though a push on Sunday would be charged two days as well: the
  loop halves the weekend days of each iteration separately (`hand.c:53`). `WithinCutoffDays` says that
  nobody is charged too much, not that the cutoff is the latest possible.
- Collection. A repository whose only reported events are at or after the cutoff is graded at its latest
  commit, dated with its creation (`hand_curl.c:834`), and the comparison with the latest commit
  (`hand_curl.c:825`) does not check that it is known, so that a single lost response discards a
  push that was found. `DatedBeforeCutoff` and `NeverOvercharged` are about dates; `ExactAfterCutoff` is
  checked without lost responses.
- Redirections. hand does not follow them, and the pages of a list are walked with `cJSON_ArrayForEach`,
  which takes the members of an object for elements as well (`hand_curl.c:761`): for a repository that is
  moved after it was listed the search never ends (`hand_curl.c:840`), which `Collected` names as its only
  exception, and `ExactAfterCutoff` and `NotOlderThanStart` are about the others. The lists of members,
  invitations and repositories end in the same way (`hand_curl.c:578`, `625`, `678`), but they are asked
  of the organization and the team by the name in the configuration; `Listing` has arrays only.
- Request groups. `end_curl_group` counts a request as failed when curl reports it so; if curl gives up on
  the whole group (`hand_curl.c:105`, `109`) it reports nothing, and the group counts as a success. `Invite`
  has requests that fail one by one, so `EveryoneSettled` says nothing of that case.
- Issues. A lost response with the list of issues looks like the end of the list (`hand_curl.c:396`), and
  announce-grade creates a second issue: `OneIssue` is without the fault `lookup`.
- Reports. The report of a student is written only when the command exits with 0 (`hand.c:766`); otherwise
  an earlier report stays published and is announced again, while the score in `out_path` is 0:
  `ScoresMatchReports` is about the rows that passed. Hand killed between the deletion of a report and
  its writing leaves a clone without it, and a later push from that clone that does not grade the
  student again removes the published report: `PublishedAdvances` is checked and proved without crashes
  and failing file operations.
- Cache. A `clean` that is cut short leaves directories with a part of their files, which are used as
  they are from then on (`hand_git2.c:122`): `CacheFaithful` and `Recovers` except the places in `spoilt`. A
  special directory that cannot be deleted keeps what it holds, because `copy_directory` does nothing
  when its target exists, and a copy that fails leaves a part (`hand.c:714-717`); the student is graded all
  the same: `TestsReplaced` excepts this student's directory, for this command. bulk-clone counts what is
  left of a directory it could not delete, and a directory of an earlier run when the new clone
  fails, as success (`hand_git2.c:106`, `109`), with whatever commit or part it has: nothing is promised of it
  before a run in which nothing fails (`Recovers`).
- Lists. An entry that moves to a page that was read already is not seen, nor is anything behind a lost
  page (`hand_curl.c:684`): `NoneMissed` is about lists that stay as they are, or grow between batches.
  A student who accepts between the two readings is on neither list and invited again, which
  changes nothing on GitHub; `NoRepeatedInvitation` is about what the lists held when each was read.
- Configuration. A character the lexer does not know ends the file; a malformed line can swallow the key
  of the next one (`hand_config.c:232`): `LoadedAsWritten` is about pairs nothing before them disturbs. A
  table with a name that begins an earlier one would send its values to the wrong key; the table of
  hand2 has none (`NamesInOrder`).
- Templates. A student's file is inserted before the second stage scans for `${`, `$$` and `}`
  (`hand.c:551`), so these are read as the template's; a closing brace that follows no `${` in the
  template ends the program (`hand.c:545`). `Expanded` is about well-formed pieces and files without them.

## 5. Proofs

All theorems hold for every value of the constants, under the assumptions named in the modules
(`ThreadCount`, `WorkCount` natural, `PipeCap` positive, programs well typed; deadlines natural,
`CutoffDays` and `Offsets` integers; at least one row in the sheet).

**Pool** (`PoolProof`). `TypeOK` is not inductive: that `next_to_work` stays within `WorkCount` needs
that a thread about to swap holds an index below it, `ClaimBounds`; `Typed` is the conjunction.
`OwnedOnce` is inductive relative to `Typed`: a successful swap hands out the index `next`, which all
owned indices are below. For `CallbacksExclude`, `LockHeld` says that being inside a callback and
being the holder of the lock are the same; `Started` ties `valid` to the threads that run. `Joins`
says joined threads have exited, `Called` ties the counts of the callbacks to the claim and the
location of the owner, and together they give `ReturnComplete`.

The second half is about the children. `Children` describes, for each location of the owner, how
far the child is and which code the thread holds; it gives `CodesMatch`, and with `Plans` (a work
without a checkout can only have the child that exits with 255) `UnpreparedFails`. `Pipes` says that a
running child holds its own write ends, so that the end of a stream is seen only after the child is
gone and all it wrote has been read, except on a stream in `lost`: `OutputComplete`, whichever other
children inherited the write ends. `PoolKeepsPromise` is the refinement: only `Claim`, `StoreCode` and `Return` are visible to the
caller and are the steps `Take`, `Finish` and `Return` of `PoolSpec`, every other step is a stutter.

**Deadline** (`DeadlineProof`). The loop invariant `Granted`: the cutoff is a whole number of days n
after the deadline, and what those n days cost plus the days left is at most `cutoff_days`. An
iteration keeps it because counting weekend days is additive (`WeekendDaysAdd`) and two halves
rounded down are at most the half of the sum (`GrantStep`). From it and the monotonicity of the
charge, `CutoffIsSound`: nobody is charged more than `cutoff_days`. `PenaltyIsMonotone` and
`LatenessIsCharged` follow from the same lemmas, `LoopShrinks` from `GrantStep`; no run checks the last
two. `DiscountIsTheCalendars` compares the two divisions of the code with a count of days: each day
more adds one on both sides or none (`OneMoreDay`), and the least number of days for which they differ
would be one more than one for which they do not (`WeekendCount`). The first day that counts is that
of the deadline or the next one, by where most of its 24 hours lie (`MostOfTheDay`).

**Pushes** (`PushesProof`). The invariant has four parts. `World`: pushes are in the order of time,
what GitHub reports has happened, is in order, and is everything unless `MayMiss`. `Resorts` and
`Known`: the latest commit is none that a push before the command's start is newer than, and is known
if no such response is lost. `Batches`: repositories in front of the batch have been searched, those
behind it are untouched, which keeps results apart. `Searched`: as long as a repository's search goes
on, none of the first `Read(r)` events ends it, except those that came after the start, and every
push among them up to the latest commit has been taken into account; when it has ended, its result
is the one the theorems speak of. The step that matters is an answered page (`SearchedPage`): events
that came in since the last page only move the read ones further back, so that a page may repeat
events but skips none. `Dated` relates the date of a result to the push it is of, and holds whatever
is missing or lost: `SubmissionsDated`, `NobodyOvercharged`. `NeverOlderThanStart` assumes that GitHub
reports every push and says which commit is the latest (`~MayMiss`, no fault `latest`),
`ExactWhenCollectedLate` also that no page is lost; both are about repositories that were not moved. Without these the properties are false, see section 4.

**Feedback** (`FeedbackProof`). `Typed` adds to `TypeOK` that the clone a command uses exists and
that a report is written only for a row that passed. `History` is about commits: a commit contains
what the commits before it contain (`Nested`), a clone never loses the commit it was made of,
whatever failed pushes put on top (`Rooted`), a grading's number is used by no commit before it
commits (`Unused`, without which `Commit` could overwrite a tree), and during the push HEAD is the
new commit on top of `base` (`OnTop`). It holds under all faults, and `Rooted` and `OnTop` give
`PushPossible`. `Advance` relates reports to it: from a commit to any later one no report becomes
older, nor from the commits of a clone to its working tree, except for the one that is being
replaced; with GitHub accepting only what comes after its head this is `PublishedAdvances`. It needs
that no crash or file error leaves a deleted report behind. `Listed` says that the issue numbers of
the rows to come are up to date, which is what makes creating an issue safe: `AtMostOneIssue`.
`Clean` says that a clone of GitHub's head that is not being worked in has the reports of the head,
and `Shown` that all bodies, those of issues and those read but not sent yet, are published:
`OnlyPublishedAnnounced`, which therefore assumes that no crash, file error or failed push leaves
something behind in a clone. `Fresh` adds that while grades are announced nobody has seen a newer report
than the one about to be announced, by `Advance` and because what is shown is published:
`AnnouncingAdvances`, under the same assumption. `Written` follows `out_path` while it is written: each
line belongs to a row already done, without `--only-repo` line i to row i, and a score that is not 0
stands for a report of this grading in the working tree, and after `Commit` in the tree of the
commit: `ScoresComeWithReports`, whatever an earlier command left in the clone. Each theorem names the faults it excludes; the run
`feedback_unpublished` shows what one of them does.

**Checkout** (`CheckoutProof`). `Typed` adds to `TypeOK` what the checkout at work is for, the template or
one student who has no directory yet (`Aimed`), and that prepared directories are not taken away
again (`Kept`); without them, copies and deletions could meet a directory that is not there. `Made`
says that a directory of the cache is made only while it is not there, from a clone that was set to
the commit in its name, which is what kills between deletion and renaming depend on: `CacheIsFaithful`.
`Replaced` relates disk and template: the template is a cached directory no student works in
(`Sourced`), prepared students have its tests (`Served`), and the directory at work has lost its own
where they were deleted (`Emptied`) and has the template's where they were copied (`Filling`):
`TestsAreTheTemplates`. A step of the preparation changes one directory as it should and adds nothing to
`missed`, or leaves any of several remains and adds it (`DeleteOne`, `CopyOne`). Both theorems hold under all
faults.

**Config** (`ConfigProof`). `TokensInOrder` with `TypeOK` is inductive: writing at the position behind the
buffered tokens lengthens them by one of the file (`Distance`), eating shortens them (`Closer`), and
with three of four places in use the two positions are never the same by wrapping around. `Loaded` is
about values: `Eaten`, the place of the first token that is not eaten, never stands inside a pair that
nothing before disturbs, every value is that of a pair in front of it, and a key whose last pair lies
in front of it has that pair's value: `ValuesAsWritten`. The property says which key a pair is for
without the search of `load_config`; `SetsItsKey` shows that the search finds it.

**Listing and Invite** (`InviteProof`). A list changes while its pages are on their way, so that what
was read is not a part of any list GitHub has now. `Follows(k, L)` says what it is a part of: a list L
that is the current one until the last page of a batch is answered, and stays what it was then
while the batch is parsed; the pages of the batch are those of L, no entry of L is further ahead than
it is in the current list (`Grown`), and each entry that was there in the beginning is in the results
or ahead of what was read (`Ahead`). When entries are added between two batches, L moves on and `Ahead`
stays true because entries are only moved back; an empty page says that nothing is ahead (`PageRead`).
While nothing changes, the results are the front of L (`Whole`). That is `NothingMissed`. `Seen` says
that whoever was read is still a member or invited, since nobody leaves the two lists together
(`PeopleStay`), and `Sent` that those who are to be invited are not known and that all others are, or
were reported: `InvitedOnce` and `SettledInTheEnd`. `AccountsInvited` shows that the promise refuted by
`invite_unchecked` holds if the file has no more names than a batch and no response is lost, so that
these are its only conditions.

**Template** (`TemplateProof`). The reference text of `Expanded` is `FlattenSeq` of the parts, which the
library defines by recursion; what the proofs need of it is that one part more appends that part
(`SofarFacts`) and where in the whole each part lies (`PartLies`, `PartAt`). The inductive invariant is
`TwoStages`. A stage reads one sequence of parts, `Source`, and is to write another, `Target`: the first
stage turns the pieces into `Reported(row)`, the second turns that into `Issued(row)`. `Position` says
that the reader is at word k of part n and what follows from it: nothing of the part is written
before its last word, unless the part is a student's file, which the second stage copies word by
word; `depth` is that of word k and `identifier` points behind the outer brace. `OtherRows` says which
rows are through and which are untouched, and `success` is `Known` of the labels passed so far.
`WordRead` goes through the words of each piece (`Characters`) and shows what the scan does with it:
it stays within the part (`Within`) or completes it with exactly what is to be written (`Completed`),
where the identifier must be what stands between the outer braces (`Between`); `RowDone` and
`StageDone` go on to the next row and to the second stage. That is `StagesExpand`, under the
condition `PlainFiles`: with braces or dollars in a student's file it is false, see section 4. `FormatTypeCorrect` holds for all files. `Readers` says that the composition `MCText`
implements both of its parts, which carries over every theorem about either of them: `BothTyped`.

**Only model-checked**: liveness (`PromiseKept` beyond its safety part `PromiseSafety`, `CutoffReturned`,
`Collected`, `Recovers`) and `HangsOnlyUnread`, which uses ENABLED. Where counting or searching a
sequence needs an induction (`WeekendCount`, `AddsExists`, `PushesProof`, `InviteProof`, `ConfigProof`),
the proofs take the least number for which a fact fails; so is the library's recursive function
behind `FlattenSeq` shown to exist and unfolded.

## 6. What is not modelled, and the plan

Still to be done, in this order:

1. A composition of `Deadline` and `Pushes`: the days charged for the commit graded.
2. `Requests`: the curl group and its waiting loop (`hand_curl.c:10-175`) as the specification that
   `Pushes` and `Listing` assume: every request is answered once, with a response or as lost.

Not planned, because little is decided there: collect_homework prints what `Pushes` and `Deadline`
compute; config-check prints the answers to single requests; growable buffers and string arrays are
sequential code whose only state is a size, and sequences stand for them everywhere; Google sheets are
read in one request, whose failure is a fault of `Feedback`.

Left out for good: the Windows port (the same pool over other system calls), the parsing of command
lines, the text of tables and messages, the function tables of libcurl and libgit2, vendored code,
build scripts and images. Liveness and ENABLED are beyond the prover and stay with TLC.
