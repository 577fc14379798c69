------------------------------ MODULE Checkout ------------------------------
(***************************************************************************)
(* How a commit of a repository gets into a directory: cache_repository    *)
(* and clone_repository, the preparation of a student's directory with the *)
(* template's test and docker directories, and the commands that use them, *)
(* grade-homework, bulk-clone and clean, run one after another on one disk *)
(* while students push.                                                    *)
(***************************************************************************)
EXTENDS Integers, FiniteSets

CONSTANTS
  Template,    \* the template repository of the homework
  StudentCount,\* students' repositories, in the order they are listed
  SubDirs,     \* directories taken from the template: test and docker
  MaxPushes,   \* bound on the pushes to all repositories together
  Faults,      \* what may go wrong, see FaultKinds
  MaxMishaps   \* bound on how often something goes wrong

\* A killed process; a query, clone or reset that fails; a deletion that leaves
\* something, of a whole directory or of its test or docker directory; a copy that
\* is not complete; a clean that leaves something; a rename across file systems.
FaultKinds == {"crash", "git", "delete", "copy", "clean", "rename"}

Students == 1..StudentCount
Repos    == Students \cup {Template}
Commits  == 1..MaxPushes + 1
NoHash   == 0          \* a GitCommitHash that is all zero

ASSUME StudentsListed == StudentCount \in Nat \ {0}
ASSUME SubDirsNamed == SubDirs # {} /\ SubDirs \subseteq {"test", "docker"}
ASSUME BoundsAreNat == {MaxPushes, MaxMishaps} \subseteq Nat
ASSUME FaultsAreKinds == Faults \subseteq FaultKinds
ASSUME TemplateIsNoStudent == Template \notin Nat

\* Where directories are: <cache_dir>/<repo>_<hash>, the parent directory given to
\* bulk-clone, and <cache_dir>/tmp.
Cached(r, c) == <<"cache", r, c>>
Bulk(r)      == <<"bulk", r>>
Tmp          == <<"tmp">>
InCache      == {Cached(r, c) : r \in Repos, c \in Commits} \cup {Tmp}
Paths        == InCache \cup {Bulk(r) : r \in Students}

\* A directory is its checked out commit and the contents of its two special
\* directories: those of a commit of the template, or one of the following.
None   == 0    \* there is no directory
Rest   == -1   \* a part of what there was
Empty  == -2
Own    == -3   \* what the student's commit holds
Edited == -4   \* what an assistant made of the template by hand
Whole(tree, sub) == [tree |-> tree, sub |-> [d \in SubDirs |-> sub]]
NoDir  == Whole(None, None)
Dir    == {NoDir} \cup [tree : {Rest, Empty} \cup Commits,
                       sub  : [SubDirs -> {None, Rest, Empty, Own, Edited} \cup Commits]]
RestOfDir == Whole(Rest, Rest)
EmptyDir  == Whole(Empty, None)
Fresh(r, c) == Whole(c, IF r = Template THEN c ELSE Own)

VARIABLES
  head,       \* GitHub: the latest commit of every repository
  disk,       \* the contents of every path
  pc,         \* where the command stands
  cmd,        \* "grade", or "bulk" with or without a template
  job,        \* repository, hash and path of the checkout at work
  wanted,     \* the hash to be graded or cloned of each student
  template,   \* template_dir
  todo,       \* special directories still to be deleted and to be copied
  prepared,   \* students whose directory is ready
  mishaps,    \* what went wrong so far
  missed,     \* history: special directories of students this command could not
              \* delete or copy
  spoilt      \* history: places of which the last clean left a part

vars == <<head, disk, pc, cmd, job, wanted, template, todo, prepared, mishaps, missed, spoilt>>

Job     == [repo : Repos, hash : Commits \cup {NoHash}, path : Paths]
NoJob   == [repo |-> Template, hash |-> NoHash, path |-> Tmp]
NoTodo  == [delete |-> {}, copy |-> {}]

TypeOK ==
  /\ head \in [Repos -> Commits]
  /\ disk \in [Paths -> Dir]
  /\ pc \in {"idle", "cache", "assert", "tmp", "clone", "reset", "replace", "rename", "check",
             "list", "delete", "copy", "next", "ready"}
  /\ cmd \in {"grade", "bulk", "bulk template"}
  /\ job \in Job
  /\ wanted \in [Students -> Commits \cup {NoHash}]
  /\ template \in Paths
  /\ todo \in [delete : SUBSET SubDirs, copy : SUBSET SubDirs]
  /\ prepared \in SUBSET Students
  /\ mishaps \in 0..MaxMishaps
  /\ missed \in SUBSET (Students \X SubDirs)
  /\ spoilt \in SUBSET InCache

\* An earlier run may have left something in the temporary directory.
Init ==
  /\ head = [r \in Repos |-> 1]
  /\ disk \in {[p \in Paths |-> NoDir], [p \in Paths |-> IF p = Tmp THEN RestOfDir ELSE NoDir]}
  /\ pc = "idle" /\ cmd = "grade"
  /\ job = NoJob /\ wanted = [s \in Students |-> NoHash]
  /\ template = Tmp /\ todo = NoTodo
  /\ prepared = {}
  /\ mishaps = 0
  /\ missed = {} /\ spoilt = {}

-----------------------------------------------------------------------------
(* The world around the command.                                           *)

May(fault) == fault \in Faults /\ mishaps < MaxMishaps
Mishap     == mishaps' = mishaps + 1

Push(r) ==
  /\ head[r] <= MaxPushes
  /\ Cardinality({rc \in Repos \X Commits : rc[2] < head[rc[1]]}) < MaxPushes
  /\ head' = [head EXCEPT ![r] = @ + 1]
  /\ UNCHANGED <<disk, pc, cmd, job, wanted, template, todo, prepared, mishaps, missed, spoilt>>

\* An assistant edits the cached template between two commands.
EditTemplate ==
  /\ pc = "idle"
  /\ \E c \in Commits, d \in SubDirs :
       /\ disk[Cached(Template, c)].tree = c
       /\ disk' = [disk EXCEPT ![Cached(Template, c)].sub[d] = Edited]
  /\ UNCHANGED <<head, pc, cmd, job, wanted, template, todo, prepared, mishaps, missed, spoilt>>

-----------------------------------------------------------------------------
(* cache_repository and clone_repository.                                  *)

Goto(label) == pc' = label
OnlyDisk    == UNCHANGED <<head, cmd, job, wanted, template, todo, prepared, missed, spoilt>>
OnlyPc      == UNCHANGED disk /\ OnlyDisk

\* Nothing of a command outlives it but the disk.
EndCommand ==
  /\ Goto("idle")
  /\ cmd' = "grade" /\ job' = NoJob /\ wanted' = [s \in Students |-> NoHash]
  /\ template' = Tmp /\ todo' = NoTodo /\ prepared' = {} /\ missed' = {}

Exists(p) == disk[p].tree # None
Vacant(p) == disk[p] \in {NoDir, EmptyDir}

\* What is left where the process may be killed halfway through an operation.
Halfway ==
  CASE pc = "tmp" /\ Exists(Tmp)          -> {[disk EXCEPT ![Tmp] = RestOfDir]}
    [] pc \in {"clone", "reset"}          -> {[disk EXCEPT ![Tmp] = RestOfDir]}
    [] pc = "replace" /\ Exists(job.path) -> {[disk EXCEPT ![job.path] = RestOfDir]}
    [] pc = "delete"                      -> {[disk EXCEPT ![job.path].sub[d] = Rest] :
                                               d \in todo.delete}
    [] pc = "copy"                        -> {[disk EXCEPT ![job.path].sub[d] = Rest] :
                                               d \in todo.copy}
    [] OTHER                              -> {}

Crash ==
  /\ May("crash") /\ pc # "idle"
  /\ disk' \in {disk} \cup Halfway
  /\ EndCommand /\ Mishap
  /\ UNCHANGED <<head, spoilt>>

\* Mutant: the hash is not looked at.
CacheRepository_Unchecked ==
  /\ pc = "cache"
  /\ Goto(IF Exists(job.path) THEN "check" ELSE "tmp")
  /\ OnlyPc /\ UNCHANGED mishaps

\* An existing directory is used as it is.
CacheRepository ==
  /\ pc = "cache"
  /\ Goto(IF job.hash = NoHash \/ Exists(job.path) THEN "check" ELSE "tmp")
  /\ OnlyPc /\ UNCHANGED mishaps

\* bulk-clone hands on the hash of a repository without one: the assertion in
\* clone_repository, which no build disables, ends the program.
AssertHash ==
  /\ pc = "assert"
  /\ IF job.hash = NoHash THEN EndCommand
     ELSE Goto("tmp") /\ UNCHANGED <<cmd, job, wanted, template, todo, prepared, missed>>
  /\ UNCHANGED <<head, disk, mishaps, spoilt>>

\* Mutant: what an earlier run left in the temporary directory is kept.
DeleteTmp_Kept ==
  /\ pc = "tmp"
  /\ Goto("clone")
  /\ OnlyPc /\ UNCHANGED mishaps

\* A deletion that fails leaves everything (opendir), some entries and what holds
\* them (stat, unlink) or the empty directory (rmdir); no caller looks at the result.
DeleteDir(p) ==
  \/ disk' = [disk EXCEPT ![p] = NoDir] /\ UNCHANGED mishaps
  \/ /\ May("delete") /\ Exists(p) /\ Mishap
     /\ \E left \in {disk[p], RestOfDir, EmptyDir} : disk' = [disk EXCEPT ![p] = left]

DeleteTmp ==
  /\ pc = "tmp"
  /\ Goto("clone")
  /\ DeleteDir(Tmp)
  /\ OnlyDisk

\* git_clone refuses a directory that is not empty.
GitClone ==
  /\ pc = "clone"
  /\ \/ /\ Vacant(Tmp)
        /\ disk' = [disk EXCEPT ![Tmp] = Fresh(job.repo, head[job.repo])]
        /\ Goto("reset") /\ UNCHANGED mishaps
     \/ /\ ~Vacant(Tmp)
        /\ Goto("check") /\ UNCHANGED <<disk, mishaps>>
     \/ /\ May("git")
        /\ Goto("check") /\ Mishap /\ UNCHANGED disk
  /\ OnlyDisk

\* Mutant: the clone stays at the latest commit.
GitReset_Skipped ==
  /\ pc = "reset"
  /\ Goto("replace")
  /\ OnlyPc /\ UNCHANGED mishaps

\* The commit is looked up in the clone, which may lack it, and checked out.
GitReset ==
  /\ pc = "reset"
  /\ \/ /\ disk' = [disk EXCEPT ![Tmp] = Fresh(job.repo, job.hash)]
        /\ Goto("replace") /\ UNCHANGED mishaps
     \/ /\ May("git")
        /\ Goto("check") /\ Mishap /\ UNCHANGED disk
  /\ OnlyDisk

ReplaceOld ==
  /\ pc = "replace"
  /\ Goto("rename")
  /\ DeleteDir(job.path)
  /\ OnlyDisk

\* rename replaces an empty target and refuses one that is not empty; its result
\* is ignored.
Rename ==
  /\ pc = "rename"
  /\ Goto("check")
  /\ \/ /\ disk' = IF ~Vacant(job.path) THEN disk
                   ELSE [disk EXCEPT ![job.path] = disk[Tmp], ![Tmp] = NoDir]
        /\ UNCHANGED mishaps
     \/ May("rename") /\ Mishap /\ UNCHANGED disk
  /\ OnlyDisk

\* Success is the existence of the directory, whoever made it.
Success == job.hash # NoHash /\ Exists(job.path)

-----------------------------------------------------------------------------
(* grade_homework, bulk_clone and delete_cache_and_log.                    *)

\* retrieve_latest_commit of the template, without which nothing is done.
StartWithTemplate ==
  /\ pc = "idle"
  /\ \/ /\ cmd' \in {"grade", "bulk template"}
        /\ job' = [repo |-> Template, hash |-> head[Template],
                   path |-> Cached(Template, head[Template])]
        /\ Goto("cache") /\ UNCHANGED mishaps
     \/ May("git") /\ Mishap /\ UNCHANGED <<pc, cmd, job>>
  /\ UNCHANGED <<head, disk, wanted, template, todo, prepared, missed, spoilt>>

StartBulk ==
  /\ pc = "idle"
  /\ Goto("list") /\ cmd' = "bulk"
  /\ UNCHANGED <<head, disk, job, wanted, template, todo, prepared, mishaps, missed, spoilt>>

TemplateReady ==
  /\ pc = "check" /\ job.repo = Template
  /\ IF Success
     THEN /\ Goto("list") /\ template' = job.path
          /\ UNCHANGED <<cmd, job, wanted, todo, prepared, missed>>
     ELSE EndCommand
  /\ UNCHANGED <<head, disk, mishaps, spoilt>>

\* The student after s, if there is one.
Turn(s) ==
  IF s <= StudentCount
  THEN /\ Goto(IF cmd = "grade" THEN "cache" ELSE "assert")
       /\ job' = [repo |-> s, hash |-> wanted'[s],
                  path |-> IF cmd # "grade" THEN Bulk(s)
                           ELSE IF wanted'[s] = NoHash THEN Tmp ELSE Cached(s, wanted'[s])]
  ELSE Goto("ready") /\ UNCHANGED job

\* retrieve_pushes_before_cutoff: some commit of every repository, or none.
ListStudents ==
  /\ pc = "list"
  /\ \E hash \in [Students -> Commits \cup {NoHash}] :
       /\ \A s \in Students : hash[s] <= head[s]
       /\ \/ (\A s \in Students : hash[s] # NoHash) /\ UNCHANGED mishaps
          \/ (\E s \in Students : hash[s] = NoHash) /\ May("git") /\ Mishap
       /\ wanted' = hash
  /\ Turn(1)
  /\ UNCHANGED <<head, disk, cmd, template, todo, prepared, missed, spoilt>>

StudentReady ==
  /\ pc = "check" /\ job.repo \in Students
  /\ IF Success /\ cmd # "bulk"
     THEN Goto("delete") /\ todo' = [delete |-> SubDirs, copy |-> SubDirs]
     ELSE Goto("next") /\ UNCHANGED todo
  /\ prepared' = IF Success /\ cmd = "bulk" THEN prepared \cup {job.repo} ELSE prepared
  /\ UNCHANGED <<head, disk, cmd, job, wanted, template, mishaps, missed, spoilt>>

\* Mutant: a directory that is there already is left as it is.
DeleteSubDir_OnlyNew ==
  /\ pc = "delete"
  /\ todo' = [todo EXCEPT !.delete = {}]
  /\ Goto("copy")
  /\ UNCHANGED <<head, disk, cmd, job, wanted, template, prepared, mishaps, missed, spoilt>>

\* What is in a special directory becomes `to', or, where `fault' strikes, one of
\* `instead'; the results of delete_directory and copy_directory are ignored.
Change(d, to, fault, instead) ==
  \/ /\ disk' = [disk EXCEPT ![job.path].sub[d] = to]
     /\ UNCHANGED <<mishaps, missed>>
  \/ /\ May(fault) /\ Mishap
     /\ \E left \in instead : disk' = [disk EXCEPT ![job.path].sub[d] = left]
     /\ missed' = missed \cup {<<job.repo, d>>}

\* The order of the two directories makes no difference.
DeleteSubDir ==
  /\ pc = "delete"
  /\ \E d \in todo.delete :
       /\ todo' = [todo EXCEPT !.delete = @ \ {d}]
       /\ LET old == disk[job.path].sub[d] IN
          Change(d, None, "delete", IF old = None THEN {} ELSE {old, Rest, Empty})
  /\ Goto(IF Cardinality(todo.delete) = 1 THEN "copy" ELSE "delete")
  /\ UNCHANGED <<head, cmd, job, wanted, template, prepared, spoilt>>

\* copy_directory makes the target before it opens the source, and does nothing
\* when the target exists. One that fails has made no target (mkdir), an empty one
\* (opendir), or one in which files are missing or cut off (stat, fopen, fread,
\* fwrite).
Copy(target, source) ==
  IF target # None THEN target ELSE IF source = None THEN Empty ELSE source

CopySubDir ==
  /\ pc = "copy"
  /\ \E d \in todo.copy :
       /\ todo' = [todo EXCEPT !.copy = @ \ {d}]
       /\ LET old == disk[job.path].sub[d] IN
          Change(d, Copy(old, disk[template].sub[d]), "copy",
                 IF old = None THEN {None, Rest, Empty} ELSE {})
  /\ IF Cardinality(todo.copy) = 1
     THEN Goto("next") /\ prepared' = prepared \cup {job.repo}
     ELSE UNCHANGED <<pc, prepared>>
  /\ UNCHANGED <<head, cmd, job, wanted, template, spoilt>>

NextStudent ==
  /\ pc = "next"
  /\ UNCHANGED wanted
  /\ Turn(job.repo + 1)
  /\ UNCHANGED <<head, disk, cmd, template, todo, prepared, mishaps, missed, spoilt>>

\* wait_for_completion runs a command in every prepared directory, and what it
\* leaves in the test and docker directories stays there.
Finish ==
  /\ pc = "ready"
  /\ \E used \in SUBSET (IF cmd = "grade" THEN prepared ELSE {}) :
       disk' = [p \in Paths |->
                  IF \E s \in used : p = Cached(s, wanted[s])
                  THEN [disk[p] EXCEPT !.sub = [d \in SubDirs |-> Rest]] ELSE disk[p]]
  /\ EndCommand
  /\ UNCHANGED <<head, mishaps, spoilt>>

\* What cannot be deleted, or was not reached, stays, as a whole or in part.
Clean ==
  /\ pc = "idle"
  /\ \E stays \in SUBSET (IF May("clean") THEN {p \in InCache : Exists(p)} ELSE {}) :
     \E part \in SUBSET stays, left \in {RestOfDir, EmptyDir} :
       /\ disk' = [p \in Paths |-> IF p \in part THEN left
                                 ELSE IF p \in InCache \ stays THEN NoDir ELSE disk[p]]
       /\ mishaps' = IF stays = {} THEN mishaps ELSE mishaps + 1
       /\ spoilt' = (spoilt \cap stays) \cup part
  /\ UNCHANGED <<head, pc, cmd, job, wanted, template, todo, prepared, missed>>

Command ==
  \/ CacheRepository \/ AssertHash \/ DeleteTmp \/ GitClone \/ GitReset \/ ReplaceOld \/ Rename
  \/ TemplateReady \/ ListStudents \/ StudentReady \/ DeleteSubDir \/ CopySubDir
  \/ NextStudent \/ Finish
Start == StartWithTemplate \/ StartBulk
World == (\E r \in Repos : Push(r)) \/ EditTemplate \/ Clean \/ Crash
Next  == Command \/ Start \/ World
Spec  == Init /\ [][Next]_vars

\* A command goes on by itself, and sooner or later the next one is given.
FairSpec == Spec /\ WF_vars(Command) /\ WF_vars(Start)

-----------------------------------------------------------------------------
(* What must hold.                                                         *)

\* A directory of the cache is looked up by its name alone, so whatever is killed
\* or fails while it is made, and however far the repository has moved on, it
\* holds the whole commit its name promises or is not there (cache_repository).
\* Only a clean that left a part of it is beyond what cache_repository can tell.
CacheFaithful ==
  \A r \in Repos, c \in Commits :
    Cached(r, c) \in spoilt \/ disk[Cached(r, c)].tree \in {None, c}

DirOf(s) == IF cmd = "grade" THEN Cached(s, wanted[s]) ELSE Bulk(s)

\* When commands are run in them, or bulk-clone has ended, the special directories
\* of every prepared student are the template's as it is on disk, edits included,
\* not what an earlier command, a kill or the student left there. A deletion or a
\* copy that fails spoils the one directory it failed on, for this one command:
\* not the other student's, nor what the next command makes of it.
TestsReplaced ==
  (pc = "ready" /\ cmd # "bulk") =>
    \A s \in prepared, d \in SubDirs :
      <<s, d>> \in missed \/ disk[DirOf(s)].sub[d] = Copy(None, disk[template].sub[d])

\* Whatever kills, failed clones, deletions, copies and renames leave behind, later
\* commands retrieve every student again: nothing left in the temporary directory,
\* half deleted or half copied, blocks them for ever or is taken for their commit.
\* Only a place of which a clean left a part is used as it is until it is cleaned.
Recovers ==
  []<>(/\ pc = "ready"
       /\ \A s \in Students : /\ s \in prepared
                              /\ DirOf(s) \in spoilt \/ disk[DirOf(s)].tree = wanted[s])

=============================================================================
