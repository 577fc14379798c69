--------------------------- MODULE CheckoutProof ----------------------------
(***************************************************************************)
(* Proofs about Checkout, for any number of students, pushes and mishaps:  *)
(* type correctness, the cache that holds what its names say, and the      *)
(* tests that are the template's.                                          *)
(***************************************************************************)
EXTENDS Checkout, FiniteSetTheorems, TLAPS

-----------------------------------------------------------------------------
(* Paths and directories.                                                  *)

Subs == {None, Rest, Empty, Own, Edited} \cup Commits

\* Different names are different places, and the template's is nobody's.
LEMMA PathFacts ==
  /\ \A r, c : Cached(r, c) # Tmp /\ Bulk(r) # Tmp
  /\ \A r, c, s : Cached(r, c) # Bulk(s)
  /\ \A r, c, s, e : Cached(r, c) = Cached(s, e) => r = s /\ c = e
  /\ \A r, s : Bulk(r) = Bulk(s) => r = s
  /\ \A s \in Students : s # Template
  /\ Students \subseteq Repos /\ Template \in Repos
BY TemplateIsNoStudent DEF Cached, Bulk, Tmp, Students, Repos

LEMMA PathTypes ==
  /\ Tmp \in Paths
  /\ \A r \in Repos, c \in Commits : Cached(r, c) \in Paths
  /\ \A s \in Students : Bulk(s) \in Paths
BY DEF Paths, InCache

LEMMA CommitFacts ==
  /\ Commits \subseteq Nat \ {0}
  /\ NoHash \notin Commits /\ None \notin Commits /\ 1 \in Commits
  /\ Rest # None /\ Empty # None
BY BoundsAreNat DEF Commits, NoHash, None, Rest, Empty

\* What the operations put into a place is a directory.
LEMMA DirFacts ==
  /\ NoDir \in Dir /\ NoDir.tree = None
  /\ RestOfDir \in Dir /\ RestOfDir.tree = Rest
  /\ EmptyDir \in Dir /\ EmptyDir.tree = Empty
  /\ \A r \in Repos, c \in Commits :
       Fresh(r, c) \in Dir /\ Fresh(r, c).tree = c /\ Fresh(r, c).tree # None
  /\ \A x \in Dir : x.tree \in {None, Rest, Empty} \cup Commits /\ x.sub \in [SubDirs -> Subs]
BY CommitFacts DEF NoDir, Dir, RestOfDir, EmptyDir, Fresh, Whole, Subs, None, Rest, Empty, Own, Repos

\* The special directories of a directory can be exchanged one by one.
LEMMA PutSub ==
  ASSUME NEW x \in Dir, x.tree # None, NEW d \in SubDirs, NEW v \in Subs
  PROVE  /\ [x EXCEPT !.sub[d] = v] \in Dir
         /\ [x EXCEPT !.sub[d] = v].tree = x.tree
         /\ [x EXCEPT !.sub[d] = v].sub = [x.sub EXCEPT ![d] = v]
BY DEF Dir, NoDir, Whole, Subs, None

\* Of a whole disk: all that changes is that one directory.
LEMMA PutSubOnDisk ==
  ASSUME disk \in [Paths -> Dir], NEW p \in Paths, Exists(p),
         NEW d \in SubDirs, NEW v \in Subs
  PROVE  LET new == [disk EXCEPT ![p].sub[d] = v] IN
         /\ new \in [Paths -> Dir]
         /\ \A q \in Paths : new[q].tree = disk[q].tree
         /\ \A q \in Paths \ {p} : new[q] = disk[q]
         /\ new[p].sub = [disk[p].sub EXCEPT ![d] = v]
<1>1. disk[p] \in Dir /\ disk[p].tree # None
  BY DEF Exists
<1>2. [disk EXCEPT ![p].sub[d] = v] = [disk EXCEPT ![p] = [disk[p] EXCEPT !.sub[d] = v]]
  BY Zenon
<1> QED BY <1>1, <1>2, PutSub

-----------------------------------------------------------------------------
(* The inductive invariant.                                                *)

Busy   == {"tmp", "clone", "reset", "replace", "rename"}
Filled == {"delete", "copy"}

\* The checkout at work is that of the template, before any student, or that of
\* a student who has no directory yet.
ForTemplate ==
  /\ pc \in Busy \cup {"cache", "check"} /\ cmd # "bulk"
  /\ prepared = {}
  /\ job.repo = Template /\ job.hash \in Commits /\ job.path = Cached(Template, job.hash)

ForStudent ==
  /\ job.repo \in Students /\ job.hash = wanted[job.repo]
  /\ job.hash # NoHash => job.path = DirOf(job.repo)
  /\ pc \in Busy \cup Filled => job.hash # NoHash
  /\ pc \in Filled => Exists(job.path) /\ cmd # "bulk"
  /\ pc = "assert" => cmd # "grade"
  /\ \A s \in prepared : s < job.repo \/ (s = job.repo /\ pc = "next")

Aimed ==
  /\ pc \in Busy \cup Filled \cup {"cache", "assert", "check", "next"} => ForTemplate \/ ForStudent
  /\ pc \in {"assert"} \cup Filled \cup {"next"} => ForStudent
  /\ pc \in {"idle", "list"} => prepared = {}

\* Prepared directories are not taken away again.
Kept == \A s \in prepared : wanted[s] # NoHash /\ Exists(DirOf(s))

Typed == TypeOK /\ Aimed /\ Kept

\* A directory of the cache is made only when it is not there, from a clone that
\* was set to the commit.
Made ==
  /\ pc \in Busy => (\E s \in Students : job.path = Bulk(s)) \/ ~Exists(job.path)
  /\ pc \in {"replace", "rename"} => disk[Tmp].tree = job.hash

-----------------------------------------------------------------------------
(* Typed is inductive.                                                     *)

LEMMA TypedInit == Init => Typed
<1> SUFFICES ASSUME Init PROVE Typed
  OBVIOUS
<1>1. NoJob \in Job /\ NoTodo \in [delete : SUBSET SubDirs, copy : SUBSET SubDirs]
  BY PathTypes, PathFacts DEF NoJob, Job, NoTodo
<1>2. TypeOK
  BY <1>1, PathTypes, CommitFacts, DirFacts, BoundsAreNat DEF Init, TypeOK
<1>3. Aimed /\ Kept
  BY DEF Init, Aimed, Kept, Busy, Filled
<1> QED BY <1>2, <1>3 DEF Typed

\* Nothing but a well-typed disk is asked of the end of a command.
LEMMA EndTyped ==
  ASSUME TypeOK, EndCommand, head' \in [Repos -> Commits], disk' \in [Paths -> Dir],
         mishaps' \in 0..MaxMishaps, UNCHANGED spoilt
  PROVE  Typed'
<1>1. NoJob \in Job /\ NoTodo \in [delete : SUBSET SubDirs, copy : SUBSET SubDirs]
  BY PathTypes, PathFacts DEF NoJob, Job, NoTodo
<1>2. TypeOK'
  BY <1>1, PathTypes DEF EndCommand, Goto, TypeOK
<1>3. Aimed' /\ Kept'
  BY DEF EndCommand, Goto, Aimed, Kept, Busy, Filled
<1> QED BY <1>2, <1>3 DEF Typed

\* The place of a student's directory, and that no two share it.
LEMMA DirOfFacts ==
  ASSUME TypeOK
  PROVE  /\ \A s \in Students : wanted[s] # NoHash => DirOf(s) \in Paths /\ DirOf(s) # Tmp
         /\ \A s, t \in Students : DirOf(s) = DirOf(t) => s = t
         /\ \A c : \A s \in Students : DirOf(s) # Cached(Template, c)
<1>1. \A s \in Students : wanted[s] # NoHash => wanted[s] \in Commits
  BY DEF TypeOK
<1>2. CASE cmd = "grade"
  <2>1. \A s : DirOf(s) = Cached(s, wanted[s])
    BY <1>2 DEF DirOf
  <2> QED BY <1>1, <2>1, PathFacts, PathTypes
<1>3. CASE cmd # "grade"
  <2>1. \A s : DirOf(s) = Bulk(s)
    BY <1>3 DEF DirOf
  <2> QED BY <2>1, PathFacts, PathTypes
<1> QED BY <1>2, <1>3

\* While a checkout or a preparation is at work, the directories of the prepared
\* students are elsewhere.
LEMMA Elsewhere ==
  ASSUME Typed, pc \in Busy \cup Filled
  PROVE  /\ job.path \in Paths /\ job.path # Tmp /\ job.hash \in Commits
         /\ \A s \in prepared : DirOf(s) \in Paths \ {Tmp, job.path}
<1>1. TypeOK /\ job \in Job /\ (ForTemplate \/ ForStudent)
  BY DEF Typed, TypeOK, Aimed
<1>2. CASE ForTemplate
  BY <1>1, <1>2, PathFacts DEF ForTemplate, Job
<1>3. CASE ForStudent
  <2>1. job.repo \in Students /\ wanted[job.repo] # NoHash /\ job.path = DirOf(job.repo)
    BY <1>3 DEF ForStudent
  <2>2. job.hash \in Commits
    BY <1>1, <1>3, <2>1 DEF ForStudent, Job
  <2>3. ASSUME NEW s \in prepared PROVE DirOf(s) \in Paths \ {Tmp, job.path}
    <3>1. s \in Students /\ wanted[s] # NoHash
      BY <1>1 DEF Typed, Kept, TypeOK
    <3>2. s < job.repo
      BY <1>3 DEF ForStudent, Busy, Filled
    <3>3. s # job.repo
      BY <3>1, <3>2, <2>1 DEF Students
    <3> QED BY <1>1, <2>1, <3>1, <3>3, DirOfFacts
  <2> QED BY <1>1, <2>1, <2>2, <2>3, DirOfFacts
<1> QED BY <1>1, <1>2, <1>3

\* Counting what went wrong.
LEMMA MishapTyped ==
  ASSUME TypeOK, UNCHANGED mishaps \/ (mishaps < MaxMishaps /\ mishaps' = mishaps + 1)
  PROVE  mishaps' \in 0..MaxMishaps
<1>1. MaxMishaps \in Nat /\ mishaps \in 0..MaxMishaps
  BY BoundsAreNat DEF TypeOK
<1> QED BY <1>1

\* What delete_directory leaves of a directory is a directory, and it touches no
\* other; of one that is not there it leaves nothing.
LEMMA DeleteDirFacts ==
  ASSUME TypeOK, NEW p \in Paths, DeleteDir(p)
  PROVE  /\ disk' \in [Paths -> Dir]
         /\ \A q \in Paths \ {p} : disk'[q] = disk[q]
         /\ ~Exists(p) => disk'[p].tree = None
         /\ mishaps' \in 0..MaxMishaps
<1>1. disk \in [Paths -> Dir] /\ disk[p] \in Dir
  BY DEF TypeOK
<1>2. mishaps' \in 0..MaxMishaps
  BY MishapTyped DEF DeleteDir, May, Mishap
<1>3. PICK left \in {NoDir, disk[p], RestOfDir, EmptyDir} :
        disk' = [disk EXCEPT ![p] = left] /\ (~Exists(p) => left = NoDir)
  BY DEF DeleteDir
<1> QED BY <1>1, <1>2, <1>3, DirFacts

LEMMA KeptStep ==
  ASSUME Typed, UNCHANGED <<cmd, wanted, prepared>>,
         \A s \in prepared : disk'[DirOf(s)].tree # None
  PROVE  Kept'
BY DEF Typed, Kept, Exists, DirOf

\* The steps of clone_repository touch two places only.
LEMMA BusyStep ==
  ASSUME Typed, pc \in Busy, OnlyDisk, pc' \in Busy \cup {"check"},
         disk' \in [Paths -> Dir], mishaps' \in 0..MaxMishaps,
         \A p \in Paths \ {Tmp, job.path} : disk'[p] = disk[p]
  PROVE  Typed'
<1>1. TypeOK'
  BY DEF Typed, TypeOK, OnlyDisk, Busy
<1>2. ForTemplate \/ ForStudent
  BY DEF Typed, Aimed
<1>3. ForTemplate => ForTemplate'
  BY DEF ForTemplate, OnlyDisk, Busy
<1>4. ForStudent => ForStudent'
  BY DEF ForStudent, OnlyDisk, Busy, Filled, DirOf
<1>5. Aimed'
  BY <1>2, <1>3, <1>4 DEF Aimed, Busy, Filled
<1>6. \A s \in prepared : disk'[DirOf(s)].tree # None
  BY Elsewhere DEF Typed, Kept, Exists
<1> QED BY <1>1, <1>5, <1>6, KeptStep DEF Typed, OnlyDisk

\* What a kill leaves of the directory that is at work is a directory.
LEMMA HalfwayTyped == ASSUME Typed PROVE Halfway \subseteq [Paths -> Dir]
<1>1. disk \in [Paths -> Dir] /\ Tmp \in Paths /\ RestOfDir \in Dir
  BY PathTypes, DirFacts DEF Typed, TypeOK
<1>2. CASE pc \in Busy
  <2>1. job.path \in Paths
    BY <1>2, Elsewhere DEF Busy
  <2>2. [disk EXCEPT ![Tmp] = RestOfDir] \in [Paths -> Dir]
    BY <1>1
  <2>3. [disk EXCEPT ![job.path] = RestOfDir] \in [Paths -> Dir]
    BY <1>1, <2>1
  <2>4. Halfway \subseteq {[disk EXCEPT ![Tmp] = RestOfDir], [disk EXCEPT ![job.path] = RestOfDir]}
    BY <1>2 DEF Halfway, Busy
  <2> QED BY <2>2, <2>3, <2>4
<1>3. CASE pc \in Filled
  <2>1. Exists(job.path) /\ job.path \in Paths
    BY <1>3, Elsewhere DEF Typed, Aimed, ForStudent, Filled
  <2>2. ASSUME NEW d \in SubDirs PROVE [disk EXCEPT ![job.path].sub[d] = Rest] \in [Paths -> Dir]
    BY <1>1, <2>1, PutSubOnDisk DEF Subs
  <2>3. todo.delete \subseteq SubDirs /\ todo.copy \subseteq SubDirs
    BY DEF Typed, TypeOK
  <2> SUFFICES ASSUME NEW new \in Halfway PROVE new \in [Paths -> Dir]
    OBVIOUS
  <2>4. PICK d \in SubDirs : new = [disk EXCEPT ![job.path].sub[d] = Rest]
    <3>1. CASE pc = "delete"
      BY <2>3, <3>1 DEF Halfway
    <3>2. CASE pc = "copy"
      BY <2>3, <3>2 DEF Halfway
    <3> QED BY <1>3, <3>1, <3>2 DEF Filled
  <2>5. [disk EXCEPT ![job.path].sub[d] = Rest] \in [Paths -> Dir]
    BY <2>2
  <2> QED BY <2>4, <2>5
<1>4. CASE pc \notin Busy \cup Filled
  <2>1. Halfway = {}
    BY <1>4 DEF Halfway, Busy, Filled
  <2> QED BY <2>1
<1> QED BY <1>2, <1>3, <1>4

LEMMA WorldTyped == ASSUME Typed, World PROVE Typed'
<1> USE DEF Typed
<1>1. ASSUME NEW r \in Repos, Push(r) PROVE Typed'
  <2>1. head[r] + 1 \in Commits
    <3>1. head[r] \in Commits /\ head[r] <= MaxPushes /\ MaxPushes \in Nat
      BY <1>1, BoundsAreNat DEF Push, TypeOK
    <3> QED BY <3>1 DEF Commits
  <2>2. TypeOK'
    BY <1>1, <2>1 DEF Push, TypeOK
  <2>3. Aimed' /\ Kept'
    BY <1>1 DEF Push, Aimed, ForTemplate, ForStudent, Kept, DirOf, Exists
  <2> QED BY <2>2, <2>3
<1>2. ASSUME EditTemplate PROVE Typed'
  <2>1. PICK c \in Commits, d \in SubDirs :
          /\ disk[Cached(Template, c)].tree = c
          /\ disk' = [disk EXCEPT ![Cached(Template, c)].sub[d] = Edited]
    BY <1>2 DEF EditTemplate
  <2>2. Cached(Template, c) \in Paths /\ Exists(Cached(Template, c)) /\ Edited \in Subs
    BY <2>1, PathTypes, PathFacts, CommitFacts DEF Exists, Subs
  <2>3. disk' \in [Paths -> Dir]
    BY <2>1, <2>2, PutSubOnDisk DEF TypeOK
  <2>4. TypeOK'
    BY <1>2, <2>3 DEF EditTemplate, TypeOK
  <2>5. Aimed' /\ Kept'
    BY <1>2 DEF EditTemplate, Aimed, Kept, Busy, Filled
  <2> QED BY <2>4, <2>5
<1>3. ASSUME Clean PROVE Typed'
  <2>1. disk' \in [Paths -> Dir]
    <3>1. PICK stays \in SUBSET InCache, part \in SUBSET InCache, left \in {RestOfDir, EmptyDir} :
            disk' = [p \in Paths |-> IF p \in part THEN left
                                    ELSE IF p \in InCache \ stays THEN NoDir ELSE disk[p]]
      BY <1>3 DEF Clean
    <3>2. disk \in [Paths -> Dir] /\ left \in Dir /\ NoDir \in Dir
      BY DirFacts DEF TypeOK
    <3> QED BY <3>1, <3>2
  <2>4. UNCHANGED mishaps \/ (mishaps < MaxMishaps /\ mishaps' = mishaps + 1)
    BY <1>3 DEF Clean, May
  <2>5. mishaps' \in 0..MaxMishaps
    BY <2>4, MishapTyped
  <2>2. TypeOK'
    BY <1>3, <2>1, <2>5 DEF Clean, OnlyDisk, TypeOK
  <2>3. Aimed' /\ Kept'
    BY <1>3 DEF Clean, OnlyDisk, Aimed, Kept, Busy, Filled
  <2> QED BY <2>2, <2>3
<1>4. ASSUME Crash PROVE Typed'
  <2>1. disk' \in [Paths -> Dir]
    BY <1>4, HalfwayTyped DEF Crash, TypeOK
  <2>2. mishaps' \in 0..MaxMishaps
    BY <1>4, MishapTyped DEF Crash, May, Mishap
  <2> QED BY <1>4, <2>1, <2>2, EndTyped DEF Crash, TypeOK
<1> QED BY <1>1, <1>2, <1>3, <1>4 DEF World

\* The steps of cache_repository and clone_repository.
LEMMA CloneTyped ==
  ASSUME Typed,
         \/ CacheRepository \/ AssertHash \/ DeleteTmp \/ GitClone \/ GitReset \/ ReplaceOld
         \/ Rename
  PROVE  Typed'
<1>1. TypeOK /\ Tmp \in Paths
  BY PathTypes DEF Typed
<1>2. CASE CacheRepository
  <2>1. ForTemplate \/ ForStudent
    BY <1>2 DEF CacheRepository, Typed, Aimed
  <2>2. pc' = "check" \/ (pc' = "tmp" /\ job.hash # NoHash)
    BY <1>2 DEF CacheRepository, Goto
  <2>3. UNCHANGED <<head, disk, cmd, job, wanted, template, todo, prepared, mishaps, missed, spoilt>>
    BY <1>2 DEF CacheRepository, OnlyPc, OnlyDisk
  <2>4. ForTemplate => ForTemplate'
    BY <2>2, <2>3 DEF ForTemplate, Busy
  <2>5. ForStudent => ForStudent'
    BY <1>2, <2>2, <2>3 DEF ForStudent, CacheRepository, Busy, Filled, DirOf
  <2>6. TypeOK' /\ Kept'
    BY <1>1, <2>2, <2>3 DEF TypeOK, Typed, Kept, Exists, DirOf
  <2> QED BY <2>1, <2>2, <2>4, <2>5, <2>6 DEF Typed, Aimed, Filled
<1>3. CASE AssertHash
  <2>1. CASE job.hash = NoHash
    BY <1>1, <1>3, <2>1, EndTyped DEF AssertHash, TypeOK
  <2>2. CASE job.hash # NoHash
    <3>1. ForStudent /\ pc = "assert"
      BY <1>3 DEF AssertHash, Typed, Aimed
    <3>2. pc' = "tmp" /\ UNCHANGED <<head, disk, cmd, job, wanted, template, todo, prepared, mishaps, missed, spoilt>>
      BY <1>3, <2>2 DEF AssertHash, Goto
    <3>3. ForStudent'
      BY <2>2, <3>1, <3>2 DEF ForStudent, Busy, Filled, DirOf
    <3>4. TypeOK' /\ Kept'
      BY <1>1, <3>2 DEF TypeOK, Typed, Kept, Exists, DirOf
    <3> QED BY <3>2, <3>3, <3>4 DEF Typed, Aimed, Filled
  <2> QED BY <2>1, <2>2
<1>4. CASE DeleteTmp
  <2>1. pc \in Busy /\ pc' \in Busy /\ OnlyDisk /\ DeleteDir(Tmp)
    BY <1>4 DEF DeleteTmp, Goto, Busy
  <2>2. /\ disk' \in [Paths -> Dir] /\ mishaps' \in 0..MaxMishaps
        /\ \A q \in Paths \ {Tmp, job.path} : disk'[q] = disk[q]
    BY <1>1, <2>1, DeleteDirFacts
  <2> QED BY <2>1, <2>2, BusyStep
<1>5. CASE GitClone
  <2>1. pc \in Busy /\ job.hash \in Commits /\ head[job.repo] \in Commits /\ job.repo \in Repos
    BY <1>1, <1>5, Elsewhere DEF GitClone, Busy, TypeOK, Job
  <2>2. mishaps' \in 0..MaxMishaps
    BY <1>1, <1>5, MishapTyped DEF GitClone, May, Mishap
  <2>3. disk' \in [Paths -> Dir] /\ \A p \in Paths \ {Tmp, job.path} : disk'[p] = disk[p]
    <3>1. UNCHANGED disk \/ disk' = [disk EXCEPT ![Tmp] = Fresh(job.repo, head[job.repo])]
      BY <1>5 DEF GitClone
    <3>2. Fresh(job.repo, head[job.repo]) \in Dir /\ disk \in [Paths -> Dir]
      BY <1>1, <2>1, DirFacts DEF TypeOK
    <3>3. CASE UNCHANGED disk
      BY <3>2, <3>3
    <3>4. CASE disk' = [disk EXCEPT ![Tmp] = Fresh(job.repo, head[job.repo])]
      BY <1>1, <3>2, <3>4
    <3> QED BY <3>1, <3>3, <3>4
  <2> QED BY <1>5, <2>1, <2>2, <2>3, BusyStep DEF GitClone, Goto, Busy
<1>6. CASE GitReset
  <2>1. pc \in Busy /\ job.hash \in Commits /\ job.repo \in Repos
    BY <1>1, <1>6, Elsewhere DEF GitReset, Busy, TypeOK, Job
  <2>2. mishaps' \in 0..MaxMishaps
    BY <1>1, <1>6, MishapTyped DEF GitReset, May, Mishap
  <2>3. disk' \in [Paths -> Dir] /\ \A p \in Paths \ {Tmp, job.path} : disk'[p] = disk[p]
    <3>1. UNCHANGED disk \/ disk' = [disk EXCEPT ![Tmp] = Fresh(job.repo, job.hash)]
      BY <1>6 DEF GitReset
    <3>2. Fresh(job.repo, job.hash) \in Dir /\ disk \in [Paths -> Dir]
      BY <1>1, <2>1, DirFacts DEF TypeOK
    <3>3. CASE UNCHANGED disk
      BY <3>2, <3>3
    <3>4. CASE disk' = [disk EXCEPT ![Tmp] = Fresh(job.repo, job.hash)]
      BY <1>1, <3>2, <3>4
    <3> QED BY <3>1, <3>3, <3>4
  <2> QED BY <1>6, <2>1, <2>2, <2>3, BusyStep DEF GitReset, Goto, Busy
<1>7. CASE ReplaceOld
  <2>1. pc \in Busy /\ pc' \in Busy /\ OnlyDisk /\ DeleteDir(job.path) /\ job.path \in Paths
    BY <1>7, Elsewhere DEF ReplaceOld, Goto, Busy
  <2>2. /\ disk' \in [Paths -> Dir] /\ mishaps' \in 0..MaxMishaps
        /\ \A q \in Paths \ {Tmp, job.path} : disk'[q] = disk[q]
    BY <1>1, <2>1, DeleteDirFacts
  <2> QED BY <2>1, <2>2, BusyStep
<1>8. CASE Rename
  <2>1. pc \in Busy /\ job.path \in Paths
    BY <1>8, Elsewhere DEF Rename, Busy
  <2>2. mishaps' \in 0..MaxMishaps
    BY <1>1, <1>8, MishapTyped DEF Rename, May, Mishap
  <2>3. disk' \in [Paths -> Dir] /\ \A p \in Paths \ {Tmp, job.path} : disk'[p] = disk[p]
    <3>1. disk \in [Paths -> Dir] /\ disk[Tmp] \in Dir /\ NoDir \in Dir
      BY <1>1, DirFacts DEF TypeOK, Paths
    <3>2. UNCHANGED disk \/ disk' = [disk EXCEPT ![job.path] = disk[Tmp], ![Tmp] = NoDir]
      BY <1>8 DEF Rename
    <3>3. CASE UNCHANGED disk
      BY <3>1, <3>3
    <3>4. CASE disk' = [disk EXCEPT ![job.path] = disk[Tmp], ![Tmp] = NoDir]
      BY <2>1, <3>1, <3>4
    <3> QED BY <3>2, <3>3, <3>4
  <2> QED BY <1>8, <2>1, <2>2, <2>3, BusyStep DEF Rename, Goto, Busy
<1> QED BY <1>2, <1>3, <1>4, <1>5, <1>6, <1>7, <1>8

\* The steps from one student to the next.
LEMMA TurnTyped ==
  ASSUME TypeOK, NEW n \in Students \cup {StudentCount + 1}, Turn(n),
         UNCHANGED <<head, disk, cmd, template, todo, prepared, missed, spoilt>>,
         wanted' \in [Students -> Commits \cup {NoHash}], mishaps' \in 0..MaxMishaps,
         \A s \in prepared : s < n /\ wanted'[s] # NoHash /\ disk[DirOf(s)'].tree # None
  PROVE  Typed'
<1>1. CASE n \in Students
  <2>1. n <= StudentCount /\ n \in Repos
    BY <1>1, StudentsListed DEF Students, Repos
  <2>2. wanted'[n] = NoHash \/ wanted'[n] \in Commits
    BY <1>1
  <2>3. job' \in Job /\ job'.repo = n /\ job'.hash = wanted'[n]
    BY <1>1, <2>1, <2>2, PathTypes DEF Turn, Job
  <2>4. wanted'[n] # NoHash => job'.path = DirOf(n)'
    BY <2>1 DEF Turn, DirOf
  <2>5. pc' \in {"cache", "assert"} /\ (pc' = "assert" => cmd' # "grade")
    BY <2>1 DEF Turn, Goto
  <2>6. TypeOK'
    BY <2>3, <2>5 DEF TypeOK
  <2>7. ForStudent'
    BY <1>1, <2>3, <2>4, <2>5 DEF ForStudent, Busy, Filled
  <2> QED BY <2>5, <2>6, <2>7 DEF Typed, Aimed, Kept, Exists, Busy, Filled
<1>2. CASE n \notin Students
  <2>1. ~(n <= StudentCount)
    BY <1>2, StudentsListed DEF Students
  <2>2. pc' = "ready" /\ UNCHANGED job
    BY <2>1 DEF Turn, Goto
  <2>3. TypeOK'
    BY <2>2 DEF TypeOK
  <2> QED BY <2>2, <2>3 DEF Typed, Aimed, Kept, Exists, Busy, Filled
<1> QED BY <1>1, <1>2

LEMMA CommandsTyped ==
  ASSUME Typed, StartWithTemplate \/ StartBulk \/ TemplateReady \/ ListStudents \/ NextStudent
  PROVE  Typed'
<1>1. TypeOK
  BY DEF Typed
<1>2. CASE StartWithTemplate
  <2>1. pc = "idle" /\ prepared = {} /\ UNCHANGED <<head, disk, wanted, template, todo, prepared, missed, spoilt>>
    BY <1>2 DEF StartWithTemplate, Typed, Aimed
  <2>2. mishaps' \in 0..MaxMishaps
    BY <1>1, <1>2, MishapTyped DEF StartWithTemplate, May, Mishap
  <2>3. CASE pc' = "idle" /\ UNCHANGED <<cmd, job>>
    <3>1. TypeOK'
      BY <1>1, <2>1, <2>2, <2>3 DEF TypeOK
    <3> QED BY <2>1, <2>3, <3>1 DEF Typed, Aimed, Kept, Busy, Filled
  <2>4. CASE /\ cmd' \in {"grade", "bulk template"} /\ pc' = "cache"
             /\ job' = [repo |-> Template, hash |-> head[Template],
                        path |-> Cached(Template, head[Template])]
    <3>1. job' \in Job /\ head[Template] \in Commits
      BY <1>1, <2>4, PathTypes, PathFacts DEF TypeOK, Job
    <3>2. TypeOK'
      BY <1>1, <2>1, <2>2, <2>4, <3>1 DEF TypeOK
    <3>3. ForTemplate'
      BY <2>1, <2>4, <3>1 DEF ForTemplate
    <3> QED BY <2>1, <2>4, <3>2, <3>3 DEF Typed, Aimed, Kept, Filled
  <2> QED BY <1>2, <2>1, <2>3, <2>4 DEF StartWithTemplate, Goto
<1>3. CASE StartBulk
  <2>1. prepared = {} /\ pc' = "list" /\ cmd' = "bulk"
        /\ UNCHANGED <<head, disk, job, wanted, template, todo, prepared, mishaps, missed, spoilt>>
    BY <1>3 DEF StartBulk, Goto, Typed, Aimed
  <2>2. TypeOK'
    BY <1>1, <2>1 DEF TypeOK
  <2> QED BY <2>1, <2>2 DEF Typed, Aimed, Kept, Busy, Filled
<1>4. CASE TemplateReady
  <2>1. CASE Success
    <3>1. ForTemplate
      BY <1>4, PathFacts DEF TemplateReady, Typed, Aimed, ForStudent
    <3>2. pc' = "list" /\ template' = job.path
          /\ UNCHANGED <<head, disk, cmd, job, wanted, todo, prepared, mishaps, missed, spoilt>>
      BY <1>4, <2>1 DEF TemplateReady, Goto
    <3>3. TypeOK'
      <4>1. job.path \in Paths
        BY <3>1, PathTypes, PathFacts DEF ForTemplate
      <4> QED BY <1>1, <3>2, <4>1 DEF TypeOK
    <3> QED BY <3>1, <3>2, <3>3 DEF ForTemplate, Typed, Aimed, Kept, Busy, Filled
  <2>2. CASE ~Success
    BY <1>1, <1>4, <2>2, EndTyped DEF TemplateReady, TypeOK
  <2> QED BY <2>1, <2>2
<1>5. CASE ListStudents
  <2>1. prepared = {} /\ Turn(1) /\ wanted' \in [Students -> Commits \cup {NoHash}]
        /\ UNCHANGED <<head, disk, cmd, template, todo, prepared, missed, spoilt>>
    BY <1>5 DEF ListStudents, Typed, Aimed
  <2>2. mishaps' \in 0..MaxMishaps
    BY <1>1, <1>5, MishapTyped DEF ListStudents, May, Mishap
  <2>3. 1 \in Students
    BY StudentsListed DEF Students
  <2> QED BY <1>1, <2>1, <2>2, <2>3, TurnTyped
<1>6. CASE NextStudent
  <2>1. ForStudent /\ pc = "next" /\ Kept
    BY <1>6 DEF NextStudent, Typed, Aimed
  <2>2. Turn(job.repo + 1) /\ UNCHANGED <<head, disk, cmd, wanted, template, todo, prepared, mishaps, missed, spoilt>>
    BY <1>6 DEF NextStudent
  <2>3. job.repo + 1 \in Students \cup {StudentCount + 1} /\ job.repo \in Nat
    BY <2>1, StudentsListed DEF ForStudent, Students
  <2>4. prepared \subseteq Nat
    <3>1. prepared \subseteq Students
      BY <1>1 DEF TypeOK
    <3> QED BY <3>1, StudentsListed DEF Students
  <2>5. \A s \in prepared : s < job.repo + 1
    BY <2>1, <2>3, <2>4 DEF ForStudent
  <2>6. \A s \in prepared : wanted'[s] # NoHash /\ disk[DirOf(s)'].tree # None
    BY <2>1, <2>2 DEF Kept, Exists, DirOf
  <2>7. wanted' \in [Students -> Commits \cup {NoHash}] /\ mishaps' \in 0..MaxMishaps
    BY <1>1, <2>2 DEF TypeOK
  <2> QED BY <1>1, <2>2, <2>3, <2>5, <2>6, <2>7, TurnTyped
<1> QED BY <1>2, <1>3, <1>4, <1>5, <1>6

\* The preparation of a student's directory.
LEMMA ReadyTyped == ASSUME Typed, StudentReady PROVE Typed'
<1>1. TypeOK /\ Kept /\ pc = "check" /\ job.repo \in Students /\ ForStudent
  BY PathFacts DEF StudentReady, ForTemplate, Typed, Aimed
<1>2. UNCHANGED <<head, disk, cmd, job, wanted, template, mishaps, missed, spoilt>>
  BY DEF StudentReady
<1>3. Success => job.hash # NoHash /\ Exists(job.path) /\ job.path = DirOf(job.repo)
                 /\ wanted[job.repo] # NoHash
  BY <1>1 DEF Success, ForStudent
<1>4. prepared' \subseteq prepared \cup {job.repo} /\ prepared \subseteq Students
  BY <1>1 DEF StudentReady, TypeOK
<1>5. \A s \in prepared : s < job.repo
  BY <1>1 DEF ForStudent
<1>6. CASE Success /\ cmd # "bulk"
  <2>1. pc' = "delete" /\ prepared' = prepared
        /\ todo' = [delete |-> SubDirs, copy |-> SubDirs]
    BY <1>6 DEF StudentReady, Goto
  <2>2. TypeOK'
    BY <1>1, <1>2, <2>1 DEF TypeOK
  <2>3. ForStudent'
    BY <1>1, <1>2, <1>3, <1>5, <1>6, <2>1 DEF ForStudent, Exists, DirOf
  <2>4. Kept'
    BY <1>1, <1>2, <2>1 DEF Kept, Exists, DirOf
  <2> QED BY <2>1, <2>2, <2>3, <2>4 DEF Typed, Aimed
<1>7. CASE ~(Success /\ cmd # "bulk")
  <2>1. pc' = "next" /\ UNCHANGED todo
    BY <1>7 DEF StudentReady, Goto
  <2>2. TypeOK'
    BY <1>1, <1>2, <1>4, <2>1 DEF TypeOK
  <2>3. ForStudent'
    BY <1>1, <1>2, <1>4, <1>5, <2>1 DEF ForStudent, Exists, DirOf, Busy, Filled
  <2>4. prepared' # prepared => Success
    BY DEF StudentReady
  <2>5. Kept'
    BY <1>1, <1>2, <1>3, <1>4, <2>4 DEF Kept, Exists, DirOf
  <2> QED BY <2>1, <2>2, <2>3, <2>5 DEF Typed, Aimed
<1> QED BY <1>6, <1>7

\* One special directory of the directory at work is changed.
LEMMA FillTyped ==
  ASSUME Typed, pc \in Filled, NEW d \in SubDirs, NEW v \in Subs,
         disk' = [disk EXCEPT ![job.path].sub[d] = v],
         UNCHANGED <<head, cmd, job, wanted, template, spoilt>>,
         missed' \in SUBSET (Students \X SubDirs),
         pc' \in Filled \cup {"next"}, mishaps' \in 0..MaxMishaps,
         todo' \in [delete : SUBSET SubDirs, copy : SUBSET SubDirs],
         prepared' = IF pc' = "next" THEN prepared \cup {job.repo} ELSE prepared
  PROVE  Typed'
<1>1. TypeOK /\ Kept /\ ForStudent /\ Exists(job.path) /\ prepared \subseteq Students
  BY DEF Typed, Aimed, ForStudent, TypeOK, Filled
<1>2. job.repo \in Students /\ wanted[job.repo] # NoHash /\ job.path = DirOf(job.repo)
      /\ job.path \in Paths
  BY <1>1, DirOfFacts DEF ForStudent
<1>3. disk' \in [Paths -> Dir] /\ \A q \in Paths : disk'[q].tree = disk[q].tree
  <2>1. disk \in [Paths -> Dir]
    BY <1>1 DEF TypeOK
  <2> QED BY <1>1, <1>2, <2>1, PutSubOnDisk
<1>4. TypeOK'
  BY <1>1, <1>2, <1>3 DEF TypeOK, Filled
<1>5. \A s \in prepared : s < job.repo
  BY <1>1 DEF ForStudent, Filled
<1>6. Exists(job.path)'
  BY <1>1, <1>2, <1>3 DEF Exists
<1>7. ForStudent'
  BY <1>1, <1>2, <1>5, <1>6 DEF ForStudent, DirOf, Busy, Filled
<1>8. \A s \in prepared' : s \in Students /\ wanted[s] # NoHash /\ Exists(DirOf(s))
  BY <1>1, <1>2 DEF Kept
<1>9. \A s \in prepared' : DirOf(s) \in Paths
  BY <1>1, <1>8, DirOfFacts
<1>10. Kept'
  <2>1. \A s : DirOf(s)' = DirOf(s)
    BY DEF DirOf
  <2> QED BY <1>3, <1>8, <1>9, <2>1 DEF Kept, Exists
<1> QED BY <1>4, <1>7, <1>10 DEF Typed, Aimed, Busy, Filled

\* What a change of a special directory comes to: the contents it was to have, or a
\* directory of the student at work that is marked as missed.
Changed(d, v, to) ==
  /\ mishaps' \in 0..MaxMishaps
  /\ missed' \in SUBSET (Students \X SubDirs)
  /\ missed \subseteq missed'
  /\ (v = to \/ <<job.repo, d>> \in missed')

LEMMA UntouchedChange ==
  ASSUME Typed, NEW d, NEW v, UNCHANGED <<mishaps, missed>>
  PROVE  Changed(d, v, v)
BY DEF Changed, Typed, TypeOK

LEMMA FailedChange ==
  ASSUME Typed, pc \in Filled, NEW d \in SubDirs, NEW v, NEW to,
         mishaps < MaxMishaps, mishaps' = mishaps + 1,
         missed' = missed \cup {<<job.repo, d>>}
  PROVE  Changed(d, v, to)
<1>1. mishaps' \in 0..MaxMishaps
  BY MishapTyped DEF Typed
<1>2. job.repo \in Students /\ missed \in SUBSET (Students \X SubDirs)
  BY DEF Typed, Aimed, ForStudent, Filled, TypeOK
<1> QED BY <1>1, <1>2 DEF Changed

\* A deletion that fails leaves what there was, or a part of it.
LEMMA DeleteOne ==
  ASSUME Typed, DeleteSubDir
  PROVE  \E d \in todo.delete, v \in Subs :
           /\ d \in SubDirs
           /\ todo' = [todo EXCEPT !.delete = @ \ {d}]
           /\ disk' = [disk EXCEPT ![job.path].sub[d] = v]
           /\ Changed(d, v, None)
<1>1. pc \in Filled /\ todo.delete \subseteq SubDirs
  BY DEF DeleteSubDir, Typed, TypeOK, Filled
<1>2. PICK d \in todo.delete :
        /\ todo' = [todo EXCEPT !.delete = @ \ {d}]
        /\ LET old == disk[job.path].sub[d] IN
           Change(d, None, "delete", IF old = None THEN {} ELSE {old, Rest, Empty})
  BY DEF DeleteSubDir
<1>3. d \in SubDirs /\ disk[job.path].sub[d] \in Subs
  <2>1. d \in SubDirs /\ disk[job.path] \in Dir
    BY <1>1, <1>2, Elsewhere DEF Typed, TypeOK
  <2> QED BY <2>1, DirFacts DEF Subs
<1>4. {None, Rest, Empty} \subseteq Subs
  BY DEF Subs
<1>5. CASE disk' = [disk EXCEPT ![job.path].sub[d] = None] /\ UNCHANGED <<mishaps, missed>>
  <2>1. Changed(d, None, None)
    BY <1>5, UntouchedChange
  <2> QED BY <1>2, <1>3, <1>4, <1>5, <2>1
<1>6. CASE /\ May("delete") /\ Mishap /\ missed' = missed \cup {<<job.repo, d>>}
           /\ \E left \in {disk[job.path].sub[d], Rest, Empty} :
                disk' = [disk EXCEPT ![job.path].sub[d] = left]
  <2>1. PICK left \in Subs : disk' = [disk EXCEPT ![job.path].sub[d] = left]
    BY <1>3, <1>4, <1>6
  <2>2. Changed(d, left, None)
    BY <1>1, <1>3, <1>6, FailedChange DEF May, Mishap
  <2> QED BY <1>2, <1>3, <2>1, <2>2
<1> QED BY <1>2, <1>5, <1>6 DEF Change

LEMMA DeleteTyped == ASSUME Typed, DeleteSubDir PROVE Typed'
<1>1. pc \in Filled /\ todo \in [delete : SUBSET SubDirs, copy : SUBSET SubDirs]
  BY DEF DeleteSubDir, Typed, TypeOK, Filled
<1>2. PICK d \in todo.delete, v \in Subs :
        /\ d \in SubDirs
        /\ todo' = [todo EXCEPT !.delete = @ \ {d}]
        /\ disk' = [disk EXCEPT ![job.path].sub[d] = v]
        /\ Changed(d, v, None)
  BY DeleteOne
<1>3. mishaps' \in 0..MaxMishaps /\ missed' \in SUBSET (Students \X SubDirs)
  BY <1>2 DEF Changed
<1>4. todo' \in [delete : SUBSET SubDirs, copy : SUBSET SubDirs]
  BY <1>1, <1>2
<1>5. pc' \in Filled
  BY DEF DeleteSubDir, Goto, Filled
<1>6. UNCHANGED <<head, cmd, job, wanted, template, spoilt>> /\ prepared' = prepared /\ pc' # "next"
  BY <1>5 DEF DeleteSubDir, Filled
<1> QED BY <1>1, <1>2, <1>3, <1>4, <1>5, <1>6, FillTyped

\* What is copied are the contents of a special directory.
LEMMA CopyTypes ==
  ASSUME Typed, NEW d \in SubDirs, NEW p \in Paths
  PROVE  Copy(disk[p].sub[d], disk[template].sub[d]) \in Subs
<1>1. disk[p] \in Dir /\ disk[template] \in Dir
  BY DEF Typed, TypeOK
<1>2. disk[p].sub[d] \in Subs /\ disk[template].sub[d] \in Subs
  BY <1>1, DirFacts
<1> QED BY <1>2 DEF Copy, Subs

\* A copy that fails has made nothing, an empty directory or a part.
LEMMA CopyOne ==
  ASSUME Typed, CopySubDir
  PROVE  \E d \in todo.copy, v \in Subs :
           /\ d \in SubDirs
           /\ todo' = [todo EXCEPT !.copy = @ \ {d}]
           /\ disk' = [disk EXCEPT ![job.path].sub[d] = v]
           /\ Changed(d, v, Copy(disk[job.path].sub[d], disk[template].sub[d]))
<1>1. pc \in Filled /\ todo.copy \subseteq SubDirs
  BY DEF CopySubDir, Typed, TypeOK, Filled
<1>2. PICK d \in todo.copy :
        /\ todo' = [todo EXCEPT !.copy = @ \ {d}]
        /\ LET old == disk[job.path].sub[d] IN
           Change(d, Copy(old, disk[template].sub[d]), "copy",
                  IF old = None THEN {None, Rest, Empty} ELSE {})
  BY DEF CopySubDir
<1>3. d \in SubDirs /\ job.path \in Paths
  BY <1>1, <1>2, Elsewhere
<1>4. {None, Rest, Empty} \subseteq Subs
  BY DEF Subs
<1> DEFINE copy == Copy(disk[job.path].sub[d], disk[template].sub[d])
<1>5. copy \in Subs
  BY <1>3, CopyTypes
<1> HIDE DEF copy
<1>6. CASE disk' = [disk EXCEPT ![job.path].sub[d] = copy] /\ UNCHANGED <<mishaps, missed>>
  <2>1. Changed(d, copy, copy)
    BY <1>6, UntouchedChange
  <2> QED BY <1>2, <1>3, <1>5, <1>6, <2>1 DEF copy
<1>7. CASE /\ May("copy") /\ Mishap /\ missed' = missed \cup {<<job.repo, d>>}
           /\ \E left \in {None, Rest, Empty} :
                disk' = [disk EXCEPT ![job.path].sub[d] = left]
  <2>1. PICK left \in Subs : disk' = [disk EXCEPT ![job.path].sub[d] = left]
    BY <1>4, <1>7
  <2>2. Changed(d, left, copy)
    BY <1>1, <1>3, <1>7, FailedChange DEF May, Mishap
  <2> QED BY <1>2, <1>3, <2>1, <2>2 DEF copy
<1> QED BY <1>2, <1>6, <1>7 DEF Change, copy

LEMMA CopyTyped == ASSUME Typed, CopySubDir PROVE Typed'
<1>1. pc \in Filled /\ todo \in [delete : SUBSET SubDirs, copy : SUBSET SubDirs]
  BY DEF CopySubDir, Typed, TypeOK, Filled
<1>2. PICK d \in todo.copy, v \in Subs :
        /\ d \in SubDirs
        /\ todo' = [todo EXCEPT !.copy = @ \ {d}]
        /\ disk' = [disk EXCEPT ![job.path].sub[d] = v]
        /\ Changed(d, v, Copy(disk[job.path].sub[d], disk[template].sub[d]))
  BY CopyOne
<1>3. mishaps' \in 0..MaxMishaps /\ missed' \in SUBSET (Students \X SubDirs)
  BY <1>2 DEF Changed
<1>4. todo' \in [delete : SUBSET SubDirs, copy : SUBSET SubDirs]
  BY <1>1, <1>2
<1>5. pc' \in Filled \cup {"next"}
      /\ prepared' = IF pc' = "next" THEN prepared \cup {job.repo} ELSE prepared
  BY <1>1 DEF CopySubDir, Goto, Filled
<1>6. UNCHANGED <<head, cmd, job, wanted, template, spoilt>>
  BY DEF CopySubDir
<1> QED BY <1>1, <1>2, <1>3, <1>4, <1>5, <1>6, FillTyped

LEMMA FinishTyped == ASSUME Typed, Finish PROVE Typed'
<1>1. PICK used \in SUBSET (IF cmd = "grade" THEN prepared ELSE {}) :
        disk' = [p \in Paths |->
                  IF \E s \in used : p = Cached(s, wanted[s])
                  THEN [disk[p] EXCEPT !.sub = [d \in SubDirs |-> Rest]] ELSE disk[p]]
  BY DEF Finish
<1>2. ASSUME NEW p \in Paths, NEW s \in used, p = Cached(s, wanted[s])
      PROVE  [disk[p] EXCEPT !.sub = [d \in SubDirs |-> Rest]] \in Dir
  <2>1. p = DirOf(s) /\ disk[p].tree # None /\ disk[p] \in Dir
    BY <1>2 DEF DirOf, Typed, Kept, Exists, TypeOK
  <2> QED BY <2>1 DEF Dir, NoDir, Whole
<1>3. disk' \in [Paths -> Dir]
  BY <1>1, <1>2 DEF Typed, TypeOK
<1> QED BY <1>3, EndTyped DEF Finish, Typed, TypeOK

LEMMA TypedStep == Typed /\ [Next]_vars => Typed'
<1> SUFFICES ASSUME Typed, [Next]_vars PROVE Typed'
  OBVIOUS
<1>1. CASE UNCHANGED vars
  <2>1. TypeOK'
    BY <1>1 DEF Typed, TypeOK, vars
  <2>2. Aimed' /\ Kept'
    BY <1>1 DEF Typed, Aimed, ForTemplate, ForStudent, Kept, DirOf, Exists, vars
  <2> QED BY <2>1, <2>2 DEF Typed
<1>2. CASE Next
  BY <1>2, WorldTyped, CloneTyped, CommandsTyped, ReadyTyped, DeleteTyped, CopyTyped, FinishTyped
     DEF Next, Command, Start
<1> QED BY <1>1, <1>2

\* Commands, kills and failures keep the state well typed: nothing is copied into
\* or deleted from a directory that is not there (clone_repository's callers).
THEOREM TypeCorrect == Spec => []TypeOK
<1>1. Typed => TypeOK
  BY DEF Typed
<1> QED BY TypedInit, TypedStep, <1>1, PTL DEF Spec

-----------------------------------------------------------------------------
(* The cache holds what its names say.                                     *)

Faithful == Made /\ CacheFaithful

\* A step that leaves the commits of all directories alone, at a place where no
\* directory is being made.
LEMMA TreesKept ==
  ASSUME Typed, Faithful, pc' \notin Busy, UNCHANGED spoilt, \A q \in Paths : disk'[q].tree = disk[q].tree
  PROVE  Faithful'
<1>1. CacheFaithful'
  BY PathTypes DEF Faithful, CacheFaithful
<1>2. Made'
  BY DEF Made, Busy
<1> QED BY <1>1, <1>2 DEF Faithful

\* While a directory of the cache is being made it is not there, and its name is
\* that of the hash that was asked for.
LEMMA MadePath ==
  ASSUME Typed, Faithful, pc \in Busy
  PROVE  \A r \in Repos, c \in Commits :
           Cached(r, c) = job.path => c = job.hash /\ ~Exists(job.path)
<1> SUFFICES ASSUME NEW r \in Repos, NEW c \in Commits, Cached(r, c) = job.path
             PROVE  c = job.hash /\ ~Exists(job.path)
  OBVIOUS
<1>1. ~Exists(job.path)
  BY PathFacts DEF Faithful, Made
<1>2. ForTemplate \/ ForStudent
  BY DEF Typed, Aimed
<1>3. CASE ForTemplate
  BY <1>1, <1>3, PathFacts DEF ForTemplate
<1>4. CASE ForStudent
  <2>1. job.path = DirOf(job.repo) /\ job.hash = wanted[job.repo]
    BY <1>4 DEF ForStudent
  <2>2. cmd = "grade"
    BY <2>1, PathFacts DEF DirOf
  <2> QED BY <1>1, <2>1, <2>2, PathFacts DEF DirOf
<1> QED BY <1>2, <1>3, <1>4

LEMMA FaithfulCrash == ASSUME Typed, Faithful, Crash PROVE Faithful'
<1>1. disk \in [Paths -> Dir] /\ pc' = "idle" /\ disk' \in {disk} \cup Halfway
  BY DEF Typed, TypeOK, Crash, EndCommand, Goto
<1>2. ASSUME NEW r \in Repos, NEW c \in Commits
      PROVE  disk'[Cached(r, c)].tree = disk[Cached(r, c)].tree
  <2>1. Cached(r, c) \in Paths /\ Cached(r, c) # Tmp
    BY PathTypes, PathFacts
  <2>2. CASE pc \in {"tmp", "clone", "reset"}
    BY <1>1, <2>1, <2>2 DEF Halfway
  <2>3. CASE pc = "replace"
    <3>1. Cached(r, c) # job.path \/ ~Exists(job.path)
      BY <2>3, MadePath DEF Busy
    <3> QED BY <1>1, <2>1, <2>3, <3>1 DEF Halfway
  <2>4. CASE pc \in Filled
    <3>1. Exists(job.path) /\ job.path \in Paths
      BY <2>4, Elsewhere DEF Typed, Aimed, ForStudent, Filled
    <3>2. ASSUME NEW d \in SubDirs
          PROVE  [disk EXCEPT ![job.path].sub[d] = Rest][Cached(r, c)].tree = disk[Cached(r, c)].tree
      BY <1>1, <2>1, <3>1, PutSubOnDisk DEF Subs
    <3>3. todo.delete \subseteq SubDirs /\ todo.copy \subseteq SubDirs
      BY DEF Typed, TypeOK
    <3>4. disk' = disk \/ \E d \in SubDirs : disk' = [disk EXCEPT ![job.path].sub[d] = Rest]
      BY <1>1, <2>4, <3>3 DEF Halfway, Filled
    <3> QED BY <3>2, <3>4
  <2>5. CASE pc \notin {"tmp", "clone", "reset", "replace"} \cup Filled
    BY <1>1, <2>5 DEF Halfway, Filled
  <2> QED BY <2>2, <2>3, <2>4, <2>5
<1>3. CacheFaithful'
  BY <1>2 DEF Crash, Faithful, CacheFaithful
<1> QED BY <1>1, <1>3 DEF Faithful, Made, Busy

LEMMA FaithfulClone ==
  ASSUME Typed, Faithful,
         \/ CacheRepository \/ AssertHash \/ DeleteTmp \/ GitClone \/ GitReset \/ ReplaceOld
         \/ Rename
  PROVE  Faithful'
<1>1. disk \in [Paths -> Dir] /\ Tmp \in Paths
  BY PathTypes DEF Typed, TypeOK
<1>2. CASE CacheRepository
  <2>1. UNCHANGED <<disk, job, spoilt>> /\ (pc' = "check" \/ (pc' = "tmp" /\ ~Exists(job.path)))
    BY <1>2 DEF CacheRepository, Goto, OnlyPc, OnlyDisk
  <2> QED BY <2>1 DEF Faithful, Made, CacheFaithful, Busy, Exists
<1>3. CASE AssertHash
  <2>1. UNCHANGED <<disk, spoilt>> /\ (pc' = "idle" \/ (pc' = "tmp" /\ UNCHANGED job /\ job.hash # NoHash))
    BY <1>3 DEF AssertHash, EndCommand, Goto
  <2>2. ForStudent /\ cmd # "grade"
    BY <1>3 DEF AssertHash, Typed, Aimed, ForStudent
  <2>3. pc' = "tmp" => \E s \in Students : job.path = Bulk(s)
    BY <2>1, <2>2 DEF ForStudent, DirOf
  <2> QED BY <2>1, <2>3 DEF Faithful, Made, CacheFaithful, Busy, Exists
<1>4. ASSUME pc \in Busy, UNCHANGED <<job, spoilt>>,
             \A q \in Paths \ {Tmp} : disk'[q] = disk[q],
             pc' \in {"replace", "rename"} => disk'[Tmp].tree = job.hash,
             pc' \in Busy \cup {"check"}
      PROVE  Faithful'
  <2>1. job.path \in Paths \ {Tmp}
    BY <1>4, Elsewhere
  <2>2. CacheFaithful'
    BY <1>4, PathTypes, PathFacts DEF Faithful, CacheFaithful
  <2> QED BY <1>4, <2>1, <2>2 DEF Faithful, Made, Exists
<1>5. CASE DeleteTmp
  <2>1. DeleteDir(Tmp)
    BY <1>5 DEF DeleteTmp
  <2>2. \A q \in Paths \ {Tmp} : disk'[q] = disk[q]
    BY <1>1, <2>1, DeleteDirFacts DEF Typed
  <2> QED BY <1>4, <1>5, <2>2 DEF DeleteTmp, Goto, OnlyDisk, Busy
<1>6. CASE GitClone
  <2>1. \A q \in Paths \ {Tmp} : disk'[q] = disk[q]
    BY <1>1, <1>6 DEF GitClone
  <2> QED BY <1>4, <1>6, <2>1 DEF GitClone, Goto, OnlyDisk, Busy
<1>7. CASE GitReset
  <2>1. job.repo \in Repos /\ job.hash \in Commits
    BY <1>7, Elsewhere DEF GitReset, Busy, Typed, TypeOK, Job
  <2>2. \A q \in Paths \ {Tmp} : disk'[q] = disk[q]
    BY <1>1, <1>7 DEF GitReset
  <2>3. pc' = "replace" => disk'[Tmp].tree = job.hash
    BY <1>1, <1>7, <2>1, DirFacts DEF GitReset, Goto
  <2> QED BY <1>4, <1>7, <2>2, <2>3 DEF GitReset, Goto, OnlyDisk, Busy
<1>8. CASE ReplaceOld
  <2>1. pc \in Busy /\ job.path \in Paths /\ job.path # Tmp
    BY <1>8, Elsewhere DEF ReplaceOld, Busy
  <2>2. DeleteDir(job.path) /\ pc' = "rename" /\ UNCHANGED <<job, spoilt>>
    BY <1>8 DEF ReplaceOld, Goto, OnlyDisk
  <2>3. /\ \A q \in Paths \ {job.path} : disk'[q] = disk[q]
        /\ ~Exists(job.path) => disk'[job.path].tree = None
    BY <2>1, <2>2, DeleteDirFacts DEF Typed
  <2>4. ASSUME NEW r \in Repos, NEW c \in Commits
        PROVE  Cached(r, c) \in spoilt' \/ disk'[Cached(r, c)].tree \in {None, c}
    <3>1. Cached(r, c) \in Paths
      BY PathTypes
    <3>2. CASE Cached(r, c) = job.path
      BY <2>1, <2>3, <3>2, MadePath
    <3>3. CASE Cached(r, c) # job.path
      BY <2>2, <2>3, <3>1, <3>3 DEF Faithful, CacheFaithful
    <3> QED BY <3>2, <3>3
  <2>5. disk'[Tmp].tree = job.hash
    BY <1>1, <1>8, <2>1, <2>3 DEF Faithful, Made, ReplaceOld
  <2>6. (\E s \in Students : job.path = Bulk(s)) \/ disk'[job.path].tree = None
    BY <2>1, <2>3 DEF Faithful, Made
  <2> QED BY <2>2, <2>4, <2>5, <2>6 DEF Faithful, Made, CacheFaithful, Exists
<1>9. CASE Rename
  <2>1. pc \in Busy /\ job.path \in Paths /\ job.path # Tmp /\ disk[Tmp].tree = job.hash
    BY <1>9, Elsewhere DEF Rename, Busy, Faithful, Made
  <2>2. pc' = "check" /\ UNCHANGED spoilt
    BY <1>9 DEF Rename, Goto, OnlyDisk
  <2>3. UNCHANGED disk \/ disk' = [disk EXCEPT ![job.path] = disk[Tmp], ![Tmp] = NoDir]
    BY <1>9 DEF Rename
  <2>4. ASSUME NEW r \in Repos, NEW c \in Commits
        PROVE  Cached(r, c) \in spoilt' \/ disk'[Cached(r, c)].tree \in {None, c}
    <3>1. Cached(r, c) \in Paths /\ Cached(r, c) # Tmp
          /\ (Cached(r, c) \in spoilt \/ disk[Cached(r, c)].tree \in {None, c})
      BY PathTypes, PathFacts DEF Faithful, CacheFaithful
    <3>2. CASE Cached(r, c) = job.path
      <4>1. c = job.hash
        BY <2>1, <3>2, MadePath
      <4> QED BY <1>1, <2>1, <2>2, <2>3, <3>1, <3>2, <4>1
    <3>3. CASE Cached(r, c) # job.path
      BY <1>1, <2>1, <2>2, <2>3, <3>1, <3>3
    <3> QED BY <3>2, <3>3
  <2> QED BY <2>2, <2>4 DEF Faithful, Made, CacheFaithful, Busy
<1> QED BY <1>2, <1>3, <1>5, <1>6, <1>7, <1>8, <1>9

LEMMA FaithfulStep == Typed /\ Faithful /\ [Next]_vars => Faithful'
<1> SUFFICES ASSUME Typed, Faithful, [Next]_vars PROVE Faithful'
  OBVIOUS
<1>1. disk \in [Paths -> Dir]
  BY DEF Typed, TypeOK
<1>2. CASE UNCHANGED vars \/ \E r \in Repos : Push(r)
  <2>1. UNCHANGED <<disk, job, pc, spoilt>>
    BY <1>2 DEF vars, Push
  <2> QED BY <2>1 DEF Faithful, Made, CacheFaithful, Exists
<1>3. CASE EditTemplate
  <2>1. PICK c \in Commits, d \in SubDirs :
          /\ disk[Cached(Template, c)].tree = c
          /\ disk' = [disk EXCEPT ![Cached(Template, c)].sub[d] = Edited]
    BY <1>3 DEF EditTemplate
  <2>2. Cached(Template, c) \in Paths /\ Exists(Cached(Template, c)) /\ Edited \in Subs
    BY <2>1, PathTypes, PathFacts, CommitFacts DEF Exists, Subs
  <2>3. \A q \in Paths : disk'[q].tree = disk[q].tree
    BY <1>1, <2>1, <2>2, PutSubOnDisk
  <2> QED BY <1>3, <2>3, TreesKept DEF EditTemplate, Busy
<1>4. CASE Clean
  <2>1. PICK stays, part :
          /\ \A q \in Paths \ part : disk'[q] = IF q \in InCache \ stays THEN NoDir ELSE disk[q]
          /\ spoilt' = (spoilt \cap stays) \cup part
    BY <1>4 DEF Clean
  <2>2. ASSUME NEW r \in Repos, NEW c \in Commits
        PROVE  Cached(r, c) \in spoilt' \/ disk'[Cached(r, c)].tree \in {None, c}
    <3>1. Cached(r, c) \in Paths /\ Cached(r, c) \in InCache
          /\ (Cached(r, c) \in spoilt \/ disk[Cached(r, c)].tree \in {None, c})
      BY PathTypes DEF InCache, Faithful, CacheFaithful
    <3> QED BY <2>1, <3>1, DirFacts
  <2> QED BY <1>4, <2>2 DEF Clean, Faithful, CacheFaithful, Made, Busy
<1>5. CASE Crash
  BY <1>5, FaithfulCrash
<1>6. CASE \/ CacheRepository \/ AssertHash \/ DeleteTmp \/ GitClone \/ GitReset \/ ReplaceOld
           \/ Rename
  BY <1>6, FaithfulClone
<1>7. CASE \/ StartWithTemplate \/ StartBulk \/ TemplateReady \/ ListStudents \/ NextStudent
           \/ StudentReady
  <2>1. UNCHANGED <<disk, spoilt>>
    BY <1>7 DEF StartWithTemplate, StartBulk, TemplateReady, ListStudents, NextStudent, StudentReady
  <2>2. pc' \notin Busy
    BY <1>7 DEF StartWithTemplate, StartBulk, TemplateReady, ListStudents, NextStudent, StudentReady,
                Turn, Goto, EndCommand, Busy
  <2> QED BY <2>1, <2>2, TreesKept
<1>8. CASE DeleteSubDir \/ CopySubDir
  <2>1. pc \in Filled /\ pc' \notin Busy /\ UNCHANGED spoilt
    BY <1>8 DEF DeleteSubDir, CopySubDir, Goto, Filled, Busy
  <2>2. job.path \in Paths /\ Exists(job.path)
    BY <2>1, Elsewhere DEF Typed, Aimed, ForStudent
  <2>5. \E d \in SubDirs, v \in Subs : disk' = [disk EXCEPT ![job.path].sub[d] = v]
    BY <1>8, DeleteOne, CopyOne
  <2>6. \A q \in Paths : disk'[q].tree = disk[q].tree
    BY <1>1, <2>2, <2>5, PutSubOnDisk
  <2> QED BY <2>1, <2>6, TreesKept
<1>9. CASE Finish
  <2>1. \A q \in Paths : disk'[q].tree = disk[q].tree
    BY <1>1, <1>9 DEF Finish, Dir, NoDir, Whole
  <2> QED BY <1>9, <2>1, TreesKept DEF Finish, EndCommand, Goto, Busy
<1> QED BY <1>2, <1>3, <1>4, <1>5, <1>6, <1>7, <1>8, <1>9 DEF Next, Command, Start, World

\* A directory of the cache holds the whole commit its name promises or is not
\* there, whatever is killed or fails while it is made; only a place of which the
\* last clean left a part is excepted (cache_repository).
THEOREM CacheIsFaithful == Spec => []CacheFaithful
<1>1. Init => Faithful
  <2>1. Init => \A r \in Repos, c \in Commits : disk[Cached(r, c)].tree = None
    BY PathTypes, PathFacts, DirFacts DEF Init
  <2> QED BY <2>1 DEF Init, Faithful, Made, CacheFaithful, Busy
<1>2. Typed /\ Faithful /\ [Next]_vars => (Typed /\ Faithful)'
  BY TypedStep, FaithfulStep
<1>3. Faithful => CacheFaithful
  BY DEF Faithful
<1> QED BY TypedInit, <1>1, <1>2, <1>3, PTL DEF Spec

-----------------------------------------------------------------------------
(* The tests are the template's.                                           *)

CachedTemplates == {Cached(Template, c) : c \in Commits}
HasTests(p, d)  == disk[p].sub[d] = Copy(None, disk[template].sub[d])
Missed(s, d)    == <<s, d>> \in missed

\* The source of the tests is a directory no student works in, and a directory
\* being filled has lost its own before it is given the template's, where nothing
\* failed.
Sourced == cmd # "bulk" /\ pc # "idle" => ForTemplate \/ template \in CachedTemplates
Served  == cmd # "bulk" => \A s \in prepared, d \in SubDirs :
                                Missed(s, d) \/ HasTests(DirOf(s), d)
Emptied ==
  pc = "delete" =>
    todo.copy = SubDirs /\ \A d \in SubDirs \ todo.delete :
                             Missed(job.repo, d) \/ disk[job.path].sub[d] = None
Filling ==
  pc = "copy" => \A d \in SubDirs :
    Missed(job.repo, d) \/ IF d \in todo.copy THEN disk[job.path].sub[d] = None
                           ELSE HasTests(job.path, d)
Replaced == Sourced /\ Served /\ Emptied /\ Filling

\* Before or after a command there is nothing to keep.
LEMMA ReplacedIdle == ASSUME EndCommand PROVE Replaced'
BY DEF EndCommand, Goto, Replaced, Sourced, Served, Emptied, Filling

\* The template and the prepared directories are elsewhere than the directory
\* being made or filled.
LEMMA TemplateElsewhere ==
  ASSUME Typed, Replaced, pc \in Busy \cup Filled, cmd # "bulk", ForStudent
  PROVE  template \in Paths \ {Tmp, job.path}
<1>1. template \in CachedTemplates
  BY PathFacts DEF Replaced, Sourced, Busy, Filled, ForTemplate, ForStudent
<1>2. PICK c \in Commits : template = Cached(Template, c)
  BY <1>1 DEF CachedTemplates
<1>3. job.path = DirOf(job.repo) /\ job.repo \in Students
  BY DEF ForStudent
<1> QED BY <1>2, <1>3, DirOfFacts, PathFacts, PathTypes DEF Typed

\* A step that changes neither the template nor a prepared directory, and leaves
\* the command outside of the filling.
LEMMA ReplacedKept ==
  ASSUME Typed, Replaced, UNCHANGED <<cmd, wanted, template, prepared, missed>>,
         pc # "idle", pc' \notin Filled, ForTemplate => ForTemplate',
         cmd # "bulk" /\ prepared # {} => disk'[template] = disk[template],
         \A s \in prepared : disk'[DirOf(s)] = disk[DirOf(s)]
  PROVE  Replaced'
<1>1. Sourced'
  BY DEF Replaced, Sourced, CachedTemplates
<1>2. Served'
  <2>1. \A s : DirOf(s)' = DirOf(s)
    BY DEF DirOf
  <2> QED BY <2>1 DEF Replaced, Served, HasTests, Missed
<1> QED BY <1>1, <1>2 DEF Replaced, Emptied, Filling, Filled

\* clone_repository changes two places, neither of them in use.
LEMMA ReplacedBusy ==
  ASSUME Typed, Replaced, pc \in Busy, OnlyDisk, pc' \in Busy \cup {"check"},
         \A q \in Paths \ {Tmp, job.path} : disk'[q] = disk[q]
  PROVE  Replaced'
<1>1. ForTemplate \/ ForStudent
  BY DEF Typed, Aimed
<1>2. ForTemplate => ForTemplate'
  BY DEF ForTemplate, OnlyDisk
<1>3. cmd # "bulk" /\ prepared # {} => disk'[template] = disk[template]
  BY <1>1, TemplateElsewhere DEF ForTemplate
<1>4. \A s \in prepared : disk'[DirOf(s)] = disk[DirOf(s)]
  BY Elsewhere
<1> QED BY <1>2, <1>3, <1>4, ReplacedKept DEF OnlyDisk, Busy, Filled

LEMMA ReplacedClone ==
  ASSUME Typed, Replaced,
         \/ CacheRepository \/ AssertHash \/ DeleteTmp \/ GitClone \/ GitReset \/ ReplaceOld
         \/ Rename
  PROVE  Replaced'
<1>1. disk \in [Paths -> Dir]
  BY DEF Typed, TypeOK
<1>2. CASE CacheRepository
  <2>1. UNCHANGED <<disk, cmd, wanted, template, prepared, job, missed>>
        /\ pc = "cache" /\ pc' \in {"check", "tmp"}
    BY <1>2 DEF CacheRepository, Goto, OnlyPc, OnlyDisk
  <2>2. ForTemplate => ForTemplate'
    BY <2>1 DEF ForTemplate, Busy
  <2> QED BY <2>1, <2>2, ReplacedKept DEF Filled
<1>3. CASE AssertHash
  <2>1. CASE job.hash = NoHash
    BY <1>3, <2>1, ReplacedIdle DEF AssertHash
  <2>2. CASE job.hash # NoHash
    <3>1. UNCHANGED <<disk, cmd, wanted, template, prepared, missed>> /\ pc = "assert" /\ pc' = "tmp"
      BY <1>3, <2>2 DEF AssertHash, Goto
    <3>2. ~ForTemplate
      BY <3>1 DEF ForTemplate, Busy
    <3> QED BY <3>1, <3>2, ReplacedKept DEF Filled
  <2> QED BY <2>1, <2>2
<1>4. CASE DeleteTmp
  <2>1. pc \in Busy /\ pc' \in Busy /\ OnlyDisk /\ DeleteDir(Tmp)
    BY <1>4 DEF DeleteTmp, Goto, Busy
  <2>2. \A q \in Paths \ {Tmp} : disk'[q] = disk[q]
    BY <2>1, PathTypes, DeleteDirFacts DEF Typed
  <2> QED BY <2>1, <2>2, ReplacedBusy
<1>5. CASE GitClone
  <2>1. pc \in Busy /\ pc' \in Busy \cup {"check"} /\ OnlyDisk
    BY <1>5 DEF GitClone, Goto, Busy
  <2>2. \A q \in Paths \ {Tmp} : disk'[q] = disk[q]
    BY <1>1, <1>5 DEF GitClone
  <2> QED BY <2>1, <2>2, ReplacedBusy
<1>6. CASE GitReset
  <2>1. pc \in Busy /\ pc' \in Busy \cup {"check"} /\ OnlyDisk
    BY <1>6 DEF GitReset, Goto, Busy
  <2>2. \A q \in Paths \ {Tmp} : disk'[q] = disk[q]
    BY <1>1, <1>6 DEF GitReset
  <2> QED BY <2>1, <2>2, ReplacedBusy
<1>7. CASE ReplaceOld
  <2>1. pc \in Busy /\ pc' \in Busy /\ OnlyDisk /\ DeleteDir(job.path) /\ job.path \in Paths
    BY <1>7, Elsewhere DEF ReplaceOld, Goto, Busy
  <2>2. \A q \in Paths \ {job.path} : disk'[q] = disk[q]
    BY <2>1, DeleteDirFacts DEF Typed
  <2> QED BY <2>1, <2>2, ReplacedBusy
<1>8. CASE Rename
  <2>1. pc \in Busy /\ pc' = "check" /\ OnlyDisk
    BY <1>8 DEF Rename, Goto, Busy
  <2>2. \A q \in Paths \ {Tmp, job.path} : disk'[q] = disk[q]
    BY <1>1, <1>8 DEF Rename
  <2> QED BY <2>1, <2>2, ReplacedBusy
<1> QED BY <1>2, <1>3, <1>4, <1>5, <1>6, <1>7, <1>8

LEMMA ReplacedCommands ==
  ASSUME Typed, Replaced,
         \/ StartWithTemplate \/ StartBulk \/ TemplateReady \/ ListStudents \/ StudentReady
         \/ NextStudent
  PROVE  Replaced'
<1>1. CASE StartWithTemplate
  <2>1. CASE pc' = "idle"
    BY <1>1, <2>1, PathFacts DEF StartWithTemplate, Typed, Aimed, Replaced, Sourced, Served,
                                 Emptied, Filling
  <2>2. CASE pc' # "idle"
    <3>1. prepared' = {} /\ pc' = "cache" /\ cmd' \in {"grade", "bulk template"}
      BY <1>1, <2>2 DEF StartWithTemplate, Goto, Typed, Aimed
    <3>2. /\ job' = [repo |-> Template, hash |-> head[Template],
                     path |-> Cached(Template, head[Template])]
          /\ head[Template] \in Commits
      BY <1>1, <2>2, PathFacts DEF StartWithTemplate, Typed, TypeOK
    <3>3. ForTemplate'
      BY <3>1, <3>2 DEF ForTemplate, Busy
    <3> QED BY <3>1, <3>3 DEF Replaced, Sourced, Served, Emptied, Filling
  <2> QED BY <2>1, <2>2
<1>2. CASE StartBulk
  BY <1>2 DEF StartBulk, Goto, Replaced, Sourced, Served, Emptied, Filling
<1>3. CASE TemplateReady
  <2>1. CASE ~Success
    BY <1>3, <2>1, ReplacedIdle DEF TemplateReady
  <2>2. CASE Success
    <3>1. ForTemplate
      BY <1>3, PathFacts DEF TemplateReady, Typed, Aimed, ForStudent
    <3>2. prepared' = {} /\ template' \in CachedTemplates /\ pc' = "list"
      BY <1>3, <2>2, <3>1 DEF TemplateReady, ForTemplate, CachedTemplates, Goto
    <3> QED BY <3>2 DEF Replaced, Sourced, Served, Emptied, Filling, CachedTemplates
  <2> QED BY <2>1, <2>2
<1>4. CASE ListStudents
  <2>1. UNCHANGED <<cmd, template, disk>> /\ prepared' = {} /\ pc = "list"
    BY <1>4 DEF ListStudents, Typed, Aimed
  <2>2. pc' \in {"cache", "assert", "ready"}
    BY <1>4 DEF ListStudents, Turn, Goto
  <2>3. ~ForTemplate
    BY <2>1 DEF ForTemplate, Busy
  <2> QED BY <2>1, <2>2, <2>3 DEF Replaced, Sourced, Served, Emptied, Filling, CachedTemplates
<1>5. CASE StudentReady
  <2>1. UNCHANGED <<cmd, template, disk, job, wanted, missed>> /\ pc = "check" /\ job.repo \in Students
        /\ pc' \in {"delete", "next"}
    BY <1>5 DEF StudentReady, Goto
  <2>2. ~ForTemplate
    BY <2>1, PathFacts DEF ForTemplate
  <2>3. Sourced'
    BY <2>1, <2>2 DEF Replaced, Sourced, CachedTemplates
  <2>4. cmd # "bulk" => prepared' = prepared
    BY <1>5 DEF StudentReady
  <2>5. Served'
    <3>1. \A s : DirOf(s)' = DirOf(s)
      BY <2>1 DEF DirOf
    <3> QED BY <2>1, <2>4, <3>1 DEF Replaced, Served, HasTests, Missed
  <2>6. pc' = "delete" => todo' = [delete |-> SubDirs, copy |-> SubDirs]
    BY <1>5 DEF StudentReady, Goto
  <2> QED BY <2>1, <2>3, <2>5, <2>6 DEF Replaced, Emptied, Filling
<1>6. CASE NextStudent
  <2>1. UNCHANGED <<cmd, template, disk, wanted, prepared, missed>> /\ pc = "next"
    BY <1>6 DEF NextStudent
  <2>2. pc' \in {"cache", "assert", "ready"}
    BY <1>6 DEF NextStudent, Turn, Goto
  <2>3. ~ForTemplate
    BY <2>1 DEF ForTemplate, Busy
  <2> QED BY <2>1, <2>2, <2>3, ReplacedKept DEF Filled
<1> QED BY <1>1, <1>2, <1>3, <1>4, <1>5, <1>6

\* Filling one special directory of the student at work.
LEMMA FillOne ==
  ASSUME Typed, Replaced, pc \in Filled, NEW d \in SubDirs, NEW v \in Subs,
         disk' = [disk EXCEPT ![job.path].sub[d] = v],
         UNCHANGED <<cmd, wanted, template, job>>, missed \subseteq missed'
  PROVE  /\ Sourced'
         /\ cmd # "bulk"
         /\ \A s \in prepared, e \in SubDirs : Missed(s, e)' \/ HasTests(DirOf(s), e)'
         /\ disk'[template] = disk[template]
         /\ disk'[job.path].sub[d] = v
         /\ \A e \in SubDirs \ {d} : disk'[job.path].sub[e] = disk[job.path].sub[e]
<1>1. ForStudent /\ Exists(job.path) /\ cmd # "bulk"
  BY DEF Typed, Aimed, Filled, ForStudent
<1>2. job.path \in Paths /\ template \in Paths \ {job.path}
      /\ \A s \in prepared : DirOf(s) \in Paths \ {job.path}
  BY <1>1, Elsewhere, TemplateElsewhere
<1>3. disk \in [Paths -> Dir] /\ disk[job.path].sub \in [SubDirs -> Subs]
  BY <1>2, DirFacts DEF Typed, TypeOK
<1>4. \A q \in Paths \ {job.path} : disk'[q] = disk[q]
  BY <1>1, <1>2, <1>3, PutSubOnDisk
<1>5. disk'[job.path].sub = [disk[job.path].sub EXCEPT ![d] = v]
  BY <1>1, <1>2, <1>3, PutSubOnDisk
<1>6. ~ForTemplate
  BY <1>1, PathFacts DEF ForTemplate, ForStudent
<1>7. Sourced'
  BY <1>1, <1>6 DEF Replaced, Sourced, CachedTemplates, Filled
<1>8. \A s \in prepared, e \in SubDirs : Missed(s, e)' \/ HasTests(DirOf(s), e)'
  <2>1. \A s : DirOf(s)' = DirOf(s)
    BY DEF DirOf
  <2> TAKE s \in prepared, e \in SubDirs
  <2>2. Missed(s, e) \/ HasTests(DirOf(s), e)
    BY <1>1 DEF Replaced, Served
  <2>3. Missed(s, e) => Missed(s, e)'
    BY DEF Missed
  <2>4. HasTests(DirOf(s), e) => HasTests(DirOf(s), e)'
    BY <1>2, <1>4, <2>1 DEF HasTests
  <2> QED BY <2>2, <2>3, <2>4
<1> QED BY <1>1, <1>2, <1>3, <1>4, <1>5, <1>7, <1>8

\* The last element is taken out of a set of one.
LEMMA LastOne ==
  ASSUME NEW S \in SUBSET SubDirs, NEW d \in S, Cardinality(S) = 1
  PROVE  S \ {d} = {}
<1>1. IsFiniteSet({"test", "docker"})
  <2>1. IsFiniteSet({"test"} \cup {"docker"})
    BY FS_Singleton, FS_AddElement
  <2>2. {"test"} \cup {"docker"} = {"test", "docker"}
    OBVIOUS
  <2> QED BY <2>1, <2>2
<1>2. IsFiniteSet(S)
  BY <1>1, FS_Subset, SubDirsNamed
<1>3. PICK x : S = {x}
  BY <1>2, FS_Singleton
<1> QED BY <1>3

LEMMA ReplacedDelete == ASSUME Typed, Replaced, DeleteSubDir PROVE Replaced'
<1>1. pc = "delete" /\ pc \in Filled /\ UNCHANGED <<cmd, wanted, template, job, prepared>>
      /\ pc' = (IF Cardinality(todo.delete) = 1 THEN "copy" ELSE "delete")
  BY DEF DeleteSubDir, Goto, Filled
<1>2. PICK d \in todo.delete, v \in Subs :
        /\ d \in SubDirs
        /\ todo' = [todo EXCEPT !.delete = @ \ {d}]
        /\ disk' = [disk EXCEPT ![job.path].sub[d] = v]
        /\ Changed(d, v, None)
  BY DeleteOne
<1>3. todo \in [delete : SUBSET SubDirs, copy : SUBSET SubDirs]
  BY DEF Typed, TypeOK
<1>5. v = None \/ <<job.repo, d>> \in missed'
  BY <1>2 DEF Changed
<1>6. missed \subseteq missed'
  BY <1>2 DEF Changed
<1>7. /\ Sourced' /\ cmd # "bulk"
      /\ \A s \in prepared, e \in SubDirs : Missed(s, e)' \/ HasTests(DirOf(s), e)'
      /\ disk'[job.path].sub[d] = v
      /\ \A e \in SubDirs \ {d} : disk'[job.path].sub[e] = disk[job.path].sub[e]
  BY <1>1, <1>2, <1>6, FillOne
<1>8. /\ todo'.copy = SubDirs /\ todo'.delete = todo.delete \ {d}
      /\ \A e \in SubDirs \ todo.delete : Missed(job.repo, e) \/ disk[job.path].sub[e] = None
  BY <1>1, <1>2, <1>3 DEF Replaced, Emptied
<1>9. \A e \in SubDirs \ todo'.delete : Missed(job.repo, e)' \/ disk'[job.path].sub[e] = None
  <2>1. Missed(job.repo, d)' \/ disk'[job.path].sub[d] = None
    BY <1>1, <1>5, <1>7 DEF Missed
  <2>2. \A e \in SubDirs \ {d} : Missed(job.repo, e) => Missed(job.repo, e)'
    BY <1>1, <1>6 DEF Missed
  <2> QED BY <1>7, <1>8, <2>1, <2>2
<1>10. pc' = "copy" => todo'.delete = {}
  BY <1>1, <1>2, <1>3, <1>8, LastOne
<1>11. Served'
  BY <1>1, <1>7 DEF Served
<1>12. job' = job
  BY <1>1
<1> QED BY <1>1, <1>7, <1>8, <1>9, <1>10, <1>11, <1>12 DEF Replaced, Emptied, Filling

LEMMA ReplacedCopy == ASSUME Typed, Replaced, CopySubDir PROVE Replaced'
<1>1. pc = "copy" /\ pc \in Filled /\ UNCHANGED <<cmd, wanted, template, job>>
  BY DEF CopySubDir, Filled
<1>2. PICK d \in todo.copy, v \in Subs :
        /\ d \in SubDirs
        /\ todo' = [todo EXCEPT !.copy = @ \ {d}]
        /\ disk' = [disk EXCEPT ![job.path].sub[d] = v]
        /\ Changed(d, v, Copy(disk[job.path].sub[d], disk[template].sub[d]))
  BY CopyOne
<1>3. todo \in [delete : SUBSET SubDirs, copy : SUBSET SubDirs]
  BY DEF Typed, TypeOK
<1>5. Missed(job.repo, d) \/ disk[job.path].sub[d] = None
  BY <1>1, <1>2 DEF Replaced, Filling
<1>7. \/ v = Copy(disk[job.path].sub[d], disk[template].sub[d])
      \/ <<job.repo, d>> \in missed'
  BY <1>2 DEF Changed
<1>8. missed \subseteq missed'
  BY <1>2 DEF Changed
<1>9. /\ Sourced' /\ cmd # "bulk"
      /\ \A s \in prepared, e \in SubDirs : Missed(s, e)' \/ HasTests(DirOf(s), e)'
      /\ disk'[template] = disk[template]
      /\ disk'[job.path].sub[d] = v
      /\ \A e \in SubDirs \ {d} : disk'[job.path].sub[e] = disk[job.path].sub[e]
  BY <1>1, <1>2, <1>8, FillOne
<1>10. todo'.copy = todo.copy \ {d}
  BY <1>2, <1>3
<1>11. Missed(job.repo, d)' \/ HasTests(job.path, d)'
  <2>1. CASE <<job.repo, d>> \in missed'
    BY <1>1, <2>1 DEF Missed
  <2>2. CASE <<job.repo, d>> \notin missed'
    <3>1. disk[job.path].sub[d] = None
      BY <1>5, <1>8, <2>2 DEF Missed
    <3>2. v = Copy(None, disk[template].sub[d])
      BY <1>7, <2>2, <3>1
    <3> QED BY <1>1, <1>9, <3>2 DEF HasTests
  <2> QED BY <2>1, <2>2
<1>12. \A e \in SubDirs \ {d} : Missed(job.repo, e) => Missed(job.repo, e)'
  BY <1>1, <1>8 DEF Missed
<1>13. \A e \in SubDirs :
         Missed(job.repo, e)' \/ IF e \in todo'.copy THEN disk'[job.path].sub[e] = None
                                ELSE HasTests(job.path, e)'
  <2>1. ASSUME NEW e \in SubDirs \ {d}, e \in todo.copy
        PROVE  Missed(job.repo, e)' \/ disk'[job.path].sub[e] = None
    BY <1>1, <1>9, <1>12, <2>1 DEF Replaced, Filling
  <2>2. ASSUME NEW e \in SubDirs \ {d}, e \notin todo.copy
        PROVE  Missed(job.repo, e)' \/ HasTests(job.path, e)'
    BY <1>1, <1>9, <1>12, <2>2 DEF Replaced, Filling, HasTests
  <2> QED BY <1>10, <1>11, <2>1, <2>2
<1>14. CASE Cardinality(todo.copy) = 1
  <2>1. pc' = "next" /\ prepared' = prepared \cup {job.repo}
    BY <1>14 DEF CopySubDir, Goto
  <2>2. todo'.copy = {}
    BY <1>3, <1>10, <1>14, LastOne
  <2>3. ForStudent /\ job.path = DirOf(job.repo)
    BY <1>1 DEF Typed, Aimed, ForStudent, Filled
  <2>4. DirOf(job.repo)' = job'.path
    BY <1>1, <2>3 DEF DirOf
  <2>5. \A e \in SubDirs : Missed(job.repo, e)' \/ HasTests(DirOf(job.repo), e)'
    BY <1>1, <1>13, <2>2, <2>4 DEF HasTests
  <2>6. job' = job
    BY <1>1
  <2>7. Served'
    BY <1>9, <2>1, <2>5, <2>6 DEF Served
  <2> QED BY <1>9, <2>1, <2>7 DEF Replaced, Emptied, Filling
<1>15. CASE Cardinality(todo.copy) # 1
  <2>1. pc' = "copy" /\ prepared' = prepared /\ job' = job
    BY <1>1, <1>15 DEF CopySubDir
  <2>2. Served'
    BY <1>1, <1>9, <2>1 DEF Served
  <2>3. Filling'
    BY <1>13, <2>1 DEF Filling
  <2> QED BY <1>9, <2>1, <2>2, <2>3 DEF Replaced, Emptied
<1> QED BY <1>14, <1>15

LEMMA ReplacedStep == Typed /\ Replaced /\ [Next]_vars => Replaced'
<1> SUFFICES ASSUME Typed, Replaced, [Next]_vars PROVE Replaced'
  OBVIOUS
<1>1. CASE UNCHANGED vars \/ \E r \in Repos : Push(r)
  <2>1. UNCHANGED <<disk, pc, cmd, job, wanted, template, todo, prepared, missed>>
    BY <1>1 DEF vars, Push
  <2> QED BY <2>1 DEF Replaced, Sourced, Served, Emptied, Filling, HasTests, Missed, DirOf, ForTemplate
<1>2. CASE EditTemplate \/ Clean
  <2>1. pc' = "idle" /\ prepared' = {}
    BY <1>2 DEF EditTemplate, Clean, OnlyDisk, Typed, Aimed
  <2> QED BY <2>1 DEF Replaced, Sourced, Served, Emptied, Filling
<1>3. CASE Crash \/ Finish
  BY <1>3, ReplacedIdle DEF Crash, Finish
<1>4. CASE DeleteSubDir
  BY <1>4, ReplacedDelete
<1>5. CASE CopySubDir
  BY <1>5, ReplacedCopy
<1> QED BY <1>1, <1>2, <1>3, <1>4, <1>5, ReplacedClone, ReplacedCommands
        DEF Next, Command, Start, World

\* Commands run in a student's directory, and bulk-clone leaves it, with the test
\* and docker directories the template has on disk, whatever earlier commands,
\* kills, failed clones and earlier failed copies left in it. A deletion or copy of
\* the command itself that fails spoils the one directory of the one student it
\* failed on (grade_homework, bulk_clone).
THEOREM TestsAreTheTemplates == Spec => []TestsReplaced
<1>1. Init => Replaced
  BY DEF Init, Replaced, Sourced, Served, Emptied, Filling
<1>2. Typed /\ Replaced /\ [Next]_vars => (Typed /\ Replaced)'
  BY TypedStep, ReplacedStep
<1>3. Replaced => TestsReplaced
  BY DEF Replaced, Served, HasTests, Missed, TestsReplaced
<1> QED BY TypedInit, <1>1, <1>2, <1>3, PTL DEF Spec

=============================================================================
