------------------------------- MODULE Invite -------------------------------
(***************************************************************************)
(* invite_students: the members of the team, the invitations that are open *)
(* and the accounts that exist are read, then who is left is invited, one  *)
(* after another, while students accept. The listing of repositories,      *)
(* which other commands begin with, runs on the same pages.                *)
(***************************************************************************)
EXTENDS Listing

CONSTANTS
  Accounts,    \* names that are accounts of GitHub
  Files,       \* contents the file of students may have
  MaxWorker,   \* MAX_WORKER of github_users_exist
  MaxChanges   \* bound on what happens on GitHub meanwhile

ASSUME AccountsAreNames == Accounts \subseteq Names
ASSUME FilesAreLists == Files \subseteq Seq(Names)
ASSUME BoundsAreCounts == MaxWorker \in Nat \ {0} /\ MaxChanges \in Nat

VARIABLES
  changes,   \* what happened on GitHub so far
  phase,     \* where invite_students stands, "listed" when only repositories are read
  students,  \* the file
  exist,     \* places whose name counts as an account
  todo,      \* places still to be invited, NULL elsewhere in the array
  reported   \* success or failure of every invitation sent

invite == <<phase, students, exist, todo, reported>>
vars   == <<lists, listing, changes, invite>>

Places == DOMAIN students

TypeOK ==
  /\ ListingTypeOK
  /\ changes \in 0..MaxChanges
  /\ phase \in {"idle", "members", "invitations", "users", "invite", "done", "abort",
                "listed"}
  /\ students \in Files
  /\ exist \in SUBSET Places /\ todo \in SUBSET Places
  /\ DOMAIN reported \subseteq Places
  /\ \A i \in DOMAIN reported : reported[i] \in BOOLEAN

\* Lists without repetition.
Lists(S) == {s \in UNION {[1..n -> S] : n \in 0..Cardinality(S)} : IsInjective(s)}

Init ==
  /\ \E members, invitations \in Lists(Accounts), repos \in Lists(Names) :
       /\ ToSet(members) \cap ToSet(invitations) = {}
       /\ repos = <<>> \/ members \o invitations = <<>>   \* a command needs one or the other
       /\ lists = [members |-> members, invitations |-> invitations, repos |-> repos]
  /\ ListingInit
  /\ changes = 0
  /\ phase = "idle" /\ students \in Files
  /\ exist = {} /\ todo = {} /\ reported = <<>>

-----------------------------------------------------------------------------
(* Students and GitHub.                                                    *)

\* An invited student becomes a member, somewhere in the list.
Accept(s) ==
  /\ changes < MaxChanges
  /\ changes' = changes + 1
  /\ \E i \in 1..Len(lists["members"]) + 1, j \in DOMAIN lists["invitations"] :
       /\ lists["invitations"][j] = s
       /\ lists' = [With("members", s, i) EXCEPT !["invitations"] = RemoveAt(@, j)]
  /\ Changed({"members", "invitations"}, reading = "members")
  /\ UNCHANGED <<reading, pages, got, parsed, results, before, invite>>

\* A student accepts the homework; the newest repository comes first.
CreateRepo(r) ==
  /\ changes < MaxChanges /\ r \notin ToSet(lists["repos"]) /\ reading = "repos"
  /\ changes' = changes + 1
  /\ lists' = With("repos", r, 1)
  /\ Changed({"repos"}, TRUE)
  /\ UNCHANGED <<reading, pages, got, parsed, results, before, invite>>

-----------------------------------------------------------------------------
(* retrieve_repos_by_prefix, wherever it is called from.                   *)

ListRepos ==
  /\ phase = "idle" /\ phase' = "listed"
  /\ BeginListing("repos")
  /\ UNCHANGED <<lists, changes, students, exist, todo, reported>>

-----------------------------------------------------------------------------
(* invite_students.                                                        *)

RetrieveMembers ==
  /\ phase = "idle" /\ students # <<>> /\ phase' = "members"
  /\ BeginListing("members")
  /\ UNCHANGED <<lists, changes, students, exist, todo, reported>>

RetrieveInvitations ==
  /\ phase = "members" /\ reading = "none" /\ phase' = "invitations"
  /\ BeginListing("invitations")
  /\ UNCHANGED <<lists, changes, students, exist, todo, reported>>

\* The name in the request for place i: the place in the batch is used, not the
\* one in the array.
Asked(i) == students[((i - 1) % MaxWorker) + 1]

\* Mutant: every batch is taken to be full.
UsersExist_FullBatch ==
  /\ phase = "invitations" /\ reading = "none" /\ phase' = "users"
  /\ \E lost \in SUBSET IF MayLose THEN 1..MaxWorker ELSE {} :
       exist' = {i \in Places : Asked(i) \in Accounts} \cup lost
  /\ UNCHANGED <<lists, listing, changes, students, todo, reported>>

\* A response that was lost has a status below 400.
UsersExist ==
  /\ phase = "invitations" /\ reading = "none" /\ phase' = "users"
  /\ \E lost \in SUBSET IF MayLose THEN Places ELSE {} :
       exist' = {i \in Places : Asked(i) \in Accounts} \cup lost
  /\ UNCHANGED <<lists, listing, changes, students, todo, reported>>

\* Mutant: only the members are taken out of the array.
Known_Members(i) == students[i] \in Retrieved("members")

Known(i) == students[i] \in Retrieved("members") \cup Retrieved("invitations")

\* The first name that is no account ends everything.
FilterStudents ==
  /\ phase = "users"
  /\ todo' = {i \in Places : ~Known(i)}
  /\ phase' = IF todo' \subseteq exist THEN "invite" ELSE "abort"
  /\ UNCHANGED <<lists, listing, changes, students, exist, reported>>

\* GitHub knows who is invited or a member already. A lost request or response
\* counts as a failure.
InviteUser(i) ==
  LET s == students[i] IN
  /\ phase = "invite" /\ todo # {} /\ i = Min(todo)
  /\ todo' = todo \ {i}
  /\ \E sent, answered \in IF MayLose THEN BOOLEAN ELSE {TRUE} :
       /\ reported' = [j \in DOMAIN reported \cup {i} |->
                         IF j # i THEN reported[j] ELSE sent /\ answered /\ s \in Accounts]
       /\ lists' = IF sent /\ s \in Accounts \ (ToSet(lists["members"]) \cup ToSet(lists["invitations"]))
                   THEN With("invitations", s, 1) ELSE lists
  /\ UNCHANGED <<listing, changes, phase, students, exist>>

\* Mutant: the first failure ends the invitations.
Summary_FirstFailure ==
  /\ phase = "invite" /\ (todo = {} \/ \E i \in DOMAIN reported : ~reported[i])
  /\ phase' = "done"
  /\ UNCHANGED <<lists, listing, changes, students, exist, todo, reported>>

Summary ==
  /\ phase = "invite" /\ todo = {}
  /\ phase' = "done"
  /\ UNCHANGED <<lists, listing, changes, students, exist, todo, reported>>

Program ==
  \/ ListRepos \/ RetrieveMembers \/ RetrieveInvitations \/ UsersExist \/ FilterStudents
  \/ (\E i \in Places : InviteUser(i)) \/ Summary
  \/ (\E i \in 1..WorkerCount : Answer(i)) /\ UNCHANGED <<changes, invite>>
  \/ ParsePage /\ UNCHANGED <<changes, invite>>
World == (\E s \in Names : Accept(s)) \/ (\E r \in Names : CreateRepo(r))
Next  == Program \/ World
Spec  == Init /\ [][Next]_vars

-----------------------------------------------------------------------------
(* What must hold.                                                         *)

\* Who was a member when the members were read, or was invited when the
\* invitations were, is not invited again, if the lists could be read whole.
NoRepeatedInvitation ==
  (change["members"] < 2 /\ change["invitations"] < 2) =>
    \A i \in DOMAIN reported :
      students[i] \notin ToSet(before["members"]) \cup ToSet(before["invitations"])

\* When the summary is printed, everybody in the file is a member, has an open
\* invitation, or is reported as a failure, whatever was lost and accepted.
EveryoneSettled ==
  phase = "done" => \A i \in Places :
    \/ students[i] \in ToSet(lists["members"]) \cup ToSet(lists["invitations"])
    \/ i \in DOMAIN reported /\ ~reported[i]

\* Only names that are accounts are invited: "GitHub user '%s' doesn't exist"
\* otherwise ends the command before any invitation (hand.c:251).
InvitedExist ==
  \A i \in DOMAIN reported : students[i] \in Accounts

=============================================================================
