------------------------------ MODULE Listing -------------------------------
(***************************************************************************)
(* How lists are read from GitHub page by page: retrieve_team_members,     *)
(* retrieve_existing_invitations and retrieve_repos_by_prefix request a    *)
(* batch of pages at once, are answered in any order, and stop at the      *)
(* first empty page, while the lists go on changing.                       *)
(***************************************************************************)
EXTENDS Integers, Sequences, SequencesExt, FiniteSetsExt

CONSTANTS
  Names,        \* members, invited users and repositories are known by name
  Prefixed,     \* names of repositories that begin with the title
  WorkerCount,  \* pages in a batch
  PageSize,     \* entries in a page (per_page)
  MayLose       \* whether a response may be lost

Kinds == {"members", "invitations", "repos"}

ASSUME CountsArePos == {WorkerCount, PageSize} \subseteq Nat \ {0}
ASSUME PrefixedAreNames == Prefixed \subseteq Names
ASSUME MayLoseIsBool == MayLose \in BOOLEAN

VARIABLES
  lists,    \* GitHub: the current lists
  reading,  \* the list being read, or "none"
  pages,    \* pages in the finished batches
  got,      \* the pages of the batch that were answered
  parsed,   \* those of them that were read into results
  results,  \* the StringArrays, with the repositories of other homework, see Retrieved
  before,   \* history: each list when its reading began
  change    \* history: what became of it meanwhile, see Changed

listing == <<reading, pages, got, parsed, results, before, change>>

ListingTypeOK ==
  /\ lists \in [Kinds -> Seq(Names)]
  /\ reading \in Kinds \cup {"none"}
  /\ pages \in Nat
  /\ DOMAIN got \subseteq 1..WorkerCount /\ \A i \in DOMAIN got : got[i] \in Seq(Names)
  /\ parsed \in 0..WorkerCount - 1
  /\ {results, before} \subseteq [Kinds -> Seq(Names)]
  /\ change \in [Kinds -> 0..2]

ListingInit ==
  LET all(value) == [k \in Kinds |-> value] IN
  /\ reading = "none" /\ pages = 0 /\ got = <<>> /\ parsed = 0
  /\ results = all(<<>>) /\ before = all(<<>>) /\ change = all(0)

-----------------------------------------------------------------------------
(* The lists change.                                                       *)

\* No page of a batch is answered, or all are.
Between == DOMAIN got \in {{}, 1..WorkerCount}

\* Lists ks change: 0 while a list is as it was when its reading began, 1 when
\* entries were only added between the answers of two batches, 2 when entries may
\* have moved to pages that were read or a response was lost.
Changed(ks, harmless) ==
  change' = IF reading \notin ks THEN change
            ELSE [change EXCEPT ![reading] = IF harmless /\ Between /\ @ < 2 THEN 1 ELSE 2]

\* The lists with e added to list k before place i.
With(k, e, i) == [lists EXCEPT ![k] = InsertAt(@, i, e)]

-----------------------------------------------------------------------------
(* Reading one of them.                                                    *)

BeginListing(k) ==
  /\ reading' = k /\ pages' = 0 /\ got' = <<>> /\ parsed' = 0
  /\ results' = [results EXCEPT ![k] = <<>>]
  /\ before' = [before EXCEPT ![k] = lists[k]]
  /\ change' = [change EXCEPT ![k] = 0]

PageOf(list, p) ==
  SubSeq(list, (p - 1) * PageSize + 1, Min({p * PageSize, Len(list)}))

\* A lost response has no entries.
Answer(i) ==
  /\ reading # "none" /\ i \notin DOMAIN got
  /\ \E lost \in IF MayLose THEN BOOLEAN ELSE {FALSE} :
       /\ got' = [j \in DOMAIN got \cup {i} |->
                    IF j # i THEN got[j] ELSE IF lost THEN <<>> ELSE PageOf(lists[reading], pages + i)]
       /\ change' = IF lost THEN [change EXCEPT ![reading] = 2] ELSE change
  /\ UNCHANGED <<lists, reading, pages, parsed, results, before>>

\* retrieve_repos_by_prefix keeps what begins with the title.
Fits(k, e) == k = "repos" => e \in Prefixed

Retrieved(k) == {e \in ToSet(results[k]) : Fits(k, e)}

\* Mutant: a page without a repository of the homework ends the search.
EndOfList_Fitting(page) == \A e \in ToSet(page) : ~Fits(reading, e)

\* Pages are counted with everything they hold.
EndOfList(page) == page = <<>>

\* The pages are parsed in the order of the requests; the first empty one ends
\* the loops, otherwise the next batch follows the last page.
ParsePage ==
  /\ reading # "none" /\ DOMAIN got = 1..WorkerCount
  /\ LET page == got[parsed + 1] IN
       /\ results' = [results EXCEPT ![reading] = @ \o page]
       /\ reading' = IF EndOfList(page) THEN "none" ELSE reading
       /\ IF EndOfList(page) \/ parsed + 1 = WorkerCount
          THEN pages' = pages + WorkerCount /\ got' = <<>> /\ parsed' = 0
          ELSE parsed' = parsed + 1 /\ UNCHANGED <<pages, got>>
  /\ UNCHANGED <<lists, before, change>>

-----------------------------------------------------------------------------
(* What must hold.                                                         *)

\* Pages are asked for by number while the list moves under them. What was read
\* is the list, entry by entry, if the list stayed as it was; if entries came
\* only between the answers of two batches, none that is looked for is missing.
NoneMissed ==
  \A k \in Kinds : reading # k =>
    /\ change[k] = 0 => results[k] = before[k]
    /\ change[k] = 1 => \A e \in ToSet(before[k]) : Fits(k, e) => e \in Retrieved(k)

=============================================================================
