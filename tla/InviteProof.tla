---------------------------- MODULE InviteProof -----------------------------
(***************************************************************************)
(* Proofs about the listings and the invitations, for every file, every    *)
(* size of pages and batches, and every way the lists change meanwhile.    *)
(***************************************************************************)
EXTENDS Invite, SequenceTheorems, WellFoundedInduction, TLAPS

-----------------------------------------------------------------------------
(* Lists and pages.                                                        *)

\* A set of numbers has a least element, which Min finds.
LEMMA MinFact ==
  ASSUME NEW S \in SUBSET Nat, S # {}
  PROVE  Min(S) \in S /\ \A y \in S : Min(S) <= y
<1>1. PICK x \in S : \A y \in S : ~(<<y, x>> \in OpToRel(<, Nat))
  BY NatLessThanWellFounded, WFMin
<1>2. \A y \in S : ~(y < x)
  BY <1>1 DEF OpToRel
<1>3. \A y \in S : x <= y
  BY <1>2
<1> QED BY <1>3 DEF Min

\* A part of a sequence.
LEMMA PartFacts ==
  ASSUME NEW s \in Seq(Names), NEW a \in Nat \ {0}, NEW b \in Nat, b <= Len(s)
  PROVE  /\ SubSeq(s, a, b) \in Seq(Names)
         /\ Len(SubSeq(s, a, b)) = IF a <= b THEN b - a + 1 ELSE 0
         /\ \A x \in 1..Len(SubSeq(s, a, b)) : SubSeq(s, a, b)[x] = s[a - 1 + x]
<1> DEFINE part == SubSeq(s, a, b)
<1>1. \A x \in a..b : s[x] \in Names
  OBVIOUS
<1>2. /\ part \in Seq(Names)
      /\ Len(part) = IF a <= b THEN b - a + 1 ELSE 0
      /\ \A x \in 1..(b - a + 1) : part[x] = s[a + x - 1]
  BY <1>1, SubSeqProperties
<1> HIDE DEF part
<1>3. ASSUME NEW x \in 1..Len(part)
      PROVE  part[x] = s[a - 1 + x]
  <2>1. x \in 1..(b - a + 1) /\ a + x - 1 = a - 1 + x
    BY <1>2
  <2> QED BY <1>2, <2>1
<1> QED BY <1>2, <1>3 DEF part

\* One sequence after another.
Join(u, v) == u \o v

LEMMA Joined ==
  ASSUME NEW u \in Seq(Names), NEW v \in Seq(Names),
         NEW a \in Nat, NEW b \in Nat, Len(u) = a, Len(v) = b
  PROVE  \E t \in Seq(Names) : /\ t = Join(u, v) /\ Len(t) = a + b
                               /\ \A x \in 1..a : t[x] = u[x]
                               /\ \A x \in 1..b : t[a + x] = v[x]
<1>1. /\ Join(u, v) \in Seq(Names) /\ Len(Join(u, v)) = Len(u) + Len(v)
      /\ \A x \in 1..Len(u) + Len(v) : Join(u, v)[x] = IF x <= Len(u) THEN u[x] ELSE v[x - Len(u)]
  BY ConcatProperties DEF Join
<1>2. ASSUME NEW x \in 1..a
      PROVE  Join(u, v)[x] = u[x]
  <2>1. x \in 1..a + b /\ x <= a
    OBVIOUS
  <2> QED BY <1>1, <2>1
<1>3. ASSUME NEW x \in 1..b
      PROVE  Join(u, v)[a + x] = v[x]
  <2>1. a + x \in 1..a + b /\ ~(a + x <= a) /\ (a + x) - a = x
    OBVIOUS
  <2> QED BY <1>1, <2>1
<1> QED BY <1>1, <1>2, <1>3

\* Inserting moves what comes behind on by one place.
LEMMA InsertFacts ==
  ASSUME NEW s \in Seq(Names), NEW e \in Names, NEW i \in 1..Len(s) + 1
  PROVE  /\ InsertAt(s, i, e) \in Seq(Names)
         /\ Len(InsertAt(s, i, e)) = Len(s) + 1
         /\ \A j \in 1..Len(s) : \E m \in {j, j + 1} : InsertAt(s, i, e)[m] = s[j]
         /\ InsertAt(s, i, e)[i] = e
<1> DEFINE front == SubSeq(s, 1, i - 1)
           back  == SubSeq(s, i, Len(s))
<1>1. PICK n \in Nat : n = Len(s)
  OBVIOUS
<1>2. PICK a \in Nat : i = a + 1 /\ a <= n
  <2>1. i - 1 \in Nat /\ i = (i - 1) + 1 /\ i - 1 <= n
    BY <1>1
  <2> QED BY <2>1
<1>3. PICK b \in Nat : n = a + b
  <2>1. n - a \in Nat /\ n = a + (n - a)
    BY <1>2
  <2> QED BY <2>1
<1>4. /\ front \in Seq(Names) /\ Len(front) = a
      /\ \A x \in 1..a : front[x] = s[x]
  <2>1. i - 1 = a /\ \A x \in 1..a : 1 - 1 + x = x
    BY <1>2
  <2>2. a - 1 + 1 = a /\ (1 <= a \/ a = 0)
    BY <1>2
  <2> QED BY <1>1, <1>2, <2>1, <2>2, PartFacts
<1>5. /\ back \in Seq(Names) /\ Len(back) = b
      /\ \A x \in 1..b : back[x] = s[a + x]
  <2>1. i \in Nat \ {0} /\ i - 1 = a /\ (IF i <= n THEN n - i + 1 ELSE 0) = b
    BY <1>2, <1>3
  <2> QED BY <1>1, <2>1, PartFacts
<1>6. InsertAt(s, i, e) = Join(Join(front, <<e>>), back)
  BY DEF InsertAt, Join
<1> HIDE DEF front, back
<1>7. PICK f \in Seq(Names) : /\ f = Join(front, <<e>>) /\ Len(f) = i
                              /\ \A x \in 1..a : f[x] = s[x]
                              /\ f[i] = e
  <2>1. PICK one : one = <<e>>
    OBVIOUS
  <2>2. one \in Seq(Names)
    BY <2>1
  <2>6. Len(one) = 1 /\ one[1] = e
    BY <2>1
  <2>5. PICK c \in Nat : Len(one) = c
    BY <2>6
  <2>3. PICK t \in Seq(Names) : /\ t = Join(front, one) /\ Len(t) = a + c
                                /\ \A x \in 1..a : t[x] = front[x]
                                /\ \A x \in 1..c : t[a + x] = one[x]
    BY <1>4, <2>2, <2>5, Joined
  <2>4. t[a + 1] = e /\ Len(t) = a + 1
    BY <2>3, <2>5, <2>6
  <2> QED BY <1>2, <1>4, <2>1, <2>3, <2>4
<1>8. PICK t \in Seq(Names) : /\ t = Join(f, back) /\ Len(t) = i + b
                              /\ \A x \in 1..i : t[x] = f[x]
                              /\ \A x \in 1..b : t[i + x] = back[x]
  <2>1. PICK c \in Nat : c = i /\ Len(f) = c
    BY <1>2, <1>7
  <2>2. \E u \in Seq(Names) : /\ u = Join(f, back) /\ Len(u) = c + b
                              /\ \A x \in 1..c : u[x] = f[x]
                              /\ \A x \in 1..b : u[c + x] = back[x]
    BY <1>5, <2>1, Joined
  <2> QED BY <2>1, <2>2
<1>9. t[i] = e /\ Len(t) = Len(s) + 1
  BY <1>1, <1>2, <1>3, <1>7, <1>8
<1>10. ASSUME NEW j \in 1..Len(s)
       PROVE  \E m \in {j, j + 1} : t[m] = s[j]
  <2>1. CASE j <= a
    <3>1. j \in 1..a /\ j \in 1..i
      BY <1>2, <2>1
    <3> QED BY <1>7, <1>8, <3>1
  <2>2. CASE j > a
    <3>1. PICK x \in 1..b : j = a + x
      <4>1. j - a \in 1..b /\ j = a + (j - a)
        BY <1>1, <1>3, <2>2
      <4> QED BY <4>1
    <3>2. j + 1 = i + x
      BY <1>2, <3>1
    <3> QED BY <1>5, <1>8, <3>1, <3>2
  <2> QED BY <2>1, <2>2
<1> QED BY <1>6, <1>7, <1>8, <1>9, <1>10

\* Removing one place loses no other.
LEMMA RemoveFacts ==
  ASSUME NEW s \in Seq(Names), NEW i \in DOMAIN s
  PROVE  /\ RemoveAt(s, i) \in Seq(Names)
         /\ \A j \in DOMAIN s : j # i => \E m \in DOMAIN RemoveAt(s, i) : RemoveAt(s, i)[m] = s[j]
<1> DEFINE front == SubSeq(s, 1, i - 1)
           back  == SubSeq(s, i + 1, Len(s))
<1>1. PICK n \in Nat : n = Len(s) /\ DOMAIN s = 1..n
  OBVIOUS
<1>2. PICK a \in Nat : i = a + 1 /\ a <= n
  <2>1. i - 1 \in Nat /\ i = (i - 1) + 1 /\ i - 1 <= n
    BY <1>1
  <2> QED BY <2>1
<1>3. PICK b \in Nat : n = i + b
  <2>1. n - i \in Nat /\ n = i + (n - i)
    BY <1>1
  <2> QED BY <2>1
<1>4. /\ front \in Seq(Names) /\ Len(front) = a
      /\ \A x \in 1..a : front[x] = s[x]
  <2>1. i - 1 = a /\ \A x \in 1..a : 1 - 1 + x = x
    BY <1>2
  <2>2. a - 1 + 1 = a /\ (1 <= a \/ a = 0)
    BY <1>2
  <2> QED BY <1>1, <1>2, <2>1, <2>2, PartFacts
<1>5. /\ back \in Seq(Names) /\ Len(back) = b
      /\ \A x \in 1..b : back[x] = s[i + x]
  <2>1. i + 1 \in Nat \ {0} /\ (i + 1) - 1 = i /\ (IF i + 1 <= n THEN n - (i + 1) + 1 ELSE 0) = b
    BY <1>2, <1>3
  <2> QED BY <1>1, <2>1, PartFacts
<1>6. RemoveAt(s, i) = Join(front, back)
  BY DEF RemoveAt, Join
<1> HIDE DEF front, back
<1>7. PICK t \in Seq(Names) : /\ t = Join(front, back) /\ Len(t) = a + b
                              /\ \A x \in 1..a : t[x] = front[x]
                              /\ \A x \in 1..b : t[a + x] = back[x]
  BY <1>4, <1>5, Joined
<1>8. ASSUME NEW j \in DOMAIN s, j # i
      PROVE  \E m \in DOMAIN t : t[m] = s[j]
  <2>1. CASE j <= a
    <3>1. j \in 1..a /\ j \in DOMAIN t
      BY <1>1, <1>7, <2>1
    <3> QED BY <1>4, <1>7, <3>1
  <2>2. CASE j > a
    <3>1. PICK x \in 1..b : j = i + x
      <4>1. j - i \in 1..b /\ j = i + (j - i)
        BY <1>1, <1>2, <1>3, <1>8, <2>2
      <4> QED BY <4>1
    <3>2. a + x \in DOMAIN t
      BY <1>7
    <3> QED BY <1>5, <1>7, <3>1, <3>2
  <2>3. j \in Int
    BY <1>1
  <2> QED BY <2>1, <2>2, <2>3
<1> QED BY <1>6, <1>7, <1>8

LEMMA PageStart ==
  ASSUME NEW p \in Nat \ {0}
  PROVE  /\ (p - 1) * PageSize \in Nat
         /\ p * PageSize = (p - 1) * PageSize + PageSize
<1>1. PageSize \in Nat \ {0}
  BY CountsArePos
<1>2. PICK n \in Nat : p = n + 1
  <2>1. p - 1 \in Nat /\ p = (p - 1) + 1
    OBVIOUS
  <2> QED BY <2>1
<1>3. (n + 1) * PageSize = n * PageSize + PageSize /\ n * PageSize \in Nat
  BY <1>1
<1> QED BY <1>2, <1>3

\* A page holds the entries of its places, and is empty behind the last.
LEMMA PageFacts ==
  ASSUME NEW list \in Seq(Names), NEW p \in Nat \ {0}, NEW from \in Nat, from = (p - 1) * PageSize
  PROVE  /\ PageOf(list, p) \in Seq(Names)
         /\ Len(PageOf(list, p)) = IF from >= Len(list) THEN 0
                                   ELSE IF from + PageSize <= Len(list) THEN PageSize
                                   ELSE Len(list) - from
         /\ \A x \in 1..Len(PageOf(list, p)) : PageOf(list, p)[x] = list[from + x]
<1>1. PageSize \in Nat \ {0} /\ p * PageSize = from + PageSize
  BY CountsArePos, PageStart
<1>2. PICK to \in Nat : to = Min({from + PageSize, Len(list)})
  <2>1. {from + PageSize, Len(list)} \in SUBSET Nat
    BY <1>1
  <2> QED BY <2>1, MinFact
<1>9. PageSize \in Nat \ {0}
  BY CountsArePos
<1>3. to = IF from + PageSize <= Len(list) THEN from + PageSize ELSE Len(list)
  <2>1. {from + PageSize, Len(list)} \in SUBSET Nat
    BY <1>1
  <2>2. to \in {from + PageSize, Len(list)} /\ to <= from + PageSize /\ to <= Len(list)
    BY <1>2, <2>1, MinFact
  <2> QED BY <1>1, <2>2
<1>4. PageOf(list, p) = SubSeq(list, from + 1, to)
  BY <1>1, <1>2 DEF PageOf
<1>5. /\ SubSeq(list, from + 1, to) \in Seq(Names)
      /\ Len(SubSeq(list, from + 1, to)) = IF from + 1 <= to THEN to - (from + 1) + 1 ELSE 0
      /\ \A x \in 1..Len(SubSeq(list, from + 1, to)) :
           SubSeq(list, from + 1, to)[x] = list[(from + 1) - 1 + x]
  <2>1. from + 1 \in Nat \ {0} /\ to <= Len(list)
    BY <1>1, <1>3
  <2> QED BY <2>1, PartFacts
<1>6. (from + 1) - 1 = from
  OBVIOUS
<1>7. PICK n \in Nat : n = Len(list)
  OBVIOUS
<1>8. (IF from + 1 <= to THEN to - (from + 1) + 1 ELSE 0)
        = IF from >= n THEN 0 ELSE IF from + PageSize <= n THEN PageSize ELSE n - from
  <2>1. to = IF from + PageSize <= n THEN from + PageSize ELSE n
    BY <1>3, <1>7
  <2>2. CASE from + PageSize <= n
    BY <1>9, <2>1, <2>2
  <2>3. CASE ~(from + PageSize <= n)
    BY <1>9, <2>1, <2>3
  <2> QED BY <2>2, <2>3
<1> QED BY <1>4, <1>5, <1>6, <1>7, <1>8

-----------------------------------------------------------------------------
(* Types, and which list is read when.                                     *)

\* A command reads one list at a time, and pages are parsed when all are there.
Staged ==
  /\ phase \in {"idle", "users", "invite", "done", "abort"} => reading = "none"
  /\ phase \in {"members", "invitations"} => reading \in {phase, "none"}
  /\ phase = "listed" => reading \in {"repos", "none"}
  /\ reading = "none" => DOMAIN got = {}
  /\ parsed # 0 => DOMAIN got = 1..WorkerCount

Typed == TypeOK /\ Staged

\* Sizes are positive, and accounts are names.
LEMMA Sizes ==
  /\ WorkerCount \in Nat \ {0} /\ PageSize \in Nat \ {0} /\ MaxWorker \in Nat \ {0}
  /\ MaxChanges \in Nat /\ Accounts \subseteq Names /\ Files \subseteq Seq(Names)
BY CountsArePos, BoundsAreCounts, AccountsAreNames, FilesAreLists

\* What the proofs use of the types.
LEMMA TypesUsed ==
  ASSUME Typed
  PROVE  /\ lists \in [Kinds -> Seq(Names)] /\ results \in [Kinds -> Seq(Names)]
         /\ before \in [Kinds -> Seq(Names)] /\ change \in [Kinds -> 0..2]
         /\ reading \in Kinds \cup {"none"} /\ pages \in Nat /\ parsed \in 0..WorkerCount - 1
         /\ DOMAIN got \subseteq 1..WorkerCount /\ \A i \in DOMAIN got : got[i] \in Seq(Names)
         /\ students \in Seq(Names) /\ Places = DOMAIN students
         /\ {"members", "invitations", "repos"} = Kinds
BY Sizes DEF Typed, TypeOK, ListingTypeOK, Places, Kinds

LEMMA ListsTyped == ASSUME NEW S, NEW s \in Lists(S), S \subseteq Names PROVE s \in Seq(Names)
<1>1. PICK n \in Nat : s \in [1..n -> S]
  BY DEF Lists
<1>2. s \in [1..n -> Names]
  BY <1>1
<1> QED BY <1>2

LEMMA InitTyped == Init => Typed
<1> SUFFICES ASSUME Init PROVE Typed
  OBVIOUS
<1>1. lists \in [Kinds -> Seq(Names)]
  <2>1. PICK members \in Lists(Accounts), invitations \in Lists(Accounts), repos \in Lists(Names) :
          lists = [members |-> members, invitations |-> invitations, repos |-> repos]
    BY DEF Init
  <2>2. members \in Seq(Names) /\ invitations \in Seq(Names) /\ repos \in Seq(Names)
    BY <2>1, ListsTyped, Sizes
  <2> QED BY <2>1, <2>2 DEF Kinds
<1>2. /\ reading = "none" /\ pages = 0 /\ got = <<>> /\ parsed = 0
      /\ results = [k \in Kinds |-> <<>>] /\ before = [k \in Kinds |-> <<>>]
      /\ change = [k \in Kinds |-> 0]
  BY DEF Init, ListingInit
<1>3. results \in [Kinds -> Seq(Names)] /\ before \in [Kinds -> Seq(Names)] /\ change \in [Kinds -> 0..2]
  BY <1>2
<1>4. DOMAIN got = {} /\ parsed \in 0..WorkerCount - 1 /\ pages \in Nat
  BY <1>2, Sizes
<1>5. ListingTypeOK
  BY <1>1, <1>2, <1>3, <1>4 DEF ListingTypeOK
<1>6. TypeOK
  BY <1>5, Sizes DEF Init, TypeOK
<1>7. Staged
  BY <1>2, <1>4 DEF Init, Staged
<1> QED BY <1>6, <1>7 DEF Typed

\* The lists keep their type when one grows.
LEMMA WithTyped ==
  ASSUME Typed, NEW k \in Kinds, NEW e \in Names, NEW i \in 1..Len(lists[k]) + 1
  PROVE  With(k, e, i) \in [Kinds -> Seq(Names)]
<1>1. lists \in [Kinds -> Seq(Names)] /\ lists[k] \in Seq(Names)
  BY TypesUsed
<1>2. InsertAt(lists[k], i, e) \in Seq(Names)
  BY <1>1, InsertFacts
<1> QED BY <1>1, <1>2 DEF With

LEMMA ChangedTyped ==
  ASSUME Typed, NEW ks, NEW harmless, Changed(ks, harmless)
  PROVE  change' \in [Kinds -> 0..2]
<1>1. change \in [Kinds -> 0..2] /\ 1 \in 0..2 /\ 2 \in 0..2
  BY TypesUsed
<1>2. PICK v \in 0..2 : change' = change \/ change' = [change EXCEPT ![reading] = v]
  <2>1. CASE reading \notin ks
    BY <1>1, <2>1 DEF Changed
  <2>2. CASE reading \in ks /\ harmless /\ Between /\ change[reading] < 2
    <3>1. change' = [change EXCEPT ![reading] = 1]
      BY <2>2 DEF Changed
    <3> QED BY <1>1, <3>1
  <2>3. CASE reading \in ks /\ ~(harmless /\ Between /\ change[reading] < 2)
    <3>1. change' = [change EXCEPT ![reading] = 2]
      BY <2>3 DEF Changed
    <3> QED BY <1>1, <3>1
  <2> QED BY <2>1, <2>2, <2>3
<1>3. [change EXCEPT ![reading] = v] \in [Kinds -> 0..2]
  BY <1>1
<1> QED BY <1>1, <1>2, <1>3

LEMMA WorldTyped == ASSUME Typed, World PROVE Typed'
<1>1. /\ change' \in [Kinds -> 0..2] /\ changes' \in 0..MaxChanges
      /\ UNCHANGED <<reading, pages, got, parsed, results, before, invite>>
  <2>1. changes \in 0..MaxChanges
    BY DEF Typed, TypeOK
  <2>2. CASE \E s \in Names : Accept(s)
    <3>1. Changed({"members", "invitations"}, reading = "members")
      BY <2>2 DEF Accept
    <3> QED BY <2>1, <2>2, <3>1, ChangedTyped, Sizes DEF Accept
  <2>3. CASE \E r \in Names : CreateRepo(r)
    <3>1. Changed({"repos"}, TRUE)
      BY <2>3 DEF CreateRepo
    <3>2. change' \in [Kinds -> 0..2]
      BY <3>1, ChangedTyped
    <3> QED BY <2>1, <2>3, <3>2, Sizes DEF CreateRepo
  <2> QED BY <2>2, <2>3 DEF World
<1>2. lists' \in [Kinds -> Seq(Names)]
  <2>1. ASSUME NEW s \in Names, Accept(s)
        PROVE  lists' \in [Kinds -> Seq(Names)]
    <3>1. PICK i \in 1..Len(lists["members"]) + 1, j \in DOMAIN lists["invitations"] :
            lists' = [With("members", s, i) EXCEPT !["invitations"] = RemoveAt(@, j)]
      BY <2>1 DEF Accept
    <3>2. With("members", s, i) \in [Kinds -> Seq(Names)]
      BY WithTyped DEF Kinds
    <3>3. With("members", s, i)["invitations"] = lists["invitations"]
      BY TypesUsed DEF With, Kinds
    <3>4. RemoveAt(lists["invitations"], j) \in Seq(Names)
      <4>1. lists["invitations"] \in Seq(Names)
        BY TypesUsed DEF Kinds
      <4> QED BY <4>1, RemoveFacts
    <3> QED BY <3>1, <3>2, <3>3, <3>4
  <2>2. ASSUME NEW r \in Names, CreateRepo(r)
        PROVE  lists' \in [Kinds -> Seq(Names)]
    <3>1. lists["repos"] \in Seq(Names)
      BY TypesUsed DEF Kinds
    <3>2. 1 \in 1..Len(lists["repos"]) + 1 /\ "repos" \in Kinds
      BY <3>1 DEF Kinds
    <3> QED BY <2>2, <3>2, WithTyped DEF CreateRepo
  <2> QED BY <2>1, <2>2 DEF World
<1> QED BY <1>1, <1>2 DEF Typed, TypeOK, ListingTypeOK, Staged, invite, Places

\* Between commands and readings.
LEMMA BeginTyped == ASSUME Typed, ListRepos \/ RetrieveMembers \/ RetrieveInvitations PROVE Typed'
<1>1. PICK k \in Kinds : BeginListing(k) /\ phase' \in {"members", "invitations", "listed"}
                         /\ (phase' \in {"members", "invitations"} => k = phase')
                         /\ (phase' = "listed" => k = "repos")
  BY DEF ListRepos, RetrieveMembers, RetrieveInvitations, Kinds
<1>2. UNCHANGED <<lists, changes, students, exist, todo, reported>>
  BY DEF ListRepos, RetrieveMembers, RetrieveInvitations
<1>3. /\ reading' = k /\ pages' = 0 /\ DOMAIN got' = {} /\ parsed' = 0
      /\ results' \in [Kinds -> Seq(Names)] /\ before' \in [Kinds -> Seq(Names)]
      /\ change' \in [Kinds -> 0..2]
  BY <1>1, TypesUsed DEF BeginListing
<1>4. ListingTypeOK'
  BY <1>2, <1>3, Sizes DEF Typed, TypeOK, ListingTypeOK
<1> QED BY <1>1, <1>2, <1>3, <1>4, Sizes DEF Typed, TypeOK, Staged, Places, Kinds

LEMMA AnswerTyped ==
  ASSUME Typed, NEW i \in 1..WorkerCount, Answer(i), UNCHANGED <<changes, invite>>
  PROVE  Typed'
<1>1. reading \in Kinds /\ i \notin DOMAIN got
  BY TypesUsed DEF Answer
<1>2. /\ UNCHANGED <<lists, reading, pages, parsed, results, before>>
      /\ change' = change \/ change' = [change EXCEPT ![reading] = 2]
  BY DEF Answer
<1>3. PICK page : /\ got' = [j \in DOMAIN got \cup {i} |-> IF j # i THEN got[j] ELSE page]
                  /\ page = <<>> \/ page = PageOf(lists[reading], pages + i)
  BY DEF Answer
<1>4. page \in Seq(Names)
  <2>1. pages + i \in Nat \ {0} /\ lists[reading] \in Seq(Names)
    BY <1>1, TypesUsed
  <2>2. PageOf(lists[reading], pages + i) \in Seq(Names)
    BY <2>1, PageStart, PageFacts
  <2>3. <<>> \in Seq(Names)
    OBVIOUS
  <2> QED BY <1>3, <2>2, <2>3
<1>5. DOMAIN got' \subseteq 1..WorkerCount /\ \A j \in DOMAIN got' : got'[j] \in Seq(Names)
  BY <1>3, <1>4, TypesUsed
<1>6. change' \in [Kinds -> 0..2]
  <2>1. change \in [Kinds -> 0..2] /\ 2 \in 0..2
    BY TypesUsed
  <2> QED BY <1>2, <2>1
<1>7. parsed = 0
  BY <1>1 DEF Typed, Staged
<1>8. ListingTypeOK'
  BY <1>2, <1>5, <1>6 DEF Typed, TypeOK, ListingTypeOK
<1>9. TypeOK'
  BY <1>8 DEF Typed, TypeOK, invite, Places
<1>10. Staged'
  <2>1. reading' # "none" /\ parsed' = 0 /\ reading' = reading /\ phase' = phase
    BY <1>1, <1>2, <1>7 DEF Kinds, invite
  <2> QED BY <2>1 DEF Typed, Staged
<1> QED BY <1>9, <1>10 DEF Typed

LEMMA ParseTyped ==
  ASSUME Typed, ParsePage, UNCHANGED <<changes, invite>>
  PROVE  Typed'
<1>1. /\ reading \in Kinds /\ DOMAIN got = 1..WorkerCount /\ parsed + 1 \in DOMAIN got
      /\ UNCHANGED <<lists, before, change>>
  BY TypesUsed, Sizes DEF ParsePage
<1>2. PICK page \in Seq(Names) : page = got[parsed + 1]
  BY <1>1, TypesUsed
<1>3. results' \in [Kinds -> Seq(Names)]
  <2>1. results' = [results EXCEPT ![reading] = results[reading] \o page]
    BY <1>2 DEF ParsePage
  <2> QED BY <1>1, <2>1, TypesUsed
<1>4. \/ /\ DOMAIN got' = {} /\ parsed' = 0 /\ pages' = pages + WorkerCount
         /\ reading' \in {reading, "none"}
      \/ /\ parsed' = parsed + 1 /\ parsed + 1 # WorkerCount /\ UNCHANGED <<pages, got, reading>>
  BY <1>2 DEF ParsePage
<1>5. ListingTypeOK'
  <2>1. parsed' \in 0..WorkerCount - 1 /\ pages' \in Nat /\ reading' \in Kinds \cup {"none"}
    BY <1>1, <1>4, TypesUsed, Sizes
  <2>2. DOMAIN got' \subseteq 1..WorkerCount /\ \A i \in DOMAIN got' : got'[i] \in Seq(Names)
    BY <1>4, TypesUsed
  <2> QED BY <1>1, <1>3, <2>1, <2>2, TypesUsed DEF ListingTypeOK
<1>6. Staged'
  BY <1>1, <1>4, Sizes DEF Typed, Staged, invite
<1> QED BY <1>5, <1>6 DEF Typed, TypeOK, invite, Places

LEMMA InvitingTyped ==
  ASSUME Typed, UsersExist \/ FilterStudents \/ (\E i \in Places : InviteUser(i)) \/ Summary
  PROVE  Typed'
<1>1. UNCHANGED listing /\ reading = "none" /\ DOMAIN got = {}
      /\ phase' \in {"users", "invite", "abort", "done"} /\ UNCHANGED <<students, changes>>
  BY DEF UsersExist, FilterStudents, InviteUser, Summary, Typed, Staged
<1>2. lists' \in [Kinds -> Seq(Names)]
  <2>1. CASE lists' = lists
    BY <2>1, TypesUsed
  <2>2. ASSUME NEW i \in Places, InviteUser(i)
        PROVE  lists' \in [Kinds -> Seq(Names)]
    <3>1. lists' = lists \/ lists' = With("invitations", students[i], 1)
      BY <2>2 DEF InviteUser
    <3>2. students[i] \in Names /\ 1 \in 1..Len(lists["invitations"]) + 1 /\ "invitations" \in Kinds
      BY TypesUsed DEF Kinds
    <3> QED BY <2>1, <3>1, <3>2, WithTyped
  <2> QED BY <2>1, <2>2 DEF UsersExist, FilterStudents, Summary
<1>3. exist' \in SUBSET Places /\ todo' \in SUBSET Places
  BY DEF UsersExist, FilterStudents, InviteUser, Summary, Typed, TypeOK
<1>4. DOMAIN reported' \subseteq Places /\ \A i \in DOMAIN reported' : reported'[i] \in BOOLEAN
  <2>1. DOMAIN reported \subseteq Places /\ \A i \in DOMAIN reported : reported[i] \in BOOLEAN
    BY DEF Typed, TypeOK
  <2>2. ASSUME NEW i \in Places, InviteUser(i)
        PROVE  DOMAIN reported' \subseteq Places /\ \A j \in DOMAIN reported' : reported'[j] \in BOOLEAN
    <3>1. PICK b \in BOOLEAN : reported' = [j \in DOMAIN reported \cup {i} |-> IF j # i THEN reported[j] ELSE b]
      <4>1. PICK sent, answered \in IF MayLose THEN BOOLEAN ELSE {TRUE} :
              reported' = [j \in DOMAIN reported \cup {i} |->
                             IF j # i THEN reported[j] ELSE sent /\ answered /\ students[i] \in Accounts]
        BY <2>2 DEF InviteUser
      <4>2. (sent /\ answered /\ students[i] \in Accounts) \in BOOLEAN
        BY <4>1
      <4> QED BY <4>1, <4>2
    <3> QED BY <2>1, <3>1
  <2> QED BY <2>1, <2>2 DEF UsersExist, FilterStudents, Summary
<1>5. ListingTypeOK'
  BY <1>1, <1>2 DEF Typed, TypeOK, ListingTypeOK, listing
<1>6. TypeOK'
  BY <1>1, <1>3, <1>4, <1>5 DEF Typed, TypeOK, Places
<1> QED BY <1>1, <1>6 DEF Typed, Staged, listing

LEMMA StepTyped == Typed /\ [Next]_vars => Typed'
<1> SUFFICES ASSUME Typed, [Next]_vars PROVE Typed'
  OBVIOUS
<1>1. CASE UNCHANGED vars
  BY <1>1 DEF vars, listing, invite, Typed, TypeOK, ListingTypeOK, Staged, Places
<1> QED BY <1>1, WorldTyped, BeginTyped, AnswerTyped, ParseTyped, InvitingTyped DEF Next, Program

LEMMA TypedHolds == Spec => []Typed
BY InitTyped, StepTyped, PTL DEF Spec

\* Pages, lists and results hold names, places are those of the file, and one list
\* is read at a time (hand_curl.c:549-696, hand.c:199-296).
THEOREM TypeCorrect == Spec => []TypeOK
BY TypedHolds, PTL DEF Typed

-----------------------------------------------------------------------------
(* What was read of a list.                                                *)

\* Places in the pages that were parsed.
Read == (pages + parsed) * PageSize

\* Every entry of the list old is in the list new, at its place or behind.
Grown(old, new) ==
  \A j \in DOMAIN old : \E m \in DOMAIN new : m >= j /\ new[m] = old[j]

\* Nothing that was in list k is both unread and in front of what is to be read,
\* when the pages are those of L.
Ahead(k, L) ==
  \A e \in ToSet(before[k]) :
    e \in ToSet(results[k]) \/ \E j \in DOMAIN L : j > Read /\ L[j] = e

\* The results are the front of L.
Whole(k, L) ==
  /\ L = before[k]
  /\ Len(results[k]) = IF Read < Len(L) THEN Read ELSE Len(L)
  /\ \A j \in DOMAIN results[k] : results[k][j] = L[j]

\* The pages of the batch are those of L, which is the list itself until the last
\* page of the batch is answered.
Follows(k, L) ==
  /\ DOMAIN got # 1..WorkerCount => L = lists[k]
  /\ \A i \in DOMAIN got : got[i] = PageOf(L, pages + i)
  /\ Grown(L, lists[k])
  /\ Ahead(k, L)
  /\ change[k] = 0 => L = lists[k] /\ Whole(k, L)

Reading ==
  reading # "none" /\ change[reading] < 2 => \E L \in Seq(Names) : Follows(reading, L)

Complete ==
  \A k \in Kinds : reading # k =>
    /\ change[k] = 0 => results[k] = before[k]
    /\ change[k] = 1 => ToSet(before[k]) \subseteq ToSet(results[k])

Listed == Reading /\ Complete

\* Read is a number, and a page more is PageSize places more.
LEMMA ReadFact ==
  ASSUME Typed
  PROVE  Read \in Nat /\ Read = ((pages + parsed + 1) - 1) * PageSize
         /\ (pages + parsed + 1) * PageSize = Read + PageSize
         /\ pages + parsed + 1 \in Nat \ {0}
<1>1. PICK n \in Nat : n = pages + parsed
  BY TypesUsed
<1>2. n + 1 \in Nat \ {0} /\ (n + 1) - 1 = n
  OBVIOUS
<1>3. n * PageSize \in Nat /\ (n + 1) * PageSize = n * PageSize + PageSize
  BY <1>2, PageStart
<1> QED BY <1>1, <1>2, <1>3 DEF Read

LEMMA GrownTwice ==
  ASSUME NEW a \in Seq(Names), NEW b \in Seq(Names), NEW c \in Seq(Names), Grown(a, b), Grown(b, c)
  PROVE  Grown(a, c)
<1> SUFFICES ASSUME NEW j \in DOMAIN a
             PROVE  \E m \in DOMAIN c : m >= j /\ c[m] = a[j]
  BY DEF Grown
<1>1. PICK m \in DOMAIN b : m >= j /\ b[m] = a[j]
  BY DEF Grown
<1>2. PICK n \in DOMAIN c : n >= m /\ c[n] = b[m]
  BY DEF Grown
<1>3. n \in Nat /\ m \in Nat /\ j \in Nat
  OBVIOUS
<1> QED BY <1>1, <1>2, <1>3

LEMMA GrownSame == ASSUME NEW a \in Seq(Names) PROVE Grown(a, a)
BY DEF Grown

LEMMA GrownInsert ==
  ASSUME NEW s \in Seq(Names), NEW e \in Names, NEW i \in 1..Len(s) + 1
  PROVE  Grown(s, InsertAt(s, i, e))
<1>1. PICK t \in Seq(Names) : t = InsertAt(s, i, e) /\ Len(t) = Len(s) + 1
                              /\ \A j \in 1..Len(s) : \E m \in {j, j + 1} : t[m] = s[j]
  BY InsertFacts
<1>2. ASSUME NEW j \in DOMAIN s
      PROVE  \E m \in DOMAIN t : m >= j /\ t[m] = s[j]
  <2>1. j \in 1..Len(s)
    OBVIOUS
  <2>2. PICK m \in {j, j + 1} : t[m] = s[j]
    BY <1>1, <2>1
  <2>3. m \in DOMAIN t /\ m >= j
    BY <1>1, <2>1
  <2> QED BY <2>2, <2>3
<1> QED BY <1>1, <1>2 DEF Grown

\* What comes behind a place in a list is behind it in a grown one.
LEMMA AheadGrown ==
  ASSUME Typed, NEW k \in Kinds, NEW a \in Seq(Names), NEW b \in Seq(Names), Ahead(k, a), Grown(a, b)
  PROVE  Ahead(k, b)
<1> SUFFICES ASSUME NEW e \in ToSet(before[k]), e \notin ToSet(results[k])
             PROVE  \E j \in DOMAIN b : j > Read /\ b[j] = e
  BY DEF Ahead
<1>1. PICK j \in DOMAIN a : j > Read /\ a[j] = e
  BY DEF Ahead
<1>2. PICK m \in DOMAIN b : m >= j /\ b[m] = a[j]
  BY DEF Grown
<1>3. m \in Nat /\ j \in Nat /\ Read \in Nat
  BY ReadFact
<1> QED BY <1>1, <1>2, <1>3

LEMMA InitListed == Init => Listed
<1> SUFFICES ASSUME Init PROVE Listed
  OBVIOUS
<1>1. reading = "none" /\ results = [k \in Kinds |-> <<>>] /\ before = [k \in Kinds |-> <<>>]
  BY DEF Init, ListingInit
<1> QED BY <1>1 DEF Listed, Reading, Complete

LEMMA BeginListed ==
  ASSUME Typed, Listed, reading = "none", NEW k \in Kinds, BeginListing(k), UNCHANGED lists
  PROVE  Listed'
<1>1. PICK L \in Seq(Names) : L = lists[k]
  BY TypesUsed
<1>2. /\ reading' = k /\ pages' = 0 /\ got' = <<>> /\ parsed' = 0 /\ lists' = lists
      /\ results'[k] = <<>> /\ before'[k] = L /\ change'[k] = 0
  BY <1>1, TypesUsed DEF BeginListing
<1>3. \A j \in Kinds : j # k => results'[j] = results[j] /\ before'[j] = before[j] /\ change'[j] = change[j]
  BY TypesUsed DEF BeginListing
<1>4. Read' = 0
  BY <1>2, Sizes DEF Read
<1>5. Ahead(k, L)'
  <2>1. \A e \in ToSet(L) : \E j \in DOMAIN L : j > 0 /\ L[j] = e
    BY DEF ToSet
  <2> QED BY <1>2, <1>4, <2>1 DEF Ahead
<1>6. Whole(k, L)'
  <2>1. Len(results'[k]) = 0 /\ results'[k] = <<>> /\ L = before'[k] /\ Len(L) \in Nat
    BY <1>2
  <2> QED BY <1>4, <2>1 DEF Whole
<1>7. Follows(k, L)'
  BY <1>1, <1>2, <1>5, <1>6, GrownSame DEF Follows
<1>8. Reading'
  BY <1>2, <1>7 DEF Reading
<1>9. Complete'
  <2>1. ASSUME NEW j \in Kinds, j # k
        PROVE  /\ change[j] = 0 => results[j] = before[j]
               /\ change[j] = 1 => ToSet(before[j]) \subseteq ToSet(results[j])
    <3>1. reading # j
      BY DEF Kinds
    <3> QED BY <3>1 DEF Listed, Complete
  <2> QED BY <1>2, <1>3, <2>1 DEF Complete
<1> QED BY <1>8, <1>9 DEF Listed

LEMMA AnswerListed ==
  ASSUME Typed, Listed, NEW i \in 1..WorkerCount, Answer(i)
  PROVE  Listed'
<1>1. PICK k \in Kinds : reading = k
  BY TypesUsed DEF Answer
<1>2. /\ UNCHANGED <<lists, reading, pages, parsed, results, before>>
      /\ i \notin DOMAIN got
      /\ \A j \in Kinds : j # k => change'[j] = change[j]
  BY <1>1, TypesUsed DEF Answer
<1>3. ASSUME change'[k] < 2
      PROVE  \E L \in Seq(Names) : Follows(k, L)'
  <2>1. /\ change' = change
        /\ got' = [j \in DOMAIN got \cup {i} |-> IF j # i THEN got[j] ELSE PageOf(lists[k], pages + i)]
    <3>1. PICK lost \in BOOLEAN :
            /\ got' = [j \in DOMAIN got \cup {i} |->
                         IF j # i THEN got[j] ELSE IF lost THEN <<>> ELSE PageOf(lists[k], pages + i)]
            /\ change' = IF lost THEN [change EXCEPT ![k] = 2] ELSE change
      BY <1>1 DEF Answer
    <3>2. lost = FALSE
      BY <1>3, <3>1, TypesUsed
    <3> QED BY <3>1, <3>2
  <2>2. PICK L \in Seq(Names) : Follows(k, L)
    BY <1>1, <1>3, <2>1 DEF Listed, Reading, Kinds
  <2>3. L = lists[k]
    <3>1. DOMAIN got # 1..WorkerCount
      BY <1>2
    <3> QED BY <2>2, <3>1 DEF Follows
  <2>4. \A j \in DOMAIN got' : got'[j] = PageOf(L, pages' + j)
    BY <1>2, <2>1, <2>2, <2>3 DEF Follows
  <2>5. Ahead(k, L)'
    BY <1>2, <2>2 DEF Follows, Ahead, Read
  <2>6. change'[k] = 0 => Whole(k, L)'
    BY <1>2, <2>1, <2>2 DEF Follows, Whole, Read
  <2>7. Grown(L, lists[k])'
    BY <1>2, <2>3, GrownSame
  <2> QED BY <1>2, <2>3, <2>4, <2>5, <2>6, <2>7 DEF Follows
<1>4. Reading'
  BY <1>1, <1>2, <1>3 DEF Reading
<1>5. Complete'
  BY <1>1, <1>2 DEF Listed, Complete
<1> QED BY <1>4, <1>5 DEF Listed

\* What happens to the list that is read while it is still whole: nothing, or it
\* grows between the answers of two batches.
LEMMA WorldGrows ==
  ASSUME Typed, World, NEW k \in Kinds, reading = k, change'[k] < 2
  PROVE  \/ lists'[k] = lists[k] /\ change'[k] = change[k]
         \/ change'[k] = 1 /\ change[k] < 2 /\ Between /\ Grown(lists[k], lists'[k])
<1>1. /\ lists \in [Kinds -> Seq(Names)] /\ change \in [Kinds -> 0..2]
      /\ Kinds = {"members", "invitations", "repos"}
  BY TypesUsed DEF Kinds
<1>2. ASSUME NEW ks, NEW harmless, Changed(ks, harmless), k \in ks
      PROVE  harmless /\ Between /\ change[k] < 2 /\ change'[k] = 1
  <2>1. change'[k] = IF harmless /\ Between /\ change[k] < 2 THEN 1 ELSE 2
    BY <1>1, <1>2 DEF Changed
  <2> QED BY <2>1
<1>3. ASSUME NEW s \in Names, Accept(s)
      PROVE  \/ lists'[k] = lists[k] /\ change'[k] = change[k]
             \/ change'[k] = 1 /\ change[k] < 2 /\ Between /\ Grown(lists[k], lists'[k])
  <2>1. PICK i \in 1..Len(lists["members"]) + 1, j \in DOMAIN lists["invitations"] :
          lists' = [With("members", s, i) EXCEPT !["invitations"] = RemoveAt(@, j)]
    BY <1>3 DEF Accept
  <2>2. Changed({"members", "invitations"}, reading = "members")
    BY <1>3 DEF Accept
  <2>3. CASE k = "repos"
    BY <1>1, <2>1, <2>2, <2>3 DEF Changed, With
  <2>4. CASE k # "repos"
    <3>0. k \in {"members", "invitations"}
      BY <1>1, <2>4
    <3>1. k = "members" /\ Between /\ change[k] < 2 /\ change'[k] = 1
      <4>1. (reading = "members") /\ Between /\ change[k] < 2 /\ change'[k] = 1
        BY <1>2, <2>2, <3>0
      <4> QED BY <4>1
    <3>2. lists'[k] = InsertAt(lists[k], i, s)
      BY <1>1, <2>1, <3>1 DEF With
    <3>3. Grown(lists[k], lists'[k])
      <4>1. lists[k] \in Seq(Names) /\ i \in 1..Len(lists[k]) + 1
        BY <1>1, <2>1, <3>1
      <4> QED BY <3>2, <4>1, GrownInsert
    <3> QED BY <3>1, <3>3
  <2> QED BY <2>3, <2>4
<1>4. ASSUME NEW r \in Names, CreateRepo(r)
      PROVE  change'[k] = 1 /\ change[k] < 2 /\ Between /\ Grown(lists[k], lists'[k])
  <2>1. k = "repos" /\ lists' = With("repos", r, 1) /\ Changed({"repos"}, TRUE)
    BY <1>4 DEF CreateRepo
  <2>2. lists'[k] = InsertAt(lists[k], 1, r) /\ lists[k] \in Seq(Names)
    BY <1>1, <2>1 DEF With
  <2>3. Grown(lists[k], lists'[k])
    <3>1. 1 \in 1..Len(lists[k]) + 1
      BY <2>2
    <3> QED BY <2>2, <3>1, GrownInsert
  <2>4. Between /\ change[k] < 2 /\ change'[k] = 1
    BY <1>2, <2>1
  <2> QED BY <2>3, <2>4
<1> QED BY <1>3, <1>4 DEF World

LEMMA WorldListed ==
  ASSUME Typed, Listed, World
  PROVE  Listed'
<1>1. UNCHANGED <<reading, pages, got, parsed, results, before>>
  BY DEF World, Accept, CreateRepo
<1>2. \A k \in Kinds : reading # k => change'[k] = change[k]
  BY TypesUsed DEF World, Accept, CreateRepo, Changed
<1>3. Complete'
  BY <1>1, <1>2 DEF Listed, Complete
<1>4. ASSUME reading # "none", change'[reading] < 2
      PROVE  \E L \in Seq(Names) : Follows(reading, L)'
  <2>1. PICK k \in Kinds : reading = k
    BY <1>4, TypesUsed
  <2>2. \/ lists'[k] = lists[k] /\ change'[k] = change[k]
        \/ change'[k] = 1 /\ change[k] < 2 /\ Between /\ Grown(lists[k], lists'[k])
    BY <1>4, <2>1, WorldGrows
  <2>3. PICK L \in Seq(Names) : Follows(k, L)
    BY <1>4, <2>1, <2>2 DEF Listed, Reading
  <2>4. lists[k] \in Seq(Names) /\ lists'[k] \in Seq(Names)
    <3>1. Typed'
      BY WorldTyped
    <3>2. lists' \in [Kinds -> Seq(Names)]
      BY <3>1 DEF Typed, TypeOK, ListingTypeOK
    <3> QED BY <3>2, TypesUsed
  <2>5. CASE lists'[k] = lists[k] /\ change'[k] = change[k]
    <3>1. Follows(k, L)'
      BY <1>1, <2>3, <2>5 DEF Follows, Ahead, Whole, Read
    <3> QED BY <1>1, <2>1, <3>1
  <2>6. CASE change'[k] = 1 /\ Between /\ Grown(lists[k], lists'[k]) /\ DOMAIN got = 1..WorkerCount
    <3>1. Grown(L, lists[k])'
      BY <2>3, <2>4, <2>6, GrownTwice DEF Follows
    <3>2. Follows(k, L)'
      BY <1>1, <2>3, <2>6, <3>1 DEF Follows, Ahead, Read
    <3> QED BY <1>1, <2>1, <3>2
  <2>7. CASE change'[k] = 1 /\ Grown(lists[k], lists'[k]) /\ DOMAIN got = {}
    <3>1. DOMAIN got # 1..WorkerCount
      <4>1. 1 \in 1..WorkerCount
        BY Sizes
      <4> QED BY <2>7, <4>1
    <3>2. L = lists[k] /\ Ahead(k, L)
      BY <2>3, <3>1 DEF Follows
    <3>3. PICK N \in Seq(Names) : N = lists'[k]
      BY <2>4
    <3>4. Ahead(k, N)
      BY <2>4, <2>7, <3>2, <3>3, AheadGrown
    <3>5. Ahead(k, N)'
      BY <1>1, <3>4 DEF Ahead, Read
    <3>6. Follows(k, N)'
      BY <1>1, <2>7, <3>3, <3>5, GrownSame DEF Follows
    <3> QED BY <1>1, <2>1, <3>6
  <2> QED BY <2>2, <2>5, <2>6, <2>7 DEF Between
<1>5. Reading'
  BY <1>1, <1>4 DEF Reading
<1> QED BY <1>3, <1>5 DEF Listed

\* Parsing a page of L leaves nothing behind that was not read, and reads no more
\* than L holds.
LEMMA PageRead ==
  ASSUME Typed, NEW k \in Kinds, reading = k, NEW L \in Seq(Names), Follows(k, L), ParsePage,
         NEW page \in Seq(Names), page = got[parsed + 1]
  PROVE  /\ page = <<>> =>
              /\ ToSet(before[k]) \subseteq ToSet(results'[k])
              /\ change[k] = 0 => results'[k] = before[k]
         /\ page # <<>> =>
              /\ Read' = Read + PageSize
              /\ Ahead(k, L)'
              /\ change[k] = 0 => Whole(k, L)'
<1>1. /\ DOMAIN got = 1..WorkerCount /\ before' = before
      /\ parsed + 1 \in DOMAIN got
  BY TypesUsed, Sizes DEF ParsePage
<1>2. PICK r \in Seq(Names) : r = results[k]
  BY TypesUsed
<1>3. PICK n \in Nat : n = Len(L)
  OBVIOUS
<1>4. PICK p \in Nat : p = Len(page)
  OBVIOUS
<1>5. PICK d \in Nat : d = Read
  BY ReadFact
<1>6. PageSize \in Nat \ {0}
  BY Sizes
<1>7. /\ p = IF d >= n THEN 0 ELSE IF d + PageSize <= n THEN PageSize ELSE n - d
      /\ \A x \in 1..p : page[x] = L[d + x]
  <2>1. page = PageOf(L, pages + parsed + 1)
    <3>1. page = PageOf(L, pages + (parsed + 1))
      BY <1>1 DEF Follows
    <3>2. pages + (parsed + 1) = pages + parsed + 1
      BY TypesUsed
    <3> QED BY <3>1, <3>2
  <2>2. PICK q \in Nat \ {0} : q = pages + parsed + 1 /\ d = (q - 1) * PageSize
    BY <1>5, ReadFact
  <2>3. page = PageOf(L, q)
    BY <2>1, <2>2
  <2>4. /\ Len(PageOf(L, q)) = IF d >= Len(L) THEN 0
                                ELSE IF d + PageSize <= Len(L) THEN PageSize ELSE Len(L) - d
        /\ \A x \in 1..Len(PageOf(L, q)) : PageOf(L, q)[x] = L[d + x]
    <3>1. q \in Nat \ {0} /\ d \in Nat /\ L \in Seq(Names) /\ d = (q - 1) * PageSize
      BY <2>2
    <3> QED BY <3>1, PageFacts, Zenon
  <2>5. p = IF d >= n THEN 0 ELSE IF d + PageSize <= n THEN PageSize ELSE n - d
    BY <1>3, <1>4, <2>3, <2>4
  <2>6. \A x \in 1..p : page[x] = L[d + x]
    BY <1>4, <2>3, <2>4
  <2> QED BY <2>5, <2>6
<1>8. PICK t \in Seq(Names) : /\ t = results'[k]
                              /\ Len(t) = Len(r) + p
                              /\ \A x \in 1..Len(r) : t[x] = r[x]
                              /\ \A x \in 1..p : t[Len(r) + x] = page[x]
  <2>1. results'[k] = Join(r, page)
    BY <1>2, TypesUsed DEF ParsePage, Join
  <2>2. PICK c \in Nat : Len(r) = c
    OBVIOUS
  <2>3. PICK g \in Seq(Names) : g = page /\ Len(g) = p
    BY <1>4
  <2>4. \E t \in Seq(Names) : /\ t = Join(r, g) /\ Len(t) = c + p
                              /\ \A x \in 1..c : t[x] = r[x]
                              /\ \A x \in 1..p : t[c + x] = g[x]
    <3>1. Len(g) = p
      BY <2>3
    <3> QED BY Joined, <2>2, <3>1, Z3
  <2>5. PICK t \in Seq(Names) : /\ t = Join(r, g) /\ Len(t) = c + p
                                /\ \A x \in 1..c : t[x] = r[x]
                                /\ \A x \in 1..p : t[c + x] = g[x]
    BY <2>4
  <2>6. t = results'[k]
    BY <2>1, <2>3, <2>5
  <2>7. Len(t) = Len(r) + p /\ \A x \in 1..Len(r) : t[x] = r[x]
    BY <2>2, <2>5
  <2>8. \A x \in 1..p : t[Len(r) + x] = page[x]
    BY <2>2, <2>3, <2>5
  <2> QED BY <2>6, <2>7, <2>8, Zenon
<1>9. /\ ToSet(r) \subseteq ToSet(t)
      /\ \A x \in 1..p : L[d + x] \in ToSet(t)
  <2>1. ASSUME NEW x \in 1..Len(r)
        PROVE  r[x] \in ToSet(t)
    <3>1. x \in DOMAIN t
      BY <1>8
    <3> QED BY <1>8, <3>1 DEF ToSet
  <2>2. ASSUME NEW x \in 1..p
        PROVE  L[d + x] \in ToSet(t)
    <3>1. Len(r) + x \in DOMAIN t
      BY <1>8
    <3> QED BY <1>7, <1>8, <3>1 DEF ToSet
  <2> QED BY <2>1, <2>2 DEF ToSet
<1>10. \A e \in ToSet(before[k]) : e \in ToSet(r) \/ \E j \in DOMAIN L : j > d /\ L[j] = e
  BY <1>2, <1>5 DEF Follows, Ahead
<1>11. change[k] = 0 =>
         /\ L = before[k]
         /\ Len(r) = IF d < n THEN d ELSE n
         /\ \A j \in 1..Len(r) : r[j] = L[j]
  <2>1. SUFFICES ASSUME change[k] = 0
                 PROVE  /\ L = before[k]
                        /\ Len(r) = IF d < n THEN d ELSE n
                        /\ \A j \in 1..Len(r) : r[j] = L[j]
    OBVIOUS
  <2>2. Whole(k, L)
    BY <2>1 DEF Follows
  <2>3. L = before[k] /\ Len(r) = IF d < n THEN d ELSE n
    BY <1>2, <1>3, <1>5, <2>2 DEF Whole
  <2>4. \A j \in DOMAIN r : r[j] = L[j]
    BY <1>2, <2>2 DEF Whole
  <2> QED BY <2>3, <2>4
<1>12. ASSUME page = <<>>
       PROVE  /\ ToSet(before[k]) \subseteq ToSet(t)
              /\ change[k] = 0 => t = before[k]
  <2>1. p = 0
    BY <1>4, <1>12
  <2>2. d >= n
    BY <1>3, <1>5, <1>6, <1>7, <2>1
  <2>3. \A j \in DOMAIN L : ~(j > d)
    BY <1>3, <1>5, <2>2
  <2>4. ToSet(before[k]) \subseteq ToSet(t)
    BY <1>9, <1>10, <2>3
  <2>5. ASSUME change[k] = 0
        PROVE  t = L
    <3>1. Len(t) = n /\ Len(r) = n
      BY <1>3, <1>5, <1>8, <1>11, <2>1, <2>2, <2>5
    <3>2. \A x \in 1..n : t[x] = L[x]
      BY <1>8, <1>11, <2>5, <3>1
    <3> QED BY <1>3, <3>1, <3>2, SeqEqual
  <2> QED BY <1>11, <2>4, <2>5
<1>13. ASSUME page # <<>>
       PROVE  /\ Read' = d + PageSize
              /\ Ahead(k, L)'
              /\ change[k] = 0 => Whole(k, L)'
  <2>0. p # 0
    BY <1>4, <1>13
  <2>1. p # 0 /\ d < n
    BY <1>7, <2>0
  <2>2. Read' = d + PageSize
    <3>1. pages' + parsed' = pages + parsed + 1
      BY <1>13, TypesUsed, Sizes DEF ParsePage, EndOfList
    <3>2. Read' = (pages + parsed + 1) * PageSize
      BY <3>1 DEF Read
    <3>3. Read + PageSize = (pages + parsed + 1) * PageSize
      BY ReadFact
    <3> QED BY <1>5, <3>2, <3>3
  <2>3. ASSUME NEW e \in ToSet(before[k]), e \notin ToSet(t)
        PROVE  \E j \in DOMAIN L : j > d + PageSize /\ L[j] = e
    <3>1. PICK j \in DOMAIN L : j > d /\ L[j] = e
      BY <1>9, <1>10, <2>3
    <3>2. j \in 1..n
      BY <1>3
    <3>3. ASSUME j <= d + PageSize
          PROVE  FALSE
      <4>1. PICK x \in 1..p : j = d + x
        <5>1. j - d \in 1..p /\ j = d + (j - d)
          BY <1>6, <1>7, <3>1, <3>2, <3>3
        <5> QED BY <5>1
      <4> QED BY <1>9, <2>3, <3>1, <4>1
    <3> QED BY <1>6, <3>1, <3>2, <3>3
  <2>4. Ahead(k, L)'
    BY <1>1, <1>8, <2>2, <2>3 DEF Ahead
  <2>5. ASSUME change[k] = 0
        PROVE  Whole(k, L)'
    <3>1. Len(r) = d
      BY <1>11, <2>1, <2>5
    <3>2. Len(t) = IF d + PageSize < n THEN d + PageSize ELSE n
      <4>1. Len(t) = d + p
        BY <1>8, <3>1
      <4> QED BY <1>6, <1>7, <2>1, <4>1
    <3>3. ASSUME NEW j \in DOMAIN t
          PROVE  t[j] = L[j]
      <4>1. j \in 1..d + p
        BY <1>8, <3>1
      <4>2. CASE j <= d
        BY <1>8, <1>11, <2>5, <3>1, <4>1, <4>2
      <4>3. CASE ~(j <= d)
        <5>1. PICK x \in 1..p : j = d + x
          <6>1. j - d \in 1..p /\ j = d + (j - d)
            BY <4>1, <4>3
          <6> QED BY <6>1
        <5> QED BY <1>7, <1>8, <3>1, <5>1
      <4> QED BY <4>2, <4>3
    <3> QED BY <1>1, <1>3, <1>8, <1>11, <2>2, <2>5, <3>2, <3>3 DEF Whole
  <2> QED BY <2>2, <2>4, <2>5
<1> QED BY <1>1, <1>5, <1>8, <1>12, <1>13

LEMMA ParseListed ==
  ASSUME Typed, Listed, ParsePage
  PROVE  Listed'
<1>1. PICK k \in Kinds : reading = k
  BY TypesUsed DEF ParsePage
<1>2. /\ DOMAIN got = 1..WorkerCount /\ parsed + 1 \in DOMAIN got
      /\ UNCHANGED <<lists, before, change>>
      /\ \A j \in Kinds : j # k => results'[j] = results[j]
  BY <1>1, TypesUsed, Sizes DEF ParsePage
<1>3. PICK page \in Seq(Names) : page = got[parsed + 1]
  BY <1>2, TypesUsed
<1>4. /\ reading' = IF page = <<>> THEN "none" ELSE k
      /\ \/ got' = <<>>
         \/ got' = got /\ pages' = pages /\ parsed' = parsed + 1 /\ page # <<>>
  BY <1>1, <1>3 DEF ParsePage, EndOfList
<1>5. change[k] < 2 => \E L \in Seq(Names) : Follows(k, L)
  BY <1>1 DEF Listed, Reading, Kinds
<1>6. ASSUME change[k] < 2, page # <<>>
      PROVE  \E L \in Seq(Names) : Follows(k, L)'
  <2>1. PICK L \in Seq(Names) : Follows(k, L)
    BY <1>5, <1>6
  <2>2. Ahead(k, L)' /\ (change[k] = 0 => Whole(k, L)')
    BY <1>1, <1>3, <1>6, <2>1, PageRead
  <2>3. CASE got' = got /\ pages' = pages
    <3>1. Follows(k, L)'
      BY <1>2, <2>1, <2>2, <2>3 DEF Follows
    <3> QED BY <3>1
  <2>4. CASE got' = <<>>
    <3>1. PICK N \in Seq(Names) : N = lists[k]
      BY TypesUsed
    <3>2. Ahead(k, N)'
      <4>1. Grown(L, N)
        BY <2>1, <3>1 DEF Follows
      <4>2. ASSUME NEW e \in ToSet(before'[k]), e \notin ToSet(results'[k])
            PROVE  \E j \in DOMAIN N : j > Read' /\ N[j] = e
        <5>1. PICK j \in DOMAIN L : j > Read' /\ L[j] = e
          BY <2>2, <4>2 DEF Ahead
        <5>2. PICK m \in DOMAIN N : m >= j /\ N[m] = L[j]
          BY <4>1 DEF Grown
        <5>3. m \in Nat /\ j \in Nat /\ Read' \in Nat
          <6>1. Read' = Read + PageSize
            BY <1>1, <1>3, <1>6, <2>1, PageRead
          <6> QED BY <6>1, ReadFact, Sizes
        <5> QED BY <5>1, <5>2, <5>3
      <4> QED BY <4>2 DEF Ahead
    <3>3. change'[k] = 0 => N = lists'[k] /\ Whole(k, N)'
      BY <1>2, <2>1, <2>2, <3>1 DEF Follows
    <3>4. Follows(k, N)'
      BY <1>2, <2>4, <3>1, <3>2, <3>3, GrownSame DEF Follows
    <3> QED BY <3>4
  <2> QED BY <1>4, <2>3, <2>4
<1>7. Reading'
  BY <1>2, <1>4, <1>6 DEF Reading
<1>8. ASSUME page = <<>>
      PROVE  /\ change[k] = 0 => results'[k] = before[k]
             /\ change[k] = 1 => ToSet(before[k]) \subseteq ToSet(results'[k])
  <2>1. ASSUME change[k] < 2
        PROVE  /\ change[k] = 0 => results'[k] = before[k]
               /\ ToSet(before[k]) \subseteq ToSet(results'[k])
    <3>1. PICK L \in Seq(Names) : Follows(k, L)
      BY <1>5, <2>1
    <3> QED BY <1>1, <1>3, <1>8, <3>1, PageRead
  <2> QED BY <2>1
<1>9. Complete'
  BY <1>1, <1>2, <1>4, <1>8 DEF Listed, Complete
<1> QED BY <1>7, <1>9 DEF Listed

LEMMA StepListed == Typed /\ Listed /\ [Next]_vars => Listed'
<1> SUFFICES ASSUME Typed, Listed, [Next]_vars PROVE Listed'
  OBVIOUS
<1>1. CASE ListRepos \/ RetrieveMembers \/ RetrieveInvitations
  <2>1. PICK k \in Kinds : BeginListing(k) /\ UNCHANGED lists /\ reading = "none"
    BY <1>1 DEF ListRepos, RetrieveMembers, RetrieveInvitations, Kinds, Typed, Staged
  <2> QED BY <2>1, BeginListed
<1>2. CASE UNCHANGED vars
  BY <1>2 DEF vars, listing, Listed, Reading, Complete, Follows, Ahead, Whole, Read
<1>3. CASE UsersExist \/ FilterStudents \/ (\E i \in Places : InviteUser(i)) \/ Summary
  <2>1. UNCHANGED listing /\ reading = "none"
    BY <1>3 DEF UsersExist, FilterStudents, InviteUser, Summary, Typed, Staged
  <2> QED BY <2>1 DEF listing, Listed, Reading, Complete
<1> QED BY <1>1, <1>2, <1>3, WorldListed, AnswerListed, ParseListed DEF Next, Program

LEMMA ListedHolds == Spec => [](Typed /\ Listed)
<1>1. Init => Typed /\ Listed
  BY InitTyped, InitListed
<1>2. Typed /\ Listed /\ [Next]_vars => (Typed /\ Listed)'
  BY StepTyped, StepListed
<1> QED BY <1>1, <1>2, PTL DEF Spec

\* A list that stays as it was is read entry by entry, and one that only grows
\* between the answers of two batches is read without a gap, for every number of
\* entries in a page and of pages in a batch (hand_curl.c:566-592, 649-696).
THEOREM NothingMissed == Spec => []NoneMissed
<1>1. Complete => NoneMissed
  BY DEF Complete, NoneMissed, Retrieved
<1> QED BY <1>1, ListedHolds, PTL DEF Listed

-----------------------------------------------------------------------------
(* Who is invited.                                                         *)

People == ToSet(lists["members"]) \cup ToSet(lists["invitations"])

\* Whose name was read from GitHub is still there.
Seen ==
  /\ ToSet(results["members"]) \cup ToSet(results["invitations"]) \subseteq People
  /\ reading \in {"members", "invitations"} => \A i \in DOMAIN got : ToSet(got[i]) \subseteq People

\* Nobody known is invited, and of everybody else who is no longer to be invited
\* GitHub knows, or the failure was noted.
Sent ==
  /\ phase \notin {"invite", "done"} => DOMAIN reported = {}
  /\ phase \in {"invite", "done"} =>
       /\ \A i \in todo \cup DOMAIN reported : ~Known(i)
       /\ \A i \in Places \ todo : students[i] \in People \/ (i \in DOMAIN reported /\ ~reported[i])
  /\ phase = "done" => todo = {}

\* A page holds entries of its list.
LEMMA PageEntries ==
  ASSUME NEW list \in Seq(Names), NEW p \in Nat \ {0}
  PROVE  ToSet(PageOf(list, p)) \subseteq ToSet(list)
<1>1. PICK from \in Nat : from = (p - 1) * PageSize
  BY PageStart
<1>2. PICK n \in Nat : n = Len(list)
  OBVIOUS
<1>3. PICK page \in Seq(Names) :
        /\ page = PageOf(list, p)
        /\ Len(page) = IF from >= n THEN 0 ELSE IF from + PageSize <= n THEN PageSize ELSE n - from
        /\ \A x \in 1..Len(page) : page[x] = list[from + x]
  BY <1>1, <1>2, PageFacts
<1>4. ASSUME NEW x \in DOMAIN page
      PROVE  page[x] \in ToSet(list)
  <2>1. x \in 1..Len(page) /\ from + x \in 1..n
    BY <1>2, <1>3, Sizes
  <2> QED BY <1>2, <1>3, <2>1 DEF ToSet
<1> QED BY <1>3, <1>4 DEF ToSet

\* Nobody leaves the two lists together.
LEMMA PeopleStay ==
  ASSUME Typed, [Next]_vars
  PROVE  People \subseteq People'
<1>1. lists \in [Kinds -> Seq(Names)] /\ Kinds = {"members", "invitations", "repos"}
  BY TypesUsed DEF Kinds
<1>2. CASE lists' = lists
  BY <1>2 DEF People
<1>3. ASSUME NEW k \in Kinds, NEW e \in Names, NEW i \in 1..Len(lists[k]) + 1
      PROVE  ToSet(lists[k]) \cup {e} \subseteq ToSet(With(k, e, i)[k])
  <2>1. PICK s \in Seq(Names) : s = lists[k]
    BY <1>1
  <2>2. PICK t \in Seq(Names) : t = InsertAt(s, i, e) /\ Len(t) = Len(s) + 1 /\ t[i] = e
    BY <2>1, InsertFacts
  <2>3. With(k, e, i)[k] = t
    BY <1>1, <2>1, <2>2 DEF With
  <2>4. ToSet(s) \subseteq ToSet(t)
    BY <2>1, <2>2, GrownInsert DEF Grown, ToSet
  <2>5. e \in ToSet(t)
    <3>1. i \in DOMAIN t
      BY <2>1, <2>2
    <3> QED BY <2>2, <3>1 DEF ToSet
  <2> QED BY <2>1, <2>3, <2>4, <2>5
<1>4. ASSUME NEW s \in Names, Accept(s)
      PROVE  People \subseteq People'
  <2>1. PICK i \in 1..Len(lists["members"]) + 1, j \in DOMAIN lists["invitations"] :
          /\ lists["invitations"][j] = s
          /\ lists' = [With("members", s, i) EXCEPT !["invitations"] = RemoveAt(@, j)]
    BY <1>4 DEF Accept
  <2>2. /\ lists'["members"] = With("members", s, i)["members"]
        /\ lists'["invitations"] = RemoveAt(lists["invitations"], j)
    BY <1>1, <2>1 DEF With
  <2>3. ToSet(lists["members"]) \cup {s} \subseteq ToSet(lists'["members"])
    BY <1>1, <1>3, <2>1, <2>2
  <2>4. ToSet(lists["invitations"]) \subseteq ToSet(lists'["invitations"]) \cup {s}
    <3>1. PICK u \in Seq(Names) : u = lists["invitations"]
      BY <1>1
    <3>2. j \in DOMAIN u /\ u[j] = s
      BY <2>1, <3>1
    <3>3. \A x \in DOMAIN u : x # j => \E m \in DOMAIN RemoveAt(u, j) : RemoveAt(u, j)[m] = u[x]
      BY <3>2, RemoveFacts
    <3>4. \A x \in DOMAIN u : u[x] \in ToSet(RemoveAt(u, j)) \cup {s}
      BY <3>2, <3>3 DEF ToSet
    <3> QED BY <2>2, <3>1, <3>4 DEF ToSet
  <2> QED BY <2>3, <2>4 DEF People
<1>5. ASSUME NEW r \in Names, CreateRepo(r)
      PROVE  People \subseteq People'
  <2>1. lists'["members"] = lists["members"] /\ lists'["invitations"] = lists["invitations"]
    BY <1>1, <1>5 DEF CreateRepo, With
  <2> QED BY <2>1 DEF People
<1>6. ASSUME NEW i \in Places, InviteUser(i)
      PROVE  People \subseteq People'
  <2>1. lists' = lists \/ lists' = With("invitations", students[i], 1)
    BY <1>6 DEF InviteUser
  <2>2. students[i] \in Names /\ 1 \in 1..Len(lists["invitations"]) + 1
    BY <1>1, TypesUsed
  <2>3. ToSet(lists["invitations"]) \subseteq ToSet(With("invitations", students[i], 1)["invitations"])
    BY <1>1, <1>3, <2>2
  <2>4. With("invitations", students[i], 1)["members"] = lists["members"]
    BY <1>1 DEF With
  <2> QED BY <1>2, <2>1, <2>3, <2>4 DEF People
<1> QED
  BY <1>2, <1>4, <1>5, <1>6
  DEF Next, World, Program, ListRepos, RetrieveMembers, RetrieveInvitations, UsersExist,
      FilterStudents, Summary, Answer, ParsePage, vars

\* What a step that reads leaves alone.
LEMMA ReadingOnly ==
  ASSUME Typed, [Next]_vars
  PROVE  \/ UNCHANGED <<phase, students, todo, reported>>
         \/ /\ reading = "none" /\ UNCHANGED <<students, todo, reported>>
            /\ phase \in {"idle", "members", "invitations"}
            /\ phase' \in {"members", "invitations", "users", "listed"}
         \/ FilterStudents
         \/ \E i \in Places : InviteUser(i)
         \/ Summary
<1>1. CASE World
  BY <1>1 DEF World, Accept, CreateRepo, invite
<1>2. CASE ListRepos \/ RetrieveMembers \/ RetrieveInvitations \/ UsersExist
  BY <1>2 DEF ListRepos, RetrieveMembers, RetrieveInvitations, UsersExist, Typed, Staged
<1> QED BY <1>1, <1>2 DEF Next, Program, vars, invite

LEMMA InitSent == Init => Seen /\ Sent
<1> SUFFICES ASSUME Init PROVE Seen /\ Sent
  OBVIOUS
<1>1. /\ reading = "none" /\ results["members"] = <<>> /\ results["invitations"] = <<>>
      /\ phase = "idle" /\ DOMAIN reported = {}
  BY DEF Init, ListingInit, Kinds
<1>2. ToSet(<<>>) = {}
  BY DEF ToSet
<1> QED BY <1>1, <1>2 DEF Seen, Sent

LEMMA StepSeen ==
  ASSUME Typed, Seen, [Next]_vars
  PROVE  Seen'
<1>1. People \subseteq People'
  BY PeopleStay
<1>2. Kinds = {"members", "invitations", "repos"} /\ results \in [Kinds -> Seq(Names)]
      /\ lists \in [Kinds -> Seq(Names)]
  BY TypesUsed DEF Kinds
<1>3. CASE UNCHANGED <<reading, results, got>>
  BY <1>1, <1>3 DEF Seen
<1>4. ASSUME NEW k \in Kinds, BeginListing(k)
      PROVE  Seen'
  <2>1. /\ DOMAIN got' = {} /\ results'[k] = <<>>
        /\ \A j \in Kinds : j # k => results'[j] = results[j]
    BY <1>2, <1>4 DEF BeginListing
  <2>2. ToSet(<<>>) = {}
    BY DEF ToSet
  <2>3. \A j \in {"members", "invitations"} : ToSet(results'[j]) \subseteq ToSet(results[j])
    BY <1>2, <2>1, <2>2
  <2> QED BY <1>1, <2>1, <2>3 DEF Seen
<1>5. ASSUME NEW i \in 1..WorkerCount, Answer(i)
      PROVE  Seen'
  <2>1. PICK page : /\ got' = [j \in DOMAIN got \cup {i} |-> IF j # i THEN got[j] ELSE page]
                    /\ page = <<>> \/ page = PageOf(lists[reading], pages + i)
    BY <1>5 DEF Answer
  <2>2. /\ UNCHANGED <<lists, reading, results>> /\ reading \in Kinds
    BY <1>5, TypesUsed DEF Answer
  <2>3. ASSUME reading \in {"members", "invitations"}
        PROVE  ToSet(page) \subseteq People
    <3>1. ToSet(<<>>) = {}
      BY DEF ToSet
    <3>2. pages + i \in Nat \ {0} /\ lists[reading] \in Seq(Names)
      BY <1>2, <2>2, TypesUsed
    <3>3. PICK p \in Nat \ {0} : p = pages + i
      BY <3>2
    <3>4. PICK list \in Seq(Names) : list = lists[reading]
      BY <3>2
    <3>5. ToSet(PageOf(list, p)) \subseteq ToSet(list)
      BY PageEntries
    <3>6. ToSet(list) \subseteq People
      BY <2>3, <3>4 DEF People
    <3> QED BY <2>1, <3>1, <3>3, <3>4, <3>5, <3>6
  <2>4. reading \in {"members", "invitations"} => \A j \in DOMAIN got' : ToSet(got'[j]) \subseteq People
    BY <2>1, <2>3 DEF Seen
  <2> QED BY <1>1, <2>2, <2>4 DEF Seen
<1>6. CASE ParsePage
  <2>1. PICK k \in Kinds : reading = k
    BY <1>6, TypesUsed DEF ParsePage
  <2>2. PICK page \in Seq(Names) : page = got[parsed + 1] /\ parsed + 1 \in DOMAIN got
    BY <1>6, TypesUsed, Sizes DEF ParsePage
  <2>3. results' = [results EXCEPT ![k] = @ \o page] /\ lists' = lists
    BY <1>6, <2>1, <2>2 DEF ParsePage
  <2>4. PICK r \in Seq(Names) : r = results[k]
    BY <1>2
  <2>5. ToSet(r \o page) \subseteq ToSet(r) \cup ToSet(page)
    <3>1. /\ Len(r \o page) = Len(r) + Len(page) /\ r \o page \in Seq(Names)
          /\ \A x \in 1..Len(r) + Len(page) :
               (r \o page)[x] = IF x <= Len(r) THEN r[x] ELSE page[x - Len(r)]
      BY ConcatProperties
    <3>2. ASSUME NEW x \in DOMAIN (r \o page)
          PROVE  (r \o page)[x] \in ToSet(r) \cup ToSet(page)
      <4>1. x \in 1..Len(r) + Len(page)
        BY <3>1
      <4>2. CASE x <= Len(r)
        BY <3>1, <4>1, <4>2 DEF ToSet
      <4>3. CASE ~(x <= Len(r))
        <5>1. x - Len(r) \in DOMAIN page
          BY <4>1, <4>3
        <5> QED BY <3>1, <4>1, <4>3, <5>1 DEF ToSet
      <4> QED BY <4>2, <4>3
    <3> QED BY <3>2 DEF ToSet
  <2>6. k \in {"members", "invitations"} => ToSet(page) \subseteq People /\ ToSet(r) \subseteq People
    BY <2>1, <2>2, <2>4 DEF Seen
  <2>7. \A j \in {"members", "invitations"} : ToSet(results'[j]) \subseteq People
    BY <1>2, <2>3, <2>4, <2>5, <2>6 DEF Seen
  <2>8. (got' = got \/ DOMAIN got' = {}) /\ (reading' = reading \/ reading' = "none")
    BY <1>6 DEF ParsePage
  <2> QED BY <1>1, <2>7, <2>8 DEF Seen
<1> QED
  BY <1>3, <1>4, <1>5, <1>6
  DEF Next, World, Program, Accept, CreateRepo, ListRepos, RetrieveMembers, RetrieveInvitations,
      UsersExist, FilterStudents, InviteUser, Summary, vars, listing, Kinds

LEMMA StepSent ==
  ASSUME Typed, Seen, Sent, [Next]_vars
  PROVE  Sent'
<1>1. People \subseteq People'
  BY PeopleStay
<1>2. CASE phase \notin {"invite", "done"} /\ phase' \notin {"invite", "done"}
  BY <1>2, ReadingOnly DEF Sent, FilterStudents, InviteUser, Summary
<1>3. CASE phase \notin {"invite", "done"} /\ phase' \in {"invite", "done"}
  <2>1. FilterStudents /\ phase' = "invite"
    BY <1>3, ReadingOnly DEF InviteUser, Summary, FilterStudents
  <2>2. todo' = {i \in Places : ~Known(i)} /\ UNCHANGED <<lists, students, reported, results>>
    BY <2>1 DEF FilterStudents, listing
  <2>3. \A i \in Places : Known(i)' <=> Known(i)
    BY <2>2 DEF Known, Retrieved, Fits
  <2>4. ASSUME NEW i \in Places, Known(i)
        PROVE  students[i] \in People
    BY <2>4 DEF Known, Retrieved, Seen
  <2>5. DOMAIN reported' = {}
    BY <1>3, <2>2 DEF Sent
  <2> QED BY <1>1, <2>1, <2>2, <2>3, <2>4, <2>5 DEF Sent, Places
<1>4. CASE phase \in {"invite", "done"}
  <2>1. reading = "none" /\ UNCHANGED <<results, students>>
    <3>1. reading = "none"
      BY <1>4 DEF Typed, Staged
    <3> QED
      BY <1>4, <3>1
      DEF Next, World, Program, Accept, CreateRepo, ListRepos, RetrieveMembers, RetrieveInvitations,
          UsersExist, FilterStudents, InviteUser, Summary, Answer, ParsePage, vars, listing, invite
  <2>2. \A i \in Places : Known(i)' <=> Known(i)
    BY <2>1 DEF Known, Retrieved, Fits
  <2>3. todo \subseteq Places /\ DOMAIN reported \subseteq Places
    BY DEF Typed, TypeOK
  <2>4. CASE UNCHANGED <<phase, todo, reported>>
    BY <1>1, <1>4, <2>1, <2>2, <2>3, <2>4 DEF Sent, Places
  <2>5. ASSUME NEW i \in Places, InviteUser(i)
        PROVE  Sent'
    <3>1. /\ phase = "invite" /\ phase' = "invite" /\ todo' = todo \ {i} /\ i \in todo
      <4>1. i = Min(todo) /\ todo # {} /\ todo \in SUBSET Nat
        BY <2>3, <2>5, TypesUsed DEF InviteUser
      <4>2. i \in todo
        BY <4>1, MinFact
      <4> QED BY <2>5, <4>2 DEF InviteUser
    <3>2. PICK sent, answered \in IF MayLose THEN BOOLEAN ELSE {TRUE} :
            /\ reported' = [j \in DOMAIN reported \cup {i} |->
                              IF j # i THEN reported[j] ELSE sent /\ answered /\ students[i] \in Accounts]
            /\ lists' = IF sent /\ students[i] \in
                              Accounts \ (ToSet(lists["members"]) \cup ToSet(lists["invitations"]))
                        THEN With("invitations", students[i], 1) ELSE lists
      BY <2>5 DEF InviteUser
    <3>3. students[i] \in People' \/ ~reported'[i]
      <4>1. CASE ~(sent /\ answered /\ students[i] \in Accounts)
        BY <3>2, <4>1
      <4>2. CASE sent /\ students[i] \in Accounts /\ students[i] \in People
        BY <1>1, <4>2
      <4>3. CASE sent /\ students[i] \in Accounts /\ students[i] \notin People
        <5>1. lists' = With("invitations", students[i], 1)
          BY <3>2, <4>3 DEF People
        <5>2. students[i] \in ToSet(lists'["invitations"])
          <6>1. PICK s \in Seq(Names) : s = lists["invitations"]
            BY TypesUsed DEF Kinds
          <6>2. PICK e \in Names : e = students[i]
            BY TypesUsed
          <6>3. 1 \in 1..Len(s) + 1
            OBVIOUS
          <6>4. PICK t \in Seq(Names) : t = InsertAt(s, 1, e) /\ Len(t) = Len(s) + 1 /\ t[1] = e
            BY <6>3, InsertFacts
          <6>5. lists'["invitations"] = t
            BY <5>1, <6>1, <6>2, <6>4, TypesUsed DEF With, Kinds
          <6>6. 1 \in DOMAIN t
            BY <6>4
          <6> QED BY <6>2, <6>4, <6>5, <6>6 DEF ToSet
        <5> QED BY <5>2 DEF People
      <4> QED BY <4>1, <4>2, <4>3
    <3>4. /\ DOMAIN reported' = DOMAIN reported \cup {i}
          /\ \A j \in DOMAIN reported : j # i => reported'[j] = reported[j]
      BY <3>2
    <3>5. \A j \in todo' \cup DOMAIN reported' : ~Known(j)'
      BY <2>2, <2>3, <3>1, <3>4 DEF Sent
    <3>6. \A j \in Places' \ todo' : students'[j] \in People' \/ (j \in DOMAIN reported' /\ ~reported'[j])
      BY <1>1, <2>1, <3>1, <3>3, <3>4 DEF Sent, Places
    <3> QED BY <3>1, <3>5, <3>6 DEF Sent
  <2>6. CASE Summary
    <3>1. todo = {} /\ phase' = "done" /\ UNCHANGED <<todo, reported>>
      BY <2>6 DEF Summary
    <3> QED BY <1>1, <1>4, <2>1, <2>2, <2>3, <3>1 DEF Sent, Places
  <2> QED BY <1>4, <2>4, <2>5, <2>6, ReadingOnly DEF FilterStudents
<1> QED BY <1>2, <1>3, <1>4

LEMMA SentHolds == Spec => [](Typed /\ Listed /\ Seen /\ Sent)
<1>1. Init => Typed /\ Listed /\ Seen /\ Sent
  BY InitTyped, InitListed, InitSent
<1>2. Typed /\ Listed /\ Seen /\ Sent /\ [Next]_vars => (Typed /\ Listed /\ Seen /\ Sent)'
  BY StepTyped, StepListed, StepSeen, StepSent
<1> QED BY <1>1, <1>2, PTL DEF Spec

\* Whoever was a member or invited when the lists were read, and read whole, gets
\* no second invitation (hand.c:222-249).
THEOREM InvitedOnce == Spec => []NoRepeatedInvitation
<1>1. Typed /\ Listed /\ Sent => NoRepeatedInvitation
  <2> SUFFICES ASSUME Typed, Listed, Sent, change["members"] < 2, change["invitations"] < 2,
                      NEW i \in DOMAIN reported
               PROVE  students[i] \notin ToSet(before["members"]) \cup ToSet(before["invitations"])
    BY DEF NoRepeatedInvitation
  <2>1. reading = "none" /\ ~Known(i)
    BY DEF Typed, Staged, Sent
  <2>2. ASSUME NEW k \in {"members", "invitations"}
        PROVE  ToSet(before[k]) \subseteq ToSet(results[k])
    <3>1. k \in Kinds /\ reading # k /\ change[k] \in 0..2 /\ change[k] < 2
      BY <2>1, TypesUsed DEF Kinds
    <3>2. change[k] = 0 \/ change[k] = 1
      BY <3>1
    <3> QED BY <3>1, <3>2 DEF Listed, Complete
  <2> QED BY <2>1, <2>2 DEF Known, Retrieved, Fits
<1> QED BY <1>1, SentHolds, PTL

\* At the summary everybody in the file is a member, is invited or was counted as
\* a failure, whatever was lost and whoever accepted meanwhile (hand.c:253-291).
THEOREM SettledInTheEnd == Spec => []EveryoneSettled
<1>1. Sent => EveryoneSettled
  BY DEF Sent, EveryoneSettled, People
<1> QED BY <1>1, SentHolds, PTL

\* Names are taken for accounts only if they are.
Checked ==
  /\ phase \in {"users", "invite", "done", "abort"} => \A i \in exist : students[i] \in Accounts
  /\ phase \in {"invite", "done"} => todo \cup DOMAIN reported \subseteq exist
  /\ phase \notin {"invite", "done"} => DOMAIN reported = {}

\* When no response is lost and the file fits in one batch, the place in the batch
\* is the place in the array.
LEMMA AskedItself ==
  ASSUME Typed, \A f \in Files : Len(f) <= MaxWorker, NEW i \in Places
  PROVE  Asked(i) = students[i]
<1>1. PICK m \in Nat \ {0} : m = MaxWorker
  BY Sizes
<1>2. students \in Files /\ i \in 1..Len(students) /\ Len(students) \in Nat
  BY TypesUsed DEF Typed, TypeOK
<1>3. i - 1 \in 0..m - 1
  BY <1>1, <1>2
<1>4. PICK x \in 0..m - 1 : x = i - 1
  BY <1>3
<1>5. x % m = x
  BY <1>4
<1>6. ((i - 1) % MaxWorker) + 1 = i
  BY <1>1, <1>2, <1>4, <1>5
<1> QED BY <1>6 DEF Asked

LEMMA StepChecked ==
  ASSUME ~MayLose, \A f \in Files : Len(f) <= MaxWorker, Typed, Checked, [Next]_vars
  PROVE  Checked'
<1>1. CASE UsersExist
  <2>1. exist' = {i \in Places : Asked(i) \in Accounts} /\ UNCHANGED <<students, reported>>
        /\ phase = "invitations" /\ phase' = "users"
    BY <1>1 DEF UsersExist
  <2>2. \A i \in exist' : students[i] \in Accounts
    BY <2>1, AskedItself
  <2> QED BY <2>1, <2>2 DEF Checked
<1>2. CASE FilterStudents
  BY <1>2 DEF FilterStudents, Checked
<1>3. ASSUME NEW i \in Places, InviteUser(i)
      PROVE  Checked'
  <2>1. todo # {} /\ todo \in SUBSET Nat /\ i = Min(todo)
    <3>1. todo # {} /\ i = Min(todo)
      BY <1>3 DEF InviteUser
    <3>2. todo \in SUBSET Places
      BY DEF Typed, TypeOK
    <3>3. Places \subseteq Nat
      BY TypesUsed DEF Typed
    <3> QED BY <3>1, <3>2, <3>3
  <2>2. i \in todo
    BY <2>1, MinFact
  <2>3. DOMAIN reported' = DOMAIN reported \cup {i} /\ todo' = todo \ {i}
        /\ phase = "invite" /\ UNCHANGED <<phase, students, exist>>
    BY <1>3 DEF InviteUser
  <2> QED BY <2>2, <2>3 DEF Checked
<1>4. CASE Summary
  BY <1>4 DEF Summary, Checked
<1>5. CASE UNCHANGED invite
  BY <1>5 DEF invite, Checked
<1>6. CASE ListRepos \/ RetrieveMembers \/ RetrieveInvitations
  BY <1>6 DEF ListRepos, RetrieveMembers, RetrieveInvitations, Checked
<1> QED BY <1>1, <1>2, <1>3, <1>4, <1>5, <1>6 DEF Next, Program, World, Accept, CreateRepo, vars

\* The promise of the messages holds where no response is lost and the file has
\* no more names than one batch: nothing else breaks it (hand_curl.c:319-342,
\* hand.c:244-251).
THEOREM AccountsInvited ==
  ASSUME ~MayLose, \A f \in Files : Len(f) <= MaxWorker
  PROVE  Spec => []InvitedExist
<1>1. Init => Checked
  BY DEF Init, Checked
<1>2. Typed /\ Checked /\ [Next]_vars => Checked'
  BY StepChecked
<1>3. Typed /\ Checked => InvitedExist
  BY DEF Checked, InvitedExist, Typed, TypeOK
<1> QED BY <1>1, <1>2, <1>3, TypedHolds, PTL DEF Spec
=============================================================================
