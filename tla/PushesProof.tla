---------------------------- MODULE PushesProof ----------------------------
(***************************************************************************)
(* Proofs about Pushes, for any number of repositories, pages, batches and *)
(* pushes: type correctness, how the graded commit is dated, and that it   *)
(* is the one the cutoff asks for.                                         *)
(***************************************************************************)
EXTENDS Pushes, SequenceTheorems, WellFoundedInduction, TLAPS

-----------------------------------------------------------------------------
(* The inductive invariant.                                                *)

Typed == TypeOK /\ \A r \in Repos : Len(pushed[r]) <= MaxEvents

IsPush(e)     == e.kind = "push"
IsCreation(e) == e.kind \in {"repo", "branch"}
Latest(r)     == last_resort_hashes[r]

\* Time goes on: pushes follow one another and the creation.
History ==
  /\ started <= now
  /\ phase # "idle" => \A r \in Repos : created[r] > 0
  /\ \A r \in Repos :
       /\ created[r] <= now
       /\ created[r] = 0 => pushed[r] = <<>> /\ events[r] = <<>>
       /\ \A n \in DOMAIN pushed[r] : created[r] <= pushed[r][n] /\ pushed[r][n] <= now
       /\ \A m, n \in DOMAIN pushed[r] : m <= n => pushed[r][m] <= pushed[r][n]

\* What is reported did happen, and is reported newest first.
Logged ==
  \A r \in Repos : \A i \in DOMAIN events[r] :
    /\ IsPush(events[r][i]) => /\ events[r][i].commit \in DOMAIN pushed[r]
                               /\ events[r][i].time = pushed[r][events[r][i].commit]
    /\ IsCreation(events[r][i]) => events[r][i].time = created[r]
InOrder ==
  \A r \in Repos : \A i, j \in DOMAIN events[r] :
    i < j /\ IsPush(events[r][j]) =>
      /\ ~IsCreation(events[r][i])
      /\ IsPush(events[r][i]) => events[r][i].commit > events[r][j].commit
Complete ==
  ~MayMiss => \A r \in Repos : \A n \in DOMAIN pushed[r] :
    \E i \in DOMAIN events[r] : IsPush(events[r][i]) /\ events[r][i].commit = n

World == History /\ Logged /\ InOrder /\ Complete

\* The last resort: a creation time, and a commit no push before the command
\* began is newer than.
Resorts ==
  \A r \in Repos :
    /\ last_resort_push_times[r] \in {0, created[r]}
    /\ Latest(r) # NoHash =>
         /\ Latest(r) \in 0..Len(pushed[r])
         /\ \A n \in DOMAIN pushed[r] : pushed[r][n] < started => n <= Latest(r)

\* Every latest commit is known once the pages are read, if no response is lost and
\* the repository was not moved.
Known ==
  "latest" \notin Faults =>
    \A r \in Repos \ moved :
      phase \in {"pages", "done"} \/ (phase = "latest" /\ (r <= at \/ r \in answered)) =>
        Latest(r) # NoHash

\* Batches are worked off in order.
Batches ==
  /\ phase # "done" => answered \subseteq Batch
  /\ phase \in {"idle", "created", "latest"} =>
       /\ page = 1
       /\ \A r \in Repos : /\ ~worker_done[r]
                           /\ out_hash[r] = NoHash /\ out_push_time[r] = 0
                           /\ latest_push_times[r] = 0
  /\ phase \in {"idle", "created"} =>
       /\ at = 0 /\ answered = {}
       /\ \A r \in Repos : last_resort_push_times[r] = 0 /\ Latest(r) = NoHash
  /\ phase = "pages" => \A r \in Repos : r <= at => worker_done[r]
  /\ phase = "done" => \A r \in Repos : worker_done[r]

\* Events at the front of the list that have been read, or came after those.
Read(r) ==
  IF phase = "pages" /\ r \in Batch
  THEN (IF r \in answered THEN page ELSE page - 1) * PageSize ELSE 0

\* The newest push seen is a push, and the result is dated by an event before the
\* cutoff or by the creation, never later than the graded commit was pushed.
Dated ==
  \A r \in Repos :
    /\ latest_push_times[r] > 0 =>
         /\ latest_push_hashes[r] \in DOMAIN pushed[r]
         /\ latest_push_times[r] = pushed[r][latest_push_hashes[r]]
    /\ out_push_time[r] < Cutoff \/ out_push_time[r] = created[r]
    /\ started >= Cutoff /\ out_hash[r] # NoHash =>
         /\ out_hash[r] \in 0..Len(pushed[r])
         /\ out_push_time[r] <= PushTime(r, out_hash[r])

\* While the search of a repository that was not moved goes on: no event read ends it, but for those that came after
\* the command began; all pushes read up to the latest commit have been seen; and
\* the result, if any, is the last resort.
Searching(r) ==
  /\ r \notin moved => \A i \in DOMAIN events[r] : i <= Read(r) =>
       /\ Stops(events[r][i]) => events[r][i].time >= started
       /\ IsPush(events[r][i]) /\ events[r][i].commit <= Latest(r) =>
            events[r][i].time <= latest_push_times[r]
  /\ latest_push_times[r] = 0 \/ latest_push_times[r] >= Cutoff
  /\ \/ out_push_time[r] = 0
     \/ out_hash[r] = Latest(r) /\ out_push_time[r] = last_resort_push_times[r]

\* When it has ended.
NotOlder(r) ==
  ~MayMiss /\ "latest" \notin Faults /\ r \notin moved =>
    \A n \in Before(r) : pushed[r][n] < started => out_hash[r] >= n
IsExact(r) ==
  ~MayMiss /\ {"latest", "page"} \cap Faults = {} /\ started >= Cutoff /\ r \notin moved =>
    \A m \in Before(r) : (\A n \in Before(r) : n <= m) =>
      out_hash[r] = m /\ out_push_time[r] = pushed[r][m]

Searched ==
  \A r \in Repos : IF worker_done[r] THEN NotOlder(r) /\ IsExact(r) ELSE Searching(r)

Inv == Typed /\ World /\ Resorts /\ Known /\ Batches /\ Dated /\ Searched

-----------------------------------------------------------------------------
(* Least elements, and which events of a list a page holds.                *)

LEMMA NatMin ==
  ASSUME NEW S \in SUBSET Nat, S # {}
  PROVE  \E x \in S : \A y \in S : x <= y
<1>1. PICK x \in S : \A y \in S : ~(<<y, x>> \in OpToRel(<, Nat))
  BY NatLessThanWellFounded, WFMin
<1>2. \A y \in S : ~(y < x)
  BY <1>1 DEF OpToRel
<1> QED BY <1>2

LEMMA MinFact ==
  ASSUME NEW S \in SUBSET Nat, S # {}
  PROVE  Min(S) \in S /\ \A y \in S : Min(S) <= y
BY NatMin DEF Min

LEMMA PageStart ==
  ASSUME NEW p \in Nat \ {0}
  PROVE  /\ (p - 1) * PageSize \in Nat
         /\ p * PageSize = (p - 1) * PageSize + PageSize
<1>1. PageSize \in Nat \ {0}
  BY CountsArePos
<1>2. PICK n \in Nat : p = n + 1
  <2>1. p - 1 \in Nat /\ p = (p - 1) + 1
    OBVIOUS
  <2> QED BY <2>1
<1>3. n * PageSize \in Nat /\ (n + 1) * PageSize = n * PageSize + PageSize
  BY <1>1
<1> QED BY <1>2, <1>3

LEMMA PageFacts ==
  ASSUME NEW list \in Seq(Event), NEW p \in Nat \ {0}
  PROVE  LET got == PageOf(list, p)
             s   == (p - 1) * PageSize
         IN /\ got \in Seq(Event)
            /\ \A k \in DOMAIN got : s + k \in DOMAIN list /\ s + k <= s + PageSize
                                     /\ got[k] = list[s + k]
            /\ \A i \in DOMAIN list : s < i /\ i <= s + PageSize => i - s \in DOMAIN got
            /\ got = <<>> => Len(list) <= s
<1> DEFINE got == PageOf(list, p)
<1>1. PICK s \in Nat : s = (p - 1) * PageSize /\ p * PageSize = s + PageSize
  BY PageStart
<1>2. PageSize \in Nat \ {0} /\ Len(list) \in Nat /\ DOMAIN list = 1..Len(list)
  BY CountsArePos
<1>3. PICK e \in Nat : /\ e = Min({p * PageSize, Len(list)})
                       /\ e \in {s + PageSize, Len(list)}
                       /\ e <= s + PageSize /\ e <= Len(list)
  <2>1. {p * PageSize, Len(list)} \in SUBSET Nat
    BY <1>1, <1>2
  <2> QED BY <2>1, <1>1, MinFact
<1>4. got = SubSeq(list, s + 1, e)
  BY <1>1, <1>3 DEF PageOf
<1> HIDE DEF got
<1>5. /\ got \in Seq(Event) /\ Len(got) = IF s + 1 <= e THEN e - s ELSE 0
      /\ \A k \in 1..(e - s) : got[k] = list[s + k]
  <2> DEFINE sub == SubSeq(list, s + 1, e)
  <2>1. s + 1 \in Int /\ e \in Int
    BY <1>3
  <2>2. \A i \in (s + 1)..e : list[i] \in Event
    BY <1>2, <1>3
  <2>3. /\ sub \in Seq(Event)
        /\ Len(sub) = IF s + 1 <= e THEN e - (s + 1) + 1 ELSE 0
        /\ \A k \in 1..(e - (s + 1) + 1) : sub[k] = list[(s + 1) + k - 1]
    BY <2>1, <2>2, SubSeqProperties
  <2> HIDE DEF sub
  <2>4. e - (s + 1) + 1 = e - s /\ \A k \in 1..(e - s) : (s + 1) + k - 1 = s + k
    BY <1>3
  <2> QED BY <1>4, <2>3, <2>4 DEF sub
<1>6. \A k \in 1..Len(got) : got[k] = list[s + k]
  <2>1. \A k \in 1..Len(got) : k \in 1..(e - s)
    BY <1>3, <1>5
  <2> QED BY <2>1, <1>5
<1>7. DOMAIN got = 1..Len(got) /\ (got = <<>> => Len(got) = 0)
  BY <1>5
<1>8. \A k \in DOMAIN got : s + k \in DOMAIN list /\ s + k <= s + PageSize
  BY <1>2, <1>3, <1>5, <1>7
<1>9. \A i \in DOMAIN list : s < i /\ i <= s + PageSize => i - s \in DOMAIN got
  BY <1>2, <1>3, <1>5, <1>7
<1>10. got = <<>> => Len(list) <= s
  BY <1>2, <1>3, <1>5, <1>7
<1> QED BY <1>1, <1>5, <1>6, <1>7, <1>8, <1>9, <1>10 DEF got

Ended(seen) == seen # <<>> /\ Stops(Last(seen))

LEMMA ScannedFacts ==
  ASSUME NEW list \in Seq(Event)
  PROVE  LET seen == Scanned(list)
         IN /\ seen \in Seq(Event)
            /\ Len(seen) <= Len(list)
            /\ \A k \in DOMAIN seen : seen[k] = list[k]
            /\ \A k \in DOMAIN seen : k < Len(seen) => ~Stops(seen[k])
            /\ ~Ended(seen) => seen = list /\ \A k \in DOMAIN seen : ~Stops(seen[k])
<1> DEFINE stop == {i \in DOMAIN list : Stops(list[i])}
           seen == Scanned(list)
<1>1. stop \in SUBSET Nat
  OBVIOUS
<1>2. CASE stop = {}
  <2>1. seen = list
    BY <1>2 DEF Scanned
  <2> QED BY <1>2, <2>1
<1>3. CASE stop # {}
  <2> DEFINE m == Min(stop)
  <2>1. m \in stop /\ \A i \in stop : m <= i
    BY <1>1, <1>3, MinFact
  <2>2. seen = SubSeq(list, 1, m)
    BY <1>3 DEF Scanned
  <2> HIDE DEF m, seen
  <2>3. m \in 1..Len(list)
    BY <2>1
  <2>4. seen \in Seq(Event) /\ Len(seen) = m
    BY <2>2, <2>3, SubSeqProperties
  <2>5. \A k \in 1..m : seen[k] = list[k]
    BY <2>2, <2>3
  <2>6. Ended(seen)
    BY <2>1, <2>3, <2>4, <2>5 DEF Ended, Last
  <2>7. \A k \in DOMAIN seen : k < m => ~Stops(seen[k])
    BY <2>1, <2>3, <2>4, <2>5
  <2> QED BY <2>3, <2>4, <2>5, <2>6, <2>7 DEF seen
<1> QED BY <1>2, <1>3

-----------------------------------------------------------------------------
(* What one response does to the results of its repository.                *)

LEMMA Types ==
  ASSUME TypeOK
  PROVE  /\ now \in Nat /\ started \in Nat /\ page \in Nat \ {0} /\ at \in Nat
         /\ Cutoff \in Nat \ {0} /\ MaxEvents \in Nat
         /\ created \in [Repos -> 0..MaxTime]
         /\ pushed \in [Repos -> Seq(1..MaxTime)]
         /\ events \in [Repos -> Seq(Event)]
         /\ worker_done \in [Repos -> BOOLEAN]
         /\ out_push_time \in [Repos -> 0..MaxTime]
         /\ latest_push_times \in [Repos -> 0..MaxTime]
         /\ last_resort_push_times \in [Repos -> 0..MaxTime]
         /\ out_hash \in [Repos -> NoHash..MaxEvents]
         /\ latest_push_hashes \in [Repos -> NoHash..MaxEvents]
         /\ last_resort_hashes \in [Repos -> NoHash..MaxEvents]
<1>1. started \in Nat /\ now \in Nat
  BY CountsArePos DEF TypeOK
<1> QED BY <1>1, BoundsAreNat DEF TypeOK

\* The newest push among those known before and those seen now.
Newest(r, seen, t, h) ==
  /\ t >= latest_push_times[r]
  /\ \/ t = latest_push_times[r] /\ h = latest_push_hashes[r]
     \/ \E k \in DOMAIN seen : IsPush(seen[k]) /\ t = seen[k].time /\ h = seen[k].commit
  /\ \A j \in DOMAIN seen : IsPush(seen[j]) =>
       \E k \in DOMAIN seen : k <= j /\ IsPush(seen[k]) /\ seen[k].time <= t

Outcome(r, seen, t, h) ==
  IF Unreported(t, h, Latest(r)) THEN <<Latest(r), t>>
  ELSE IF Ended(seen) THEN Result(Last(seen), Latest(r))
  ELSE <<out_hash[r], out_push_time[r]>>

Resorted(r, o) == IF o[2] = 0 THEN <<Latest(r), last_resort_push_times[r]>> ELSE o

LEMMA EventFields ==
  ASSUME NEW e \in Event
  PROVE  /\ e.kind \in {"repo", "branch", "push", "other"}
         /\ e.time \in 1..MaxTime /\ e.commit \in 0..MaxEvents
         /\ e.time \in Nat \ {0} /\ e.commit \in NoHash..MaxEvents
<1>1. e.kind \in {"repo", "branch", "push", "other"} /\ e.time \in 1..MaxTime /\ e.commit \in 0..MaxEvents
  BY DEF Event
<1> QED BY <1>1, CountsArePos, BoundsAreNat DEF NoHash

LEMMA Handled ==
  ASSUME TypeOK, NEW r \in Repos, NEW list \in Seq(Event), Handle(r, list)
  PROVE  \E t \in 0..MaxTime, h \in NoHash..MaxEvents : \E o :
           LET seen == Scanned(list)
           IN /\ Newest(r, seen, t, h)
              /\ o = Resorted(r, Outcome(r, seen, t, h))
              /\ latest_push_times' = [latest_push_times EXCEPT ![r] = t]
              /\ latest_push_hashes' = [latest_push_hashes EXCEPT ![r] = h]
              /\ out_hash' = [out_hash EXCEPT ![r] = o[1]]
              /\ out_push_time' = [out_push_time EXCEPT ![r] = o[2]]
              /\ worker_done' = [worker_done EXCEPT ![r] = Ended(seen) \/ list = <<>>]
<1> DEFINE seen   == Scanned(list)
           pushes == {i \in DOMAIN seen : seen[i].kind = "push"}
           newest == seen[Min(pushes)]
           newer  == pushes # {} /\ newest.time > latest_push_times[r]
           t      == IF newer THEN newest.time ELSE latest_push_times[r]
           h      == IF newer THEN newest.commit ELSE latest_push_hashes[r]
           o      == Resorted(r, Outcome(r, seen, t, h))
<1>1. /\ latest_push_times' = [latest_push_times EXCEPT ![r] = t]
      /\ latest_push_hashes' = [latest_push_hashes EXCEPT ![r] = h]
      /\ out_hash' = [out_hash EXCEPT ![r] = o[1]]
      /\ out_push_time' = [out_push_time EXCEPT ![r] = o[2]]
      /\ worker_done' = [worker_done EXCEPT ![r] = Ended(seen) \/ list = <<>>]
  BY DEF Handle, Outcome, Resorted, Ended, Latest
<1>2. seen \in Seq(Event)
  BY ScannedFacts
<1>3. latest_push_times[r] \in 0..MaxTime /\ latest_push_hashes[r] \in NoHash..MaxEvents
  BY Types
<1> HIDE DEF seen
<1>4. pushes \in SUBSET Nat
  BY <1>2
<1>5. CASE pushes = {}
  <2>1. t = latest_push_times[r] /\ h = latest_push_hashes[r]
    BY <1>5
  <2>2. \A j \in DOMAIN seen : ~IsPush(seen[j])
    BY <1>5 DEF IsPush
  <2>3. Newest(r, seen, t, h)
    BY <1>3, <2>1, <2>2 DEF Newest
  <2> QED BY <1>1, <1>3, <2>1, <2>3 DEF seen
<1>6. CASE pushes # {}
  <2> DEFINE m == Min(pushes)
  <2>1. m \in pushes /\ \A j \in pushes : m <= j
    BY <1>4, <1>6, MinFact
  <2>2. m \in DOMAIN seen /\ IsPush(seen[m]) /\ seen[m] \in Event
    BY <1>2, <2>1 DEF IsPush
  <2>3. seen[m].time \in 1..MaxTime /\ seen[m].commit \in NoHash..MaxEvents /\ MaxTime \in Nat
    BY <2>2, EventFields, CountsArePos
  <2>4. t >= latest_push_times[r] /\ t >= seen[m].time
    BY <1>3, <1>6, <2>3
  <2>5. t \in 0..MaxTime /\ h \in NoHash..MaxEvents
    BY <1>3, <2>3
  <2>6. \/ t = latest_push_times[r] /\ h = latest_push_hashes[r]
        \/ t = seen[m].time /\ h = seen[m].commit
    OBVIOUS
  <2>7. \A j \in DOMAIN seen : IsPush(seen[j]) => m <= j
    BY <2>1 DEF IsPush
  <2>8. seen[m].time <= t
    BY <1>3, <2>3, <2>4
  <2> HIDE DEF m, t, h
  <2>9. Newest(r, seen, t, h)
    BY <2>2, <2>4, <2>6, <2>7, <2>8 DEF Newest
  <2> QED BY <1>1, <2>5, <2>9 DEF seen
<1> QED BY <1>5, <1>6

LEMMA OutcomeTypes ==
  ASSUME TypeOK, NEW r \in Repos, NEW seen \in Seq(Event),
         NEW t \in 0..MaxTime, NEW h \in NoHash..MaxEvents
  PROVE  LET o == Resorted(r, Outcome(r, seen, t, h))
         IN o[1] \in NoHash..MaxEvents /\ o[2] \in 0..MaxTime
<1>1. /\ Latest(r) \in NoHash..MaxEvents /\ last_resort_push_times[r] \in 0..MaxTime
      /\ out_hash[r] \in NoHash..MaxEvents /\ out_push_time[r] \in 0..MaxTime
  BY Types DEF Latest
<1>2. ASSUME Ended(seen) PROVE Last(seen) \in Event
  BY <1>2 DEF Ended, Last
<1>3. ASSUME Ended(seen)
      PROVE  /\ Result(Last(seen), Latest(r))[1] \in NoHash..MaxEvents
             /\ Result(Last(seen), Latest(r))[2] \in 0..MaxTime
  <2>1. Last(seen).time \in 0..MaxTime /\ Last(seen).commit \in NoHash..MaxEvents
    BY <1>2, <1>3, EventFields, CountsArePos
  <2> QED BY <1>1, <2>1 DEF Result
<1>4. /\ Outcome(r, seen, t, h)[1] \in NoHash..MaxEvents
      /\ Outcome(r, seen, t, h)[2] \in 0..MaxTime
  BY <1>1, <1>3 DEF Outcome
<1> QED BY <1>1, <1>4 DEF Resorted

-----------------------------------------------------------------------------
(* The types.                                                              *)

\* The members of a redirection are one event that ends nothing.
LEMMA RedirectionFacts ==
  /\ Redirection \in Seq(Event) /\ Redirection # <<>>
  /\ \A k \in DOMAIN Redirection : ~IsPush(Redirection[k]) /\ ~Stops(Redirection[k])
<1> DEFINE e == [kind |-> "other", time |-> 1, commit |-> 0]
<1>1. e \in Event
  BY CountsArePos, BoundsAreNat DEF Event
<1>2. ~IsPush(e) /\ ~Stops(e)
  BY DEF IsPush, Stops
<1> HIDE DEF e
<1>3. Redirection = <<e>>
  BY DEF Redirection, e
<1> QED BY <1>1, <1>2, <1>3

LEMMA InitTyped == Init => Typed
<1> SUFFICES ASSUME Init PROVE Typed
  OBVIOUS
<1>1. /\ created = [r \in Repos |-> 0] /\ pushed = [r \in Repos |-> <<>>]
      /\ events = [r \in Repos |-> <<>>] /\ worker_done = [r \in Repos |-> FALSE]
      /\ out_hash = [r \in Repos |-> NoHash] /\ out_push_time = [r \in Repos |-> 0]
      /\ latest_push_hashes = [r \in Repos |-> NoHash] /\ latest_push_times = [r \in Repos |-> 0]
      /\ last_resort_hashes = [r \in Repos |-> NoHash]
      /\ last_resort_push_times = [r \in Repos |-> 0]
      /\ now = 1 /\ phase = "idle" /\ started = 0 /\ at = 0 /\ page = 1 /\ answered = {} /\ moved = {}
  BY DEF Init
<1>2. 0 \in 0..MaxTime /\ NoHash \in NoHash..MaxEvents /\ 1 \in 1..MaxTime
  BY CountsArePos, BoundsAreNat DEF NoHash
<1>3. TypeOK
  BY <1>1, <1>2 DEF TypeOK
<1>4. \A r \in Repos : Len(pushed[r]) <= MaxEvents
  BY <1>1, BoundsAreNat
<1> QED BY <1>3, <1>4 DEF Typed

LEMMA TypedStep == Typed /\ [Next]_vars => Typed'
<1> SUFFICES ASSUME Typed, [Next]_vars PROVE Typed'
  OBVIOUS
<1> USE DEF github, round, found, resort
<1>t. TypeOK /\ \A r \in Repos : Len(pushed[r]) <= MaxEvents
  BY DEF Typed
<1>u. CASE UNCHANGED vars
  BY <1>t, <1>u DEF Typed, TypeOK, vars
<1>1. CASE Tick
  <2>1. now' \in 1..MaxTime
    BY <1>t, <1>1, CountsArePos DEF Tick, TypeOK
  <2> QED BY <1>t, <1>1, <2>1 DEF Tick, Typed, TypeOK
<1>e. ASSUME NEW kind \in {"repo", "branch", "push", "other"}, NEW commit \in 0..MaxEvents
      PROVE  [kind |-> kind, time |-> now, commit |-> commit] \in Event
  BY <1>t DEF TypeOK, Event
<1>r. ASSUME NEW r \in Repos, NEW e \in Event, events' = [events EXCEPT ![r] = <<e>> \o @]
      PROVE  events' \in [Repos -> Seq(Event)]
  <2>1. <<e>> \o events[r] \in Seq(Event)
    BY <1>t DEF TypeOK
  <2> QED BY <1>t, <1>r, <2>1 DEF TypeOK
<1>z. 0 \in 0..MaxEvents
  BY BoundsAreNat
<1>2. ASSUME NEW r \in Repos, CreateRepo(r) PROVE Typed'
  <2>1. events' \in [Repos -> Seq(Event)]
    <3>1. CASE UNCHANGED events
      BY <1>t, <3>1 DEF TypeOK
    <3>2. ASSUME NEW kind \in {"repo", "branch"},
                 events' = [events EXCEPT ![r] = <<[kind |-> kind, time |-> now, commit |-> 0]>> \o @]
          PROVE  events' \in [Repos -> Seq(Event)]
      BY <1>e, <1>r, <1>z, <3>2
    <3> QED BY <1>2, <3>1, <3>2 DEF CreateRepo, Report
  <2>2. created' \in [Repos -> 0..MaxTime]
    BY <1>t, <1>2, CountsArePos DEF CreateRepo, TypeOK
  <2> QED BY <1>t, <1>2, <2>1, <2>2 DEF CreateRepo, Typed, TypeOK
<1>3. ASSUME NEW r \in Repos, Push(r) PROVE Typed'
  <2>1. Len(pushed[r]) + 1 \in 0..MaxEvents
    BY <1>t, <1>3, BoundsAreNat DEF Push, TypeOK
  <2>2. events' \in [Repos -> Seq(Event)]
    BY <1>t, <1>e, <1>r, <1>3, <2>1 DEF Push, Report, TypeOK
  <2>3. pushed' = [pushed EXCEPT ![r] = Append(pushed[r], now)]
    BY <1>3 DEF Push
  <2>4. Append(pushed[r], now) \in Seq(1..MaxTime) /\ Len(Append(pushed[r], now)) = Len(pushed[r]) + 1
    BY <1>t DEF TypeOK
  <2>5. pushed' \in [Repos -> Seq(1..MaxTime)]
    BY <1>t, <2>3, <2>4 DEF TypeOK
  <2>6. \A s \in Repos : Len(pushed'[s]) <= MaxEvents
    BY <1>t, <2>1, <2>3, <2>4 DEF TypeOK
  <2> QED BY <1>t, <1>3, <2>2, <2>5, <2>6 DEF Push, Typed, TypeOK
<1>4. ASSUME NEW r \in Repos, OtherEvent(r) PROVE Typed'
  <2>1. events' = [events EXCEPT ![r] = <<[kind |-> "other", time |-> now, commit |-> 0]>> \o @]
    BY <1>4 DEF OtherEvent
  <2>2. events' \in [Repos -> Seq(Event)]
    BY <1>e, <1>r, <1>z, <2>1
  <2> QED BY <1>t, <1>4, <2>2 DEF OtherEvent, Typed, TypeOK
<1>m. ASSUME NEW r \in Repos, Move(r) PROVE Typed'
  BY <1>t, <1>m DEF Move, Typed, TypeOK
<1>5. CASE Start
  BY <1>t, <1>5, CountsArePos DEF Start, Typed, TypeOK
<1>6. CASE RetrieveCreationTimes
  <2>1. last_resort_push_times' \in [Repos -> 0..MaxTime]
    BY <1>t, <1>6, CountsArePos DEF RetrieveCreationTimes, TypeOK
  <2> QED BY <1>t, <1>6, <2>1 DEF RetrieveCreationTimes, Typed, TypeOK
<1>7. ASSUME NEW r \in Repos, LatestCommit(r) PROVE Typed'
  <2>1. LatestOf(r) \in NoHash..MaxEvents
    BY <1>t, BoundsAreNat DEF LatestOf, TypeOK, NoHash
  <2>2. last_resort_hashes' \in [Repos -> NoHash..MaxEvents]
    BY <1>t, <1>7, <2>1 DEF LatestCommit, TypeOK
  <2>3. answered' \in SUBSET Repos
    BY <1>t, <1>7 DEF LatestCommit, TypeOK
  <2> QED BY <1>t, <1>7, <2>2, <2>3 DEF LatestCommit, Typed, TypeOK
<1>8. CASE NextLatestBatch
  <2>1. at' \in Nat
    BY <1>t, <1>8, CountsArePos DEF NextLatestBatch, TypeOK
  <2> QED BY <1>t, <1>8, <2>1 DEF NextLatestBatch, Typed, TypeOK
<1>9. ASSUME NEW r \in Repos, EventPage(r) PROVE Typed'
  <2>1. PICK list \in Seq(Event) : Handle(r, list)
    <3>1. PageOf(events[r], page) \in Seq(Event) /\ <<>> \in Seq(Event)
      BY <1>t, PageFacts DEF TypeOK
    <3>2. Redirection \in Seq(Event)
      BY RedirectionFacts
    <3> QED BY <1>9, <3>1, <3>2 DEF EventPage
  <2>2o. PICK t \in 0..MaxTime, h \in NoHash..MaxEvents : \E o :
          /\ o = Resorted(r, Outcome(r, Scanned(list), t, h))
          /\ latest_push_times' = [latest_push_times EXCEPT ![r] = t]
          /\ latest_push_hashes' = [latest_push_hashes EXCEPT ![r] = h]
          /\ out_hash' = [out_hash EXCEPT ![r] = o[1]]
          /\ out_push_time' = [out_push_time EXCEPT ![r] = o[2]]
          /\ worker_done' = [worker_done EXCEPT ![r] = Ended(Scanned(list)) \/ list = <<>>]
    BY <1>t, <2>1, Handled
  <2>2. PICK o :
          /\ o = Resorted(r, Outcome(r, Scanned(list), t, h))
          /\ latest_push_times' = [latest_push_times EXCEPT ![r] = t]
          /\ latest_push_hashes' = [latest_push_hashes EXCEPT ![r] = h]
          /\ out_hash' = [out_hash EXCEPT ![r] = o[1]]
          /\ out_push_time' = [out_push_time EXCEPT ![r] = o[2]]
          /\ worker_done' = [worker_done EXCEPT ![r] = Ended(Scanned(list)) \/ list = <<>>]
    BY <2>2o
  <2>3. o[1] \in NoHash..MaxEvents /\ o[2] \in 0..MaxTime
    BY <1>t, <2>2, OutcomeTypes, ScannedFacts
  <2>4. /\ latest_push_times' \in [Repos -> 0..MaxTime] /\ out_push_time' \in [Repos -> 0..MaxTime]
        /\ latest_push_hashes' \in [Repos -> NoHash..MaxEvents]
        /\ out_hash' \in [Repos -> NoHash..MaxEvents]
    BY <1>t, <2>2, <2>3 DEF TypeOK
  <2>5. worker_done' \in [Repos -> BOOLEAN]
    BY <1>t, <2>2 DEF TypeOK
  <2>6. answered' \in SUBSET Repos
    BY <1>t, <1>9 DEF EventPage, TypeOK
  <2>7. UNCHANGED <<now, created, pushed, events, moved, phase, started, at, page>>
        /\ UNCHANGED <<last_resort_push_times, last_resort_hashes>>
    BY <1>9 DEF EventPage, github, resort
  <2>8. TypeOK'
    BY <1>t, <2>4, <2>5, <2>6, <2>7 DEF TypeOK
  <2> QED BY <1>t, <2>7, <2>8 DEF Typed
<1>10. CASE NextPage
  <2>1. page' \in Nat \ {0} /\ answered' \in SUBSET Repos
    BY <1>t, <1>10 DEF NextPage, TypeOK
  <2> QED BY <1>t, <1>10, <2>1 DEF NextPage, Typed, TypeOK
<1>11. CASE NextPageBatch
  <2>1. at' \in Nat /\ page' \in Nat \ {0}
    BY <1>t, <1>11, CountsArePos DEF NextPageBatch, TypeOK
  <2> QED BY <1>t, <1>11, <2>1 DEF NextPageBatch, Typed, TypeOK
<1> QED BY <1>u, <1>1, <1>2, <1>3, <1>4, <1>m, <1>5, <1>6, <1>7, <1>8, <1>9, <1>10, <1>11
        DEF Next, Student, Program

\* The types, for every value of the constants: commits stay those of the
\* repository, page numbers stay positive, and results never exceed the bounds.
THEOREM TypeCorrect == Spec => []TypeOK
<1>1. Typed => TypeOK
  BY DEF Typed
<1> QED BY InitTyped, TypedStep, <1>1, PTL DEF Spec

-----------------------------------------------------------------------------
(* What GitHub reports.                                                    *)

Reported(r, e) == events' = [events EXCEPT ![r] = <<e>> \o @]

LEMMA Prepended ==
  ASSUME TypeOK, NEW r \in Repos, NEW e \in Event, Reported(r, e)
  PROVE  /\ \A q \in Repos : q # r => events'[q] = events[q]
         /\ \A i \in DOMAIN events'[r] :
              \/ i = 1 /\ events'[r][i] = e
              \/ /\ i > 1 /\ i \in Nat /\ i - 1 \in DOMAIN events[r]
                 /\ events'[r][i] = events[r][i - 1]
         /\ 1 \in DOMAIN events'[r] /\ events'[r][1] = e
         /\ \A i \in DOMAIN events[r] :
              /\ i \in Nat \ {0} /\ i + 1 \in DOMAIN events'[r]
              /\ events'[r][i + 1] = events[r][i]
<1> DEFINE old == events[r]
<1>1. old \in Seq(Event) /\ Len(old) \in Nat /\ DOMAIN old = 1..Len(old)
  BY DEF TypeOK
<1>2. events'[r] = <<e>> \o old /\ \A q \in Repos : q # r => events'[q] = events[q]
  BY DEF Reported, TypeOK
<1> HIDE DEF old
<1>3. /\ <<e>> \o old \in Seq(Event) /\ Len(<<e>> \o old) = Len(old) + 1
      /\ (<<e>> \o old)[1] = e
      /\ \A i \in 1..Len(old) : (<<e>> \o old)[i + 1] = old[i]
  BY <1>1
<1> DEFINE new == <<e>> \o old
<1>4. DOMAIN new = 1..(Len(old) + 1)
  BY <1>3
<1> HIDE DEF new
<1>5. \A i \in 2..(Len(old) + 1) : i - 1 \in 1..Len(old) /\ new[i] = old[i - 1]
  <2>1. TAKE i \in 2..(Len(old) + 1)
  <2>2. i - 1 \in 1..Len(old) /\ (i - 1) + 1 = i
    BY <1>1
  <2>3. new[(i - 1) + 1] = old[i - 1]
    BY <1>3, <2>2 DEF new
  <2> QED BY <2>2, <2>3
<1>6. \A i \in DOMAIN new : i = 1 \/ (i > 1 /\ i \in Nat /\ i \in 2..(Len(old) + 1))
  BY <1>1, <1>4
<1>7. \A i \in 1..Len(old) : i \in Nat \ {0} /\ i + 1 \in DOMAIN new
  BY <1>1, <1>4
<1>8. events'[r] = new /\ 1 \in DOMAIN new
  BY <1>1, <1>2, <1>4 DEF new
<1>9. new[1] = e /\ \A i \in 1..Len(old) : new[i + 1] = old[i]
  BY <1>3 DEF new
<1> QED BY <1>1, <1>2, <1>5, <1>6, <1>7, <1>8, <1>9 DEF old

LEMMA NewEvent ==
  ASSUME TypeOK, NEW kind \in {"repo", "branch", "push", "other"}, NEW commit \in 0..MaxEvents
  PROVE  [kind |-> kind, time |-> now, commit |-> commit] \in Event
BY DEF TypeOK, Event

LEMMA Appended ==
  ASSUME TypeOK, NEW r \in Repos, pushed' = [pushed EXCEPT ![r] = Append(@, now)]
  PROVE  /\ \A q \in Repos : q # r => pushed'[q] = pushed[q]
         /\ Len(pushed[r]) \in Nat
         /\ Len(pushed'[r]) = Len(pushed[r]) + 1
         /\ DOMAIN pushed[r] = 1..Len(pushed[r])
         /\ DOMAIN pushed'[r] = 1..(Len(pushed[r]) + 1)
         /\ \A n \in DOMAIN pushed[r] : pushed'[r][n] = pushed[r][n]
         /\ pushed'[r][Len(pushed[r]) + 1] = now
<1>1. pushed[r] \in Seq(1..MaxTime) /\ now \in 1..MaxTime
  BY DEF TypeOK
<1>2. pushed'[r] = Append(pushed[r], now) /\ \A q \in Repos : q # r => pushed'[q] = pushed[q]
  BY DEF TypeOK
<1> QED BY <1>1, <1>2

LEMMA PushTimes ==
  ASSUME TypeOK, NEW r \in Repos
  PROVE  /\ Len(pushed[r]) \in Nat /\ DOMAIN pushed[r] = 1..Len(pushed[r])
         /\ \A n \in DOMAIN pushed[r] : n \in Nat \ {0} /\ pushed[r][n] \in Nat \ {0}
         /\ \A i \in DOMAIN events[r] : i \in Nat \ {0} /\ events[r][i] \in Event
<1>1. pushed[r] \in Seq(1..MaxTime) /\ events[r] \in Seq(Event)
  BY DEF TypeOK
<1>2. Len(pushed[r]) \in Nat /\ DOMAIN pushed[r] = 1..Len(pushed[r])
  BY <1>1
<1>3. \A n \in 1..Len(pushed[r]) : pushed[r][n] \in 1..MaxTime
  BY <1>1, ElementOfSeq
<1>4. \A n \in 1..MaxTime : n \in Nat \ {0}
  BY CountsArePos
<1> QED BY <1>1, <1>2, <1>3, <1>4

LEMMA InitWorld == Init => World
<1> SUFFICES ASSUME Init PROVE World
  OBVIOUS
<1>1. /\ \A r \in Repos : created[r] = 0 /\ pushed[r] = <<>> /\ events[r] = <<>>
      /\ now = 1 /\ phase = "idle" /\ started = 0
  BY DEF Init
<1>2. \A r \in Repos : DOMAIN pushed[r] = {} /\ DOMAIN events[r] = {}
  BY <1>1
<1> QED BY <1>1, <1>2 DEF World, History, Logged, InOrder, Complete

LEMMA WorldKept ==
  ASSUME TypeOK, World, UNCHANGED <<created, pushed, events>>,
         now' \in Nat, now' >= now, started' <= now',
         (phase' # "idle") => \A r \in Repos : created[r] > 0
  PROVE  World'
<1>1. now \in Nat /\ \A r \in Repos : created[r] \in Nat
  BY Types, CountsArePos
<1>2. \A r \in Repos : \A n \in DOMAIN pushed[r] : pushed[r][n] \in Nat
  BY PushTimes
<1>3. History'
  BY <1>1, <1>2 DEF World, History
<1> QED BY <1>3 DEF World, Logged, InOrder, Complete

LEMMA WorldCreate ==
  ASSUME TypeOK, World, NEW r \in Repos, CreateRepo(r)
  PROVE  World'
<1>1. /\ phase = "idle" /\ created[r] = 0 /\ pushed[r] = <<>> /\ events[r] = <<>>
      /\ UNCHANGED <<now, pushed, phase, started>>
  BY DEF CreateRepo, World, History
<1>2. created'[r] = now /\ \A q \in Repos : q # r => created'[q] = created[q]
  BY DEF CreateRepo, TypeOK
<1>3. now \in Nat \ {0} /\ DOMAIN pushed[r] = {} /\ DOMAIN events[r] = {}
  BY <1>1 DEF TypeOK
<1>4. History'
  <2>1. started' <= now' /\ phase' = "idle"
    BY <1>1 DEF World, History
  <2>2. ASSUME NEW q \in Repos
        PROVE  /\ created'[q] <= now'
               /\ created'[q] = 0 => pushed'[q] = <<>> /\ events'[q] = <<>>
               /\ \A n \in DOMAIN pushed'[q] : created'[q] <= pushed'[q][n] /\ pushed'[q][n] <= now'
               /\ \A m, n \in DOMAIN pushed'[q] : m <= n => pushed'[q][m] <= pushed'[q][n]
    <3>1. CASE q = r
      BY <1>1, <1>2, <1>3, <3>1
    <3>2. CASE q # r
      <4>1. events'[q] = events[q]
        BY <3>2 DEF CreateRepo, Report, TypeOK
      <4> QED BY <1>1, <1>2, <3>2, <4>1 DEF World, History
    <3> QED BY <3>1, <3>2
  <2> QED BY <2>1, <2>2 DEF History
<1>5. CASE UNCHANGED events /\ MayMiss
  <2>1. ASSUME NEW q \in Repos, NEW i \in DOMAIN events[q] PROVE created'[q] = created[q]
    BY <1>2, <1>3, <2>1
  <2> QED BY <1>1, <1>4, <1>5, <2>1 DEF World, Logged, InOrder, Complete
<1>6. ASSUME NEW e \in Event, Reported(r, e), e.kind \in {"repo", "branch"}, e.time = now
      PROVE  World'
  <2>1. ~IsPush(e)
    BY <1>6 DEF IsPush
  <2>2. /\ \A q \in Repos : q # r => events'[q] = events[q]
        /\ \A i \in DOMAIN events'[r] : i = 1 /\ events'[r][i] = e
    BY <1>3, <1>6, Prepended
  <2>3. Logged'
    <3> SUFFICES ASSUME NEW q \in Repos, NEW i \in DOMAIN events'[q]
        PROVE  /\ IsPush(events'[q][i]) => /\ events'[q][i].commit \in DOMAIN pushed'[q]
                                          /\ events'[q][i].time = pushed'[q][events'[q][i].commit]
               /\ IsCreation(events'[q][i]) => events'[q][i].time = created'[q]
      BY DEF Logged
    <3>1. CASE q = r
      BY <1>2, <1>6, <2>1, <2>2, <3>1
    <3>2. CASE q # r
      BY <1>1, <1>2, <2>2, <3>2 DEF World, Logged
    <3> QED BY <3>1, <3>2
  <2>4. InOrder'
    <3> SUFFICES ASSUME NEW q \in Repos, NEW i \in DOMAIN events'[q], NEW j \in DOMAIN events'[q],
                        i < j, IsPush(events'[q][j])
        PROVE  /\ ~IsCreation(events'[q][i])
               /\ IsPush(events'[q][i]) => events'[q][i].commit > events'[q][j].commit
      BY DEF InOrder
    <3>1. q # r
      BY <2>1, <2>2
    <3> QED BY <2>2, <3>1 DEF World, InOrder
  <2>5. Complete'
    <3> SUFFICES ASSUME ~MayMiss, NEW q \in Repos, NEW n \in DOMAIN pushed[q]
        PROVE  \E i \in DOMAIN events'[q] : IsPush(events'[q][i]) /\ events'[q][i].commit = n
      BY <1>1 DEF Complete
    <3>1. q # r
      BY <1>3
    <3> QED BY <2>2, <3>1 DEF World, Complete
  <2> QED BY <1>4, <2>3, <2>4, <2>5 DEF World
<1>7. \/ MayMiss /\ UNCHANGED events
      \/ \E kind \in {"repo", "branch"} : Reported(r, [kind |-> kind, time |-> now, commit |-> 0])
  BY DEF CreateRepo, Report, Reported
<1>8. ASSUME NEW kind \in {"repo", "branch"}
      PROVE  [kind |-> kind, time |-> now, commit |-> 0] \in Event
  BY NewEvent, BoundsAreNat
<1> QED BY <1>5, <1>6, <1>7, <1>8

LEMMA WorldPush ==
  ASSUME TypeOK, World, NEW r \in Repos, Push(r)
  PROVE  World'
<1> DEFINE n0 == Len(pushed[r]) + 1
           e0 == [kind |-> "push", time |-> now, commit |-> n0]
<1>1. /\ created[r] > 0 /\ Len(pushed[r]) < MaxEvents
      /\ UNCHANGED <<now, created, phase, started>>
      /\ pushed' = [pushed EXCEPT ![r] = Append(@, now)]
  BY DEF Push
<1>2. /\ \A q \in Repos : q # r => pushed'[q] = pushed[q]
      /\ n0 \in Nat \ {0} /\ \A n \in DOMAIN pushed[r] : n \in Nat /\ n < n0
      /\ DOMAIN pushed'[r] = (DOMAIN pushed[r]) \cup {n0}
      /\ \A n \in DOMAIN pushed[r] : pushed'[r][n] = pushed[r][n]
      /\ pushed'[r][n0] = now
  <2>1. PICK len \in Nat :
          /\ len = Len(pushed[r]) /\ DOMAIN pushed[r] = 1..len /\ DOMAIN pushed'[r] = 1..(len + 1)
          /\ \A q \in Repos : q # r => pushed'[q] = pushed[q]
          /\ \A n \in DOMAIN pushed[r] : pushed'[r][n] = pushed[r][n]
          /\ pushed'[r][len + 1] = now
    BY <1>1, Appended
  <2>2. 1..(len + 1) = (1..len) \cup {len + 1}
    OBVIOUS
  <2>3. n0 = len + 1
    BY <2>1
  <2>4. n0 \in Nat \ {0} /\ \A n \in 1..len : n \in Nat /\ n < n0
    BY <2>3
  <2> QED BY <2>1, <2>2, <2>3, <2>4
<1>3. now \in Nat \ {0} /\ \A q \in Repos : created[q] \in Nat
  BY Types, CountsArePos DEF TypeOK
<1>4. n0 \in 0..MaxEvents /\ e0 \in Event
  <2>1. n0 \in 0..MaxEvents
    BY <1>1, <1>2, BoundsAreNat, PushTimes
  <2> QED BY <2>1, NewEvent
<1>5. e0.kind = "push" /\ e0.time = now /\ e0.commit = n0
  OBVIOUS
<1> HIDE DEF n0, e0
<1>6. History'
  <2>1. started' <= now' /\ (phase' # "idle" => \A q \in Repos : created'[q] > 0)
    BY <1>1 DEF World, History
  <2>2. ASSUME NEW q \in Repos
        PROVE  /\ created'[q] <= now'
               /\ created'[q] = 0 => pushed'[q] = <<>> /\ events'[q] = <<>>
               /\ \A n \in DOMAIN pushed'[q] : created'[q] <= pushed'[q][n] /\ pushed'[q][n] <= now'
               /\ \A m, n \in DOMAIN pushed'[q] : m <= n => pushed'[q][m] <= pushed'[q][n]
    <3>1. CASE q = r
      <4>1. created'[r] <= now' /\ created'[r] # 0
        BY <1>1, <1>3 DEF World, History
      <4>2. \A n \in DOMAIN pushed'[r] : created'[r] <= pushed'[r][n] /\ pushed'[r][n] <= now'
        BY <1>1, <1>2, <1>3 DEF World, History
      <4>3. ASSUME NEW m \in DOMAIN pushed'[r], NEW n \in DOMAIN pushed'[r], m <= n
            PROVE  pushed'[r][m] <= pushed'[r][n]
        <5>1. CASE n = n0
          BY <1>1, <1>2, <4>2, <5>1
        <5>2. CASE n # n0
          BY <1>2, <4>3, <5>2 DEF World, History
        <5> QED BY <5>1, <5>2
      <4> QED BY <3>1, <4>1, <4>2, <4>3
    <3>2. CASE q # r
      <4>1. events'[q] = events[q]
        BY <3>2 DEF Push, Report, TypeOK
      <4> QED BY <1>1, <1>2, <3>2, <4>1 DEF World, History
    <3> QED BY <3>1, <3>2
  <2> QED BY <2>1, <2>2 DEF History
<1>7. CASE UNCHANGED events /\ MayMiss
  <2>1. Logged'
    <3> SUFFICES ASSUME NEW q \in Repos, NEW i \in DOMAIN events[q]
        PROVE  /\ IsPush(events[q][i]) => /\ events[q][i].commit \in DOMAIN pushed'[q]
                                         /\ events[q][i].time = pushed'[q][events[q][i].commit]
               /\ IsCreation(events[q][i]) => events[q][i].time = created[q]
      BY <1>1, <1>7 DEF Logged
    <3> QED BY <1>2 DEF World, Logged
  <2> QED BY <1>6, <1>7, <2>1 DEF World, InOrder, Complete
<1>8. CASE Reported(r, e0)
  <2>1. /\ \A q \in Repos : q # r => events'[q] = events[q]
        /\ \A i \in DOMAIN events'[r] :
             \/ i = 1 /\ events'[r][i] = e0
             \/ /\ i > 1 /\ i \in Nat /\ i - 1 \in DOMAIN events[r]
                /\ events'[r][i] = events[r][i - 1]
        /\ 1 \in DOMAIN events'[r] /\ events'[r][1] = e0
        /\ \A i \in DOMAIN events[r] : /\ i \in Nat \ {0} /\ i + 1 \in DOMAIN events'[r]
                                       /\ events'[r][i + 1] = events[r][i]
    BY <1>4, <1>8, Prepended
  <2>2. Logged'
    <3> SUFFICES ASSUME NEW q \in Repos, NEW i \in DOMAIN events'[q]
        PROVE  /\ IsPush(events'[q][i]) => /\ events'[q][i].commit \in DOMAIN pushed'[q]
                                          /\ events'[q][i].time = pushed'[q][events'[q][i].commit]
               /\ IsCreation(events'[q][i]) => events'[q][i].time = created'[q]
      BY DEF Logged
    <3>1. CASE q = r /\ i = 1
      BY <1>2, <1>5, <2>1, <3>1 DEF IsCreation
    <3>2. CASE q = r /\ i # 1
      <4>1. i - 1 \in DOMAIN events[r] /\ events'[r][i] = events[r][i - 1]
        BY <2>1, <3>2
      <4> QED BY <1>1, <1>2, <3>2, <4>1 DEF World, Logged
    <3>3. CASE q # r
      BY <1>1, <1>2, <2>1, <3>3 DEF World, Logged
    <3> QED BY <3>1, <3>2, <3>3
  <2>3. InOrder'
    <3> SUFFICES ASSUME NEW q \in Repos, NEW i \in DOMAIN events'[q], NEW j \in DOMAIN events'[q],
                        i < j, IsPush(events'[q][j])
        PROVE  /\ ~IsCreation(events'[q][i])
               /\ IsPush(events'[q][i]) => events'[q][i].commit > events'[q][j].commit
      BY DEF InOrder
    <3>1. CASE q # r
      BY <2>1, <3>1 DEF World, InOrder
    <3>2. CASE q = r
      <4>1. j - 1 \in DOMAIN events[r] /\ events'[r][j] = events[r][j - 1] /\ j \in Nat
        BY <2>1, <3>2
      <4>2. CASE i = 1
        <5>1. events'[r][j].commit \in DOMAIN pushed[r]
          BY <3>2, <4>1 DEF World, Logged
        <5> QED BY <1>2, <1>5, <2>1, <3>2, <4>2, <5>1 DEF IsCreation
      <4>3. CASE i # 1
        <5>1. i - 1 \in DOMAIN events[r] /\ events'[r][i] = events[r][i - 1] /\ i \in Nat
          BY <2>1, <3>2, <4>3
        <5>2. i - 1 < j - 1
          BY <4>1, <5>1
        <5> QED BY <3>2, <4>1, <5>1, <5>2 DEF World, InOrder
      <4> QED BY <4>2, <4>3
    <3> QED BY <3>1, <3>2
  <2>4. Complete'
    <3> SUFFICES ASSUME ~MayMiss, NEW q \in Repos, NEW n \in DOMAIN pushed'[q]
        PROVE  \E i \in DOMAIN events'[q] : IsPush(events'[q][i]) /\ events'[q][i].commit = n
      BY DEF Complete
    <3>1. CASE q # r
      BY <1>2, <2>1, <3>1 DEF World, Complete
    <3>2. CASE q = r /\ n = n0
      BY <1>5, <2>1, <3>2 DEF IsPush
    <3>3. CASE q = r /\ n # n0
      <4>1. PICK i \in DOMAIN events[r] : IsPush(events[r][i]) /\ events[r][i].commit = n
        BY <1>2, <3>3 DEF World, Complete
      <4> QED BY <2>1, <3>3, <4>1
    <3> QED BY <3>1, <3>2, <3>3
  <2> QED BY <1>6, <2>2, <2>3, <2>4 DEF World
<1> QED BY <1>7, <1>8 DEF Push, Report, Reported, e0, n0

LEMMA WorldOther ==
  ASSUME TypeOK, World, NEW r \in Repos, OtherEvent(r)
  PROVE  World'
<1> DEFINE e0 == [kind |-> "other", time |-> now, commit |-> 0]
<1>1. /\ created[r] > 0 /\ UNCHANGED <<now, created, pushed, phase, started>>
      /\ Reported(r, e0)
  BY DEF OtherEvent, Reported
<1>2. e0 \in Event /\ ~IsPush(e0) /\ ~IsCreation(e0)
  BY NewEvent, BoundsAreNat DEF IsPush, IsCreation
<1> HIDE DEF e0
<1>3. /\ \A q \in Repos : q # r => events'[q] = events[q]
      /\ \A i \in DOMAIN events'[r] :
           \/ i = 1 /\ events'[r][i] = e0
           \/ /\ i > 1 /\ i \in Nat /\ i - 1 \in DOMAIN events[r]
              /\ events'[r][i] = events[r][i - 1]
      /\ \A i \in DOMAIN events[r] : /\ i \in Nat \ {0} /\ i + 1 \in DOMAIN events'[r]
                                     /\ events'[r][i + 1] = events[r][i]
  BY <1>1, <1>2, Prepended
<1>4. History'
  <2>1. created[r] # 0
    BY <1>1, Types, CountsArePos
  <2> QED BY <1>1, <1>3, <2>1 DEF World, History
<1>5. Logged'
  <2> SUFFICES ASSUME NEW q \in Repos, NEW i \in DOMAIN events'[q]
      PROVE  /\ IsPush(events'[q][i]) => /\ events'[q][i].commit \in DOMAIN pushed[q]
                                        /\ events'[q][i].time = pushed[q][events'[q][i].commit]
             /\ IsCreation(events'[q][i]) => events'[q][i].time = created[q]
    BY <1>1 DEF Logged
  <2>1. CASE q # r
    BY <1>3, <2>1 DEF World, Logged
  <2>2. CASE q = r
    BY <1>2, <1>3, <2>2 DEF World, Logged
  <2> QED BY <2>1, <2>2
<1>6. InOrder'
  <2> SUFFICES ASSUME NEW q \in Repos, NEW i \in DOMAIN events'[q], NEW j \in DOMAIN events'[q],
                      i < j, IsPush(events'[q][j])
      PROVE  /\ ~IsCreation(events'[q][i])
             /\ IsPush(events'[q][i]) => events'[q][i].commit > events'[q][j].commit
    BY DEF InOrder
  <2>1. CASE q # r
    BY <1>3, <2>1 DEF World, InOrder
  <2>2. CASE q = r
    <3>1. j - 1 \in DOMAIN events[r] /\ events'[r][j] = events[r][j - 1] /\ j \in Nat
      BY <1>2, <1>3, <2>2
    <3>2. CASE i = 1
      BY <1>2, <1>3, <2>2, <3>2
    <3>3. CASE i # 1
      <4>1. i - 1 \in DOMAIN events[r] /\ events'[r][i] = events[r][i - 1] /\ i \in Nat
        BY <1>3, <2>2, <3>3
      <4>2. i - 1 < j - 1
        BY <3>1, <4>1
      <4> QED BY <2>2, <3>1, <4>1, <4>2 DEF World, InOrder
    <3> QED BY <3>2, <3>3
  <2> QED BY <2>1, <2>2
<1>7. Complete'
  <2> SUFFICES ASSUME ~MayMiss, NEW q \in Repos, NEW n \in DOMAIN pushed[q]
      PROVE  \E i \in DOMAIN events'[q] : IsPush(events'[q][i]) /\ events'[q][i].commit = n
    BY <1>1 DEF Complete
  <2>1. PICK i \in DOMAIN events[q] : IsPush(events[q][i]) /\ events[q][i].commit = n
    BY DEF World, Complete
  <2> QED BY <1>3, <2>1
<1> QED BY <1>4, <1>5, <1>6, <1>7 DEF World

LEMMA WorldStep == Typed /\ World /\ [Next]_vars => World'
<1> SUFFICES ASSUME Typed, World, [Next]_vars PROVE World'
  OBVIOUS
<1>1. TypeOK /\ now \in Nat /\ started \in Nat
  BY Types DEF Typed
<1>2. CASE UNCHANGED github /\ UNCHANGED started /\ phase # "idle"
  BY <1>1, <1>2, WorldKept DEF github, World, History
<1>3. CASE UNCHANGED vars
  BY <1>1, <1>3, WorldKept DEF github, vars, World, History
<1>4. CASE Tick
  BY <1>1, <1>4, WorldKept DEF Tick, World, History
<1>5. CASE Start
  BY <1>1, <1>5, WorldKept DEF Start, github, World, History
<1>7. ASSUME NEW r \in Repos, Move(r) PROVE World'
  BY <1>1, <1>7, WorldKept DEF Move, World, History
<1>6. CASE Program
  BY <1>2, <1>6 DEF Program, RetrieveCreationTimes, LatestCommit, EventPage, NextLatestBatch,
                    NextPage, NextPageBatch
<1> QED BY <1>1, <1>3, <1>4, <1>5, <1>6, <1>7, WorldCreate, WorldPush, WorldOther DEF Next, Student

-----------------------------------------------------------------------------
(* The last resort and the batches.                                        *)

LEMMA InitRest == Init => Resorts /\ Known /\ Batches /\ Dated /\ Searched
<1> SUFFICES ASSUME Init PROVE Resorts /\ Known /\ Batches /\ Dated /\ Searched
  OBVIOUS
<1>1. /\ \A r \in Repos : /\ created[r] = 0 /\ pushed[r] = <<>> /\ events[r] = <<>>
                          /\ worker_done[r] = FALSE
                          /\ out_hash[r] = NoHash /\ out_push_time[r] = 0
                          /\ latest_push_times[r] = 0
                          /\ Latest(r) = NoHash /\ last_resort_push_times[r] = 0
      /\ phase = "idle" /\ started = 0 /\ at = 0 /\ page = 1 /\ answered = {}
  BY DEF Init, Latest
<1>2. \A r \in Repos : DOMAIN events[r] = {}
  BY <1>1
<1>3. Resorts /\ Known /\ Batches
  BY <1>1 DEF Resorts, Known, Batches
<1>4. Dated
  BY <1>1, BoundsAreNat DEF Dated
<1>5. Searched
  BY <1>1, <1>2 DEF Searched, Searching
<1> QED BY <1>3, <1>4, <1>5

LEMMA BatchFacts ==
  ASSUME TypeOK
  PROVE  /\ \A r \in Repos : r <= at + MaxWorker => r <= at \/ r \in Batch
         /\ at + MaxWorker \in Nat
         /\ at + MaxWorker >= RepoCount => \A r \in Repos : r <= at \/ r \in Batch
         /\ \A r \in Repos : r \in Nat \ {0} /\ (r \in Batch => r > at)
<1>1. MaxWorker \in Nat /\ RepoCount \in Nat /\ at \in Nat
  BY CountsArePos DEF TypeOK
<1> QED BY <1>1 DEF Batch, Repos

LEMMA ResortsStep == Typed /\ World /\ Resorts /\ Batches /\ [Next]_vars => Resorts'
<1> SUFFICES ASSUME Typed, World, Resorts, Batches, [Next]_vars PROVE Resorts'
  OBVIOUS
<1>t. TypeOK
  BY DEF Typed
<1>1. CASE UNCHANGED <<created, pushed, started, last_resort_push_times, last_resort_hashes>>
  BY <1>1 DEF Resorts, Latest
<1>2. ASSUME NEW r \in Repos, CreateRepo(r) PROVE Resorts'
  <2>1. \A q \in Repos : last_resort_push_times[q] = 0 /\ Latest(q) = NoHash
    BY <1>2 DEF CreateRepo, Batches
  <2>2. UNCHANGED <<last_resort_push_times, last_resort_hashes>>
    BY <1>2 DEF CreateRepo, resort
  <2> QED BY <2>1, <2>2 DEF Resorts, Latest
<1>3. ASSUME NEW r \in Repos, Push(r) PROVE Resorts'
  <2>1. /\ UNCHANGED <<created, now, started, last_resort_push_times, last_resort_hashes>>
        /\ pushed' = [pushed EXCEPT ![r] = Append(@, now)]
    BY <1>3 DEF Push, resort
  <2>2. started <= now /\ started \in Nat /\ now \in Nat
    BY <1>t, Types DEF World, History
  <2>3. ASSUME NEW q \in Repos, Latest(q) # NoHash
        PROVE  /\ Latest(q) \in 0..Len(pushed'[q])
               /\ \A n \in DOMAIN pushed'[q] : pushed'[q][n] < started => n <= Latest(q)
    <3>1. CASE q # r
      BY <1>t, <2>1, <2>3, <3>1, Appended DEF Resorts
    <3>2. CASE q = r
      <4>1. /\ Latest(r) \in 0..Len(pushed[r]) /\ Len(pushed[r]) \in Nat
            /\ Len(pushed'[r]) = Len(pushed[r]) + 1
        BY <1>t, <2>1, <2>3, <3>2, Appended DEF Resorts
      <4>2. ASSUME NEW n \in DOMAIN pushed'[r], pushed'[r][n] < started
            PROVE  n <= Latest(r)
        <5>1. n # Len(pushed[r]) + 1
          <6>1. pushed'[r][Len(pushed[r]) + 1] = now
            BY <1>t, <2>1, Appended
          <6>2. SUFFICES ASSUME n = Len(pushed[r]) + 1 PROVE FALSE
            OBVIOUS
          <6>3. now < started
            BY <4>2, <6>1, <6>2
          <6> QED BY <2>2, <6>3
        <5>2. n \in DOMAIN pushed[r] /\ pushed'[r][n] = pushed[r][n]
          BY <1>t, <2>1, <5>1, Appended
        <5> QED BY <2>3, <3>2, <4>2, <5>2 DEF Resorts
      <4> QED BY <3>2, <4>1, <4>2
    <3> QED BY <3>1, <3>2
  <2> QED BY <2>1, <2>3 DEF Resorts, Latest
<1>4. CASE Start
  <2>1. \A q \in Repos : last_resort_push_times[q] = 0 /\ Latest(q) = NoHash
    BY <1>4 DEF Start, Batches
  <2>2. UNCHANGED <<last_resort_push_times, last_resort_hashes>>
    BY <1>4 DEF Start, resort
  <2> QED BY <2>1, <2>2 DEF Resorts, Latest
<1>5. CASE RetrieveCreationTimes
  <2>1. UNCHANGED <<created, pushed, started, last_resort_hashes>>
    BY <1>5 DEF RetrieveCreationTimes, github
  <2>2. \A r \in Repos : last_resort_push_times'[r] \in {0, created[r]}
    BY <1>5 DEF RetrieveCreationTimes
  <2> QED BY <2>1, <2>2 DEF Resorts, Latest
<1>6. ASSUME NEW r \in Repos, LatestCommit(r) PROVE Resorts'
  <2>1. UNCHANGED <<created, pushed, started, last_resort_push_times>>
    BY <1>6 DEF LatestCommit, github
  <2>2. \A q \in Repos : Latest(q)' = Latest(q) \/ (q = r /\ Latest(q)' = Len(pushed[r]))
    BY <1>t, <1>6 DEF LatestCommit, Latest, LatestOf, TypeOK
  <2>3. Len(pushed[r]) \in 0..Len(pushed[r]) /\ \A n \in DOMAIN pushed[r] : n <= Len(pushed[r])
    BY <1>t, PushTimes
  <2>4. ASSUME NEW q \in Repos, Latest(q)' # NoHash
        PROVE  /\ Latest(q)' \in 0..Len(pushed[q])
               /\ \A n \in DOMAIN pushed[q] : pushed[q][n] < started => n <= Latest(q)'
    BY <2>2, <2>3, <2>4 DEF Resorts
  <2> QED BY <2>1, <2>4 DEF Resorts
<1>7. CASE UNCHANGED vars
  BY <1>1, <1>7 DEF vars, github, resort
<1>8. CASE Tick \/ \E r \in Repos : OtherEvent(r) \/ Move(r)
  BY <1>1, <1>8 DEF Tick, OtherEvent, Move, resort
<1>9. CASE NextLatestBatch \/ NextPage \/ NextPageBatch \/ \E r \in Repos : EventPage(r)
  BY <1>1, <1>9 DEF NextLatestBatch, NextPage, NextPageBatch, EventPage, github, resort
<1> QED BY <1>2, <1>3, <1>4, <1>5, <1>6, <1>7, <1>8, <1>9 DEF Next, Student, Program

LEMMA KnownStep == Typed /\ Known /\ Batches /\ [Next]_vars => Known'
<1> SUFFICES ASSUME Typed, Known, Batches, [Next]_vars, "latest" \notin Faults,
                    NEW r \in Repos \ moved',
                    \/ phase' \in {"pages", "done"}
                    \/ phase' = "latest" /\ (r <= at' \/ r \in answered')
             PROVE  Latest(r)' # NoHash
  BY DEF Known
<1>t. TypeOK
  BY DEF Typed
<1>m. r \in Repos \ moved
  BY DEF Next, Student, Program, Tick, CreateRepo, Push, OtherEvent, Move, Start,
         RetrieveCreationTimes, LatestCommit, NextLatestBatch, EventPage, NextPage,
         NextPageBatch, github, vars
<1>k. \/ phase \in {"pages", "done"}
      \/ phase = "latest" /\ (r <= at \/ r \in answered)
      => Latest(r) # NoHash
  BY <1>m DEF Known
<1>1. CASE UNCHANGED <<phase, at, answered, last_resort_hashes>>
  BY <1>1, <1>k DEF Latest
<1>2. CASE Start
  BY <1>2 DEF Start
<1>3. CASE RetrieveCreationTimes
  BY <1>3, <1>t, BatchFacts DEF RetrieveCreationTimes, round, Batches
<1>4. ASSUME NEW q \in Repos, LatestCommit(q) PROVE Latest(r)' # NoHash
  <2>1. q \notin moved => Latest(q)' # NoHash
    BY <1>t, <1>4, PushTimes DEF LatestCommit, Latest, LatestOf, TypeOK, NoHash
  <2>2. CASE r # q
    BY <1>t, <1>4, <1>k, <2>2 DEF LatestCommit, Latest, TypeOK
  <2> QED BY <1>m, <2>1, <2>2
<1>5. CASE NextLatestBatch
  <2>1. at + MaxWorker < RepoCount \/ at + MaxWorker >= RepoCount
    BY <1>t, BatchFacts, CountsArePos
  <2>2. r <= at \/ r \in answered
    BY <1>t, <1>5, <2>1, BatchFacts DEF NextLatestBatch
  <2> QED BY <1>5, <1>k, <2>2 DEF NextLatestBatch, resort, Latest
<1>6. CASE NextPage \/ NextPageBatch \/ \E q \in Repos : EventPage(q)
  BY <1>6, <1>k DEF NextPage, NextPageBatch, EventPage, resort, Latest
<1>7. CASE Student \/ UNCHANGED vars
  BY <1>1, <1>7 DEF Student, Tick, CreateRepo, Push, OtherEvent, Move, vars, round, resort
<1> QED BY <1>2, <1>3, <1>4, <1>5, <1>6, <1>7 DEF Next, Program

LEMMA BatchesStep == Typed /\ Batches /\ [Next]_vars => Batches'
<1> SUFFICES ASSUME Typed, Batches, [Next]_vars PROVE Batches'
  OBVIOUS
<1>t. TypeOK
  BY DEF Typed
<1>1. CASE Student \/ UNCHANGED vars
  <2>1. UNCHANGED <<phase, round, found, resort>>
    BY <1>1 DEF Student, Tick, CreateRepo, Push, OtherEvent, Move, vars
  <2> QED BY <2>1 DEF Batches, Batch, Latest, round, found, resort
<1>2. CASE Start
  BY <1>2 DEF Start, Batches, Batch, Latest, round, found, resort
<1>3. CASE RetrieveCreationTimes
  BY <1>3 DEF RetrieveCreationTimes, Batches, Batch, Latest, round, found
<1>4. ASSUME NEW r \in Repos, LatestCommit(r) PROVE Batches'
  BY <1>4 DEF LatestCommit, Batches, Batch, found
<1>5. CASE NextLatestBatch
  <2>1. ~(\E r \in Repos : r <= 0)
    BY <1>t, BatchFacts
  <2> QED BY <1>5, <2>1 DEF NextLatestBatch, Batches, Batch, found
<1>6. ASSUME NEW r \in Repos, EventPage(r) PROVE Batches'
  <2>1. /\ phase = "pages" /\ phase' = "pages" /\ at' = at
        /\ r \in Batch /\ answered' = answered \cup {r}
    BY <1>6 DEF EventPage
  <2>2. answered' \subseteq Batch'
    BY <2>1 DEF Batches, Batch
  <2>3. r > at /\ r \in Nat /\ at \in Nat
    BY <1>t, <2>1, BatchFacts DEF TypeOK
  <2>4. \A q \in Repos : q # r => worker_done'[q] = worker_done[q]
    BY <1>t, <1>6 DEF EventPage, Handle, TypeOK
  <2>5. \A q \in Repos : q <= at' => worker_done'[q]
    <3> SUFFICES ASSUME NEW q \in Repos, q <= at PROVE worker_done'[q]
      BY <2>1
    <3>1. q # r
      BY <2>3
    <3> QED BY <2>1, <2>4, <3>1 DEF Batches
  <2> QED BY <2>1, <2>2, <2>5 DEF Batches
<1>7. CASE NextPage
  BY <1>7 DEF NextPage, Batches, Batch
<1>8. CASE NextPageBatch
  <2>1. UNCHANGED worker_done /\ answered' = {}
    BY <1>8 DEF NextPageBatch
  <2>2. at + MaxWorker < RepoCount \/ at + MaxWorker >= RepoCount
    BY <1>t, BatchFacts, CountsArePos
  <2>3. CASE at + MaxWorker < RepoCount
    <3>1. \A r \in Repos : r <= at' => worker_done[r]
      BY <1>t, <1>8, <2>3, BatchFacts DEF NextPageBatch, Batches
    <3>2. phase' = "pages"
      BY <1>8, <2>3 DEF NextPageBatch
    <3> QED BY <2>1, <3>1, <3>2 DEF Batches
  <2>4. CASE at + MaxWorker >= RepoCount
    <3>1. \A r \in Repos : worker_done[r]
      BY <1>t, <1>8, <2>4, BatchFacts DEF NextPageBatch, Batches
    <3>2. phase' = "done"
      <4>1. ~(at + MaxWorker < RepoCount)
        BY <1>t, <2>4, BatchFacts, CountsArePos
      <4> QED BY <1>8, <4>1 DEF NextPageBatch
    <3> QED BY <2>1, <3>1, <3>2 DEF Batches
  <2> QED BY <2>2, <2>3, <2>4
<1> QED BY <1>1, <1>2, <1>3, <1>4, <1>5, <1>6, <1>7, <1>8 DEF Next, Program

-----------------------------------------------------------------------------
(* One response.                                                           *)

\* The events looked at in a response: those after the first s ones, up to the
\* one that ends the search or to the end of the page. Of a redirection, none that
\* means anything.
Looked(r, s, seen, empty) ==
  /\ s = (page - 1) * PageSize /\ page * PageSize = s + PageSize
  /\ \A k \in DOMAIN seen : r \notin moved \/ IsPush(seen[k]) =>
       s + k \in DOMAIN events[r] /\ k <= PageSize /\ seen[k] = events[r][s + k]
  /\ Ended(seen) => r \notin moved
  /\ \A k \in DOMAIN seen : k < Len(seen) => ~Stops(seen[k])
  /\ ~Ended(seen) => \A k \in DOMAIN seen : ~Stops(seen[k])
  /\ ~Ended(seen) /\ ~empty /\ r \notin moved =>
       \A i \in DOMAIN events[r] : s < i /\ i <= s + PageSize => i - s \in DOMAIN seen
  /\ empty => seen = <<>> /\ ("page" \in Faults \/ Len(events[r]) <= s)

LEMMA Response ==
  ASSUME TypeOK, NEW r \in Repos, EventPage(r)
  PROVE  \E s \in Nat, seen \in Seq(Event), empty \in BOOLEAN,
            t \in 0..MaxTime, h \in NoHash..MaxEvents : \E o :
           /\ Looked(r, s, seen, empty)
           /\ Newest(r, seen, t, h)
           /\ o = Resorted(r, Outcome(r, seen, t, h))
           /\ latest_push_times' = [latest_push_times EXCEPT ![r] = t]
           /\ latest_push_hashes' = [latest_push_hashes EXCEPT ![r] = h]
           /\ out_hash' = [out_hash EXCEPT ![r] = o[1]]
           /\ out_push_time' = [out_push_time EXCEPT ![r] = o[2]]
           /\ worker_done' = [worker_done EXCEPT ![r] = Ended(seen) \/ empty]
<1> DEFINE page_list == PageOf(events[r], page)
<1>1. PICK s \in Nat : s = (page - 1) * PageSize /\ page * PageSize = s + PageSize
  BY PageStart DEF TypeOK
<1>2. events[r] \in Seq(Event) /\ page \in Nat \ {0} /\ PageSize \in Nat \ {0}
  BY CountsArePos DEF TypeOK
<1>3. /\ page_list \in Seq(Event)
      /\ \A k \in DOMAIN page_list : s + k \in DOMAIN events[r] /\ s + k <= s + PageSize
                                     /\ page_list[k] = events[r][s + k]
      /\ \A i \in DOMAIN events[r] : s < i /\ i <= s + PageSize => i - s \in DOMAIN page_list
      /\ page_list = <<>> => Len(events[r]) <= s
  BY <1>1, <1>2, PageFacts
<1> HIDE DEF page_list
<1>4. ASSUME NEW list \in Seq(Event), Handle(r, list),
             (r \notin moved /\ list = page_list) \/ ("page" \in Faults /\ list = <<>>)
      PROVE  Looked(r, s, Scanned(list), list = <<>>)
  <2> DEFINE seen == Scanned(list)
  <2>1. /\ seen \in Seq(Event) /\ Len(seen) <= Len(list)
        /\ \A k \in DOMAIN seen : seen[k] = list[k]
        /\ \A k \in DOMAIN seen : k < Len(seen) => ~Stops(seen[k])
        /\ ~Ended(seen) => seen = list /\ \A k \in DOMAIN seen : ~Stops(seen[k])
    BY ScannedFacts
  <2> HIDE DEF seen
  <2>2. DOMAIN seen \subseteq DOMAIN list /\ (list = <<>> => seen = <<>>)
    BY <2>1
  <2>3. \A k \in DOMAIN seen : s + k \in DOMAIN events[r] /\ s + k <= s + PageSize
                               /\ seen[k] = events[r][s + k]
    BY <1>3, <1>4, <2>1, <2>2
  <2>4. \A k \in DOMAIN seen : k \in Nat /\ (s + k <= s + PageSize => k <= PageSize)
    BY <1>2, <2>1
  <2>5. list # <<>> => list = page_list /\ r \notin moved
    BY <1>4
  <2>6. Ended(seen) => r \notin moved
    BY <2>2, <2>5 DEF Ended
  <2> QED BY <1>1, <1>3, <1>4, <2>1, <2>2, <2>3, <2>4, <2>5, <2>6 DEF Looked, seen
<1>r. ASSUME r \in moved PROVE Looked(r, s, Scanned(Redirection), Redirection = <<>>)
  <2> DEFINE seen == Scanned(Redirection)
  <2>1. /\ seen \in Seq(Event) /\ Len(seen) <= Len(Redirection)
        /\ \A k \in DOMAIN seen : seen[k] = Redirection[k]
        /\ \A k \in DOMAIN seen : k < Len(seen) => ~Stops(seen[k])
        /\ ~Ended(seen) => \A k \in DOMAIN seen : ~Stops(seen[k])
    BY RedirectionFacts, ScannedFacts
  <2> HIDE DEF seen
  <2>2. DOMAIN seen \subseteq DOMAIN Redirection
    BY <2>1, RedirectionFacts
  <2>3. \A k \in DOMAIN seen : ~IsPush(seen[k]) /\ ~Stops(seen[k])
    BY <2>1, <2>2, RedirectionFacts
  <2>4. ~Ended(seen)
    BY <2>1, <2>3 DEF Ended, Last
  <2>5. (Redirection = <<>>) = FALSE
    BY RedirectionFacts
  <2> QED BY <1>1, <1>r, <2>1, <2>3, <2>4, <2>5 DEF Looked, seen
<1>5. PICK list \in Seq(Event) :
        /\ Handle(r, list)
        /\ \/ r \notin moved /\ list = page_list
           \/ "page" \in Faults /\ list = <<>>
           \/ r \in moved /\ list = Redirection
  <2>1. <<>> \in Seq(Event) /\ Redirection \in Seq(Event)
    BY RedirectionFacts
  <2> QED BY <1>3, <2>1 DEF EventPage, page_list
<1>6. Looked(r, s, Scanned(list), list = <<>>)
  BY <1>4, <1>5, <1>r
<1>7o. PICK t \in 0..MaxTime, h \in NoHash..MaxEvents : \E o :
        LET seen == Scanned(list)
        IN /\ Newest(r, seen, t, h)
           /\ o = Resorted(r, Outcome(r, seen, t, h))
           /\ latest_push_times' = [latest_push_times EXCEPT ![r] = t]
           /\ latest_push_hashes' = [latest_push_hashes EXCEPT ![r] = h]
           /\ out_hash' = [out_hash EXCEPT ![r] = o[1]]
           /\ out_push_time' = [out_push_time EXCEPT ![r] = o[2]]
           /\ worker_done' = [worker_done EXCEPT ![r] = Ended(seen) \/ list = <<>>]
  BY <1>5, Handled
<1>7. PICK o :
        LET seen == Scanned(list)
        IN /\ Newest(r, seen, t, h)
           /\ o = Resorted(r, Outcome(r, seen, t, h))
           /\ latest_push_times' = [latest_push_times EXCEPT ![r] = t]
           /\ latest_push_hashes' = [latest_push_hashes EXCEPT ![r] = h]
           /\ out_hash' = [out_hash EXCEPT ![r] = o[1]]
           /\ out_push_time' = [out_push_time EXCEPT ![r] = o[2]]
           /\ worker_done' = [worker_done EXCEPT ![r] = Ended(seen) \/ list = <<>>]
  BY <1>7o
<1>8. Scanned(list) \in Seq(Event) /\ (list = <<>>) \in BOOLEAN
  BY ScannedFacts
<1> QED BY <1>6, <1>7, <1>8

\* What is known of the events looked at and of the result they lead to.
LEMMA NewestIsPush ==
  ASSUME TypeOK, World, Dated, NEW r \in Repos, NEW s, NEW empty,
         NEW seen \in Seq(Event), NEW t \in 0..MaxTime, NEW h \in NoHash..MaxEvents,
         Looked(r, s, seen, empty), Newest(r, seen, t, h), t > 0
  PROVE  h \in DOMAIN pushed[r] /\ t = pushed[r][h]
<1>1. CASE t = latest_push_times[r] /\ h = latest_push_hashes[r]
  BY <1>1 DEF Dated
<1>2. ASSUME NEW k \in DOMAIN seen, IsPush(seen[k]), t = seen[k].time, h = seen[k].commit
      PROVE  h \in DOMAIN pushed[r] /\ t = pushed[r][h]
  <2>1. s + k \in DOMAIN events[r] /\ seen[k] = events[r][s + k]
    BY <1>2 DEF Looked
  <2> QED BY <1>2, <2>1 DEF World, Logged
<1> QED BY <1>1, <1>2 DEF Newest

LEMMA LastLooked ==
  ASSUME TypeOK, World, NEW r \in Repos, NEW s \in Nat, NEW empty,
         NEW seen \in Seq(Event), Looked(r, s, seen, empty), Ended(seen)
  PROVE  LET e == Last(seen)
             k == Len(seen)
         IN /\ k \in DOMAIN seen /\ e = seen[k] /\ s + k \in DOMAIN events[r]
            /\ e = events[r][s + k] /\ e \in Event
            /\ e.time > 0 /\ e.time < Cutoff /\ e.time \in Nat
            /\ \/ IsPush(e) /\ e.commit \in DOMAIN pushed[r] /\ e.time = pushed[r][e.commit]
               \/ IsCreation(e) /\ ~IsPush(e) /\ e.time = created[r]
            /\ \A i \in DOMAIN events[r] :
                 s < i /\ i < s + k => i - s \in DOMAIN seen /\ ~Stops(events[r][i])
<1> DEFINE k == Len(seen)
<1>1. k \in Nat \ {0} /\ k \in DOMAIN seen /\ Last(seen) = seen[k] /\ DOMAIN seen = 1..k
  BY DEF Ended, Last
<1>m. r \notin moved
  BY DEF Looked
<1>2. s + k \in DOMAIN events[r] /\ seen[k] = events[r][s + k]
  BY <1>1, <1>m DEF Looked
<1>3. seen[k] \in Event /\ Stops(seen[k])
  BY <1>1 DEF Ended
<1>4. seen[k].time \in Nat \ {0} /\ seen[k].kind \in {"repo", "branch", "push", "other"}
  BY <1>3, EventFields
<1>5. seen[k].time > 0 /\ seen[k].time < Cutoff /\ seen[k].time \in Nat
  BY <1>3, <1>4 DEF Stops
<1>6. IsPush(seen[k]) \/ (IsCreation(seen[k]) /\ ~IsPush(seen[k]))
  BY <1>3, <1>4 DEF Stops, IsPush, IsCreation
<1>7. /\ IsPush(seen[k]) => /\ seen[k].commit \in DOMAIN pushed[r]
                            /\ seen[k].time = pushed[r][seen[k].commit]
      /\ IsCreation(seen[k]) => seen[k].time = created[r]
  BY <1>2 DEF World, Logged
<1>8. ASSUME NEW i \in DOMAIN events[r], s < i, i < s + k
      PROVE  i - s \in DOMAIN seen /\ ~Stops(events[r][i])
  <2>1. i \in Nat
    BY PushTimes
  <2>2. i - s \in 1..k /\ i - s < k /\ s + (i - s) = i
    BY <1>1, <1>8, <2>1
  <2>3. seen[i - s] = events[r][s + (i - s)] /\ ~Stops(seen[i - s])
    BY <1>1, <1>m, <2>2 DEF Looked
  <2> QED BY <1>1, <2>2, <2>3
<1> HIDE DEF k
<1> QED BY <1>1, <1>2, <1>3, <1>5, <1>6, <1>7, <1>8 DEF k

LEMMA LatestDated ==
  ASSUME TypeOK, World, Resorts, NEW r \in Repos, Latest(r) # NoHash
  PROVE  /\ Latest(r) \in 0..Len(pushed[r])
         /\ created[r] <= PushTime(r, Latest(r))
         /\ \A n \in DOMAIN pushed[r] :
              pushed[r][n] < started => n <= Latest(r) /\ pushed[r][n] <= PushTime(r, Latest(r))
<1>1. /\ Latest(r) \in 0..Len(pushed[r])
      /\ \A n \in DOMAIN pushed[r] : pushed[r][n] < started => n <= Latest(r)
  BY DEF Resorts
<1>2. /\ Len(pushed[r]) \in Nat /\ DOMAIN pushed[r] = 1..Len(pushed[r])
      /\ created[r] \in Nat /\ \A n \in DOMAIN pushed[r] : n \in Nat \ {0}
  BY PushTimes, Types, CountsArePos
<1>3. Latest(r) = 0 \/ Latest(r) \in DOMAIN pushed[r]
  BY <1>1, <1>2
<1>4. created[r] <= PushTime(r, Latest(r))
  <2>1. CASE Latest(r) = 0
    BY <1>2, <2>1 DEF PushTime
  <2>2. CASE Latest(r) # 0
    BY <1>3, <2>2 DEF PushTime, World, History
  <2> QED BY <2>1, <2>2
<1>5. ASSUME NEW n \in DOMAIN pushed[r], pushed[r][n] < started
      PROVE  n <= Latest(r) /\ pushed[r][n] <= PushTime(r, Latest(r))
  <2>1. n <= Latest(r) /\ Latest(r) # 0 /\ Latest(r) \in DOMAIN pushed[r]
    BY <1>1, <1>2, <1>3, <1>5
  <2> QED BY <2>1 DEF PushTime, World, History
<1> QED BY <1>1, <1>4, <1>5

-----------------------------------------------------------------------------
(* How the graded commit is dated.                                         *)

LEMMA OutcomeDated ==
  ASSUME TypeOK, World, Resorts, Dated, NEW r \in Repos, NEW s \in Nat, NEW empty,
         NEW seen \in Seq(Event), NEW t \in 0..MaxTime, NEW h \in NoHash..MaxEvents,
         Looked(r, s, seen, empty), Newest(r, seen, t, h)
  PROVE  LET o == Resorted(r, Outcome(r, seen, t, h))
         IN /\ o[2] < Cutoff \/ o[2] = created[r]
            /\ started >= Cutoff /\ o[1] # NoHash =>
                 o[1] \in 0..Len(pushed[r]) /\ o[2] <= PushTime(r, o[1])
<1> DEFINE Fine(o) == /\ o[2] < Cutoff \/ o[2] = created[r]
                      /\ started >= Cutoff /\ o[1] # NoHash =>
                           o[1] \in 0..Len(pushed[r]) /\ o[2] <= PushTime(r, o[1])
<1>1. /\ Cutoff \in Nat \ {0} /\ started \in Nat /\ created[r] \in Nat
      /\ out_push_time[r] \in Nat /\ last_resort_push_times[r] \in Nat /\ t \in Nat
  BY Types, CountsArePos
<1>2. /\ Len(pushed[r]) \in Nat /\ DOMAIN pushed[r] = 1..Len(pushed[r])
      /\ \A n \in DOMAIN pushed[r] : n \in Nat \ {0} /\ pushed[r][n] \in Nat
  BY PushTimes
<1>3. ASSUME Unreported(t, h, Latest(r)) PROVE Fine(<<Latest(r), t>>)
  <2>1. t > 0 /\ t < Cutoff
    BY <1>1, <1>3 DEF Unreported
  <2>2. h \in DOMAIN pushed[r] /\ t = pushed[r][h]
    BY <2>1, NewestIsPush
  <2>3. ASSUME started >= Cutoff, Latest(r) # NoHash
        PROVE  Latest(r) \in 0..Len(pushed[r]) /\ t <= PushTime(r, Latest(r))
    <3>1. pushed[r][h] < started
      BY <1>1, <2>1, <2>2, <2>3
    <3> QED BY <2>2, <2>3, <3>1, LatestDated
  <2> QED BY <2>1, <2>3
<1>4. ASSUME Ended(seen)
      PROVE  Fine(Result(Last(seen), Latest(r))) /\ Result(Last(seen), Latest(r))[2] # 0
  <2> DEFINE e == Last(seen)
  <2>1. e.time > 0 /\ e.time < Cutoff /\ e.time \in Nat
    BY <1>4, LastLooked
  <2>2. \/ IsPush(e) /\ e.commit \in DOMAIN pushed[r] /\ e.time = pushed[r][e.commit]
        \/ IsCreation(e) /\ ~IsPush(e) /\ e.time = created[r]
    BY <1>4, LastLooked
  <2> HIDE DEF e
  <2>3. CASE IsPush(e) /\ e.commit \in DOMAIN pushed[r] /\ e.time = pushed[r][e.commit]
    <3>1. Result(e, Latest(r)) = <<e.commit, e.time>>
      BY <2>3 DEF Result, IsPush
    <3>2. e.commit \in 0..Len(pushed[r]) /\ e.commit # 0 /\ PushTime(r, e.commit) = e.time
      BY <1>2, <2>3 DEF PushTime
    <3> QED BY <2>1, <3>1, <3>2 DEF e
  <2>4. CASE IsCreation(e) /\ ~IsPush(e) /\ e.time = created[r]
    <3>1. Result(e, Latest(r)) = <<Latest(r), created[r]>>
      BY <2>4 DEF Result, IsPush
    <3>2. Latest(r) # NoHash =>
            Latest(r) \in 0..Len(pushed[r]) /\ created[r] <= PushTime(r, Latest(r))
      BY LatestDated
    <3> QED BY <2>1, <2>4, <3>1, <3>2 DEF e
  <2> QED BY <2>2, <2>3, <2>4
<1>5. Fine(<<out_hash[r], out_push_time[r]>>)
  BY DEF Dated
<1>6. Fine(<<Latest(r), last_resort_push_times[r]>>)
  <2>1. last_resort_push_times[r] \in {0, created[r]}
    BY DEF Resorts
  <2>2. ASSUME Latest(r) # NoHash
        PROVE  /\ Latest(r) \in 0..Len(pushed[r])
               /\ last_resort_push_times[r] <= PushTime(r, Latest(r))
    <3>1. Latest(r) \in 0..Len(pushed[r]) /\ created[r] <= PushTime(r, Latest(r))
      BY <2>2, LatestDated
    <3>2. Latest(r) = 0 \/ Latest(r) \in DOMAIN pushed[r]
      BY <1>2, <3>1
    <3>3. PushTime(r, Latest(r)) \in Nat
      BY <1>1, <1>2, <3>2 DEF PushTime
    <3> QED BY <1>1, <2>1, <3>1, <3>3
  <2> QED BY <1>1, <2>1, <2>2
<1> HIDE DEF Fine
<1>7. Fine(Outcome(r, seen, t, h))
  BY <1>3, <1>4, <1>5 DEF Outcome
<1>8. Fine(Resorted(r, Outcome(r, seen, t, h)))
  BY <1>6, <1>7 DEF Resorted
<1> QED BY <1>8 DEF Fine

LEMMA DatedStep == Typed /\ World /\ Resorts /\ Batches /\ Dated /\ [Next]_vars => Dated'
<1> SUFFICES ASSUME Typed, World, Resorts, Batches, Dated, [Next]_vars PROVE Dated'
  OBVIOUS
<1>t. TypeOK
  BY DEF Typed
<1>1. CASE UNCHANGED <<created, pushed, started, found>>
  BY <1>1 DEF Dated, PushTime, found
<1>2. ASSUME UNCHANGED found,
             \A q \in Repos : out_hash[q] = NoHash /\ out_push_time[q] = 0 /\ latest_push_times[q] = 0
      PROVE  Dated'
  <2>1. \A q \in Repos : out_hash'[q] = NoHash /\ out_push_time'[q] = 0 /\ latest_push_times'[q] = 0
    BY <1>2 DEF found
  <2> QED BY <2>1, BoundsAreNat DEF Dated
<1>3. CASE Start \/ \E r \in Repos : CreateRepo(r)
  BY <1>2, <1>3 DEF Start, CreateRepo, Batches
<1>4. ASSUME NEW r \in Repos, Push(r) PROVE Dated'
  <2>1. UNCHANGED <<created, started, found>> /\ pushed' = [pushed EXCEPT ![r] = Append(@, now)]
    BY <1>4 DEF Push
  <2>2. ASSUME NEW q \in Repos
        PROVE  /\ Len(pushed[q]) \in Nat /\ Len(pushed'[q]) \in Nat /\ Len(pushed[q]) <= Len(pushed'[q])
               /\ DOMAIN pushed[q] = 1..Len(pushed[q])
               /\ DOMAIN pushed[q] \subseteq DOMAIN pushed'[q]
               /\ \A n \in DOMAIN pushed[q] : pushed'[q][n] = pushed[q][n]
    <3>1. CASE q # r
      BY <1>t, <2>1, <3>1, Appended, PushTimes
    <3>2. CASE q = r
      BY <1>t, <2>1, <3>2, Appended
    <3> QED BY <3>1, <3>2
  <2>3. ASSUME NEW q \in Repos, started >= Cutoff, out_hash[q] # NoHash
        PROVE  out_hash[q] \in 0..Len(pushed'[q]) /\ out_push_time[q] <= PushTime(q, out_hash[q])'
    <3>1. out_hash[q] \in 0..Len(pushed[q]) /\ out_push_time[q] <= PushTime(q, out_hash[q])
      BY <2>3 DEF Dated
    <3>2. out_hash[q] \in 0..Len(pushed'[q]) /\ (out_hash[q] = 0 \/ out_hash[q] \in DOMAIN pushed[q])
      BY <2>2, <3>1
    <3> QED BY <2>1, <2>2, <3>1, <3>2 DEF PushTime, found
  <2>4. ASSUME NEW q \in Repos, latest_push_times[q] > 0
        PROVE  /\ latest_push_hashes[q] \in DOMAIN pushed'[q]
               /\ latest_push_times[q] = pushed'[q][latest_push_hashes[q]]
    BY <2>2, <2>4 DEF Dated
  <2> QED BY <2>1, <2>3, <2>4 DEF Dated, found
<1>5. ASSUME NEW r \in Repos, EventPage(r) PROVE Dated'
  <2>1. UNCHANGED <<created, pushed, started>>
    BY <1>5 DEF EventPage, github
  <2>2o. PICK s \in Nat, seen \in Seq(Event), empty \in BOOLEAN,
             t \in 0..MaxTime, h \in NoHash..MaxEvents : \E o :
          /\ Looked(r, s, seen, empty) /\ Newest(r, seen, t, h)
          /\ o = Resorted(r, Outcome(r, seen, t, h))
          /\ latest_push_times' = [latest_push_times EXCEPT ![r] = t]
          /\ latest_push_hashes' = [latest_push_hashes EXCEPT ![r] = h]
          /\ out_hash' = [out_hash EXCEPT ![r] = o[1]]
          /\ out_push_time' = [out_push_time EXCEPT ![r] = o[2]]
    BY <1>t, <1>5, Response
  <2>2. PICK o :
          /\ Looked(r, s, seen, empty) /\ Newest(r, seen, t, h)
          /\ o = Resorted(r, Outcome(r, seen, t, h))
          /\ latest_push_times' = [latest_push_times EXCEPT ![r] = t]
          /\ latest_push_hashes' = [latest_push_hashes EXCEPT ![r] = h]
          /\ out_hash' = [out_hash EXCEPT ![r] = o[1]]
          /\ out_push_time' = [out_push_time EXCEPT ![r] = o[2]]
    BY <2>2o
  <2>3. /\ o[2] < Cutoff \/ o[2] = created[r]
        /\ started >= Cutoff /\ o[1] # NoHash =>
             o[1] \in 0..Len(pushed[r]) /\ o[2] <= PushTime(r, o[1])
    BY <1>t, <2>2, OutcomeDated
  <2>4. t > 0 => h \in DOMAIN pushed[r] /\ t = pushed[r][h]
    BY <1>t, <2>2, NewestIsPush
  <2>5. /\ latest_push_times'[r] = t /\ latest_push_hashes'[r] = h
        /\ out_hash'[r] = o[1] /\ out_push_time'[r] = o[2]
        /\ \A q \in Repos : q # r =>
             /\ latest_push_times'[q] = latest_push_times[q]
             /\ latest_push_hashes'[q] = latest_push_hashes[q]
             /\ out_hash'[q] = out_hash[q] /\ out_push_time'[q] = out_push_time[q]
    BY <1>t, <2>2, Types
  <2>6. ASSUME NEW q \in Repos
        PROVE  /\ latest_push_times'[q] > 0 =>
                    /\ latest_push_hashes'[q] \in DOMAIN pushed[q]
                    /\ latest_push_times'[q] = pushed[q][latest_push_hashes'[q]]
               /\ out_push_time'[q] < Cutoff \/ out_push_time'[q] = created[q]
               /\ started >= Cutoff /\ out_hash'[q] # NoHash =>
                    /\ out_hash'[q] \in 0..Len(pushed[q])
                    /\ out_push_time'[q] <= PushTime(q, out_hash'[q])
    <3>1. CASE q = r
      BY <2>3, <2>4, <2>5, <3>1
    <3>2. CASE q # r
      BY <2>5, <3>2 DEF Dated
    <3> QED BY <3>1, <3>2
  <2> QED BY <2>1, <2>6 DEF Dated, PushTime
<1>6. CASE \/ Tick \/ (\E r \in Repos : OtherEvent(r) \/ Move(r)) \/ RetrieveCreationTimes
           \/ (\E r \in Repos : LatestCommit(r)) \/ NextLatestBatch \/ NextPage \/ NextPageBatch
           \/ UNCHANGED vars
  <2>1. UNCHANGED <<created, pushed, started, found>>
    BY <1>6 DEF Tick, OtherEvent, Move, RetrieveCreationTimes, LatestCommit, NextLatestBatch, NextPage,
                NextPageBatch, vars, github
  <2> QED BY <1>1, <2>1
<1> QED BY <1>3, <1>4, <1>5, <1>6 DEF Next, Student, Program

-----------------------------------------------------------------------------
(* The search.                                                             *)

\* Of two pushes among the events, the one reported first is not the older one.
LEMMA NewestFirst ==
  ASSUME TypeOK, World, NEW r \in Repos, NEW i \in DOMAIN events[r], NEW j \in DOMAIN events[r],
         i <= j, IsPush(events[r][i]), IsPush(events[r][j])
  PROVE  /\ events[r][i].commit \in DOMAIN pushed[r] /\ events[r][j].commit \in DOMAIN pushed[r]
         /\ events[r][i].commit >= events[r][j].commit
         /\ events[r][i].time >= events[r][j].time
<1>1. /\ events[r][i].commit \in DOMAIN pushed[r] /\ events[r][j].commit \in DOMAIN pushed[r]
      /\ events[r][i].time = pushed[r][events[r][i].commit]
      /\ events[r][j].time = pushed[r][events[r][j].commit]
  BY DEF World, Logged
<1>2. i \in Nat /\ j \in Nat /\ \A n \in DOMAIN pushed[r] : n \in Nat /\ pushed[r][n] \in Nat
  BY PushTimes
<1>3. events[r][i].commit >= events[r][j].commit
  <2>1. CASE i = j
    BY <1>1, <1>2, <2>1
  <2>2. CASE i < j
    BY <1>1, <1>2, <2>2 DEF World, InOrder
  <2> QED BY <1>2, <2>1, <2>2
<1>4. pushed[r][events[r][j].commit] <= pushed[r][events[r][i].commit]
  BY <1>1, <1>2, <1>3 DEF World, History
<1> QED BY <1>1, <1>2, <1>3, <1>4

\* A response whose events do not end the search, or that has none.
LEMMA NotEnded ==
  ASSUME TypeOK, World, Resorts, NEW r \in Repos, Searching(r), Read(r) = (page - 1) * PageSize,
         NEW s \in Nat, NEW empty \in BOOLEAN, NEW seen \in Seq(Event),
         NEW t \in 0..MaxTime, NEW h \in NoHash..MaxEvents,
         Looked(r, s, seen, empty), Newest(r, seen, t, h), ~Ended(seen)
  PROVE  /\ t = 0 \/ t >= Cutoff
         /\ Resorted(r, Outcome(r, seen, t, h)) = <<Latest(r), last_resort_push_times[r]>>
         /\ ~empty /\ r \notin moved => \A i \in DOMAIN events[r] : i <= page * PageSize =>
              /\ Stops(events[r][i]) => events[r][i].time >= started
              /\ IsPush(events[r][i]) /\ events[r][i].commit <= Latest(r) =>
                   events[r][i].time <= t
<1>1. Cutoff \in Nat /\ t \in Nat /\ latest_push_times[r] \in Nat /\ PageSize \in Nat
  BY Types, CountsArePos
<1>2. \A k \in DOMAIN seen :
        /\ k \in Nat \ {0} /\ ~Stops(seen[k]) /\ seen[k] \in Event
        /\ r \notin moved => s + k \in DOMAIN events[r] /\ seen[k] = events[r][s + k]
  BY DEF Looked
<1>3. t = 0 \/ t >= Cutoff
  <2>1. ASSUME NEW k \in DOMAIN seen, IsPush(seen[k]), t = seen[k].time PROVE t >= Cutoff
    <3>1. ~Stops(seen[k])
      BY <1>2
    <3>2. ~(seen[k].time < Cutoff)
      BY <2>1, <3>1 DEF Stops, IsPush
    <3> QED BY <1>1, <2>1, <3>2
  <2> QED BY <2>1 DEF Newest, Searching
<1>4. Outcome(r, seen, t, h) = <<out_hash[r], out_push_time[r]>>
  BY <1>1, <1>3 DEF Outcome, Unreported
<1>5. Resorted(r, Outcome(r, seen, t, h)) = <<Latest(r), last_resort_push_times[r]>>
  BY <1>4 DEF Resorted, Searching
<1>6. ASSUME ~empty, r \notin moved, NEW i \in DOMAIN events[r], i <= page * PageSize
      PROVE  /\ Stops(events[r][i]) => events[r][i].time >= started
             /\ IsPush(events[r][i]) /\ events[r][i].commit <= Latest(r) => events[r][i].time <= t
  <2>1. i \in Nat /\ events[r][i] \in Event /\ events[r][i].time \in Nat
    BY PushTimes, EventFields
  <2>2. CASE i <= s
    <3>1. i <= Read(r)
      BY <2>2 DEF Looked
    <3>2. t >= latest_push_times[r]
      BY DEF Newest
    <3> QED BY <1>1, <1>6, <2>1, <3>1, <3>2 DEF Searching
  <2>3. CASE s < i
    <3>1. i - s \in DOMAIN seen /\ s + (i - s) = i
      BY <1>6, <2>1, <2>3 DEF Looked
    <3>2. ~Stops(events[r][i]) /\ seen[i - s] = events[r][i]
      BY <1>2, <1>6, <3>1
    <3>3. ASSUME IsPush(events[r][i]) PROVE events[r][i].time <= t
      <4>1. PICK k \in DOMAIN seen : k <= i - s /\ IsPush(seen[k]) /\ seen[k].time <= t
        BY <3>1, <3>2, <3>3 DEF Newest
      <4>2. s + k \in DOMAIN events[r] /\ s + k <= i /\ seen[k] = events[r][s + k] /\ seen[k].time \in Nat
        BY <1>2, <1>6, <2>1, <4>1, EventFields
      <4>3. events[r][s + k].time >= events[r][i].time
        BY <3>3, <4>1, <4>2, NewestFirst
      <4> QED BY <1>1, <2>1, <4>1, <4>2, <4>3
    <3> QED BY <3>2, <3>3
  <2> QED BY <2>1, <2>2, <2>3
<1> QED BY <1>3, <1>5, <1>6

\* No event of a push before the cutoff, made before the command began, comes
\* before the event that ends the search.
LEMMA NoneSkipped ==
  ASSUME TypeOK, World, NEW r \in Repos, Searching(r), Read(r) = (page - 1) * PageSize,
         NEW s \in Nat, NEW empty, NEW seen \in Seq(Event),
         Looked(r, s, seen, empty), Ended(seen),
         NEW n \in Before(r), pushed[r][n] < started,
         NEW i \in DOMAIN events[r], IsPush(events[r][i]), events[r][i].commit = n
  PROVE  i >= s + Len(seen)
<1>1. /\ i \in Nat /\ n \in DOMAIN pushed[r] /\ pushed[r][n] < Cutoff
      /\ pushed[r][n] \in Nat /\ started \in Nat
  BY PushTimes, Types DEF Before
<1>2. events[r][i].time = pushed[r][n]
  BY DEF World, Logged
<1>3. Stops(events[r][i])
  BY <1>1, <1>2 DEF Stops, IsPush
<1>4. ~(i <= s)
  <2> SUFFICES ASSUME i <= s PROVE FALSE
    OBVIOUS
  <2>1. i <= Read(r)
    BY DEF Looked
  <2>2. events[r][i].time >= started
    BY <1>3, <2>1 DEF Searching, Looked
  <2> QED BY <1>1, <1>2, <2>2
<1>5. ~(s < i /\ i < s + Len(seen))
  BY <1>3, LastLooked
<1>6. Len(seen) \in Nat
  OBVIOUS
<1> QED BY <1>1, <1>4, <1>5, <1>6

LEMMA EndedNotOlder ==
  ASSUME TypeOK, World, Resorts, Known, phase = "pages", NEW r \in Repos, Searching(r),
         Read(r) = (page - 1) * PageSize,
         NEW s \in Nat, NEW empty \in BOOLEAN, NEW seen \in Seq(Event),
         NEW t \in 0..MaxTime, NEW h \in NoHash..MaxEvents,
         Looked(r, s, seen, empty), Newest(r, seen, t, h), Ended(seen),
         ~MayMiss, "latest" \notin Faults, NEW n \in Before(r), pushed[r][n] < started
  PROVE  Resorted(r, Outcome(r, seen, t, h))[1] >= n
<1> DEFINE e == Last(seen)
<1>1. Latest(r) >= n
  <2>1. Latest(r) # NoHash
    BY DEF Known, Looked
  <2>2. n <= Latest(r) /\ Latest(r) \in 0..Len(pushed[r]) /\ n \in Nat
    BY <2>1, LatestDated, PushTimes DEF Before
  <2> QED BY <2>2
<1>2. /\ e.time > 0
      /\ \/ IsPush(e) /\ e.commit \in DOMAIN pushed[r]
         \/ ~IsPush(e)
      /\ s + Len(seen) \in DOMAIN events[r] /\ e = events[r][s + Len(seen)]
  BY LastLooked
<1>3. ASSUME IsPush(e) PROVE e.commit >= n
  <2>1. PICK i \in DOMAIN events[r] : IsPush(events[r][i]) /\ events[r][i].commit = n
    BY DEF World, Complete, Before
  <2>2. i >= s + Len(seen) /\ i \in Nat /\ s + Len(seen) \in Nat
    BY <2>1, NoneSkipped, PushTimes
  <2> QED BY <1>2, <1>3, <2>1, <2>2, NewestFirst
<1>4. CASE Unreported(t, h, Latest(r))
  <2>1. Outcome(r, seen, t, h) = <<Latest(r), t>> /\ t # 0
    BY <1>4 DEF Outcome, Unreported
  <2> QED BY <1>1, <2>1 DEF Resorted
<1>5. CASE ~Unreported(t, h, Latest(r))
  <2>1. Outcome(r, seen, t, h) = Result(e, Latest(r))
    BY <1>5 DEF Outcome
  <2>2. Result(e, Latest(r)) = <<IF IsPush(e) THEN e.commit ELSE Latest(r), e.time>>
    BY DEF Result, IsPush
  <2> HIDE DEF e
  <2>3. Resorted(r, Outcome(r, seen, t, h))[1] = IF IsPush(e) THEN e.commit ELSE Latest(r)
    <3>1. e.time # 0
      BY <1>2
    <3> QED BY <2>1, <2>2, <3>1 DEF Resorted
  <2> QED BY <1>1, <1>3, <2>3
<1> QED BY <1>4, <1>5

LEMMA EndedExact ==
  ASSUME TypeOK, World, Resorts, Known, phase = "pages", NEW r \in Repos, Searching(r),
         Read(r) = (page - 1) * PageSize,
         NEW s \in Nat, NEW empty \in BOOLEAN, NEW seen \in Seq(Event),
         NEW t \in 0..MaxTime, NEW h \in NoHash..MaxEvents,
         Looked(r, s, seen, empty), Newest(r, seen, t, h), Ended(seen),
         ~MayMiss, "latest" \notin Faults, started >= Cutoff,
         NEW m \in Before(r), \A n \in Before(r) : n <= m
  PROVE  Resorted(r, Outcome(r, seen, t, h)) = <<m, pushed[r][m]>>
<1> DEFINE k == Len(seen)
           e == Last(seen)
<1>1. /\ m \in DOMAIN pushed[r] /\ m \in Nat /\ pushed[r][m] \in Nat /\ pushed[r][m] < Cutoff
      /\ Cutoff \in Nat /\ started \in Nat /\ t \in Nat /\ latest_push_times[r] \in Nat /\ k \in Nat
      /\ \A n \in DOMAIN pushed[r] : n \in Nat \ {0} /\ pushed[r][n] \in Nat \ {0}
      /\ DOMAIN pushed[r] = 1..Len(pushed[r])
  <2>1. /\ \A n \in DOMAIN pushed[r] : n \in Nat \ {0} /\ pushed[r][n] \in Nat \ {0}
        /\ DOMAIN pushed[r] = 1..Len(pushed[r])
    BY PushTimes
  <2>2. m \in DOMAIN pushed[r] /\ pushed[r][m] < Cutoff
    BY DEF Before
  <2>3. latest_push_times[r] \in 0..MaxTime
    BY Types
  <2>4. Cutoff \in Nat /\ started \in Nat /\ t \in Nat /\ latest_push_times[r] \in Nat /\ k \in Nat
    BY <2>3, Types, CountsArePos
  <2> QED BY <2>1, <2>2, <2>4
<1>2. pushed[r][m] < started
  BY <1>1
<1>3. /\ k \in DOMAIN seen /\ e = seen[k] /\ s + k \in DOMAIN events[r] /\ e = events[r][s + k]
      /\ e.time > 0 /\ e.time < Cutoff /\ e.time \in Nat
      /\ \/ IsPush(e) /\ e.commit \in DOMAIN pushed[r] /\ e.time = pushed[r][e.commit]
         \/ IsCreation(e) /\ ~IsPush(e) /\ e.time = created[r]
      /\ \A i \in DOMAIN events[r] : s < i /\ i < s + k => i - s \in DOMAIN seen /\ ~Stops(events[r][i])
  <2>1. /\ k \in DOMAIN seen /\ e = seen[k] /\ s + k \in DOMAIN events[r] /\ e = events[r][s + k]
        /\ e.time > 0 /\ e.time < Cutoff /\ e.time \in Nat
    BY LastLooked
  <2>2. \/ IsPush(e) /\ e.commit \in DOMAIN pushed[r] /\ e.time = pushed[r][e.commit]
        \/ IsCreation(e) /\ ~IsPush(e) /\ e.time = created[r]
    BY LastLooked
  <2>3. \A i \in DOMAIN events[r] : s < i /\ i < s + k => i - s \in DOMAIN seen /\ ~Stops(events[r][i])
    BY LastLooked
  <2> QED BY <2>1, <2>2, <2>3
<1> HIDE DEF e, k
<1>4. PICK i \in DOMAIN events[r] : IsPush(events[r][i]) /\ events[r][i].commit = m
  BY <1>1 DEF World, Complete
<1>5. i >= s + k /\ i \in Nat
  BY <1>2, <1>4, NoneSkipped, PushTimes DEF k
<1>6. IsPush(e) /\ e.commit = m /\ e.time = pushed[r][m]
  <2>1. IsPush(e)
    <3>1. CASE i = s + k
      BY <1>3, <1>4, <3>1
    <3>2. CASE i > s + k
      BY <1>3, <1>4, <3>2 DEF World, InOrder
    <3>3. i = s + k \/ i > s + k
      <4>1. s + k \in Nat
        BY <1>1
      <4> QED BY <1>5, <4>1
    <3> QED BY <3>1, <3>2, <3>3
  <2>2. e.commit >= m
    BY <1>1, <1>3, <1>4, <1>5, <2>1, NewestFirst
  <2>3. e.commit \in Before(r)
    BY <1>3, <2>1 DEF Before
  <2>4. e.commit \in Nat /\ e.commit <= m
    BY <1>1, <2>3 DEF Before
  <2>5. e.commit = m
    BY <1>1, <2>2, <2>4
  <2> QED BY <1>3, <2>1, <2>5
<1>7. ~Unreported(t, h, Latest(r))
  <2> SUFFICES ASSUME t > 0, h # Latest(r), t < Cutoff PROVE FALSE
    BY DEF Unreported
  <2>1. latest_push_times[r] = 0
    BY <1>1 DEF Newest, Searching
  <2>2. PICK j \in DOMAIN seen : IsPush(seen[j]) /\ t = seen[j].time /\ h = seen[j].commit
    BY <1>1, <2>1 DEF Newest
  <2>3. j = k
    <3>1. Stops(seen[j])
      BY <2>2 DEF Stops, IsPush
    <3>2. j \in 1..k
      BY DEF k
    <3> QED BY <1>1, <3>1, <3>2 DEF Looked, k
  <2>4. h = m
    BY <1>3, <1>6, <2>2, <2>3
  <2>5. Latest(r) \in DOMAIN pushed[r] /\ Latest(r) > m
    <3>1. Latest(r) # NoHash
      BY DEF Known, Looked
    <3>2. Latest(r) \in 0..Len(pushed[r]) /\ m <= Latest(r)
      BY <1>1, <1>2, <3>1, LatestDated
    <3> QED BY <1>1, <2>4, <3>2
  <2>6. PICK l \in DOMAIN events[r] : IsPush(events[r][l]) /\ events[r][l].commit = Latest(r)
    BY <2>5 DEF World, Complete
  <2>7. l \in Nat /\ events[r][l].time = pushed[r][Latest(r)] /\ events[r][l].time \in Nat \ {0}
    <3>1. l \in Nat
      BY PushTimes
    <3>2. events[r][l].time = pushed[r][events[r][l].commit]
      BY <2>6 DEF World, Logged
    <3>3. events[r][l].time = pushed[r][Latest(r)]
      BY <2>6, <3>2
    <3>4. pushed[r][Latest(r)] \in Nat \ {0}
      BY <1>1, <2>5
    <3> QED BY <3>1, <3>3, <3>4
  <2>8. l < s + k
    <3>1. ~(s + k <= l)
      <4> SUFFICES ASSUME s + k <= l PROVE FALSE
        OBVIOUS
      <4>1. events[r][s + k].commit >= events[r][l].commit
        BY <1>3, <1>6, <2>6, NewestFirst
      <4> QED BY <1>1, <1>3, <1>6, <2>5, <2>6, <4>1
    <3> QED BY <1>1, <2>7, <3>1
  <2>9. CASE l <= s
    <3>1. l <= Read(r)
      BY <2>9 DEF Looked
    <3>2. Latest(r) <= Latest(r)
      BY <1>1, <2>5
    <3>3. events[r][l].time <= latest_push_times[r]
      BY <2>6, <3>1, <3>2 DEF Searching, Looked
    <3> QED BY <2>1, <2>7, <3>3
  <2>10. CASE s < l
    <3>1. l - s \in DOMAIN seen /\ l - s < k
      BY <1>1, <1>3, <2>7, <2>8, <2>10
    <3>2. s + (l - s) = l
      BY <2>7
    <3>3. IsPush(seen[l - s])
      BY <2>6, <3>1, <3>2 DEF Looked
    <3>4. PICK p \in DOMAIN seen : p <= l - s /\ IsPush(seen[p]) /\ seen[p].time <= t
      BY <3>1, <3>3 DEF Newest
    <3>5. p \in Nat /\ p < k /\ seen[p] \in Event
      <4>1. p \in Nat /\ seen[p] \in Event
        OBVIOUS
      <4>2. k \in Nat /\ s \in Nat
        BY <1>1
      <4>3. p < k
        BY <2>7, <3>1, <3>4, <4>1, <4>2
      <4> QED BY <4>1, <4>3
    <3>6. ~Stops(seen[p])
      BY <3>5 DEF Looked, k
    <3>7. seen[p].time \in Nat
      BY <3>5, EventFields
    <3> QED BY <1>1, <3>4, <3>6, <3>7 DEF Stops, IsPush
  <2> QED BY <2>7, <2>9, <2>10
<1>8. Outcome(r, seen, t, h) = <<m, pushed[r][m]>>
  BY <1>6, <1>7 DEF Outcome, Result, IsPush, e
<1>9. pushed[r][m] # 0
  BY <1>1
<1> QED BY <1>8, <1>9 DEF Resorted

\* While nothing is read yet.
LEMMA FreshSearch ==
  ASSUME TypeOK',
         \A r \in Repos : /\ ~worker_done'[r] /\ out_push_time'[r] = 0 /\ latest_push_times'[r] = 0
                          /\ Read(r)' = 0
  PROVE  Searched'
<1>1. \A r \in Repos : \A i \in DOMAIN events'[r] : i \in Nat \ {0}
  <2>1. \A r \in Repos : events'[r] \in Seq(Event)
    BY DEF TypeOK
  <2> QED BY <2>1
<1>2. \A r \in Repos : \A i \in DOMAIN events'[r] : ~(i <= Read(r)')
  BY <1>1
<1> QED BY <1>2 DEF Searched, Searching

LEMMA SearchedKept ==
  ASSUME Searched, UNCHANGED <<pushed, events, started, found, resort, worker_done>>,
         moved \subseteq moved',
         \A r \in Repos : ~worker_done[r] => Read(r)' = Read(r)
  PROVE  Searched'
<1> SUFFICES ASSUME NEW r \in Repos
    PROVE  IF worker_done'[r] THEN NotOlder(r)' /\ IsExact(r)' ELSE Searching(r)'
  BY DEF Searched
<1>1. CASE worker_done[r]
  BY <1>1 DEF Searched, NotOlder, IsExact, Before, found
<1>2. CASE ~worker_done[r]
  BY <1>2 DEF Searched, Searching, Latest, found, resort
<1> QED BY <1>1, <1>2

LEMMA SearchedPage ==
  ASSUME Typed, World, Resorts, Known, Batches, Searched, NEW r \in Repos, EventPage(r)
  PROVE  Searched'
<1>t. TypeOK
  BY DEF Typed
<1>1. /\ phase = "pages" /\ phase' = "pages" /\ r \in Batch /\ r \notin answered /\ ~worker_done[r]
      /\ answered' = answered \cup {r} /\ at' = at /\ page' = page
      /\ UNCHANGED <<pushed, events, moved, started, last_resort_push_times, last_resort_hashes>>
  BY DEF EventPage, github, resort
<1>2o. PICK s \in Nat, seen \in Seq(Event), empty \in BOOLEAN,
           t \in 0..MaxTime, h \in NoHash..MaxEvents : \E o :
        /\ Looked(r, s, seen, empty) /\ Newest(r, seen, t, h)
        /\ o = Resorted(r, Outcome(r, seen, t, h))
        /\ latest_push_times' = [latest_push_times EXCEPT ![r] = t]
        /\ latest_push_hashes' = [latest_push_hashes EXCEPT ![r] = h]
        /\ out_hash' = [out_hash EXCEPT ![r] = o[1]]
        /\ out_push_time' = [out_push_time EXCEPT ![r] = o[2]]
        /\ worker_done' = [worker_done EXCEPT ![r] = Ended(seen) \/ empty]
  BY <1>t, Response
<1>2. PICK o :
        /\ Looked(r, s, seen, empty) /\ Newest(r, seen, t, h)
        /\ o = Resorted(r, Outcome(r, seen, t, h))
        /\ latest_push_times' = [latest_push_times EXCEPT ![r] = t]
        /\ latest_push_hashes' = [latest_push_hashes EXCEPT ![r] = h]
        /\ out_hash' = [out_hash EXCEPT ![r] = o[1]]
        /\ out_push_time' = [out_push_time EXCEPT ![r] = o[2]]
        /\ worker_done' = [worker_done EXCEPT ![r] = Ended(seen) \/ empty]
  BY <1>2o
<1>3. /\ latest_push_times'[r] = t /\ out_hash'[r] = o[1] /\ out_push_time'[r] = o[2]
      /\ worker_done'[r] = (Ended(seen) \/ empty)
      /\ \A q \in Repos : q # r =>
           /\ latest_push_times'[q] = latest_push_times[q]
           /\ out_hash'[q] = out_hash[q] /\ out_push_time'[q] = out_push_time[q]
           /\ worker_done'[q] = worker_done[q]
  BY <1>t, <1>2, Types
<1>4. Searching(r) /\ Read(r) = (page - 1) * PageSize
  BY <1>1 DEF Searched, Read
<1>5. Read(r)' = page * PageSize /\ \A q \in Repos : q # r => Read(q)' = Read(q)
  BY <1>1 DEF Read, Batch
<1>6. ASSUME NEW q \in Repos, q # r
      PROVE  IF worker_done'[q] THEN NotOlder(q)' /\ IsExact(q)' ELSE Searching(q)'
  <2>1. CASE worker_done[q]
    BY <1>1, <1>3, <1>6, <2>1 DEF Searched, NotOlder, IsExact, Before
  <2>2. CASE ~worker_done[q]
    BY <1>1, <1>3, <1>5, <1>6, <2>2 DEF Searched, Searching, Latest
  <2> QED BY <2>1, <2>2
<1>7. CASE ~Ended(seen)
  <2>1. /\ t = 0 \/ t >= Cutoff
        /\ o = <<Latest(r), last_resort_push_times[r]>>
        /\ ~empty /\ r \notin moved => \A i \in DOMAIN events[r] : i <= page * PageSize =>
             /\ Stops(events[r][i]) => events[r][i].time >= started
             /\ IsPush(events[r][i]) /\ events[r][i].commit <= Latest(r) =>
                  events[r][i].time <= t
    BY <1>t, <1>2, <1>4, <1>7, NotEnded
  <2>2. CASE ~empty
    <3>1. ~worker_done'[r]
      BY <1>3, <1>7, <2>2
    <3>2. Searching(r)'
      BY <1>1, <1>3, <1>5, <2>1, <2>2 DEF Searching, Latest
    <3> QED BY <1>6, <3>1, <3>2 DEF Searched
  <2>3. CASE empty
    <3>1. worker_done'[r]
      BY <1>3, <2>3
    <3>2. ASSUME ~MayMiss, "latest" \notin Faults, r \notin moved, NEW n \in Before(r), pushed[r][n] < started
          PROVE  o[1] >= n
      <4>1. Latest(r) # NoHash
        BY <1>1, <3>2 DEF Known
      <4>2. n <= Latest(r) /\ Latest(r) \in 0..Len(pushed[r]) /\ n \in Nat
        BY <1>t, <3>2, <4>1, LatestDated, PushTimes DEF Before
      <4> QED BY <2>1, <4>2
    <3>3. ASSUME ~MayMiss, "page" \notin Faults, r \notin moved, started >= Cutoff, NEW m \in Before(r)
          PROVE  FALSE
      <4>1. PICK i \in DOMAIN events[r] : IsPush(events[r][i]) /\ events[r][i].commit = m
        BY <3>3 DEF World, Complete, Before
      <4>2. i <= Read(r)
        <5>1. Len(events[r]) <= s /\ s = Read(r)
          BY <1>2, <1>4, <2>3, <3>3 DEF Looked
        <5>2. i \in Nat /\ i <= Len(events[r]) /\ Len(events[r]) \in Nat
          BY <1>t DEF TypeOK
        <5> QED BY <5>1, <5>2
      <4>3. /\ m \in DOMAIN pushed[r] /\ pushed[r][m] < Cutoff /\ pushed[r][m] \in Nat
            /\ Cutoff \in Nat /\ started \in Nat
        BY <1>t, PushTimes, Types DEF Before
      <4>4. events[r][i].time = pushed[r][m]
        BY <4>1 DEF World, Logged
      <4>5. Stops(events[r][i])
        BY <4>1, <4>3, <4>4 DEF Stops, IsPush
      <4> QED BY <1>4, <3>3, <4>2, <4>3, <4>4, <4>5 DEF Searching
    <3>4. NotOlder(r)' /\ IsExact(r)'
      BY <1>1, <1>3, <3>2, <3>3 DEF NotOlder, IsExact, Before
    <3> QED BY <1>6, <3>1, <3>4 DEF Searched
  <2> QED BY <2>2, <2>3
<1>8. CASE Ended(seen)
  <2>1. worker_done'[r]
    BY <1>3, <1>8
  <2>2. ASSUME ~MayMiss, "latest" \notin Faults, NEW n \in Before(r), pushed[r][n] < started
        PROVE  o[1] >= n
    BY <1>t, <1>1, <1>2, <1>4, <1>8, <2>2, EndedNotOlder
  <2>3. ASSUME ~MayMiss, "latest" \notin Faults, started >= Cutoff, NEW m \in Before(r),
               \A n \in Before(r) : n <= m
        PROVE  o = <<m, pushed[r][m]>>
    BY <1>t, <1>1, <1>2, <1>4, <1>8, <2>3, EndedExact
  <2>4. NotOlder(r)'
    BY <1>1, <1>3, <2>2 DEF NotOlder, Before
  <2>5. IsExact(r)'
    <3> SUFFICES ASSUME ~MayMiss, {"latest", "page"} \cap Faults = {}, started >= Cutoff,
                        r \notin moved,
                        NEW m \in Before(r), \A n \in Before(r) : n <= m
                 PROVE  out_hash'[r] = m /\ out_push_time'[r] = pushed[r][m]
      BY <1>1 DEF IsExact, Before
    <3>1. "latest" \notin Faults
      OBVIOUS
    <3>2. o = <<m, pushed[r][m]>>
      BY <2>3, <3>1
    <3> QED BY <1>3, <3>2
  <2> QED BY <1>6, <2>1, <2>4, <2>5 DEF Searched
<1> QED BY <1>7, <1>8

\* A push or another event while pages are read: it is put in front of those that
\* were read, and comes after the command began.
LEMMA SearchedEvent ==
  ASSUME Typed, World, World', Resorts, Batches, Searched, NEW r \in Repos,
         phase \in {"pages", "done"},
         UNCHANGED <<now, moved, phase, started, round, found, resort>>,
         \/ UNCHANGED pushed
         \/ pushed' = [pushed EXCEPT ![r] = Append(@, now)],
         \/ UNCHANGED events
         \/ \E e \in Event : /\ Reported(r, e) /\ e.time = now
                             /\ IsPush(e) => e.commit = Len(pushed[r]) + 1
  PROVE  Searched'
<1>t. TypeOK
  BY DEF Typed
<1>1. started <= now /\ started \in Nat /\ now \in Nat /\ Cutoff \in Nat
  BY <1>t, Types DEF World, History
<1>2. ASSUME NEW q \in Repos
      PROVE  /\ DOMAIN pushed[q] \subseteq DOMAIN pushed'[q]
             /\ \A n \in DOMAIN pushed[q] : pushed'[q][n] = pushed[q][n]
             /\ \A n \in DOMAIN pushed'[q] : n \notin DOMAIN pushed[q] => pushed'[q][n] = now
  <2>1. CASE UNCHANGED pushed
    BY <2>1
  <2>2. CASE pushed' = [pushed EXCEPT ![r] = Append(@, now)]
    <3>1. CASE q = r
      <4>1. /\ Len(pushed[r]) \in Nat
            /\ DOMAIN pushed[r] = 1..Len(pushed[r]) /\ DOMAIN pushed'[r] = 1..(Len(pushed[r]) + 1)
            /\ \A n \in DOMAIN pushed[r] : pushed'[r][n] = pushed[r][n]
            /\ pushed'[r][Len(pushed[r]) + 1] = now
        BY <1>t, <2>2, Appended
      <4>2. \A n \in DOMAIN pushed'[r] : n \notin DOMAIN pushed[r] => n = Len(pushed[r]) + 1
        BY <4>1
      <4>3. DOMAIN pushed[r] \subseteq DOMAIN pushed'[r]
        BY <4>1
      <4> QED BY <3>1, <4>1, <4>2, <4>3
    <3>2. CASE q # r
      BY <1>t, <2>2, <3>2, Appended
    <3> QED BY <3>1, <3>2
  <2> QED BY <2>1, <2>2
<1>3. \A q \in Repos : \A n \in DOMAIN pushed[q] : pushed[q][n] \in Nat
  BY <1>t, PushTimes
<1>4. ASSUME NEW q \in Repos, NEW n \in Before(q)', pushed'[q][n] < started
      PROVE  n \in Before(q) /\ pushed'[q][n] = pushed[q][n]
  <2>1. n \in DOMAIN pushed'[q] /\ pushed'[q][n] < Cutoff
    BY DEF Before
  <2>2. n \in DOMAIN pushed[q]
    BY <1>1, <1>2, <1>4, <2>1
  <2> QED BY <1>2, <2>1, <2>2 DEF Before
<1>5. ASSUME NEW q \in Repos, started >= Cutoff PROVE Before(q)' = Before(q)
  <2>1. ASSUME NEW n \in Before(q) PROVE n \in Before(q)'
    BY <1>2 DEF Before
  <2>2. ASSUME NEW n \in Before(q)' PROVE n \in Before(q)
    <3>1. n \in DOMAIN pushed'[q] /\ pushed'[q][n] < Cutoff
      BY DEF Before
    <3>2. n \in DOMAIN pushed[q]
      BY <1>1, <1>2, <1>5, <3>1
    <3> QED BY <1>2, <3>1, <3>2 DEF Before
  <2> QED BY <2>1, <2>2
<1>6. ASSUME NEW q \in Repos, worker_done[q] PROVE NotOlder(q)' /\ IsExact(q)'
  <2>1. NotOlder(q) /\ IsExact(q)
    BY <1>6 DEF Searched
  <2>2. NotOlder(q)'
    BY <1>4, <2>1 DEF NotOlder, found
  <2>3. IsExact(q)'
    <3> SUFFICES ASSUME ~MayMiss, {"latest", "page"} \cap Faults = {}, started >= Cutoff,
                        q \notin moved,
                        NEW m \in Before(q)', \A n \in Before(q)' : n <= m
                 PROVE  out_hash[q] = m /\ out_push_time[q] = pushed'[q][m]
      BY DEF IsExact, found
    <3>1. Before(q)' = Before(q) /\ m \in DOMAIN pushed[q]
      BY <1>5 DEF Before
    <3> QED BY <1>2, <2>1, <3>1 DEF IsExact
  <2> QED BY <2>2, <2>3
<1>7. ASSUME NEW q \in Repos, ~worker_done[q] PROVE Searching(q)'
  <2>1. Searching(q) /\ Read(q)' = Read(q) /\ Read(q) \in Nat
    <3>1. Read(q) \in Nat
      <4>1. page \in Nat \ {0} /\ PageSize \in Nat
        BY <1>t, CountsArePos DEF TypeOK
      <4>2. (page - 1) * PageSize \in Nat /\ page * PageSize \in Nat
        BY <4>1, PageStart
      <4> QED BY <4>2 DEF Read
    <3>2. Read(q)' = Read(q)
      BY DEF Read, round, Batch
    <3> QED BY <1>7, <3>1, <3>2 DEF Searched
  <2>2. ASSUME NEW i \in DOMAIN events'[q], i <= Read(q)
        PROVE  q \notin moved =>
               /\ Stops(events'[q][i]) => events'[q][i].time >= started
               /\ IsPush(events'[q][i]) /\ events'[q][i].commit <= Latest(q) =>
                    events'[q][i].time <= latest_push_times[q]
    <3>1. CASE events'[q] = events[q]
      BY <2>1, <2>2, <3>1 DEF Searching
    <3>2. ASSUME NEW e \in Event, Reported(r, e), e.time = now,
                 IsPush(e) => e.commit = Len(pushed[r]) + 1, q = r
          PROVE  r \notin moved =>
                 /\ Stops(events'[r][i]) => events'[r][i].time >= started
                 /\ IsPush(events'[r][i]) /\ events'[r][i].commit <= Latest(r) =>
                      events'[r][i].time <= latest_push_times[r]
      <4>1. \/ i = 1 /\ events'[r][i] = e
            \/ /\ i > 1 /\ i \in Nat /\ i - 1 \in DOMAIN events[r]
               /\ events'[r][i] = events[r][i - 1]
        <5>1. i \in DOMAIN events'[r]
          BY <3>2
        <5>2. \A j \in DOMAIN events'[r] :
                \/ j = 1 /\ events'[r][j] = e
                \/ /\ j > 1 /\ j \in Nat /\ j - 1 \in DOMAIN events[r]
                   /\ events'[r][j] = events[r][j - 1]
          <6>1. Reported(r, e)
            BY <3>2
          <6> QED BY <1>t, <6>1, Prepended
        <5> QED BY <5>1, <5>2
      <4>2. CASE i = 1 /\ events'[r][i] = e
        <5>1. IsPush(e) => ~(e.commit <= Latest(r))
          <6>1. Latest(r) = NoHash \/ Latest(r) \in 0..Len(pushed[r])
            BY DEF Resorts
          <6>2. Len(pushed[r]) \in Nat
            BY <1>t, PushTimes
          <6> QED BY <3>2, <6>1, <6>2 DEF NoHash
        <5> QED BY <1>1, <3>2, <4>2, <5>1
      <4>3. CASE i > 1 /\ i \in Nat /\ i - 1 \in DOMAIN events[r] /\ events'[r][i] = events[r][i - 1]
        <5>1. i - 1 <= Read(r)
          BY <2>1, <2>2, <3>2, <4>3
        <5> QED BY <2>1, <3>2, <4>3, <5>1 DEF Searching
      <4> QED BY <4>1, <4>2, <4>3
    <3>3. ASSUME NEW e \in Event, Reported(r, e), q # r PROVE events'[q] = events[q]
      BY <1>t, <3>3, Prepended
    <3> QED BY <3>1, <3>2, <3>3
  <2> QED BY <2>1, <2>2 DEF Searching, Latest, found, resort
<1> QED BY <1>6, <1>7 DEF Searched, round

LEMMA SearchedStep == Inv /\ [Next]_vars /\ Typed' /\ World' /\ Batches' => Searched'
<1> SUFFICES ASSUME Inv, [Next]_vars, Typed', World', Batches' PROVE Searched'
  OBVIOUS
<1>t. TypeOK /\ TypeOK' /\ Typed /\ World /\ Resorts /\ Known /\ Batches /\ Searched
  BY DEF Inv, Typed
<1>p. phase \in {"idle", "created", "latest", "pages", "done"} /\ page \in Nat \ {0}
  BY <1>t DEF TypeOK
<1>1. CASE phase' \in {"idle", "created", "latest"}
  <2>1. \A r \in Repos : /\ ~worker_done'[r] /\ out_push_time'[r] = 0 /\ latest_push_times'[r] = 0
                         /\ Read(r)' = 0
    BY <1>1 DEF Batches, Read
  <2> QED BY <1>t, <2>1, FreshSearch
<1>2. CASE NextLatestBatch /\ phase' = "pages"
  <2>1. phase = "latest" /\ UNCHANGED <<page, worker_done, found>> /\ answered' = {}
    BY <1>2 DEF NextLatestBatch
  <2>2. \A r \in Repos : ~worker_done[r] /\ out_push_time[r] = 0 /\ latest_push_times[r] = 0
    BY <1>t, <2>1 DEF Batches
  <2>3. page = 1 /\ (1 - 1) * PageSize = 0
    BY <1>t, <2>1, CountsArePos DEF Batches
  <2>4. \A r \in Repos : Read(r)' = 0
    BY <2>1, <2>3 DEF Read
  <2> QED BY <1>t, <2>1, <2>2, <2>4, FreshSearch DEF found
<1>3. CASE Tick
  BY <1>t, <1>3, SearchedKept DEF Tick, round, Read, Batch
<1>m. ASSUME NEW r \in Repos, Move(r) PROVE Searched'
  BY <1>t, <1>m, SearchedKept DEF Move, round, Read, Batch
<1>4. CASE UNCHANGED vars
  BY <1>t, <1>4, SearchedKept DEF vars, github, round, Read, Batch
<1>5. ASSUME NEW r \in Repos, Push(r), phase = "pages" PROVE Searched'
  <2>1. /\ UNCHANGED <<now, moved, phase, started, round, found, resort>>
        /\ pushed' = [pushed EXCEPT ![r] = Append(@, now)]
        /\ Len(pushed[r]) < MaxEvents
    BY <1>5 DEF Push
  <2> DEFINE e == [kind |-> "push", time |-> now, commit |-> Len(pushed[r]) + 1]
  <2>2. e \in Event /\ e.time = now /\ e.commit = Len(pushed[r]) + 1
    <3>1. Len(pushed[r]) + 1 \in 0..MaxEvents
      BY <1>t, <2>1, BoundsAreNat, PushTimes
    <3> QED BY <1>t, <3>1, NewEvent
  <2>3. UNCHANGED events \/ Reported(r, e)
    BY <1>5 DEF Push, Report, Reported
  <2> HIDE DEF e
  <2> QED BY <1>t, <1>5, <2>1, <2>2, <2>3, SearchedEvent
<1>6. ASSUME NEW r \in Repos, OtherEvent(r), phase = "pages" PROVE Searched'
  <2>1. UNCHANGED <<now, moved, phase, started, round, found, resort, pushed>>
    BY <1>6 DEF OtherEvent
  <2> DEFINE e == [kind |-> "other", time |-> now, commit |-> 0]
  <2>2. e \in Event /\ e.time = now /\ ~IsPush(e)
    BY <1>t, NewEvent, BoundsAreNat DEF IsPush
  <2>3. Reported(r, e)
    BY <1>6 DEF OtherEvent, Reported
  <2> HIDE DEF e
  <2> QED BY <1>t, <1>6, <2>1, <2>2, <2>3, SearchedEvent
<1>7. ASSUME NEW r \in Repos, EventPage(r) PROVE Searched'
  BY <1>t, <1>7, SearchedPage
<1>8. CASE NextPage
  <2>1. /\ phase = "pages" /\ phase' = "pages" /\ at' = at /\ answered' = {} /\ page' = page + 1
        /\ UNCHANGED <<github, started, worker_done, found, resort>>
        /\ \A r \in Batch : r \in answered \/ worker_done[r]
    BY <1>8 DEF NextPage
  <2>2. (page + 1) - 1 = page
    BY <1>p
  <2>3. ASSUME NEW r \in Repos, ~worker_done[r] PROVE Read(r)' = Read(r)
    BY <2>1, <2>2, <2>3 DEF Read, Batch
  <2> QED BY <1>t, <2>1, <2>3, SearchedKept DEF github
<1>9. CASE NextPageBatch
  <2>1. /\ phase = "pages" /\ phase' \in {"pages", "done"} /\ answered' = {} /\ page' = 1
        /\ UNCHANGED <<github, started, worker_done, found, resort>>
        /\ \A r \in Batch : worker_done[r]
    BY <1>9 DEF NextPageBatch
  <2>2. (1 - 1) * PageSize = 0
    BY CountsArePos
  <2>3. ASSUME NEW r \in Repos, ~worker_done[r] PROVE Read(r)' = Read(r)
    BY <2>1, <2>2, <2>3 DEF Read
  <2> QED BY <1>t, <2>1, <2>3, SearchedKept DEF github
<1>10. CASE \/ Start \/ RetrieveCreationTimes \/ \E r \in Repos : CreateRepo(r) \/ LatestCommit(r)
  <2>1. phase' \in {"idle", "created", "latest"}
    BY <1>10 DEF Start, RetrieveCreationTimes, CreateRepo, LatestCommit
  <2> QED BY <1>1, <2>1
<1>11. CASE NextLatestBatch
  BY <1>1, <1>2, <1>11 DEF NextLatestBatch
<1>12. ASSUME NEW r \in Repos, Push(r) \/ OtherEvent(r) PROVE Searched'
  <2>1. phase' = phase /\ phase # "done"
    BY <1>12 DEF Push, OtherEvent
  <2> QED BY <1>1, <1>p, <1>5, <1>6, <1>12, <2>1
<1> QED BY <1>3, <1>4, <1>m, <1>7, <1>8, <1>9, <1>10, <1>11, <1>12 DEF Next, Student, Program

-----------------------------------------------------------------------------
(* The theorems.                                                           *)

LEMMA Invariance == Spec => []Inv
<1>1. Init => Inv
  BY InitTyped, InitWorld, InitRest DEF Inv
<1>2. Inv /\ [Next]_vars => Inv'
  BY TypedStep, WorldStep, ResortsStep, KnownStep, BatchesStep, DatedStep, SearchedStep DEF Inv
<1> QED BY <1>1, <1>2, PTL DEF Spec

\* A submission of a repository that existed before the cutoff is dated before the
\* cutoff, whatever GitHub leaves out and whichever responses are lost: every way
\* of dating it takes an event before the cutoff or the creation.
THEOREM SubmissionsDated == Spec => []DatedBeforeCutoff
<1>1. Inv => DatedBeforeCutoff
  BY DEF Inv, Dated, DatedBeforeCutoff
<1> QED BY <1>1, Invariance, PTL

\* A collection after the cutoff never dates a commit later than it was pushed,
\* whatever GitHub leaves out and whichever responses are lost.
THEOREM NobodyOvercharged == Spec => []NeverOvercharged
<1>1. Inv => NeverOvercharged
  BY DEF Inv, Dated, NeverOvercharged
<1> QED BY <1>1, Invariance, PTL

\* As long as GitHub reports every push and answers which commit is the latest, the
\* graded commit is no older than the last push before the cutoff that was there
\* when the command began, also if creation times or pages of events are lost.
THEOREM NeverOlderThanStart ==
  ASSUME ~MayMiss, "latest" \notin Faults
  PROVE  Spec => []NotOlderThanStart
<1>1. Inv => NotOlderThanStart
  <2> SUFFICES ASSUME Inv, phase = "done", NEW r \in Repos \ moved, NEW n \in Before(r),
                      pushed[r][n] < started
               PROVE  out_hash[r] >= n
    BY DEF NotOlderThanStart
  <2>1. worker_done[r]
    BY DEF Inv, Batches
  <2> QED BY <2>1 DEF Inv, Searched, NotOlder
<1> QED BY <1>1, Invariance, PTL

LEMMA MaxFact ==
  ASSUME NEW N \in Nat, NEW S \in SUBSET (0..N), S # {}
  PROVE  Max(S) \in S /\ \A y \in S : y <= Max(S)
<1> DEFINE D == {N - x : x \in S}
<1>1. D \in SUBSET Nat /\ D # {}
  <2>1. \A x \in S : x \in 0..N /\ N - x \in Nat
    OBVIOUS
  <2>2. PICK x \in S : TRUE
    OBVIOUS
  <2>3. N - x \in D
    OBVIOUS
  <2> QED BY <2>1, <2>3
<1>2. PICK d \in D : \A y \in D : d <= y
  BY <1>1, NatMin
<1>3. PICK x \in S : d = N - x
  OBVIOUS
<1>4. \A y \in S : y <= x
  <2> SUFFICES ASSUME NEW y \in S PROVE y <= x
    OBVIOUS
  <2>1. N - x <= N - y
    BY <1>2, <1>3
  <2> QED BY <2>1
<1> QED BY <1>4 DEF Max

\* As long as GitHub reports every push, answers which commit is the latest and
\* every page of events, a collection after the cutoff grades the last commit
\* pushed before the cutoff, dated when it was pushed: however many repositories,
\* batches, pages and pushes meanwhile there are.
THEOREM ExactWhenCollectedLate ==
  ASSUME ~MayMiss, {"latest", "page"} \cap Faults = {}
  PROVE  Spec => []ExactAfterCutoff
<1>1. Inv => ExactAfterCutoff
  <2> SUFFICES ASSUME Inv, phase = "done", started >= Cutoff, NEW r \in Repos \ moved,
                      LastBefore(r) > 0
               PROVE  /\ out_hash[r] = LastBefore(r)
                      /\ out_push_time[r] = PushTime(r, LastBefore(r))
    BY DEF ExactAfterCutoff
  <2>t. TypeOK
    BY DEF Inv, Typed
  <2>1. worker_done[r]
    BY DEF Inv, Batches
  <2>2. IsExact(r)
    BY <2>1 DEF Inv, Searched
  <2>3. Len(pushed[r]) \in Nat /\ Before(r) \subseteq 1..Len(pushed[r])
    BY <2>t, PushTimes DEF Before
  <2>4. {0} \cup Before(r) \in SUBSET (0..Len(pushed[r]))
    BY <2>3
  <2>5. LastBefore(r) \in {0} \cup Before(r) /\ \A n \in {0} \cup Before(r) : n <= LastBefore(r)
    BY <2>3, <2>4, MaxFact DEF LastBefore
  <2>6. LastBefore(r) \in Before(r) /\ LastBefore(r) # 0
    BY <2>5
  <2> QED BY <2>2, <2>5, <2>6 DEF IsExact, PushTime
<1> QED BY <1>1, Invariance, PTL

=============================================================================
