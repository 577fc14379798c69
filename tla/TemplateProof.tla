--------------------------- MODULE TemplateProof ---------------------------
(***************************************************************************)
(* Proofs about Template, for every template, every number of students and *)
(* all files without braces and dollars: both stages together do what each *)
(* piece says.  Last, the composition MCText.                              *)
(***************************************************************************)
EXTENDS MCText, ConfigProof, SequenceTheorems

\* What a text is made of: the words of pieces and files, and the cells.
PieceWords == {"text", "$$", "$", "${", "./file", "label", "}"}
Words      == PieceWords \cup PlainWord \cup {Cells[r] : r \in Rows}

Join(u, v) == u \o v

\* The first n parts of p one behind the other.
Sofar(p, n) == FlattenSeq([m \in 1..n |-> p[m]])

-----------------------------------------------------------------------------
(* Sequences.                                                              *)

LEMMA Joined ==
  ASSUME NEW u \in Seq(Words), NEW v \in Seq(Words),
         NEW a \in Nat, NEW b \in Nat, Len(u) = a, Len(v) = b
  PROVE  /\ Join(u, v) \in Seq(Words) /\ Len(Join(u, v)) = a + b
         /\ \A k \in 1..a : Join(u, v)[k] = u[k]
         /\ \A k \in 1..b : Join(u, v)[a + k] = v[k]
<1>1. /\ Join(u, v) \in Seq(Words) /\ Len(Join(u, v)) = Len(u) + Len(v)
      /\ \A k \in 1..Len(u) + Len(v) : Join(u, v)[k] = IF k <= Len(u) THEN u[k] ELSE v[k - Len(u)]
  BY ConcatProperties DEF Join
<1>2. ASSUME NEW k \in 1..a
      PROVE  Join(u, v)[k] = u[k]
  <2>1. k \in 1..a + b /\ k <= a
    OBVIOUS
  <2> QED BY <1>1, <2>1
<1>3. ASSUME NEW k \in 1..b
      PROVE  Join(u, v)[a + k] = v[k]
  <2>1. a + k \in 1..a + b /\ ~(a + k <= a) /\ (a + k) - a = k
    OBVIOUS
  <2> QED BY <1>1, <2>1
<1> QED BY <1>1, <1>2, <1>3

LEMMA JoinNothing == \A u \in Seq(Words) : Join(u, <<>>) = u
BY ConcatEmptySeq DEF Join

-----------------------------------------------------------------------------
(* FlattenSeq is defined by recursion: what it returns for a sequence and  *)
(* one element more is that element behind what it returns without.        *)

\* f adds up the parts of p.
Adds(f, p, n) == f = [k \in 1..n |-> IF k = 1 THEN p[k] ELSE f[k - 1] \o p[k]]

\* There is such a function, for every number of parts.
LEMMA AddsExists ==
  ASSUME NEW n \in Nat, NEW p \in [1..n -> Seq(Words)]
  PROVE  \E f \in [1..n -> Seq(Words)] : Adds(f, p, n)
<1> DEFINE Bad == {k \in Nat : k <= n /\ ~\E f \in [1..k -> Seq(Words)] : Adds(f, p, k)}
<1> SUFFICES ASSUME Bad # {} PROVE FALSE
  OBVIOUS
<1>1. PICK b \in Bad : \A k \in Bad : b <= k
  <2>1. Bad \in SUBSET Nat
    OBVIOUS
  <2> HIDE DEF Bad
  <2> QED BY <2>1, NatMin
<1>2. CASE b = 0
  <2> DEFINE f == [k \in 1..0 |-> p[k]]
  <2>1. f \in [1..0 -> Seq(Words)] /\ Adds(f, p, 0)
    BY DEF Adds
  <2> HIDE DEF f
  <2> QED BY <1>2, <2>1
<1>3. CASE b # 0
  <2>1. PICK d \in Nat : b = d + 1 /\ d < n
    BY <1>3
  <2>2. PICK f \in [1..d -> Seq(Words)] : Adds(f, p, d)
    <3>1. d \notin Bad
      BY <1>1, <2>1
    <3> QED BY <2>1, <3>1
  <2> DEFINE g == [k \in 1..b |-> IF k = b THEN IF b = 1 THEN p[b] ELSE f[d] \o p[b] ELSE f[k]]
  <2>3. g \in [1..b -> Seq(Words)]
    <3>1. p[b] \in Seq(Words)
      BY <2>1
    <3>2. b # 1 => f[d] \in Seq(Words)
      BY <2>1
    <3>3. b # 1 => f[d] \o p[b] \in Seq(Words)
      BY <3>1, <3>2, ConcatProperties
    <3>4. ASSUME NEW k \in 1..b PROVE g[k] \in Seq(Words)
      BY <2>1, <3>1, <3>3
    <3> QED BY <3>4
  <2>4. ASSUME NEW k \in 1..b
        PROVE  g[k] = IF k = 1 THEN p[k] ELSE g[k - 1] \o p[k]
    <3>1. CASE k = b
      BY <2>1, <3>1
    <3>2. CASE k # b
      <4>1. k \in 1..d /\ (k # 1 => k - 1 \in 1..d)
        BY <2>1, <3>2
      <4>2. f[k] = IF k = 1 THEN p[k] ELSE f[k - 1] \o p[k]
        BY <2>2, <4>1 DEF Adds
      <4>3. g[k] = f[k] /\ (k # 1 => g[k - 1] = f[k - 1])
        BY <2>1, <3>2, <4>1
      <4> QED BY <4>2, <4>3
    <3> QED BY <3>1, <3>2
  <2>5. Adds(g, p, b)
    <3> HIDE DEF g
    <3> QED BY <2>3, <2>4 DEF Adds
  <2> HIDE DEF g
  <2> QED BY <2>3, <2>5
<1> QED BY <1>2, <1>3

\* It is the only one, and the same for fewer parts.
LEMMA AddsAgree ==
  ASSUME NEW n \in Nat, NEW m \in Nat, n <= m, NEW p, NEW f, NEW g, Adds(f, p, n), Adds(g, p, m)
  PROVE  \A k \in 1..n : f[k] = g[k]
<1> DEFINE Bad == {k \in 1..n : f[k] # g[k]}
<1> SUFFICES ASSUME Bad # {} PROVE FALSE
  OBVIOUS
<1>1. PICK b \in Bad : \A k \in Bad : b <= k
  <2>1. Bad \in SUBSET Nat
    OBVIOUS
  <2> HIDE DEF Bad
  <2> QED BY <2>1, NatMin
<1>2. f[b] = IF b = 1 THEN p[b] ELSE f[b - 1] \o p[b]
  BY DEF Adds
<1>3. g[b] = IF b = 1 THEN p[b] ELSE g[b - 1] \o p[b]
  <2>1. b \in 1..m
    OBVIOUS
  <2> QED BY <2>1 DEF Adds
<1>4. b # 1 => f[b - 1] = g[b - 1]
  <2>1. b # 1 => b - 1 \in 1..n /\ ~(b <= b - 1)
    OBVIOUS
  <2> QED BY <1>1, <2>1
<1> QED BY <1>2, <1>3, <1>4

\* The recursion inside FlattenSeq is this function.
LEMMA FlattenAdds ==
  ASSUME NEW n \in Nat \ {0}, NEW p, p = [k \in 1..n |-> p[k]], Len(p) = n,
         NEW g, Adds(g, p, n)
  PROVE  FlattenSeq(p) = g[n]
<1> DEFINE f == CHOOSE f : f = [k \in 1..Len(p) |-> IF k = 1 THEN p[k] ELSE f[k - 1] \o p[k]]
<1>1. FlattenSeq(p) = f[n]
  BY DEF FlattenSeq
<1>2. Adds(f, p, n)
  <2>1. \E e : e = [k \in 1..n |-> IF k = 1 THEN p[k] ELSE e[k - 1] \o p[k]]
    BY DEF Adds
  <2> QED BY <2>1 DEF Adds
<1> HIDE DEF f
<1>3. f[n] = g[n]
  BY <1>2, AddsAgree
<1> QED BY <1>1, <1>3

LEMMA SofarFacts ==
  ASSUME NEW n \in Nat, NEW p \in [1..n -> Seq(Words)]
  PROVE  /\ Sofar(p, 0) = <<>>
         /\ \A m \in 0..n : Sofar(p, m) \in Seq(Words)
         /\ \A m \in 0..n - 1 : Sofar(p, m + 1) = Join(Sofar(p, m), p[m + 1])
<1>1. PICK g \in [1..n -> Seq(Words)] : Adds(g, p, n)
  BY AddsExists
<1>2. Sofar(p, 0) = <<>>
  <2>1. [m \in 1..0 |-> p[m]] = <<>> /\ Len(<<>>) = 0
    OBVIOUS
  <2> QED BY <2>1 DEF Sofar, FlattenSeq
<1>3. ASSUME NEW m \in 1..n
      PROVE  Sofar(p, m) = g[m]
  <2> DEFINE q == [k \in 1..m |-> p[k]]
  <2>1. m \in Nat \ {0} /\ q = [k \in 1..m |-> q[k]]
    OBVIOUS
  <2>2. Len(q) = m
    <3>1. q \in [1..m -> Seq(Words)] /\ q \in Seq(Seq(Words))
      BY <2>1
    <3> QED BY <2>1, <3>1, LenProperties
  <2>3. PICK h \in [1..m -> Seq(Words)] : Adds(h, q, m)
    <3>1. q \in [1..m -> Seq(Words)]
      OBVIOUS
    <3> HIDE DEF q
    <3> QED BY <2>1, <3>1, AddsExists
  <2>4. Adds(h, p, m)
    BY <2>3 DEF Adds
  <2>5. FlattenSeq(q) = h[m]
    <3> HIDE DEF q
    <3> QED BY <2>1, <2>2, <2>3, FlattenAdds
  <2>6. h[m] = g[m]
    <3>1. m \in Nat /\ m <= n /\ m \in 1..m
      OBVIOUS
    <3> QED BY <1>1, <2>4, <3>1, AddsAgree
  <2> QED BY <2>5, <2>6 DEF Sofar
<1>4. ASSUME NEW m \in 0..n - 1
      PROVE  Sofar(p, m + 1) = Join(Sofar(p, m), p[m + 1])
  <2>1. PICK b \in 1..n : b = m + 1
    OBVIOUS
  <2>2. Sofar(p, b) = IF b = 1 THEN p[b] ELSE g[b - 1] \o p[b]
    BY <1>1, <1>3 DEF Adds
  <2>3. CASE m = 0
    <3>1. p[b] \in Seq(Words) /\ Sofar(p, b) = p[b]
      BY <2>1, <2>2, <2>3
    <3>2. <<>> \o p[b] = p[b]
      BY <3>1, ConcatEmptySeq
    <3> QED BY <1>2, <2>1, <2>3, <3>1, <3>2 DEF Join
  <2>4. CASE m # 0
    <3>1. b # 1 /\ b - 1 = m /\ m \in 1..n
      BY <2>1, <2>4
    <3>2. Sofar(p, b) = g[m] \o p[b]
      BY <2>2, <3>1
    <3>3. Sofar(p, m) = g[m]
      BY <1>3, <3>1
    <3> QED BY <2>1, <3>2, <3>3 DEF Join
  <2> QED BY <2>3, <2>4
<1>5. ASSUME NEW m \in 0..n PROVE Sofar(p, m) \in Seq(Words)
  <2>1. m = 0 \/ m \in 1..n
    OBVIOUS
  <2> QED BY <1>2, <1>3, <2>1, EmptySeq
<1> QED BY <1>2, <1>4, <1>5

-----------------------------------------------------------------------------
(* Where the parts lie.                                                    *)

\* Places before the n-th part's end.
Upto(p, n) == Len(Sofar(p, n))

\* A part more leaves what is there and adds its own length.
LEMMA PartAdded ==
  ASSUME NEW n \in Nat, NEW p \in [1..n -> Seq(Words)], NEW m \in 0..n - 1
  PROVE  /\ Upto(p, m + 1) = Upto(p, m) + Len(p[m + 1])
         /\ Upto(p, m) \in Nat /\ Len(p[m + 1]) \in Nat
         /\ \A k \in 1..Upto(p, m) : Sofar(p, m + 1)[k] = Sofar(p, m)[k]
         /\ \A k \in 1..Len(p[m + 1]) : Sofar(p, m + 1)[Upto(p, m) + k] = p[m + 1][k]
<1>1. PICK u \in Seq(Words) : u = Sofar(p, m)
  <2>1. m \in 0..n
    OBVIOUS
  <2> QED BY <2>1, SofarFacts
<1>2. PICK v \in Seq(Words) : v = p[m + 1]
  OBVIOUS
<1>3. Sofar(p, m + 1) = Join(u, v)
  BY <1>1, <1>2, SofarFacts
<1>4. PICK a \in Nat : a = Len(u)
  OBVIOUS
<1>5. PICK b \in Nat : b = Len(v)
  OBVIOUS
<1>6. /\ Len(Join(u, v)) = a + b
      /\ \A k \in 1..a : Join(u, v)[k] = u[k]
      /\ \A k \in 1..b : Join(u, v)[a + k] = v[k]
  <2>1. /\ Len(Join(u, v)) = Len(u) + Len(v)
        /\ \A k \in 1..Len(u) : Join(u, v)[k] = u[k]
        /\ \A k \in 1..Len(v) : Join(u, v)[Len(u) + k] = v[k]
    BY Joined
  <2> QED BY <1>4, <1>5, <2>1
<1> QED BY <1>1, <1>2, <1>3, <1>4, <1>5, <1>6 DEF Upto

\* More parts leave what is there.
LEMMA PartsAdded ==
  ASSUME NEW n \in Nat, NEW p \in [1..n -> Seq(Words)], NEW a \in 0..n, NEW b \in a..n
  PROVE  /\ Upto(p, a) <= Upto(p, b) /\ Upto(p, a) \in Nat /\ Upto(p, b) \in Nat
         /\ \A k \in 1..Upto(p, a) : Sofar(p, b)[k] = Sofar(p, a)[k]
<1> DEFINE Good(m) == /\ Upto(p, a) <= Upto(p, m)
                      /\ \A k \in 1..Upto(p, a) : Sofar(p, m)[k] = Sofar(p, a)[k]
           Bad == {m \in a..n : ~Good(m)}
<1>1. \A m \in 0..n : Upto(p, m) \in Nat
  <2>1. \A m \in 0..n : Sofar(p, m) \in Seq(Words)
    BY SofarFacts
  <2> QED BY <2>1, LenProperties DEF Upto
<1>2. Good(a)
  BY <1>1
<1>3. ASSUME NEW m \in a..n - 1, Good(m)
      PROVE  Good(m + 1)
  <2>1. m \in 0..n - 1 /\ m \in 0..n /\ m + 1 \in 0..n
    OBVIOUS
  <2>2. /\ Upto(p, m + 1) = Upto(p, m) + Len(p[m + 1])
        /\ Upto(p, m) \in Nat /\ Len(p[m + 1]) \in Nat
        /\ \A k \in 1..Upto(p, m) : Sofar(p, m + 1)[k] = Sofar(p, m)[k]
    BY <2>1, PartAdded
  <2>3. Upto(p, a) \in Nat /\ Upto(p, a) <= Upto(p, m)
    BY <1>1, <1>3
  <2>4. Upto(p, a) <= Upto(p, m + 1)
    BY <2>2, <2>3
  <2>5. ASSUME NEW k \in 1..Upto(p, a)
        PROVE  Sofar(p, m + 1)[k] = Sofar(p, a)[k]
    <3>1. k \in 1..Upto(p, m)
      BY <2>2, <2>3
    <3> QED BY <1>3, <2>2, <3>1
  <2> QED BY <2>4, <2>5
<1>4. ASSUME Bad # {} PROVE FALSE
  <2>1. PICK d \in Bad : \A m \in Bad : d <= m
    <3>1. Bad \in SUBSET Nat
      OBVIOUS
    <3> HIDE DEF Bad
    <3> QED BY <1>4, <3>1, NatMin
  <2>2. d \in a..n /\ ~Good(d)
    OBVIOUS
  <2> HIDE DEF Good
  <2>3. d # a
    BY <1>2, <2>2
  <2>4. PICK m \in a..n - 1 : d = m + 1
    BY <2>2, <2>3
  <2>5. m \notin Bad
    BY <2>1, <2>4
  <2>6. Good(m)
    BY <2>5
  <2> QED BY <1>3, <2>2, <2>4, <2>6
<1>5. Good(b)
  <2> HIDE DEF Good
  <2> QED BY <1>4
<1>6. a \in 0..n /\ b \in 0..n
  OBVIOUS
<1> QED BY <1>1, <1>5, <1>6

\* Each part lies where the parts before it end.
LEMMA PartLies ==
  ASSUME NEW n \in Nat, NEW p \in [1..n -> Seq(Words)], NEW m \in 0..n - 1,
         NEW k \in 1..Len(p[m + 1])
  PROVE  /\ Upto(p, m) + k \in 1..Upto(p, n)
         /\ Sofar(p, n)[Upto(p, m) + k] = p[m + 1][k]
<1>1. /\ Upto(p, m + 1) = Upto(p, m) + Len(p[m + 1])
      /\ Upto(p, m) \in Nat /\ Len(p[m + 1]) \in Nat
      /\ Sofar(p, m + 1)[Upto(p, m) + k] = p[m + 1][k]
  BY PartAdded
<1>2. m + 1 \in 0..n /\ n \in (m + 1)..n
  OBVIOUS
<1>3. /\ Upto(p, m + 1) <= Upto(p, n) /\ Upto(p, n) \in Nat
      /\ \A x \in 1..Upto(p, m + 1) : Sofar(p, n)[x] = Sofar(p, m + 1)[x]
  BY <1>2, PartsAdded
<1>4. Upto(p, m) + k \in 1..Upto(p, m + 1) /\ Upto(p, m) + k \in 1..Upto(p, n)
  BY <1>1, <1>3
<1> QED BY <1>1, <1>3, <1>4

\* Every place lies in a part.
LEMMA PartAt ==
  ASSUME NEW n \in Nat, NEW p \in [1..n -> Seq(Words)], NEW x \in 1..Upto(p, n)
  PROVE  \E m \in 0..n - 1 : \E k \in 1..Len(p[m + 1]) : x = Upto(p, m) + k
<1> DEFINE Behind == {m \in 0..n : x <= Upto(p, m)}
<1>0. n \in 0..n /\ 0 \in 0..n /\ Upto(p, n) \in Nat
  <2>1. n \in 0..n /\ 0 \in 0..n /\ n \in n..n
    OBVIOUS
  <2> QED BY <2>1, PartsAdded
<1>1. PICK b \in Behind : \A m \in Behind : b <= m
  <2>1. Behind \in SUBSET Nat /\ n \in Behind
    BY <1>0
  <2> HIDE DEF Behind
  <2> QED BY <2>1, NatMin
<1>2. b # 0
  <2>1. Upto(p, 0) = 0
    BY SofarFacts DEF Upto
  <2> QED BY <2>1
<1>3. PICK m \in 0..n - 1 : b = m + 1
  BY <1>2
<1>4. /\ Upto(p, m + 1) = Upto(p, m) + Len(p[m + 1])
      /\ Upto(p, m) \in Nat /\ Len(p[m + 1]) \in Nat
  BY PartAdded
<1>5. ~(x <= Upto(p, m))
  <2>1. m \notin Behind
    BY <1>1, <1>3
  <2> QED BY <2>1
<1>6. x <= Upto(p, m) + Len(p[m + 1])
  BY <1>1, <1>3, <1>4
<1>7. x - Upto(p, m) \in 1..Len(p[m + 1]) /\ x = Upto(p, m) + (x - Upto(p, m))
  BY <1>0, <1>4, <1>5, <1>6
<1> QED BY <1>7

\* Where nothing is added, the parts are empty.
LEMMA NothingBetween ==
  ASSUME NEW n \in Nat, NEW p \in [1..n -> Seq(Words)], NEW a \in 0..n, NEW b \in a..n,
         Upto(p, a) = Upto(p, b), NEW m \in a..b - 1
  PROVE  Len(p[m + 1]) = 0
<1>1. m \in 0..n - 1 /\ m \in 0..n /\ m \in a..n /\ m + 1 \in 0..n /\ b \in (m + 1)..n
  OBVIOUS
<1>2. Upto(p, a) <= Upto(p, m) /\ Upto(p, a) \in Nat
  BY <1>1, PartsAdded
<1>3. Upto(p, m + 1) <= Upto(p, b)
  BY <1>1, PartsAdded
<1>4. /\ Upto(p, m + 1) = Upto(p, m) + Len(p[m + 1])
      /\ Upto(p, m) \in Nat /\ Len(p[m + 1]) \in Nat
  BY <1>1, PartAdded
<1> QED BY <1>2, <1>3, <1>4

\* Empty parts add nothing.
LEMMA NothingAdded ==
  ASSUME NEW n \in Nat, NEW p \in [1..n -> Seq(Words)], NEW a \in 0..n, NEW b \in a..n,
         \A m \in a..b - 1 : p[m + 1] = <<>>
  PROVE  Sofar(p, b) = Sofar(p, a)
<1> DEFINE Bad == {m \in a..b : Sofar(p, m) # Sofar(p, a)}
<1> SUFFICES ASSUME Bad # {} PROVE FALSE
  OBVIOUS
<1>1. PICK d \in Bad : \A m \in Bad : d <= m
  <2>1. Bad \in SUBSET Nat
    OBVIOUS
  <2> HIDE DEF Bad
  <2> QED BY <2>1, NatMin
<1>2. PICK m \in a..b - 1 : d = m + 1
  OBVIOUS
<1>3. Sofar(p, m) = Sofar(p, a)
  <2>1. m \notin Bad /\ m \in a..b
    BY <1>1, <1>2
  <2> QED BY <2>1
<1>4. m \in 0..n - 1 /\ m \in 0..n
  OBVIOUS
<1>5. Sofar(p, m + 1) = Join(Sofar(p, m), <<>>) /\ Sofar(p, m) \in Seq(Words)
  BY <1>4, SofarFacts
<1>6. Sofar(p, m + 1) = Sofar(p, m)
  BY <1>5, JoinNothing
<1> QED BY <1>2, <1>3, <1>6

-----------------------------------------------------------------------------
(* How far the texts are.                                                  *)

\* What each stage makes of a piece.
First(kind, row) ==
  CASE kind = "file"    -> file[row]
    [] kind = "missing" -> <<>>
    [] OTHER            -> Piece(kind)

Second(kind, row) == IF kind = "unknown" THEN <<>> ELSE Expansion(kind, row)

Count         == Len(kinds)
Pieces        == [n \in 1..Count |-> Piece(kinds[n])]
Reported(row) == [n \in 1..Count |-> First(kinds[n], row)]
Issued(row)   == [n \in 1..Count |-> Second(kinds[n], row)]

\* What the stage reads, what it is to write and what it has written for the row.
Source == IF stage = "files" THEN Pieces ELSE Reported(y)
Target == IF stage = "files" THEN Reported(y) ELSE Issued(y)
Out    == IF stage = "files" THEN reports[y] ELSE issues[y]

\* n parts of p are read and k words of the next: nothing of it is written before
\* its last word, unless it is the content of a file; up to then depth and
\* identifier tell where in the part the place is.
PlaceIn(p, q, out, n, k) ==
  /\ i = Upto(p, n) + k + 1
  /\ k = 0 => depth = 0 /\ out = Sofar(q, n)
  /\ k > 0 =>
       /\ n < Count /\ k < Len(p[n + 1])
       /\ IF stage = "labels" /\ kinds[n + 1] = "file"
          THEN depth = 0 /\ out = Join(Sofar(q, n), SubSeq(file[y], 1, k))
          ELSE /\ depth = (IF k \in {3, 4} THEN 2 ELSE 1)
               /\ identifier = Upto(p, n) + 2
               /\ out = Sofar(q, n)

\* None of the first n labels is unknown.
Known(n) == \A m \in 1..n : kinds[m] # "unknown"

Given ==
  /\ PlainFiles
  /\ kinds \in Seq(AllKinds)
  /\ template = Sofar(Pieces, Count)
  /\ file \in [Rows -> Contents]
  /\ stage \in {"files", "labels", "done", "abort"}
  /\ y \in 1..RowCount + 1 /\ i \in Nat \ {0}
  /\ depth \in Nat /\ identifier \in Nat
  /\ success \in BOOLEAN
  /\ reports \in [Rows -> Seq(Words)] /\ issues \in [Rows -> Seq(Words)]

Position ==
  Working =>
    /\ y > RowCount => i = 1 /\ depth = 0
    /\ y <= RowCount => \E n \in 0..Count, k \in Nat :
                          /\ PlaceIn(Source, Target, Out, n, k)
                          /\ stage = "labels" /\ y = 1 => success = Known(n)
    /\ stage = "files" => success
    /\ stage = "labels" /\ y > 1 => success = Known(Count)

\* The rows that are through, and those to come.
OtherRows ==
  \A r \in Rows :
    /\ stage # "files" \/ r < y => reports[r] = Sofar(Reported(r), Count)
    /\ stage = "files" /\ r > y => reports[r] = <<>>
    /\ ~Working \/ (stage = "labels" /\ r < y) => issues[r] = Sofar(Issued(r), Count)
    /\ stage = "files" \/ (stage = "labels" /\ r > y) => issues[r] = <<>>

Ended == ~Working => stage = IF Known(Count) THEN "done" ELSE "abort"

TwoStages == Given /\ Position /\ OtherRows /\ Ended

-----------------------------------------------------------------------------
(* Words, pieces and parts.                                                *)

LEMMA WordFacts ==
  /\ PieceWords \subseteq Words
  /\ \A r \in Rows : Cells[r] \in Words
BY DEF Words

LEMMA PlainFacts ==
  ASSUME PlainFiles, NEW s \in Contents
  PROVE  /\ s \in Seq(Words) /\ Len(s) \in Nat
         /\ \A k \in 1..Len(s) : s[k] \in Words /\ s[k] \notin {"$$", "${", "}"}
<1>1. s \in Seq(PlainWord) /\ PlainWord \subseteq Words
  BY DEF PlainFiles, Words
<1>2. s \in Seq(Words)
  BY <1>1, SeqMonotonic
<1>3. \A k \in 1..Len(s) : s[k] \in PlainWord
  BY <1>1
<1>4. Len(s) \in Nat
  BY <1>2, LenProperties
<1>5. \A w \in PlainWord : w \notin {"$$", "${", "}"}
  BY DEF PlainWord
<1>6. \A k \in 1..Len(s) : s[k] \in Words /\ s[k] \notin {"$$", "${", "}"}
  BY <1>1, <1>3, <1>5
<1> QED BY <1>2, <1>4, <1>6

LEMMA PieceFacts ==
  /\ Piece("text") = <<"text">>
  /\ Piece("dollar") = <<"$$">>
  /\ Piece("file") = <<"${", "./file", "}">>
  /\ Piece("missing") = <<"${", "./file", "${", "label", "}", "}">>
  /\ Piece("label") = <<"${", "label", "}">>
  /\ Piece("unknown") = <<"${", "label", "${", "label", "}", "}">>
BY DEF Piece

LEMMA PieceTyped ==
  ASSUME NEW kind \in AllKinds
  PROVE  Piece(kind) \in Seq(Words) /\ Len(Piece(kind)) # 0
<1>1. PICK word \in Words, dollars \in Words, open \in Words, name \in Words,
            label \in Words, close \in Words :
        /\ word = "text" /\ dollars = "$$" /\ open = "${" /\ name = "./file"
        /\ label = "label" /\ close = "}"
  BY WordFacts, Zenon DEF PieceWords
<1>2. \A u \in Words : <<u>> \in Seq(Words) /\ Len(<<u>>) # 0
  OBVIOUS
<1>3. \A u, v, w \in Words : <<u, v, w>> \in Seq(Words) /\ Len(<<u, v, w>>) # 0
  OBVIOUS
<1>4. \A u, v, w, x, z, a \in Words :
        <<u, v, w, x, z, a>> \in Seq(Words) /\ Len(<<u, v, w, x, z, a>>) # 0
  OBVIOUS
<1>5. CASE kind = "text"
  <2>1. Piece(kind) = <<word>>
    BY <1>1, <1>5, PieceFacts
  <2>2. <<word>> \in Seq(Words) /\ Len(<<word>>) # 0
    BY <1>2
  <2> QED BY <2>1, <2>2
<1>6. CASE kind = "dollar"
  <2>1. Piece(kind) = <<dollars>>
    BY <1>1, <1>6, PieceFacts
  <2>2. <<dollars>> \in Seq(Words) /\ Len(<<dollars>>) # 0
    BY <1>2
  <2> QED BY <2>1, <2>2
<1>7. CASE kind = "file"
  <2>1. Piece(kind) = <<open, name, close>>
    BY <1>1, <1>7, PieceFacts
  <2>2. <<open, name, close>> \in Seq(Words) /\ Len(<<open, name, close>>) # 0
    BY <1>3
  <2> QED BY <2>1, <2>2
<1>8. CASE kind = "missing"
  <2>1. Piece(kind) = <<open, name, open, label, close, close>>
    BY <1>1, <1>8, PieceFacts
  <2>2. <<open, name, open, label, close, close>> \in Seq(Words)
        /\ Len(<<open, name, open, label, close, close>>) # 0
    BY <1>4
  <2> QED BY <2>1, <2>2
<1>9. CASE kind = "label"
  <2>1. Piece(kind) = <<open, label, close>>
    BY <1>1, <1>9, PieceFacts
  <2>2. <<open, label, close>> \in Seq(Words) /\ Len(<<open, label, close>>) # 0
    BY <1>3
  <2> QED BY <2>1, <2>2
<1>10. CASE kind = "unknown"
  <2>1. Piece(kind) = <<open, label, open, label, close, close>>
    BY <1>1, <1>10, PieceFacts
  <2>2. <<open, label, open, label, close, close>> \in Seq(Words)
        /\ Len(<<open, label, open, label, close, close>>) # 0
    BY <1>4
  <2> QED BY <2>1, <2>2
<1> QED BY <1>5, <1>6, <1>7, <1>8, <1>9, <1>10 DEF AllKinds

\* What the stages make of the pieces is text.
LEMMA MadeTyped ==
  ASSUME PlainFiles, file \in [Rows -> Contents], NEW row \in Rows, NEW kind \in AllKinds
  PROVE  First(kind, row) \in Seq(Words) /\ Second(kind, row) \in Seq(Words)
<1>1. file[row] \in Seq(Words) /\ <<>> \in Seq(Words) /\ Piece(kind) \in Seq(Words)
  BY PlainFacts, PieceTyped, EmptySeq
<1>2. First(kind, row) \in Seq(Words)
  BY <1>1 DEF First
<1>3. <<"text">> \in Seq(Words) /\ <<"$">> \in Seq(Words) /\ <<Cells[row]>> \in Seq(Words)
  <2>1. Cells[row] \in Words /\ "text" \in Words /\ "$" \in Words
    BY WordFacts DEF PieceWords
  <2> QED BY <2>1
<1>4. Second(kind, row) \in Seq(Words)
  BY <1>1, <1>3 DEF Second, Expansion, AllKinds
<1> QED BY <1>2, <1>4

LEMMA PartTypes ==
  ASSUME Given
  PROVE  /\ Count \in Nat
         /\ Pieces \in [1..Count -> Seq(Words)]
         /\ \A row \in Rows : /\ Reported(row) \in [1..Count -> Seq(Words)]
                              /\ Issued(row) \in [1..Count -> Seq(Words)]
         /\ \A n \in 0..Count - 1 :
              /\ kinds[n + 1] \in AllKinds
              /\ Pieces[n + 1] = Piece(kinds[n + 1])
              /\ \A row \in Rows : /\ Reported(row)[n + 1] = First(kinds[n + 1], row)
                                   /\ Issued(row)[n + 1] = Second(kinds[n + 1], row)
<1>1. Count \in Nat /\ \A n \in 1..Count : kinds[n] \in AllKinds
  BY DEF Given, Count
<1>2. Pieces \in [1..Count -> Seq(Words)]
  BY <1>1, PieceTyped DEF Pieces
<1>3. \A row \in Rows : \A n \in 1..Count :
        First(kinds[n], row) \in Seq(Words) /\ Second(kinds[n], row) \in Seq(Words)
  BY <1>1, MadeTyped DEF Given
<1>4. \A row \in Rows : /\ Reported(row) \in [1..Count -> Seq(Words)]
                        /\ Issued(row) \in [1..Count -> Seq(Words)]
  BY <1>3 DEF Reported, Issued
<1>5. \A n \in 0..Count - 1 : n + 1 \in 1..Count
  BY <1>1
<1>6. \A n \in 1..Count :
        /\ Pieces[n] = Piece(kinds[n])
        /\ \A row \in Rows : /\ Reported(row)[n] = First(kinds[n], row)
                             /\ Issued(row)[n] = Second(kinds[n], row)
  BY DEF Pieces, Reported, Issued
<1> QED BY <1>1, <1>2, <1>4, <1>5, <1>6

\* As long as template and files stay as they are, so does what is to be written.
LEMMA PartsKept ==
  ASSUME UNCHANGED <<kinds, file>>
  PROVE  /\ Count' = Count /\ Pieces' = Pieces
         /\ \A row \in Rows : Reported(row)' = Reported(row) /\ Issued(row)' = Issued(row)
         /\ \A n : Known(n)' = Known(n)
BY DEF Count, Pieces, Reported, Issued, First, Second, Expansion, Known

-----------------------------------------------------------------------------
(* Where a row's reader stands.                                            *)

LEMMA SourceFacts ==
  ASSUME Given, Working, y <= RowCount
  PROVE  /\ y \in Rows
         /\ Source \in [1..Count -> Seq(Words)] /\ Target \in [1..Count -> Seq(Words)]
         /\ Out \in Seq(Words)
         /\ OtherRows => format = Sofar(Source, Count)
<1>1. y \in Rows
  BY RowsAreCounted DEF Given, Rows
<1>2. Source \in [1..Count -> Seq(Words)] /\ Target \in [1..Count -> Seq(Words)]
  BY <1>1, PartTypes DEF Source, Target
<1>3. Out \in Seq(Words)
  BY <1>1 DEF Given, Out
<1>4. OtherRows => format = Sofar(Source, Count)
  BY <1>1 DEF OtherRows, Given, format, Source
<1> QED BY <1>1, <1>2, <1>3, <1>4

\* Of a part that leaves nothing to read nothing is to be written, and no label is
\* missed.
LEMMA EmptyParts ==
  ASSUME Given, Working, y <= RowCount, NEW n \in 0..Count - 1, Len(Source[n + 1]) = 0
  PROVE  Target[n + 1] = <<>> /\ kinds[n + 1] # "unknown"
<1>1. y \in Rows
  BY SourceFacts
<1>2. PICK kind \in AllKinds : kind = kinds[n + 1]
  BY PartTypes
<1>3. Len(Piece(kind)) # 0
  BY PieceTyped
<1>4. /\ Pieces[n + 1] = Piece(kind) /\ Reported(y)[n + 1] = First(kind, y)
      /\ Issued(y)[n + 1] = Second(kind, y)
  BY <1>1, <1>2, PartTypes
<1>5. stage # "files" /\ Len(First(kind, y)) = 0 /\ Target[n + 1] = Second(kind, y)
  BY <1>3, <1>4 DEF Source, Target
<1>6. CASE kind = "file"
  <2>1. file[y] = First(kind, y) /\ Second(kind, y) = file[y]
    BY <1>6 DEF First, Second, Expansion
  <2>2. file[y] \in Seq(Words)
    BY <1>1, PlainFacts DEF Given
  <2>3. file[y] = <<>>
    BY <1>5, <2>1, <2>2, EmptySeq
  <2> QED BY <1>2, <1>5, <1>6, <2>1, <2>3
<1>7. CASE kind = "missing"
  BY <1>2, <1>5, <1>7 DEF Second, Expansion
<1>8. kind \in {"file", "missing"}
  BY <1>3, <1>5 DEF First
<1> QED BY <1>6, <1>7, <1>8

LEMMA Settled ==
  ASSUME Given, Working, y <= RowCount, NEW a \in 0..Count, NEW m \in a..Count,
         Upto(Source, a) = Upto(Source, m)
  PROVE  Sofar(Target, m) = Sofar(Target, a) /\ Known(m) = Known(a)
<1>1. PICK n \in Nat : n = Count
  BY PartTypes
<1>2. PICK p \in [1..n -> Seq(Words)] : p = Source
  BY <1>1, SourceFacts
<1>3. PICK q \in [1..n -> Seq(Words)] : q = Target
  BY <1>1, SourceFacts
<1>4. a \in 0..n /\ m \in a..n
  BY <1>1
<1>5. \A x \in a..m - 1 : Len(p[x + 1]) = 0
  BY <1>2, <1>4, NothingBetween
<1>6. \A x \in a..m - 1 : q[x + 1] = <<>> /\ kinds[x + 1] # "unknown"
  <2>1. \A x \in a..m - 1 : x \in 0..Count - 1
    BY <1>1, <1>4
  <2> QED BY <1>2, <1>3, <1>5, <2>1, EmptyParts
<1>7. Sofar(q, m) = Sofar(q, a)
  <2>1. \A x \in a..m - 1 : q[x + 1] = <<>>
    BY <1>6
  <2>2. PICK b \in a..n : b = m
    BY <1>4
  <2>3. Sofar(q, b) = Sofar(q, a)
    BY <1>4, <2>1, <2>2, NothingAdded
  <2> QED BY <2>2, <2>3
<1>8. Known(m) = Known(a)
  <2>1. \A x \in 1..m : x \notin 1..a => kinds[x] # "unknown"
    <3>1. \A x \in 1..m : x \notin 1..a => x - 1 \in a..m - 1 /\ (x - 1) + 1 = x
      BY <1>4
    <3> QED BY <1>6, <3>1
  <2>2. \A x \in 1..a : x \in 1..m
    BY <1>4
  <2> QED BY <2>1, <2>2 DEF Known
<1> QED BY <1>3, <1>7, <1>8

\* The word to be read next belongs to a part, of which it is the (k + 1)-st.
LEMMA Spot ==
  ASSUME TwoStages, More
  PROVE  \E n \in 0..Count - 1, k \in Nat :
           /\ k < Len(Source[n + 1]) /\ PlaceIn(Source, Target, Out, n, k)
           /\ c = Source[n + 1][k + 1]
           /\ stage = "labels" /\ y = 1 => success = Known(n)
<1>1. Given /\ Position /\ OtherRows /\ Working /\ y <= RowCount
  BY DEF TwoStages, More
<1>2. PICK n \in Nat : n = Count
  BY <1>1, PartTypes
<1>3. PICK p \in [1..n -> Seq(Words)] : p = Source
  BY <1>1, <1>2, SourceFacts
<1>4. format = Sofar(p, n) /\ i \in 1..Upto(p, n)
  <2>1. format = Sofar(p, n)
    BY <1>1, <1>2, <1>3, SourceFacts
  <2>2. n \in 0..n
    OBVIOUS
  <2>3. Upto(p, n) \in Nat
    BY <2>2, SofarFacts, LenProperties DEF Upto
  <2> QED BY <1>1, <2>1, <2>3 DEF More, Given, Upto
<1>5. PICK a \in 0..n, d \in Nat : /\ PlaceIn(Source, Target, Out, a, d)
                                   /\ stage = "labels" /\ y = 1 => success = Known(a)
  BY <1>1, <1>2 DEF Position
<1>6. \A m \in 0..n - 1 : \A k \in 1..Len(p[m + 1]) :
        i = Upto(p, m) + k => c = p[m + 1][k]
  <2> SUFFICES ASSUME NEW m \in 0..n - 1, NEW k \in 1..Len(p[m + 1]), i = Upto(p, m) + k
               PROVE  c = p[m + 1][k]
    OBVIOUS
  <2>1. Sofar(p, n)[Upto(p, m) + k] = p[m + 1][k]
    BY PartLies
  <2> QED BY <1>4, <2>1, Zenon DEF c
<1>7. CASE d > 0
  <2>1. a < n /\ d < Len(p[a + 1]) /\ i = Upto(p, a) + d + 1
    BY <1>2, <1>3, <1>5, <1>7 DEF PlaceIn
  <2>2. a \in 0..n - 1
    BY <2>1
  <2>3. Len(p[a + 1]) \in Nat /\ Upto(p, a) \in Nat
    BY <2>2, PartAdded
  <2>4. d + 1 \in 1..Len(p[a + 1]) /\ i = Upto(p, a) + (d + 1)
    BY <2>1, <2>3
  <2>5. c = p[a + 1][d + 1]
    BY <1>6, <2>2, <2>4
  <2> QED BY <1>2, <1>3, <1>5, <2>1, <2>2, <2>5
<1>8. CASE d = 0
  <2>1. i = Upto(p, a) + 1 /\ depth = 0 /\ Out = Sofar(Target, a) /\ Upto(p, a) \in Nat
    <3>1. Sofar(p, a) \in Seq(Words)
      BY SofarFacts
    <3>2. Upto(p, a) \in Nat
      BY <3>1, LenProperties DEF Upto
    <3> QED BY <1>3, <1>5, <1>8, <3>2 DEF PlaceIn
  <2>2. PICK m \in 0..n - 1 : \E k \in 1..Len(p[m + 1]) : i = Upto(p, m) + k
    BY <1>4, PartAt
  <2>3. PICK k \in 1..Len(p[m + 1]) : i = Upto(p, m) + k
    BY <2>2
  <2>4. /\ Upto(p, m + 1) = Upto(p, m) + Len(p[m + 1])
        /\ Upto(p, m) \in Nat /\ Len(p[m + 1]) \in Nat
    BY PartAdded
  <2>5. a <= m
    <3> SUFFICES ASSUME ~(a <= m) PROVE FALSE
      OBVIOUS
    <3>1. m + 1 \in 0..n /\ a \in (m + 1)..n
      OBVIOUS
    <3>2. Upto(p, m + 1) <= Upto(p, a)
      BY <3>1, PartsAdded
    <3> QED BY <2>1, <2>3, <2>4, <3>2
  <2>6. Upto(p, a) = Upto(p, m) /\ k = 1
    <3>1. m \in a..n
      BY <2>5
    <3>2. Upto(p, a) <= Upto(p, m)
      BY <3>1, PartsAdded
    <3> QED BY <2>1, <2>3, <2>4, <3>2
  <2>7. Sofar(Target, m) = Sofar(Target, a) /\ Known(m) = Known(a)
    <3>1. a \in 0..Count /\ m \in a..Count
      BY <1>2, <2>5
    <3> QED BY <1>1, <1>3, <2>6, <3>1, Settled
  <2>8. PlaceIn(Source, Target, Out, m, 0)
    BY <1>3, <2>1, <2>6, <2>7, <2>4 DEF PlaceIn
  <2>9. c = p[m + 1][0 + 1] /\ 0 < Len(p[m + 1])
    BY <1>6, <2>3, <2>4, <2>6
  <2> QED BY <1>2, <1>3, <1>5, <2>7, <2>8, <2>9
<1> QED BY <1>7, <1>8

\* A row at its end has all that is to be written for it.
LEMMA RowAtEnd ==
  ASSUME TwoStages, Working, y <= RowCount, ~More
  PROVE  /\ Out = Sofar(Target, Count)
         /\ stage = "labels" /\ y = 1 => success = Known(Count)
<1>1. Given /\ Position /\ OtherRows
  BY DEF TwoStages
<1>2. PICK n \in Nat : n = Count
  BY <1>1, PartTypes
<1>3. PICK p \in [1..n -> Seq(Words)] : p = Source
  BY <1>1, <1>2, SourceFacts
<1>4. format = Sofar(p, n) /\ ~(i <= Upto(p, n)) /\ i \in Nat
  BY <1>1, <1>2, <1>3, SourceFacts DEF More, Given, Upto
<1>5. PICK a \in 0..n, d \in Nat : /\ PlaceIn(Source, Target, Out, a, d)
                                   /\ stage = "labels" /\ y = 1 => success = Known(a)
  BY <1>1, <1>2 DEF Position
<1>6. n \in a..n
  OBVIOUS
<1>7. Upto(p, a) <= Upto(p, n) /\ Upto(p, a) \in Nat /\ Upto(p, n) \in Nat
  BY <1>6, PartsAdded
<1>8. CASE d > 0
  <2>1. a < n /\ d < Len(p[a + 1]) /\ i = Upto(p, a) + d + 1
    BY <1>2, <1>3, <1>5, <1>8 DEF PlaceIn
  <2>2. a \in 0..n - 1
    BY <2>1
  <2>3. Len(p[a + 1]) \in Nat
    BY <2>2, PartAdded
  <2>4. d + 1 \in 1..Len(p[a + 1])
    BY <2>1, <2>3
  <2>5. Upto(p, a) + (d + 1) \in 1..Upto(p, n)
    BY <2>2, <2>4, PartLies
  <2> QED BY <1>4, <1>7, <2>1, <2>5
<1>9. CASE d = 0
  <2>1. i = Upto(p, a) + 1 /\ Out = Sofar(Target, a)
    BY <1>3, <1>5, <1>7, <1>9 DEF PlaceIn
  <2>2. Upto(p, a) = Upto(p, n)
    BY <1>4, <1>7, <2>1
  <2>3. Sofar(Target, n) = Sofar(Target, a) /\ Known(n) = Known(a)
    <3>1. a \in 0..Count /\ n \in a..Count
      BY <1>2
    <3> QED BY <1>1, <1>3, <2>2, <3>1, Settled
  <2> QED BY <1>2, <1>5, <2>1, <2>3
<1> QED BY <1>8, <1>9

-----------------------------------------------------------------------------
(* A word read.                                                            *)

\* A word is read: w is written, the reader moves on within the row.
Reads(w) ==
  /\ More /\ Fixed /\ Emit(w) /\ i' = i + 1
  /\ depth' \in Nat /\ identifier' \in Nat /\ success' \in BOOLEAN

LEMMA ReadsKept ==
  ASSUME Given, OtherRows, NEW w \in Seq(Words), Reads(w)
  PROVE  /\ Given' /\ OtherRows'
         /\ Source' = Source /\ Target' = Target /\ Out' = Join(Out, w)
         /\ \A n : Known(n)' = Known(n)
         /\ Count' = Count /\ Working' /\ y' = y /\ stage' = stage /\ kinds' = kinds /\ file' = file
<1>1. /\ UNCHANGED <<kinds, template, file, stage, y>> /\ y \in Rows /\ Working
      /\ stage \in {"files", "labels"} /\ y <= RowCount
  <2>1. Working /\ y <= RowCount /\ Fixed
    BY DEF Reads, More
  <2>2. y \in Rows
    BY <2>1, SourceFacts
  <2> QED BY <2>1, <2>2 DEF Fixed, Working
<1>2. PICK z \in Rows : z = y /\ z = y'
  BY <1>1
<1>3. /\ Count' = Count /\ Pieces' = Pieces
      /\ \A row \in Rows : Reported(row)' = Reported(row) /\ Issued(row)' = Issued(row)
      /\ \A n : Known(n)' = Known(n)
  BY <1>1, PartsKept
<1>4. Source' = Source /\ Target' = Target
  BY <1>1, <1>2, <1>3 DEF Source, Target
<1>5. /\ reports \in [Rows -> Seq(Words)] /\ issues \in [Rows -> Seq(Words)]
      /\ Join(reports[z], w) \in Seq(Words) /\ Join(issues[z], w) \in Seq(Words)
  <2>1. reports \in [Rows -> Seq(Words)] /\ issues \in [Rows -> Seq(Words)]
    BY DEF Given
  <2>2. reports[z] \in Seq(Words) /\ issues[z] \in Seq(Words)
    BY <2>1
  <2> QED BY <2>1, <2>2, ConcatProperties DEF Join
<1>6. /\ stage = "files" => reports' = [reports EXCEPT ![z] = Join(reports[z], w)] /\ issues' = issues
      /\ stage # "files" => issues' = [issues EXCEPT ![z] = Join(issues[z], w)] /\ reports' = reports
  BY <1>2 DEF Reads, Emit, Join
<1>7. reports' \in [Rows -> Seq(Words)] /\ issues' \in [Rows -> Seq(Words)]
  BY <1>5, <1>6
<1>8. /\ \A r \in Rows : r # z => reports'[r] = reports[r] /\ issues'[r] = issues[r]
      /\ stage # "files" => reports' = reports
      /\ stage = "files" => issues' = issues
  BY <1>5, <1>6
<1>9. Out' = Join(Out, w)
  BY <1>1, <1>2, <1>5, <1>6 DEF Out
<1>10. Given'
  <2>1. i' \in Nat \ {0}
    BY DEF Given, Reads
  <2>2. depth' \in Nat /\ identifier' \in Nat /\ success' \in BOOLEAN
    BY DEF Reads
  <2> QED BY <1>1, <1>3, <1>7, <2>1, <2>2 DEF Given
<1>11. OtherRows'
  <2> SUFFICES ASSUME NEW r \in Rows
               PROVE  (/\ stage # "files" \/ r < y => reports[r] = Sofar(Reported(r), Count)
                       /\ stage = "files" /\ r > y => reports[r] = <<>>
                       /\ ~Working \/ (stage = "labels" /\ r < y) => issues[r] = Sofar(Issued(r), Count)
                       /\ stage = "files" \/ (stage = "labels" /\ r > y) => issues[r] = <<>>)'
    BY DEF OtherRows
  <2>1. /\ stage # "files" \/ r < z => reports[r] = Sofar(Reported(r), Count)
        /\ stage = "files" /\ r > z => reports[r] = <<>>
        /\ stage = "labels" /\ r < z => issues[r] = Sofar(Issued(r), Count)
        /\ stage = "files" \/ (stage = "labels" /\ r > z) => issues[r] = <<>>
    BY <1>1, <1>2 DEF OtherRows
  <2>2. r \in Nat /\ z \in Nat
    BY DEF Rows
  <2>3. CASE r = z
    <3>1. ~(r < z) /\ ~(r > z)
      BY <2>2, <2>3
    <3> QED BY <1>1, <1>2, <1>3, <1>8, <2>1, <2>3, <3>1 DEF Working
  <2>4. CASE r # z
    <3>1. reports'[r] = reports[r] /\ issues'[r] = issues[r]
      BY <1>8, <2>4
    <3> QED BY <1>1, <1>2, <1>3, <2>1, <3>1 DEF Working
  <2> QED BY <2>3, <2>4
<1> QED BY <1>1, <1>3, <1>4, <1>9, <1>10, <1>11 DEF Working

\* It is enough to know where the reader stands next.
LEMMA Moving ==
  ASSUME TwoStages, NEW w \in Seq(Words), Reads(w), NEW n \in 0..Count, NEW k \in Nat,
         PlaceIn(Source, Target, Out, n, k)',
         stage = "files" => success' = success,
         stage = "labels" /\ y = 1 => success' = Known(n),
         stage = "labels" /\ y > 1 => success' = Known(Count)
  PROVE  TwoStages'
<1>1. Given /\ OtherRows /\ Position
  BY DEF TwoStages
<1>2. /\ Given' /\ OtherRows' /\ Working' /\ y' = y /\ stage' = stage /\ Count' = Count
      /\ \A m : Known(m)' = Known(m)
  BY <1>1, ReadsKept
<1>3. y <= RowCount /\ y \in Nat /\ RowCount \in Nat /\ Working /\ stage \in {"files", "labels"}
  BY <1>1, RowsAreCounted DEF Reads, More, Given, Working
<1>4. ~(y' > RowCount)
  BY <1>2, <1>3
<1>5. stage = "files" => success
  BY <1>1, <1>3 DEF Position
<1>6. \E m \in 0..Count, x \in Nat : /\ PlaceIn(Source, Target, Out, m, x)'
                                     /\ stage = "labels" /\ y = 1 => success' = Known(m)
  OBVIOUS
<1>7. Position'
  BY <1>2, <1>4, <1>5, <1>6 DEF Position
<1> QED BY <1>2, <1>7 DEF TwoStages, Ended

\* The spot the reader is at, and what follows from it.
At(n, k) ==
  /\ n \in 0..Count - 1 /\ k \in Nat
  /\ k < Len(Source[n + 1]) /\ PlaceIn(Source, Target, Out, n, k)
  /\ c = Source[n + 1][k + 1]
  /\ stage = "labels" /\ y = 1 => success = Known(n)

\* The last word of a part: what is written for it is complete.
LEMMA Completed ==
  ASSUME TwoStages, NEW n, NEW k, At(n, k), NEW w \in Seq(Words), Reads(w),
         k + 1 = Len(Source[n + 1]), depth' = 0, Join(Out, w) = Sofar(Target, n + 1),
         IF stage = "labels" THEN success' = (success /\ kinds[n + 1] # "unknown")
                             ELSE success' = success
  PROVE  TwoStages'
<1>1. Given /\ OtherRows /\ Position /\ More /\ Working /\ y <= RowCount /\ y \in Nat
  BY DEF TwoStages, Reads, More, Given
<1>2. Count \in Nat /\ n \in 0..Count - 1 /\ n + 1 \in 0..Count /\ k \in Nat
  BY <1>1, PartTypes DEF At
<1>3. PICK p \in [1..Count -> Seq(Words)] : p = Source
  BY <1>1, SourceFacts
<1>4. Upto(p, n + 1) = Upto(p, n) + Len(p[n + 1]) /\ Upto(p, n) \in Nat /\ Len(p[n + 1]) \in Nat
  BY <1>2, PartAdded
<1>5. i = Upto(p, n) + k + 1 /\ i' = i + 1
  BY <1>3 DEF At, PlaceIn, Reads
<1>6. i' = Upto(p, n + 1) + 0 + 1
  BY <1>2, <1>3, <1>4, <1>5
<1>7. Source' = Source /\ Target' = Target /\ Out' = Join(Out, w)
  BY <1>1, ReadsKept
<1>8. PlaceIn(Source, Target, Out, n + 1, 0)'
  BY <1>3, <1>6, <1>7 DEF PlaceIn
<1>9. stage = "labels" /\ y = 1 => success' = Known(n + 1)
  <2>1. Known(n + 1) = (Known(n) /\ kinds[n + 1] # "unknown")
    <3>1. \A m \in 1..n + 1 : m \in 1..n \/ m = n + 1
      BY <1>2
    <3>2. n + 1 \in 1..n + 1 /\ \A m \in 1..n : m \in 1..n + 1
      BY <1>2
    <3> QED BY <3>1, <3>2 DEF Known
  <2> QED BY <2>1 DEF At
<1>10. stage = "labels" /\ y > 1 => success' = Known(Count)
  <2>1. stage = "labels" /\ y > 1 => success = Known(Count)
    BY <1>1 DEF Position
  <2>2. Known(Count) => kinds[n + 1] # "unknown"
    <3>1. n + 1 \in 1..Count
      BY <1>2
    <3> QED BY <3>1 DEF Known
  <2>3. Known(Count) = (Known(Count) /\ kinds[n + 1] # "unknown")
    BY <2>2 DEF Known
  <2> QED BY <2>1, <2>3
<1> QED BY <1>2, <1>8, <1>9, <1>10, Moving

\* A word before the last, of which nothing is left to be seen in what is written.
LEMMA Within ==
  ASSUME TwoStages, NEW n, NEW k, At(n, k), Reads(<<>>), k + 1 < Len(Source[n + 1]),
         ~(stage = "labels" /\ kinds[n + 1] = "file"),
         depth' = (IF k + 1 \in {3, 4} THEN 2 ELSE 1),
         identifier' = Upto(Source, n) + 2, success' = success
  PROVE  TwoStages'
<1>1. Given /\ OtherRows /\ Position /\ More /\ Working /\ y <= RowCount /\ y \in Nat
  BY DEF TwoStages, Reads, More, Given
<1>2. Count \in Nat /\ n \in 0..Count - 1 /\ n < Count /\ n \in 0..Count /\ k \in Nat /\ k + 1 \in Nat
  BY <1>1, PartTypes DEF At
<1>3. <<>> \in Seq(Words)
  BY EmptySeq
<1>4. Out = Sofar(Target, n) /\ i = Upto(Source, n) + k + 1
  BY <1>2 DEF At, PlaceIn
<1>5. Out' = Out
  <2>1. Out \in Seq(Words)
    BY <1>1, SourceFacts
  <2> QED BY <1>1, <1>3, <2>1, ReadsKept, JoinNothing
<1>6. Source' = Source /\ Target' = Target /\ Count' = Count /\ stage' = stage /\ kinds' = kinds
  BY <1>1, <1>3, ReadsKept
<1>7. i' = Upto(Source, n) + (k + 1) + 1
  <2>1. i' = i + 1
    BY DEF Reads
  <2>2. Upto(Source, n) \in Nat
    <3>1. Sofar(Source, n) \in Seq(Words)
      BY <1>1, <1>2, SourceFacts, SofarFacts
    <3> QED BY <3>1, LenProperties DEF Upto
  <2> QED BY <1>2, <1>4, <2>1, <2>2
<1>8. PlaceIn(Source, Target, Out, n, k + 1)'
  <2>1. ~(k + 1 = 0)
    BY <1>2
  <2> QED BY <1>2, <1>4, <1>5, <1>6, <1>7, <2>1 DEF PlaceIn
<1>9. stage = "labels" /\ y = 1 => success' = Known(n)
  BY DEF At
<1>10. stage = "labels" /\ y > 1 => success' = Known(Count)
  BY <1>1 DEF Position
<1> QED BY <1>2, <1>3, <1>8, <1>9, <1>10, Moving

\* A word of a student's file, which has been put where the report had its name.
LEMMA InFile ==
  ASSUME TwoStages, NEW n, NEW k, At(n, k), stage = "labels", kinds[n + 1] = "file", Text
  PROVE  TwoStages'
<1>1. Given /\ OtherRows /\ Position /\ More /\ Working /\ y <= RowCount /\ y \in Nat /\ y \in Rows
  <2>1. Given /\ OtherRows /\ Position /\ More /\ Working /\ y <= RowCount
    BY DEF TwoStages, Text, More
  <2> QED BY <2>1, SourceFacts DEF Given
<1>2. Count \in Nat /\ n \in 0..Count - 1 /\ n < Count /\ n \in 0..Count /\ k \in Nat /\ k + 1 \in Nat
  BY <1>1, PartTypes DEF At
<1>3. PICK s \in Contents : s = file[y]
  BY <1>1 DEF Given
<1>4. s \in Seq(Words) /\ Len(s) \in Nat /\ \A m \in 1..Len(s) : s[m] \in Words
  <2>1. PlainFiles
    BY <1>1 DEF Given
  <2> QED BY <2>1, PlainFacts
<1>5. Source[n + 1] = s /\ Target[n + 1] = s
  <2>1. Reported(y)[n + 1] = First("file", y) /\ Issued(y)[n + 1] = Second("file", y)
    BY <1>1, <1>2, PartTypes
  <2>2. First("file", y) = s /\ Second("file", y) = s
    BY <1>3 DEF First, Second, Expansion
  <2> QED BY <2>1, <2>2 DEF Source, Target
<1>6. k + 1 \in 1..Len(s) /\ c = s[k + 1] /\ c \in Words
  BY <1>2, <1>4, <1>5 DEF At
<1>7. PICK u \in Seq(Words) : u = Sofar(Target, n)
  BY <1>1, <1>2, SourceFacts, SofarFacts
<1>8. /\ k = 0 => Out = u
      /\ k > 0 => Out = Join(u, SubSeq(s, 1, k))
      /\ depth = 0
  BY <1>2, <1>3, <1>7 DEF At, PlaceIn
<1>9. Join(Out, <<c>>) = Join(u, SubSeq(s, 1, k + 1))
  <2>1. <<c>> \in Seq(Words)
    BY <1>6
  <2>2. SubSeq(s, 1, k + 1) = SubSeq(s, 1, k) \o <<c>>
    <3>1. 1 \in 1..Len(s) /\ k + 1 \in 1..Len(s) /\ (k + 1) - 1 = k
      BY <1>2, <1>6
    <3> QED BY <1>4, <1>6, <3>1, SubSeqRecursiveSecond
  <2>3. SubSeq(s, 1, k) \in Seq(Words)
    <3>1. \A m \in 1..k : s[m] \in Words
      BY <1>4, <1>6, <1>2
    <3> QED BY <1>2, <3>1, SubSeqProperties
  <2>4. Out = Join(u, SubSeq(s, 1, k))
    <3>1. CASE k = 0
      <4>1. SubSeq(s, 1, k) = <<>>
        BY <3>1, SubSeqEmpty
      <4> QED BY <1>8, <3>1, <4>1, JoinNothing
    <3>2. CASE k # 0
      BY <1>2, <1>8, <3>2
    <3> QED BY <3>1, <3>2
  <2>5. PICK v \in Seq(Words), e \in Seq(Words) : v = SubSeq(s, 1, k) /\ e = <<c>>
    BY <2>1, <2>3
  <2>6. Join(Join(u, v), e) = Join(u, v \o e)
    BY ConcatAssociative DEF Join
  <2> QED BY <2>2, <2>4, <2>5, <2>6
<1>10. <<c>> \in Seq(Words) /\ Reads(<<c>>) /\ UNCHANGED <<depth, identifier, success>>
  <2>1. <<c>> \in Seq(Words)
    BY <1>6
  <2> QED BY <1>1, <1>8, <2>1 DEF Text, Reads, Given
<1>11. CASE k + 1 = Len(s)
  <2>1. SubSeq(s, 1, k + 1) = s
    BY <1>4, <1>11, SubSeqFull
  <2>2. Sofar(Target, n + 1) = Join(u, s)
    BY <1>1, <1>2, <1>5, <1>7, SourceFacts, SofarFacts
  <2>3. Join(Out, <<c>>) = Sofar(Target, n + 1)
    BY <1>9, <2>1, <2>2
  <2>4. success' = (success /\ kinds[n + 1] # "unknown")
    BY <1>1, <1>10 DEF Given
  <2> QED BY <1>5, <1>8, <1>10, <1>11, <2>3, <2>4, Completed
<1>12. CASE k + 1 # Len(s)
  <2>1. /\ Source' = Source /\ Target' = Target /\ Out' = Join(Out, <<c>>) /\ Count' = Count
        /\ stage' = stage /\ kinds' = kinds /\ file' = file /\ y' = y
    BY <1>1, <1>10, ReadsKept
  <2>2. k + 1 < Len(s) /\ k + 1 > 0
    BY <1>2, <1>4, <1>6, <1>12
  <2>3. i' = Upto(Source, n) + (k + 1) + 1
    <3>1. i' = i + 1 /\ i = Upto(Source, n) + k + 1
      BY <1>10 DEF Reads, At, PlaceIn
    <3>2. Upto(Source, n) \in Nat
      <4>1. Sofar(Source, n) \in Seq(Words)
        BY <1>1, <1>2, SourceFacts, SofarFacts
      <4> QED BY <4>1, LenProperties DEF Upto
    <3> QED BY <1>2, <3>1, <3>2
  <2>4. PlaceIn(Source, Target, Out, n, k + 1)'
    BY <1>2, <1>3, <1>5, <1>7, <1>8, <1>9, <1>10, <2>1, <2>2, <2>3 DEF PlaceIn
  <2>5. stage = "labels" /\ y = 1 => success' = Known(n)
    BY <1>10 DEF At
  <2>6. stage = "labels" /\ y > 1 => success' = Known(Count)
    BY <1>1, <1>10 DEF Position
  <2> QED BY <1>2, <1>10, <2>4, <2>5, <2>6, Moving
<1> QED BY <1>11, <1>12

-----------------------------------------------------------------------------
(* The pieces, word by word.                                               *)

Braced == {"file", "missing", "label", "unknown"}

LEMMA Spelled ==
  /\ Len(Piece("text")) = 1 /\ Piece("text")[1] = "text"
  /\ Len(Piece("dollar")) = 1 /\ Piece("dollar")[1] = "$$"
  /\ Len(Piece("file")) = 3 /\ Piece("file")[1] = "${" /\ Piece("file")[2] = "./file"
  /\ Piece("file")[3] = "}"
  /\ Len(Piece("label")) = 3 /\ Piece("label")[1] = "${" /\ Piece("label")[2] = "label"
  /\ Piece("label")[3] = "}"
  /\ Len(Piece("missing")) = 6 /\ Piece("missing")[1] = "${" /\ Piece("missing")[2] = "./file"
  /\ Piece("missing")[3] = "${" /\ Piece("missing")[4] = "label" /\ Piece("missing")[5] = "}"
  /\ Piece("missing")[6] = "}"
  /\ Len(Piece("unknown")) = 6 /\ Piece("unknown")[1] = "${" /\ Piece("unknown")[2] = "label"
  /\ Piece("unknown")[3] = "${" /\ Piece("unknown")[4] = "label" /\ Piece("unknown")[5] = "}"
  /\ Piece("unknown")[6] = "}"
<1>1. PICK word, dollars, open, name, label, close :
        /\ word = "text" /\ dollars = "$$" /\ open = "${" /\ name = "./file"
        /\ label = "label" /\ close = "}"
  OBVIOUS
<1>2. /\ Len(Piece("text")) = 1
      /\ Piece("text")[1] = word
  <2>1. Piece("text") = <<word>>
    BY <1>1, PieceFacts
  <2> QED BY <2>1
<1>3. /\ Len(Piece("dollar")) = 1
      /\ Piece("dollar")[1] = dollars
  <2>1. Piece("dollar") = <<dollars>>
    BY <1>1, PieceFacts
  <2> QED BY <2>1
<1>4. /\ Len(Piece("file")) = 3
      /\ Piece("file")[1] = open /\ Piece("file")[2] = name /\ Piece("file")[3] = close
  <2>1. Piece("file") = <<open, name, close>>
    BY <1>1, PieceFacts
  <2> QED BY <2>1
<1>5. /\ Len(Piece("label")) = 3
      /\ Piece("label")[1] = open /\ Piece("label")[2] = label /\ Piece("label")[3] = close
  <2>1. Piece("label") = <<open, label, close>>
    BY <1>1, PieceFacts
  <2> QED BY <2>1
<1>6. /\ Len(Piece("missing")) = 6
      /\ Piece("missing")[1] = open /\ Piece("missing")[2] = name /\ Piece("missing")[3] = open
      /\ Piece("missing")[4] = label /\ Piece("missing")[5] = close /\ Piece("missing")[6] = close
  <2>1. Piece("missing") = <<open, name, open, label, close, close>>
    BY <1>1, PieceFacts
  <2> QED BY <2>1
<1>7. /\ Len(Piece("unknown")) = 6
      /\ Piece("unknown")[1] = open /\ Piece("unknown")[2] = label /\ Piece("unknown")[3] = open
      /\ Piece("unknown")[4] = label /\ Piece("unknown")[5] = close /\ Piece("unknown")[6] = close
  <2>1. Piece("unknown") = <<open, label, open, label, close, close>>
    BY <1>1, PieceFacts
  <2> QED BY <2>1
<1> QED BY <1>1, <1>2, <1>3, <1>4, <1>5, <1>6, <1>7

LEMMA Characters ==
  ASSUME NEW kind \in AllKinds, NEW k \in Nat, k < Len(Piece(kind))
  PROVE  \/ kind = "text" /\ k = 0 /\ k + 1 = Len(Piece(kind)) /\ Piece(kind)[k + 1] = "text"
         \/ kind = "dollar" /\ k = 0 /\ k + 1 = Len(Piece(kind)) /\ Piece(kind)[k + 1] = "$$"
         \/ kind \in Braced /\ k \in {0, 2} /\ k + 1 < Len(Piece(kind)) /\ Piece(kind)[k + 1] = "${"
         \/ kind \in Braced /\ k \in {1, 3} /\ k + 1 < Len(Piece(kind))
            /\ Piece(kind)[k + 1] \in {"./file", "label"}
         \/ kind \in Braced /\ k = 4 /\ k + 1 < Len(Piece(kind)) /\ Piece(kind)[k + 1] = "}"
         \/ kind \in Braced /\ k \in {2, 5} /\ k + 1 = Len(Piece(kind)) /\ Piece(kind)[k + 1] = "}"
<1>1. CASE kind = "text"
  <2>1. Len(Piece(kind)) = 1
    BY <1>1, Spelled
  <2>2. k \in 0..0
    BY <2>1
  <2>3. k = 0 /\ k + 1 = 1 /\ k + 1 = Len(Piece(kind))
    BY <2>1, <2>2
  <2>4. Piece(kind)[k + 1] = "text"
    BY <1>1, <2>3, Spelled, Zenon
  <2> QED BY <1>1, <2>3, <2>4
<1>2. CASE kind = "dollar"
  <2>1. Len(Piece(kind)) = 1
    BY <1>2, Spelled
  <2>2. k \in 0..0
    BY <2>1
  <2>3. k = 0 /\ k + 1 = 1 /\ k + 1 = Len(Piece(kind))
    BY <2>1, <2>2
  <2>4. Piece(kind)[k + 1] = "$$"
    BY <1>2, <2>3, Spelled, Zenon
  <2> QED BY <1>2, <2>3, <2>4
<1>3. CASE kind = "file"
  <2>1. Len(Piece(kind)) = 3
    BY <1>3, Spelled
  <2>2. k \in 0..2
    BY <2>1
  <2>3. kind \in Braced
    BY <1>3 DEF Braced
  <2>4. /\ Piece(kind)[1] = "${" /\ Piece(kind)[2] = "./file" /\ Piece(kind)[3] = "}"
    BY <1>3, Spelled
  <2>5. CASE k = 0
    <3>1. k + 1 = 1 /\ k + 1 < Len(Piece(kind))
      BY <2>1, <2>5
    <3>2. Piece(kind)[k + 1] = "${"
      BY <2>4, <3>1, Zenon
    <3> QED BY <2>3, <2>5, <3>1, <3>2
  <2>6. CASE k = 1
    <3>1. k + 1 = 2 /\ k + 1 < Len(Piece(kind))
      BY <2>1, <2>6
    <3>2. Piece(kind)[k + 1] = "./file"
      BY <2>4, <3>1, Zenon
    <3> QED BY <2>3, <2>6, <3>1, <3>2
  <2>7. CASE k = 2
    <3>1. k + 1 = 3 /\ k + 1 = Len(Piece(kind))
      BY <2>1, <2>7
    <3>2. Piece(kind)[k + 1] = "}"
      BY <2>4, <3>1, Zenon
    <3> QED BY <2>3, <2>7, <3>1, <3>2
  <2>8. k = 0 \/ k = 1 \/ k = 2
    BY <2>2
  <2> QED BY <2>5, <2>6, <2>7, <2>8
<1>4. CASE kind = "label"
  <2>1. Len(Piece(kind)) = 3
    BY <1>4, Spelled
  <2>2. k \in 0..2
    BY <2>1
  <2>3. kind \in Braced
    BY <1>4 DEF Braced
  <2>4. /\ Piece(kind)[1] = "${" /\ Piece(kind)[2] = "label" /\ Piece(kind)[3] = "}"
    BY <1>4, Spelled
  <2>5. CASE k = 0
    <3>1. k + 1 = 1 /\ k + 1 < Len(Piece(kind))
      BY <2>1, <2>5
    <3>2. Piece(kind)[k + 1] = "${"
      BY <2>4, <3>1, Zenon
    <3> QED BY <2>3, <2>5, <3>1, <3>2
  <2>6. CASE k = 1
    <3>1. k + 1 = 2 /\ k + 1 < Len(Piece(kind))
      BY <2>1, <2>6
    <3>2. Piece(kind)[k + 1] = "label"
      BY <2>4, <3>1, Zenon
    <3> QED BY <2>3, <2>6, <3>1, <3>2
  <2>7. CASE k = 2
    <3>1. k + 1 = 3 /\ k + 1 = Len(Piece(kind))
      BY <2>1, <2>7
    <3>2. Piece(kind)[k + 1] = "}"
      BY <2>4, <3>1, Zenon
    <3> QED BY <2>3, <2>7, <3>1, <3>2
  <2>8. k = 0 \/ k = 1 \/ k = 2
    BY <2>2
  <2> QED BY <2>5, <2>6, <2>7, <2>8
<1>5. CASE kind = "missing"
  <2>1. Len(Piece(kind)) = 6
    BY <1>5, Spelled
  <2>2. k \in 0..5
    BY <2>1
  <2>3. kind \in Braced
    BY <1>5 DEF Braced
  <2>4. /\ Piece(kind)[1] = "${" /\ Piece(kind)[2] = "./file" /\ Piece(kind)[3] = "${"
        /\ Piece(kind)[4] = "label" /\ Piece(kind)[5] = "}" /\ Piece(kind)[6] = "}"
    BY <1>5, Spelled
  <2>5. CASE k = 0
    <3>1. k + 1 = 1 /\ k + 1 < Len(Piece(kind))
      BY <2>1, <2>5
    <3>2. Piece(kind)[k + 1] = "${"
      BY <2>4, <3>1, Zenon
    <3> QED BY <2>3, <2>5, <3>1, <3>2
  <2>6. CASE k = 1
    <3>1. k + 1 = 2 /\ k + 1 < Len(Piece(kind))
      BY <2>1, <2>6
    <3>2. Piece(kind)[k + 1] = "./file"
      BY <2>4, <3>1, Zenon
    <3> QED BY <2>3, <2>6, <3>1, <3>2
  <2>7. CASE k = 2
    <3>1. k + 1 = 3 /\ k + 1 < Len(Piece(kind))
      BY <2>1, <2>7
    <3>2. Piece(kind)[k + 1] = "${"
      BY <2>4, <3>1, Zenon
    <3> QED BY <2>3, <2>7, <3>1, <3>2
  <2>8. CASE k = 3
    <3>1. k + 1 = 4 /\ k + 1 < Len(Piece(kind))
      BY <2>1, <2>8
    <3>2. Piece(kind)[k + 1] = "label"
      BY <2>4, <3>1, Zenon
    <3> QED BY <2>3, <2>8, <3>1, <3>2
  <2>9. CASE k = 4
    <3>1. k + 1 = 5 /\ k + 1 < Len(Piece(kind))
      BY <2>1, <2>9
    <3>2. Piece(kind)[k + 1] = "}"
      BY <2>4, <3>1, Zenon
    <3> QED BY <2>3, <2>9, <3>1, <3>2
  <2>10. CASE k = 5
    <3>1. k + 1 = 6 /\ k + 1 = Len(Piece(kind))
      BY <2>1, <2>10
    <3>2. Piece(kind)[k + 1] = "}"
      BY <2>4, <3>1, Zenon
    <3> QED BY <2>3, <2>10, <3>1, <3>2
  <2>11. k = 0 \/ k = 1 \/ k = 2 \/ k = 3 \/ k = 4 \/ k = 5
    BY <2>2
  <2> QED BY <2>5, <2>6, <2>7, <2>8, <2>9, <2>10, <2>11
<1>6. CASE kind = "unknown"
  <2>1. Len(Piece(kind)) = 6
    BY <1>6, Spelled
  <2>2. k \in 0..5
    BY <2>1
  <2>3. kind \in Braced
    BY <1>6 DEF Braced
  <2>4. /\ Piece(kind)[1] = "${" /\ Piece(kind)[2] = "label" /\ Piece(kind)[3] = "${"
        /\ Piece(kind)[4] = "label" /\ Piece(kind)[5] = "}" /\ Piece(kind)[6] = "}"
    BY <1>6, Spelled
  <2>5. CASE k = 0
    <3>1. k + 1 = 1 /\ k + 1 < Len(Piece(kind))
      BY <2>1, <2>5
    <3>2. Piece(kind)[k + 1] = "${"
      BY <2>4, <3>1, Zenon
    <3> QED BY <2>3, <2>5, <3>1, <3>2
  <2>6. CASE k = 1
    <3>1. k + 1 = 2 /\ k + 1 < Len(Piece(kind))
      BY <2>1, <2>6
    <3>2. Piece(kind)[k + 1] = "label"
      BY <2>4, <3>1, Zenon
    <3> QED BY <2>3, <2>6, <3>1, <3>2
  <2>7. CASE k = 2
    <3>1. k + 1 = 3 /\ k + 1 < Len(Piece(kind))
      BY <2>1, <2>7
    <3>2. Piece(kind)[k + 1] = "${"
      BY <2>4, <3>1, Zenon
    <3> QED BY <2>3, <2>7, <3>1, <3>2
  <2>8. CASE k = 3
    <3>1. k + 1 = 4 /\ k + 1 < Len(Piece(kind))
      BY <2>1, <2>8
    <3>2. Piece(kind)[k + 1] = "label"
      BY <2>4, <3>1, Zenon
    <3> QED BY <2>3, <2>8, <3>1, <3>2
  <2>9. CASE k = 4
    <3>1. k + 1 = 5 /\ k + 1 < Len(Piece(kind))
      BY <2>1, <2>9
    <3>2. Piece(kind)[k + 1] = "}"
      BY <2>4, <3>1, Zenon
    <3> QED BY <2>3, <2>9, <3>1, <3>2
  <2>10. CASE k = 5
    <3>1. k + 1 = 6 /\ k + 1 = Len(Piece(kind))
      BY <2>1, <2>10
    <3>2. Piece(kind)[k + 1] = "}"
      BY <2>4, <3>1, Zenon
    <3> QED BY <2>3, <2>10, <3>1, <3>2
  <2>11. k = 0 \/ k = 1 \/ k = 2 \/ k = 3 \/ k = 4 \/ k = 5
    BY <2>2
  <2> QED BY <2>5, <2>6, <2>7, <2>8, <2>9, <2>10, <2>11
<1> QED BY <1>1, <1>2, <1>3, <1>4, <1>5, <1>6 DEF AllKinds

\* Where no file has been inserted, the part that is read is the piece itself.
LEMMA PartShape ==
  ASSUME TwoStages, More, NEW n, NEW k, At(n, k), ~(stage = "labels" /\ kinds[n + 1] = "file")
  PROVE  /\ kinds[n + 1] \in AllKinds /\ Source[n + 1] = Piece(kinds[n + 1])
         /\ stage = "labels" => kinds[n + 1] # "missing"
         /\ Target[n + 1] = IF stage = "files" THEN First(kinds[n + 1], y)
                                               ELSE Second(kinds[n + 1], y)
<1>1. Given /\ Working /\ y <= RowCount /\ y \in Rows /\ n \in 0..Count - 1
  <2>1. Given /\ Working /\ y <= RowCount
    BY DEF TwoStages, More
  <2> QED BY <2>1, SourceFacts DEF At
<1>2. PICK kind \in AllKinds : kind = kinds[n + 1]
  BY <1>1, PartTypes
<1>3. /\ Pieces[n + 1] = Piece(kind) /\ Reported(y)[n + 1] = First(kind, y)
      /\ Issued(y)[n + 1] = Second(kind, y)
  BY <1>1, <1>2, PartTypes
<1>4. stage = "labels" => kind # "missing"
  <2> SUFFICES ASSUME stage = "labels", kind = "missing" PROVE FALSE
    OBVIOUS
  <2>1. Source[n + 1] = <<>>
    BY <1>3 DEF Source, First
  <2>2. Len(<<>>) = 0
    OBVIOUS
  <2> QED BY <2>1, <2>2 DEF At
<1>5. stage \in {"files", "labels"}
  BY <1>1 DEF Working
<1>6. Source[n + 1] = Piece(kind)
  <2>1. CASE stage = "files"
    BY <1>3, <2>1 DEF Source
  <2>2. CASE stage = "labels"
    <3>1. kind # "file" /\ kind # "missing"
      BY <1>2, <1>4, <2>2
    <3> QED BY <1>3, <2>2, <3>1 DEF Source, First
  <2> QED BY <1>5, <2>1, <2>2
<1>7. Target[n + 1] = IF stage = "files" THEN First(kind, y) ELSE Second(kind, y)
  BY <1>3 DEF Target
<1> QED BY <1>2, <1>4, <1>6, <1>7

\* The identifier at the last word: what stands between the outer braces.
LEMMA Between ==
  ASSUME TwoStages, More, NEW n, NEW k, At(n, k), ~(stage = "labels" /\ kinds[n + 1] = "file"),
         k > 0, k + 1 = Len(Source[n + 1])
  PROVE  /\ Identifier \in Seq(Words) /\ Len(Identifier) = k - 1
         /\ \A m \in 1..k - 1 : Identifier[m] = Source[n + 1][m + 1]
<1>1. Given /\ Working /\ y <= RowCount /\ n \in 0..Count - 1 /\ OtherRows /\ k \in Nat
  BY DEF TwoStages, More, At
<1>2. Count \in Nat
  BY <1>1, PartTypes
<1>3. PICK p \in [1..Count -> Seq(Words)] : p = Source
  BY <1>1, SourceFacts
<1>4. PICK a \in Nat : a = Upto(p, n)
  BY <1>1, <1>2, PartAdded
<1>5. identifier = a + 2 /\ i = a + k + 1
  BY <1>1, <1>3, <1>4 DEF At, PlaceIn
<1>6. format = Sofar(p, Count)
  BY <1>1, <1>3, SourceFacts
<1>7. PICK s \in Seq(Words) : s = p[n + 1]
  BY <1>1, <1>2
<1>8. \A m \in 1..Len(s) : format[a + m] = s[m]
  BY <1>1, <1>2, <1>4, <1>6, <1>7, PartLies
<1>9. Identifier = SubSeq(format, a + 2, a + k)
  <2>1. i - 1 = a + k
    BY <1>1, <1>5
  <2> QED BY <1>5, <2>1 DEF Identifier
<1>10. k + 1 = Len(s)
  BY <1>3, <1>7
<1>11. \A x \in (a + 2)..(a + k) : format[x] \in Words
  <2> SUFFICES ASSUME NEW x \in (a + 2)..(a + k) PROVE format[x] \in Words
    OBVIOUS
  <2>1. x - a \in 1..Len(s) /\ a + (x - a) = x
    BY <1>1, <1>10
  <2>2. format[x] = s[x - a]
    BY <1>8, <2>1
  <2> QED BY <2>1, <2>2
<1>12. /\ Identifier \in Seq(Words)
       /\ Len(Identifier) = IF a + 2 <= a + k THEN (a + k) - (a + 2) + 1 ELSE 0
       /\ \A m \in 1..(a + k) - (a + 2) + 1 : Identifier[m] = format[(a + 2) + m - 1]
  <2>1. a + 2 \in Int /\ a + k \in Int
    BY <1>1
  <2> QED BY <1>9, <1>11, <2>1, SubSeqProperties
<1>13. Len(Identifier) = k - 1
  BY <1>1, <1>12
<1>14. ASSUME NEW m \in 1..k - 1
       PROVE  Identifier[m] = s[m + 1]
  <2>1. /\ m \in 1..(a + k) - (a + 2) + 1 /\ (a + 2) + m - 1 = a + (m + 1)
        /\ m + 1 \in 1..Len(s)
    BY <1>1, <1>10
  <2> QED BY <1>8, <1>12, <2>1
<1> QED BY <1>3, <1>7, <1>12, <1>13, <1>14

\* What holds at a word of a piece.
LEMMA Standing ==
  ASSUME TwoStages, More, NEW n, NEW k, At(n, k), ~(stage = "labels" /\ kinds[n + 1] = "file")
  PROVE  /\ Given /\ Working /\ y <= RowCount /\ y \in Rows /\ k \in Nat
         /\ i = Upto(Source, n) + k + 1 /\ Upto(Source, n) \in Nat
         /\ depth = IF k = 0 THEN 0 ELSE IF k \in {3, 4} THEN 2 ELSE 1
         /\ k > 0 => identifier = Upto(Source, n) + 2
         /\ Out \in Seq(Words) /\ Target[n + 1] \in Seq(Words)
         /\ Join(Out, Target[n + 1]) = Sofar(Target, n + 1)
<1>1. Given /\ Working /\ y <= RowCount /\ n \in 0..Count - 1 /\ n + 1 \in 1..Count /\ k \in Nat
      /\ Count \in Nat
  <2>1. Given /\ Working /\ y <= RowCount /\ n \in 0..Count - 1 /\ k \in Nat
    BY DEF TwoStages, More, At
  <2> QED BY <2>1, PartTypes
<1>2. y \in Rows /\ Out \in Seq(Words)
  BY <1>1, SourceFacts
<1>3. Upto(Source, n) \in Nat
  BY <1>1, SourceFacts, PartAdded
<1>4. PICK q \in [1..Count -> Seq(Words)] : q = Target
  BY <1>1, SourceFacts
<1>5. q[n + 1] \in Seq(Words) /\ Sofar(q, n + 1) = Join(Sofar(q, n), q[n + 1])
  BY <1>1, SofarFacts
<1>6. /\ Out = Sofar(Target, n) /\ i = Upto(Source, n) + k + 1
      /\ depth = (IF k = 0 THEN 0 ELSE IF k \in {3, 4} THEN 2 ELSE 1)
      /\ k > 0 => identifier = Upto(Source, n) + 2
  BY <1>1 DEF At, PlaceIn
<1> QED BY <1>1, <1>2, <1>3, <1>4, <1>5, <1>6

\* Nothing written is an empty text written.
LEMMA WritesNothing ==
  ASSUME Given, y \in Rows, UNCHANGED <<reports, issues>>
  PROVE  Emit(<<>>)
<1>1. PICK z \in Rows : z = y
  OBVIOUS
<1>2. reports \in [Rows -> Seq(Words)] /\ issues \in [Rows -> Seq(Words)]
  BY DEF Given
<1>3. Join(reports[z], <<>>) = reports[z] /\ Join(issues[z], <<>>) = issues[z]
  BY <1>2, JoinNothing
<1>4. reports = [reports EXCEPT ![z] = reports[z]] /\ issues = [issues EXCEPT ![z] = issues[z]]
  BY <1>2
<1>5. /\ reports = [reports EXCEPT ![y] = reports[y] \o <<>>]
      /\ issues = [issues EXCEPT ![y] = issues[y] \o <<>>]
  BY <1>1, <1>3, <1>4 DEF Join
<1> QED BY <1>5 DEF Emit

\* An opening brace.
LEMMA Opened ==
  ASSUME TwoStages, More, NEW n, NEW k, At(n, k), ~(stage = "labels" /\ kinds[n + 1] = "file"),
         k \in {0, 2}, k + 1 < Len(Source[n + 1]), Open
  PROVE  TwoStages'
<1>1. /\ Given /\ y \in Rows /\ i = Upto(Source, n) + k + 1 /\ Upto(Source, n) \in Nat
      /\ depth = (IF k = 0 THEN 0 ELSE IF k \in {3, 4} THEN 2 ELSE 1)
      /\ k > 0 => identifier = Upto(Source, n) + 2
  BY Standing
<1>2. depth' = (IF k + 1 \in {3, 4} THEN 2 ELSE 1) /\ identifier' = Upto(Source, n) + 2
  <2>1. /\ depth' = depth + 1
        /\ identifier' = (IF depth = 0 THEN i + 1 ELSE identifier)
    BY DEF Open
  <2>2. CASE k = 0
    BY <1>1, <2>1, <2>2
  <2>3. CASE k = 2
    BY <1>1, <2>1, <2>3
  <2> QED BY <2>2, <2>3
<1>4. Emit(<<>>) /\ success' = success
  BY <1>1, WritesNothing DEF Open
<1>5. success \in BOOLEAN
  BY <1>1 DEF Given
<1>6. depth' \in Nat /\ identifier' \in Nat
  BY <1>1, <1>2
<1>7. Reads(<<>>)
  BY <1>4, <1>5, <1>6 DEF Open, Reads
<1> QED BY <1>2, <1>4, <1>7, Within

\* A word between braces.
LEMMA Named ==
  ASSUME TwoStages, More, NEW n, NEW k, At(n, k), ~(stage = "labels" /\ kinds[n + 1] = "file"),
         k \in {1, 3}, k + 1 < Len(Source[n + 1]), Text
  PROVE  TwoStages'
<1>1. /\ Given /\ Upto(Source, n) \in Nat
      /\ depth = (IF k = 0 THEN 0 ELSE IF k \in {3, 4} THEN 2 ELSE 1)
      /\ k > 0 => identifier = Upto(Source, n) + 2
  BY Standing
<1>2. /\ depth' = (IF k + 1 \in {3, 4} THEN 2 ELSE 1) /\ depth # 0
      /\ identifier' = Upto(Source, n) + 2
  <2>1. depth' = depth /\ identifier' = identifier
    BY DEF Text
  <2>2. CASE k = 1
    BY <1>1, <2>1, <2>2
  <2>3. CASE k = 3
    BY <1>1, <2>1, <2>3
  <2> QED BY <2>2, <2>3
<1>3. success' = success
  BY DEF Text
<1>4. Emit(<<>>)
  BY <1>2 DEF Text
<1>5. success \in BOOLEAN
  BY <1>1 DEF Given
<1>6. depth' \in Nat /\ identifier' \in Nat
  BY <1>1, <1>2
<1>7. Reads(<<>>)
  BY <1>3, <1>4, <1>5, <1>6 DEF Text, Reads
<1> QED BY <1>2, <1>3, <1>7, Within

\* The inner closing brace.
LEMMA ClosedInner ==
  ASSUME TwoStages, More, NEW n, NEW k, At(n, k), ~(stage = "labels" /\ kinds[n + 1] = "file"),
         k = 4, k + 1 < Len(Source[n + 1]), CloseReport \/ CloseIssue
  PROVE  TwoStages'
<1>1. /\ Given /\ y \in Rows /\ Upto(Source, n) \in Nat /\ depth = 2
      /\ identifier = Upto(Source, n) + 2
  <2>1. /\ Given /\ y \in Rows /\ Upto(Source, n) \in Nat
        /\ depth = (IF k = 0 THEN 0 ELSE IF k \in {3, 4} THEN 2 ELSE 1)
        /\ k > 0 => identifier = Upto(Source, n) + 2
    BY Standing
  <2> QED BY <2>1
<1>2. depth' = (IF k + 1 \in {3, 4} THEN 2 ELSE 1)
  <2>1. depth' = IF depth = 0 THEN 0 ELSE depth - 1
    BY DEF CloseReport, CloseIssue
  <2> QED BY <1>1, <2>1
<1>3. identifier' = Upto(Source, n) + 2 /\ success' = success
  <2>1. depth # 1
    BY <1>1
  <2> QED BY <1>1, <2>1 DEF CloseReport, CloseIssue
<1>4. Emit(<<>>) /\ UNCHANGED stage
  <2>1. CASE CloseReport
    <3>1. depth > 1
      BY <1>1
    <3> QED BY <2>1, <3>1 DEF CloseReport
  <2>2. CASE CloseIssue
    <3>1. UNCHANGED <<reports, issues, stage>>
      <4>1. depth # 1
        BY <1>1
      <4> QED BY <2>2, <4>1 DEF CloseIssue, Fixed
    <3> QED BY <1>1, <3>1, WritesNothing
  <2> QED BY <2>1, <2>2
<1>5. success \in BOOLEAN
  BY <1>1 DEF Given
<1>6. depth' \in Nat /\ identifier' \in Nat
  BY <1>1, <1>2, <1>3
<1>7. Reads(<<>>)
  <2>1. Fixed /\ i' = i + 1
    BY <1>4 DEF CloseReport, CloseIssue, Fixed
  <2> QED BY <1>3, <1>4, <1>5, <1>6, <2>1 DEF Reads
<1> QED BY <1>2, <1>3, <1>7, Within

\* Text outside of braces.
LEMMA Copied ==
  ASSUME TwoStages, More, NEW n, NEW k, At(n, k), ~(stage = "labels" /\ kinds[n + 1] = "file"),
         kinds[n + 1] = "text", k = 0, k + 1 = Len(Source[n + 1]), c = "text", Text
  PROVE  TwoStages'
<1>1. /\ Given /\ depth = 0 /\ Target[n + 1] \in Seq(Words)
      /\ Join(Out, Target[n + 1]) = Sofar(Target, n + 1)
  BY Standing
<1>2. PICK w \in Seq(Words) : w = Target[n + 1]
  BY <1>1
<1>3. w = <<c>>
  <2>1. Target[n + 1] = IF stage = "files" THEN First("text", y) ELSE Second("text", y)
    BY PartShape
  <2>2. First("text", y) = <<"text">> /\ Second("text", y) = <<"text">>
    BY DEF First, Second, Expansion, Piece
  <2> QED BY <1>2, <2>1, <2>2, Zenon
<1>4. Emit(w) /\ depth' = 0 /\ success' = success /\ identifier' = identifier
  BY <1>1, <1>3 DEF Text
<1>5. Reads(w)
  BY <1>1, <1>4 DEF Text, Reads, Given
<1>6. success' = (success /\ kinds[n + 1] # "unknown")
  BY <1>1, <1>4 DEF Given
<1> QED BY <1>1, <1>2, <1>4, <1>5, <1>6, Completed

\* Two dollar signs.
LEMMA CopiedDollars ==
  ASSUME TwoStages, More, NEW n, NEW k, At(n, k), ~(stage = "labels" /\ kinds[n + 1] = "file"),
         kinds[n + 1] = "dollar", k = 0, k + 1 = Len(Source[n + 1]), Dollars
  PROVE  TwoStages'
<1>1. /\ Given /\ depth = 0 /\ Target[n + 1] \in Seq(Words)
      /\ Join(Out, Target[n + 1]) = Sofar(Target, n + 1)
  BY Standing
<1>2. PICK w \in Seq(Words) : w = Target[n + 1]
  BY <1>1
<1>3. w = IF stage = "files" THEN <<"$$">> ELSE <<"$">>
  <2>1. Target[n + 1] = IF stage = "files" THEN First("dollar", y) ELSE Second("dollar", y)
    BY PartShape
  <2>2. First("dollar", y) = <<"$$">> /\ Second("dollar", y) = <<"$">>
    BY DEF First, Second, Expansion, Piece
  <2> QED BY <1>2, <2>1, <2>2, Zenon
<1>4. Emit(w) /\ depth' = 0 /\ success' = success /\ identifier' = identifier
  BY <1>1, <1>3 DEF Dollars
<1>5. Reads(w)
  BY <1>1, <1>4 DEF Dollars, Reads, Given
<1>6. success' = (success /\ kinds[n + 1] # "unknown")
  BY <1>1, <1>4 DEF Given
<1> QED BY <1>1, <1>2, <1>4, <1>5, <1>6, Completed

LEMMA Enclosed ==
  ASSUME NEW s \in Seq(Words), NEW v \in Seq(Words), NEW k \in Nat \ {0},
         Len(s) = k + 1, Len(v) = k - 1, \A m \in 1..k - 1 : v[m] = s[m + 1]
  PROVE  Join(Join(<<s[1]>>, v), <<s[k + 1]>>) = s
<1> DEFINE a == s[1]
           b == s[k + 1]
<1>. a \in Words /\ b \in Words
  OBVIOUS
<1> HIDE DEF a, b
<1>0. \A u \in Words : <<u>> \in Seq(Words) /\ Len(<<u>>) = 1 /\ <<u>>[1] = u
  OBVIOUS
<1>1. PICK e \in Seq(Words) : e = <<a>> /\ Len(e) = 1 /\ e[1] = a
  BY <1>0
<1>2. PICK f \in Seq(Words) : f = <<b>> /\ Len(f) = 1 /\ f[1] = b
  BY <1>0
<1>3. PICK d \in Nat, one \in Nat : d = k - 1 /\ one = 1
  OBVIOUS
<1>4. /\ Join(e, v) \in Seq(Words) /\ Len(Join(e, v)) = 1 + d
      /\ \A m \in 1..1 : Join(e, v)[m] = e[m]
      /\ \A m \in 1..d : Join(e, v)[1 + m] = v[m]
  <2>1. Len(e) = one /\ Len(v) = d
    BY <1>1, <1>3
  <2>2. /\ Join(e, v) \in Seq(Words) /\ Len(Join(e, v)) = one + d
        /\ \A m \in 1..one : Join(e, v)[m] = e[m]
        /\ \A m \in 1..d : Join(e, v)[one + m] = v[m]
    BY <2>1, Joined
  <2> QED BY <1>3, <2>2
<1>5. PICK g \in Seq(Words) : g = Join(e, v)
  BY <1>4
<1>6. Len(g) = k /\ g[1] = a /\ \A m \in 1..d : g[1 + m] = v[m]
  BY <1>1, <1>3, <1>4, <1>5
<1>7. /\ Join(g, f) \in Seq(Words) /\ Len(Join(g, f)) = k + 1
      /\ \A m \in 1..k : Join(g, f)[m] = g[m]
      /\ \A m \in 1..1 : Join(g, f)[k + m] = f[m]
  <2>1. Len(g) = k /\ Len(f) = one /\ k \in Nat
    BY <1>2, <1>3, <1>6
  <2>2. /\ Join(g, f) \in Seq(Words) /\ Len(Join(g, f)) = k + one
        /\ \A m \in 1..k : Join(g, f)[m] = g[m]
        /\ \A m \in 1..one : Join(g, f)[k + m] = f[m]
    BY <2>1, Joined
  <2> QED BY <1>3, <2>2
<1>8. PICK t \in Seq(Words) : t = Join(g, f)
  BY <1>7
<1>9. ASSUME NEW x \in 1..Len(s) PROVE t[x] = s[x]
  <2>1. CASE x = 1
    BY <1>6, <1>7, <1>8, <2>1 DEF a
  <2>2. CASE x = k + 1
    BY <1>2, <1>7, <1>8, <2>2 DEF b
  <2>3. CASE x # 1 /\ x # k + 1
    <3>1. x - 1 \in 1..d /\ 1 + (x - 1) = x /\ (x - 1) + 1 = x /\ x \in 1..k /\ x - 1 \in 1..k - 1
      BY <1>3, <2>3
    <3>2. t[x] = g[x]
      BY <1>7, <1>8, <3>1
    <3>3. g[x] = v[x - 1]
      BY <1>6, <3>1
    <3>4. v[x - 1] = s[x]
      BY <3>1
    <3> QED BY <3>2, <3>3, <3>4
  <2> QED BY <2>1, <2>2, <2>3
<1>10. t = s
  <2>1. Len(t) = Len(s)
    BY <1>7, <1>8
  <2> QED BY <1>9, <2>1, SeqEqual
<1> QED BY <1>1, <1>2, <1>5, <1>8, <1>10 DEF a, b

\* The outer closing brace, when files are inserted: the piece is replaced or kept.
LEMMA Replaced ==
  ASSUME TwoStages, More, NEW n, NEW k, At(n, k), stage = "files", kinds[n + 1] \in Braced,
         k \in {2, 5}, k + 1 = Len(Source[n + 1])
  PROVE  FileReplacement = Target[n + 1]
<1>1. PICK kind \in AllKinds : kind = kinds[n + 1]
  BY PartShape
<1>2. Source[n + 1] = Piece(kind) /\ Target[n + 1] = First(kind, y) /\ k + 1 = Len(Piece(kind))
  BY <1>1, PartShape
<1>3. /\ Identifier \in Seq(Words) /\ Len(Identifier) = k - 1
      /\ \A m \in 1..k - 1 : Identifier[m] = Source[n + 1][m + 1]
  <2>1. k > 0
    OBVIOUS
  <2> QED BY <2>1, Between
<1>4. PICK v \in Seq(Words) : v = Identifier
  BY <1>3
<1>5. PICK s \in Seq(Words) : s = Piece(kind)
  BY PieceTyped
<1>6. k \in Nat \ {0} /\ Len(s) = k + 1 /\ Len(v) = k - 1 /\ v[1] = s[2] /\ v # <<>>
      /\ \A m \in 1..k - 1 : v[m] = s[m + 1]
  <2>1. k \in Nat \ {0} /\ Len(s) = k + 1 /\ Len(v) = k - 1
    BY <1>2, <1>3, <1>4, <1>5
  <2>2. \A m \in 1..k - 1 : v[m] = s[m + 1]
    BY <1>2, <1>3, <1>4, <1>5
  <2>3. 1 \in 1..k - 1 /\ 1 + 1 = 2
    BY <2>1
  <2>4. v[1] = s[2]
    BY <2>2, <2>3
  <2>5. Len(v) # 0
    BY <2>1
  <2>6. v # <<>>
    BY <2>5
  <2> QED BY <2>1, <2>2, <2>4, <2>6
<1>7. CASE kind = "file"
  <2>1. Len(s) = 3 /\ s[2] = "./file"
    BY <1>5, <1>7, Spelled
  <2>2. Len(v) = 1
    BY <1>6, <2>1
  <2>3. FileReplacement = file[y]
    BY <1>4, <1>6, <2>1, <2>2, Zenon DEF FileReplacement
  <2> QED BY <1>2, <1>7, <2>3 DEF First
<1>8. CASE kind = "missing"
  <2>1. Len(s) = 6 /\ s[2] = "./file"
    BY <1>5, <1>8, Spelled
  <2>2. Len(v) # 1
    <3>1. k \in Nat /\ k + 1 = 6 /\ Len(v) = k - 1
      BY <1>6, <2>1, Zenon
    <3> QED BY <3>1
  <2>3. FileReplacement = <<>>
    BY <1>4, <1>6, <2>1, <2>2, Zenon DEF FileReplacement
  <2> QED BY <1>2, <1>8, <2>3 DEF First
<1>9. CASE kind \in {"label", "unknown"}
  <2>1. s[1] = "${" /\ s[2] = "label" /\ s[k + 1] = "}"
    <3>1. CASE kind = "label"
      <4>1. Len(s) = 3 /\ s[1] = "${" /\ s[2] = "label" /\ s[3] = "}"
        BY <1>5, <3>1, Spelled
      <4> QED BY <1>6, <4>1, Zenon
    <3>2. CASE kind = "unknown"
      <4>1. Len(s) = 6 /\ s[1] = "${" /\ s[2] = "label" /\ s[6] = "}"
        BY <1>5, <3>2, Spelled
      <4> QED BY <1>6, <4>1, Zenon
    <3> QED BY <1>9, <3>1, <3>2
  <2>2. PICK open \in Words, close \in Words : open = "${" /\ close = "}"
    BY WordFacts, Zenon DEF PieceWords
  <2>3. s[1] = open /\ s[k + 1] = close
    BY <2>1, <2>2, Zenon
  <2>4. Join(Join(<<open>>, v), <<close>>) = s
    <3>1. PICK d \in Nat \ {0} : d = k
      BY <1>6
    <3>2. /\ Len(s) = d + 1 /\ Len(v) = d - 1 /\ \A m \in 1..d - 1 : v[m] = s[m + 1]
          /\ s[1] = open /\ s[d + 1] = close
      BY <1>6, <2>3, <3>1, Zenon
    <3>3. Join(Join(<<s[1]>>, v), <<s[d + 1]>>) = s
      BY <3>2, Enclosed
    <3> QED BY <3>2, <3>3, Zenon
  <2>5. v[1] # "./file"
    BY <1>6, <2>1
  <2>6. FileReplacement = <<open>> \o v \o <<close>>
    BY <1>4, <2>2, <2>5, Zenon DEF FileReplacement
  <2>7. FileReplacement = s
    BY <2>4, <2>6 DEF Join
  <2>8. First(kind, y) = Piece(kind)
    BY <1>9 DEF First
  <2> QED BY <1>2, <1>5, <2>7, <2>8
<1> QED BY <1>1, <1>7, <1>8, <1>9 DEF Braced

\* The outer closing brace, when labels are looked up.
LEMMA LookedUp ==
  ASSUME TwoStages, More, NEW n, NEW k, At(n, k), stage = "labels", kinds[n + 1] \in Braced,
         kinds[n + 1] # "file", k \in {2, 5}, k + 1 = Len(Source[n + 1])
  PROVE  /\ kinds[n + 1] \in {"label", "unknown"}
         /\ (Identifier = <<"label">>) = (kinds[n + 1] = "label")
         /\ Target[n + 1] = IF kinds[n + 1] = "label" THEN <<Cells[y]>> ELSE <<>>
<1>1. PICK kind \in AllKinds : kind = kinds[n + 1]
  BY PartShape
<1>2. /\ Source[n + 1] = Piece(kind) /\ Target[n + 1] = Second(kind, y)
      /\ k + 1 = Len(Piece(kind)) /\ kind # "missing"
  BY <1>1, PartShape
<1>3. /\ Identifier \in Seq(Words) /\ Len(Identifier) = k - 1
      /\ \A m \in 1..k - 1 : Identifier[m] = Source[n + 1][m + 1]
  <2>1. k > 0 /\ ~(stage = "labels" /\ kinds[n + 1] = "file")
    OBVIOUS
  <2> QED BY <2>1, Between
<1>4. PICK v \in Seq(Words) : v = Identifier
  BY <1>3
<1>5. kind \in {"label", "unknown"}
  BY <1>1, <1>2 DEF Braced
<1>6. PICK label \in Words : label = "label"
  BY WordFacts, Zenon DEF PieceWords
<1>7. CASE kind = "label"
  <2>1. Len(Piece(kind)) = 3 /\ Piece(kind)[2] = label
    BY <1>6, <1>7, Spelled, Zenon
  <2>2. k = 2
    BY <1>2, <2>1
  <2>3. Len(v) = 1 /\ v[1] = label
    <3>1. 1 \in 1..k - 1 /\ 1 + 1 = 2 /\ k - 1 = 1
      BY <2>2
    <3> QED BY <1>2, <1>3, <1>4, <2>1, <3>1
  <2>4. v = <<label>>
    BY <2>3
  <2>5. Identifier = <<"label">>
    BY <1>4, <1>6, <2>4, Zenon
  <2>6. Target[n + 1] = <<Cells[y]>>
    BY <1>2, <1>7 DEF Second, Expansion
  <2> QED BY <1>1, <1>7, <2>5, <2>6
<1>8. CASE kind = "unknown"
  <2>1. Len(Piece(kind)) = 6
    BY <1>8, Spelled
  <2>2. k = 5
    BY <1>2, <2>1
  <2>3. Len(v) = 4
    BY <1>3, <1>4, <2>2
  <2>4. v # <<label>>
    <3>1. Len(<<label>>) = 1
      OBVIOUS
    <3>2. Len(v) # Len(<<label>>)
      BY <2>3, <3>1
    <3> QED BY <3>2, Zenon
  <2>5. Identifier # <<"label">>
    BY <1>4, <1>6, <2>4, Zenon
  <2>6. Target[n + 1] = <<>>
    BY <1>2, <1>8 DEF Second
  <2> QED BY <1>1, <1>8, <2>5, <2>6
<1> QED BY <1>1, <1>5, <1>7, <1>8

\* The outer closing brace.
LEMMA Closed ==
  ASSUME TwoStages, More, NEW n, NEW k, At(n, k), ~(stage = "labels" /\ kinds[n + 1] = "file"),
         kinds[n + 1] \in Braced, k \in {2, 5}, k + 1 = Len(Source[n + 1]), CloseReport \/ CloseIssue
  PROVE  TwoStages'
<1>1. /\ Given /\ y \in Rows /\ depth = 1 /\ identifier # 0 /\ Target[n + 1] \in Seq(Words)
      /\ Join(Out, Target[n + 1]) = Sofar(Target, n + 1)
  <2>1. /\ Given /\ y \in Rows /\ Upto(Source, n) \in Nat /\ Target[n + 1] \in Seq(Words)
        /\ depth = (IF k = 0 THEN 0 ELSE IF k \in {3, 4} THEN 2 ELSE 1)
        /\ k > 0 => identifier = Upto(Source, n) + 2
        /\ Join(Out, Target[n + 1]) = Sofar(Target, n + 1)
    BY Standing
  <2>2. depth = 1 /\ k > 0
    BY <2>1
  <2> QED BY <2>1, <2>2
<1>2. PICK w \in Seq(Words) : w = Target[n + 1]
  BY <1>1
<1>3. depth' = 0 /\ i' = i + 1 /\ identifier' = identifier
  <2>1. /\ depth' = IF depth = 0 THEN 0 ELSE depth - 1
        /\ i' = i + 1 /\ identifier' = identifier
    BY DEF CloseReport, CloseIssue
  <2> QED BY <1>1, <2>1
<1>4. depth' \in Nat /\ identifier' \in Nat
  BY <1>1, <1>3 DEF Given
<1>5. CASE CloseReport
  <2>1. stage = "files"
    BY <1>5 DEF CloseReport
  <2>2. FileReplacement = w
    BY <1>2, <2>1, Replaced
  <2>3. ~(depth > 1)
    BY <1>1
  <2>4. Emit(w) /\ UNCHANGED stage
    BY <1>1, <1>5, <2>2, <2>3 DEF CloseReport
  <2>5. success' = success /\ UNCHANGED <<kinds, template, file, y>>
    BY <1>5 DEF CloseReport
  <2>6. success' \in BOOLEAN
    BY <1>1, <2>5 DEF Given
  <2>7. Reads(w)
    BY <1>3, <1>4, <2>4, <2>5, <2>6 DEF Reads, Fixed
  <2> QED BY <1>1, <1>2, <1>3, <2>1, <2>5, <2>7, Completed
<1>6. CASE CloseIssue
  <2>1. stage = "labels"
    BY <1>6 DEF CloseIssue
  <2>2. /\ kinds[n + 1] \in {"label", "unknown"}
        /\ (Identifier = <<"label">>) = (kinds[n + 1] = "label")
        /\ w = IF kinds[n + 1] = "label" THEN <<Cells[y]>> ELSE <<>>
    <3>1. kinds[n + 1] # "file"
      BY <2>1
    <3> QED BY <1>2, <2>1, <3>1, LookedUp
  <2>3. /\ Emit(IF Identifier = <<"label">> THEN <<Cells[y]>> ELSE <<>>)
        /\ success' = (success /\ Identifier = <<"label">>)
    BY <1>1, <1>6 DEF CloseIssue
  <2>4. Emit(w)
    <3>1. (IF Identifier = <<"label">> THEN <<Cells[y]>> ELSE <<>>) = w
      BY <2>2
    <3> QED BY <2>3, <3>1
  <2>5. success' = (success /\ kinds[n + 1] # "unknown")
    <3>1. (Identifier = <<"label">>) = (kinds[n + 1] # "unknown")
      <4>1. (kinds[n + 1] = "label") = (kinds[n + 1] # "unknown")
        BY <2>2
      <4> QED BY <2>2, <4>1
    <3> QED BY <2>3, <3>1
  <2>6. success' \in BOOLEAN
    BY <2>5
  <2>7. Reads(w)
    BY <1>3, <1>4, <1>6, <2>4, <2>6 DEF Reads, CloseIssue
  <2> QED BY <1>1, <1>2, <1>3, <2>1, <2>5, <2>7, Completed
<1> QED BY <1>5, <1>6

\* Every word that is read leads to the next spot.
LEMMA WordRead ==
  ASSUME TwoStages, More, Dollars \/ Open \/ CloseReport \/ CloseIssue \/ Text
  PROVE  TwoStages'
<1>1. PICK n \in 0..Count - 1, k \in Nat : At(n, k)
  BY Spot DEF At
<1>2. CASE stage = "labels" /\ kinds[n + 1] = "file"
  <2>1. Given /\ y \in Rows
    <3>1. Given /\ Working /\ y <= RowCount
      BY DEF TwoStages, More
    <3> QED BY <3>1, SourceFacts
  <2>2. PICK s \in Contents : s = file[y]
    BY <2>1 DEF Given
  <2>3. Source[n + 1] = s
    <3>1. Reported(y)[n + 1] = First("file", y)
      BY <1>2, <2>1, PartTypes
    <3> QED BY <1>2, <2>2, <3>1 DEF Source, First
  <2>4. k + 1 \in 1..Len(s) /\ c = s[k + 1]
    <3>1. Len(s) \in Nat
      BY <2>1, PlainFacts DEF Given
    <3> QED BY <1>1, <2>3, <3>1 DEF At
  <2>5. c \notin {"$$", "${", "}"}
    BY <2>1, <2>4, PlainFacts DEF Given
  <2>6. Text
    BY <2>5 DEF Dollars, Open, CloseReport, CloseIssue
  <2> QED BY <1>1, <1>2, <2>6, InFile
<1>3. CASE ~(stage = "labels" /\ kinds[n + 1] = "file")
  <2>1. PICK kind \in AllKinds : kind = kinds[n + 1] /\ Source[n + 1] = Piece(kind)
    BY <1>1, <1>3, PartShape
  <2>2. k < Len(Piece(kind)) /\ c = Piece(kind)[k + 1]
    BY <1>1, <2>1 DEF At
  <2>3. \/ kind = "text" /\ k = 0 /\ k + 1 = Len(Piece(kind)) /\ c = "text"
        \/ kind = "dollar" /\ k = 0 /\ k + 1 = Len(Piece(kind)) /\ c = "$$"
        \/ kind \in Braced /\ k \in {0, 2} /\ k + 1 < Len(Piece(kind)) /\ c = "${"
        \/ kind \in Braced /\ k \in {1, 3} /\ k + 1 < Len(Piece(kind)) /\ c \in {"./file", "label"}
        \/ kind \in Braced /\ k = 4 /\ k + 1 < Len(Piece(kind)) /\ c = "}"
        \/ kind \in Braced /\ k \in {2, 5} /\ k + 1 = Len(Piece(kind)) /\ c = "}"
    BY <2>2, Characters
  <2>4. CASE kind = "text" /\ k = 0 /\ k + 1 = Len(Piece(kind)) /\ c = "text"
    <3>1. Text
      BY <2>4 DEF Dollars, Open, CloseReport, CloseIssue
    <3> QED BY <1>1, <1>3, <2>1, <2>4, <3>1, Copied
  <2>5. CASE kind = "dollar" /\ k = 0 /\ k + 1 = Len(Piece(kind)) /\ c = "$$"
    <3>1. Dollars
      BY <2>5 DEF Open, CloseReport, CloseIssue, Text
    <3> QED BY <1>1, <1>3, <2>1, <2>5, <3>1, CopiedDollars
  <2>6. CASE kind \in Braced /\ k \in {0, 2} /\ k + 1 < Len(Piece(kind)) /\ c = "${"
    <3>1. Open
      BY <2>6 DEF Dollars, CloseReport, CloseIssue, Text
    <3> QED BY <1>1, <1>3, <2>1, <2>6, <3>1, Opened
  <2>7. CASE kind \in Braced /\ k \in {1, 3} /\ k + 1 < Len(Piece(kind)) /\ c \in {"./file", "label"}
    <3>1. Text
      BY <2>7 DEF Dollars, Open, CloseReport, CloseIssue
    <3> QED BY <1>1, <1>3, <2>1, <2>7, <3>1, Named
  <2>8. CASE kind \in Braced /\ k = 4 /\ k + 1 < Len(Piece(kind)) /\ c = "}"
    <3>1. CloseReport \/ CloseIssue
      BY <2>8 DEF Dollars, Open, Text
    <3> QED BY <1>1, <1>3, <2>1, <2>8, <3>1, ClosedInner
  <2>9. CASE kind \in Braced /\ k \in {2, 5} /\ k + 1 = Len(Piece(kind)) /\ c = "}"
    <3>1. CloseReport \/ CloseIssue
      BY <2>9 DEF Dollars, Open, Text
    <3> QED BY <1>1, <1>3, <2>1, <2>9, <3>1, Closed
  <2> QED BY <2>3, <2>4, <2>5, <2>6, <2>7, <2>8, <2>9
<1> QED BY <1>2, <1>3

-----------------------------------------------------------------------------
(* From row to row and from stage to stage.                                *)

\* At the beginning of a row nothing is read and nothing written.
LEMMA RowBegins ==
  ASSUME i = 1, depth = 0, Out = <<>>
  PROVE  PlaceIn(Source, Target, Out, 0, 0)
<1>1. \A p : [m \in 1..0 |-> p[m]] = <<>> /\ Len(<<>>) = 0
  OBVIOUS
<1>2. \A p : Sofar(p, 0) = <<>> /\ Upto(p, 0) = 0
  BY <1>1 DEF Sofar, Upto, FlattenSeq
<1> QED BY <1>2 DEF PlaceIn

LEMMA RowDone ==
  ASSUME TwoStages, NextRow
  PROVE  TwoStages'
<1>1. Given /\ Position /\ OtherRows /\ Working /\ y <= RowCount /\ ~More
      /\ stage \in {"files", "labels"}
  BY DEF TwoStages, NextRow, Working
<1>2. y' = y + 1 /\ i' = 1 /\ depth' = 0 /\ identifier' = 0
      /\ UNCHANGED <<kinds, template, file, stage, success, reports, issues>>
  BY DEF NextRow
<1>3. y \in Nat \ {0} /\ RowCount \in Nat \ {0} /\ y \in Rows
  <2>1. y \in Rows
    BY <1>1, SourceFacts
  <2> QED BY <2>1, RowsAreCounted DEF Rows
<1>4. /\ Count' = Count /\ Pieces' = Pieces
      /\ \A row \in Rows : Reported(row)' = Reported(row) /\ Issued(row)' = Issued(row)
      /\ \A n : Known(n)' = Known(n)
  BY <1>2, PartsKept
<1>5. /\ Out = Sofar(Target, Count)
      /\ stage = "labels" /\ y = 1 => success = Known(Count)
  BY <1>1, RowAtEnd
<1>6. Given'
  <2>1. y' \in 1..RowCount + 1
    BY <1>1, <1>2, <1>3
  <2>2. i' \in Nat \ {0} /\ depth' \in Nat /\ identifier' \in Nat
    BY <1>2
  <2> QED BY <1>1, <1>2, <1>4, <2>1, <2>2 DEF Given
<1>7. ASSUME NEW r \in Rows
      PROVE  (/\ stage # "files" \/ r < y => reports[r] = Sofar(Reported(r), Count)
              /\ stage = "files" /\ r > y => reports[r] = <<>>
              /\ ~Working \/ (stage = "labels" /\ r < y) => issues[r] = Sofar(Issued(r), Count)
              /\ stage = "files" \/ (stage = "labels" /\ r > y) => issues[r] = <<>>)'
  <2>1. /\ stage # "files" \/ r < y => reports[r] = Sofar(Reported(r), Count)
        /\ stage = "files" /\ r > y => reports[r] = <<>>
        /\ stage = "labels" /\ r < y => issues[r] = Sofar(Issued(r), Count)
        /\ stage = "files" \/ (stage = "labels" /\ r > y) => issues[r] = <<>>
    BY <1>1 DEF OtherRows
  <2>2. r \in Nat
    BY DEF Rows
  <2>3. Working'
    BY <1>1, <1>2 DEF Working
  <2>4. CASE r = y
    <3>1. stage = "files" => reports[r] = Sofar(Reported(r), Count)
      BY <1>5, <2>4 DEF Out, Target
    <3>2. stage = "labels" => issues[r] = Sofar(Issued(r), Count)
      BY <1>5, <2>4 DEF Out, Target
    <3>3. ~(r > y')
      BY <1>2, <1>3, <2>4
    <3> QED BY <1>2, <1>4, <2>1, <2>3, <3>1, <3>2, <3>3
  <2>5. CASE r # y
    <3>1. (r < y') = (r < y) /\ (r > y' => r > y)
      BY <1>2, <1>3, <2>2, <2>5
    <3> QED BY <1>2, <1>4, <2>1, <2>3, <3>1
  <2> QED BY <2>4, <2>5
<1>8. OtherRows'
  BY <1>7 DEF OtherRows
<1>9. y' <= RowCount => PlaceIn(Source, Target, Out, 0, 0)'
  <2> SUFFICES ASSUME y' <= RowCount PROVE PlaceIn(Source, Target, Out, 0, 0)'
    OBVIOUS
  <2>1. PICK z \in Rows : z = y' /\ z > y
    BY <1>2, <1>3 DEF Rows
  <2>2. /\ stage = "files" => reports[z] = <<>>
        /\ stage = "labels" => issues[z] = <<>>
    BY <1>1, <2>1 DEF OtherRows
  <2>3. Out' = <<>>
    BY <1>1, <1>2, <2>1, <2>2 DEF Out
  <2>4. (i = 1 /\ depth = 0 /\ Out = <<>>)'
    BY <1>2, <2>3
  <2>5. (i = 1 /\ depth = 0 /\ Out = <<>>)' => PlaceIn(Source, Target, Out, 0, 0)'
    BY RowBegins, PTL
  <2> QED BY <2>4, <2>5
<1>10. /\ stage' = "files" => success'
       /\ stage' = "labels" /\ y' > 1 => success' = Known(Count)'
  <2>1. stage = "files" => success
    BY <1>1 DEF Position
  <2>2. stage = "labels" => success = Known(Count)
    <3>1. y = 1 \/ y > 1
      BY <1>3
    <3>2. stage = "labels" /\ y > 1 => success = Known(Count)
      BY <1>1 DEF Position
    <3> QED BY <1>5, <3>1, <3>2
  <2>3. Known(Count)' = Known(Count)
    BY <1>4
  <2> QED BY <1>2, <2>1, <2>2, <2>3
<1>11. Position'
  <2>1. y' # 1
    BY <1>2, <1>3
  <2>2. 0 \in (0..Count)' /\ 0 \in Nat
    BY <1>1, <1>4, PartTypes
  <2> QED BY <1>2, <1>9, <1>10, <2>1, <2>2 DEF Position
<1>12. Ended'
  BY <1>1, <1>2 DEF Ended, Working
<1> QED BY <1>6, <1>8, <1>11, <1>12 DEF TwoStages

LEMMA StageDone ==
  ASSUME TwoStages, NextStage
  PROVE  TwoStages'
<1>1. Given /\ Position /\ OtherRows /\ Working /\ y > RowCount
      /\ stage \in {"files", "labels"}
  BY DEF TwoStages, NextStage, Working
<1>2. UNCHANGED <<kinds, template, file, i, depth, identifier, success, reports, issues>>
  BY DEF NextStage
<1>3. y = RowCount + 1 /\ y \in Nat /\ RowCount \in Nat \ {0} /\ i = 1 /\ depth = 0 /\ 1 \in Rows
  <2>1. y \in 1..RowCount + 1 /\ RowCount \in Nat \ {0}
    BY <1>1, RowsAreCounted DEF Given
  <2>2. i = 1 /\ depth = 0
    BY <1>1 DEF Position
  <2> QED BY <1>1, <2>1, <2>2 DEF Rows
<1>4. /\ Count' = Count /\ Pieces' = Pieces
      /\ \A row \in Rows : Reported(row)' = Reported(row) /\ Issued(row)' = Issued(row)
      /\ \A n : Known(n)' = Known(n)
  BY <1>2, PartsKept
<1>5. \A r \in Rows : r < y /\ ~(r > y) /\ r \in Nat \ {0}
  BY <1>3 DEF Rows
<1>6. \A r \in Rows : /\ reports[r] = Sofar(Reported(r), Count)
                      /\ stage = "labels" => issues[r] = Sofar(Issued(r), Count)
                      /\ stage = "files" => issues[r] = <<>>
  BY <1>1, <1>5 DEF OtherRows
<1>7. CASE stage = "files"
  <2>1. stage' = "labels" /\ y' = 1
    BY <1>7 DEF NextStage
  <2>2. Given'
    <3>1. y' \in 1..RowCount + 1
      BY <1>3, <2>1
    <3> QED BY <1>1, <1>2, <1>4, <2>1, <3>1 DEF Given
  <2>3. OtherRows'
    <3>1. Working'
      BY <2>1 DEF Working
    <3>2. \A r \in Rows : ~(r < 1)
      BY <1>5
    <3> QED BY <1>2, <1>4, <1>6, <1>7, <2>1, <3>1, <3>2 DEF OtherRows
  <2>4. PlaceIn(Source, Target, Out, 0, 0)'
    <3>1. Out' = <<>>
      BY <1>2, <1>3, <1>6, <1>7, <2>1 DEF Out
    <3>2. (i = 1 /\ depth = 0 /\ Out = <<>>)'
      BY <1>2, <1>3, <3>1
    <3>3. (i = 1 /\ depth = 0 /\ Out = <<>>)' => PlaceIn(Source, Target, Out, 0, 0)'
      BY RowBegins, PTL
    <3> QED BY <3>2, <3>3
  <2>5. success' = Known(0)'
    <3>1. success
      BY <1>1, <1>7 DEF Position
    <3>2. success = TRUE
      BY <1>1, <3>1 DEF Given
    <3>3. Known(0) = TRUE
      BY DEF Known
    <3> QED BY <1>2, <1>4, <3>2, <3>3
  <2>6. ~(y' > RowCount) /\ ~(y' > 1) /\ 0 \in Nat /\ 0 \in (0..Count)'
    <3>1. 0 \in 0..Count
      BY <1>1, PartTypes
    <3> QED BY <1>3, <1>4, <2>1, <3>1
  <2>7. Position'
    BY <2>1, <2>4, <2>5, <2>6 DEF Position
  <2>8. Ended'
    BY <2>1 DEF Ended, Working
  <2> QED BY <2>2, <2>3, <2>7, <2>8 DEF TwoStages
<1>8. CASE stage = "labels"
  <2>1. stage' = (IF success THEN "done" ELSE "abort") /\ y' = y
    BY <1>8 DEF NextStage
  <2>2. ~Working' /\ stage' \in {"done", "abort"} /\ stage' # "files" /\ stage' # "labels"
    BY <2>1 DEF Working
  <2>3. Given'
    BY <1>1, <1>2, <1>4, <2>1, <2>2 DEF Given
  <2>4. OtherRows'
    BY <1>2, <1>4, <1>6, <1>8, <2>2 DEF OtherRows
  <2>5. Position'
    BY <2>2 DEF Position
  <2>6. success = Known(Count)
    <3>1. y > 1
      BY <1>3
    <3> QED BY <1>1, <1>8, <3>1 DEF Position
  <2>7. Ended'
    BY <1>4, <2>1, <2>6 DEF Ended
  <2> QED BY <2>3, <2>4, <2>5, <2>7 DEF TwoStages
<1> QED BY <1>1, <1>7, <1>8

LEMMA Beginning ==
  ASSUME PlainFiles, FormatInit
  PROVE  TwoStages
<1>1. PICK n \in Nat : kinds \in [1..n -> Kinds]
  BY RowsAreCounted DEF FormatInit
<1>2. kinds \in Seq(AllKinds) /\ DOMAIN kinds = 1..n /\ Count = n
  <2>1. kinds \in [1..n -> AllKinds]
    BY <1>1, KindsArePieces
  <2>2. kinds \in Seq(AllKinds)
    BY <2>1
  <2> QED BY <2>1, <2>2 DEF Count
<1>3. template = Sofar(Pieces, Count)
  <2>1. [m \in DOMAIN kinds |-> Piece(kinds[m])] = [m \in 1..Count |-> Pieces[m]]
    BY <1>2 DEF Pieces
  <2> QED BY <2>1 DEF FormatInit, Sofar
<1>4. RowCount \in Nat \ {0} /\ 1 \in Rows
  BY RowsAreCounted DEF Rows
<1>5. stage = "files" /\ y = 1 /\ i = 1 /\ depth = 0 /\ identifier = 0 /\ success = TRUE
      /\ file \in [Rows -> Contents]
      /\ reports = [r \in Rows |-> <<>>] /\ issues = [r \in Rows |-> <<>>]
  BY DEF FormatInit
<1>6. Given
  <2>1. reports \in [Rows -> Seq(Words)] /\ issues \in [Rows -> Seq(Words)]
    <3>1. <<>> \in Seq(Words)
      BY EmptySeq
    <3> QED BY <1>5, <3>1
  <2>2. y \in 1..RowCount + 1 /\ i \in Nat \ {0} /\ depth \in Nat /\ identifier \in Nat
    BY <1>4, <1>5
  <2> QED BY <1>2, <1>3, <1>5, <2>1, <2>2 DEF Given
<1>7. OtherRows
  <2>1. \A r \in Rows : ~(r < y) /\ reports[r] = <<>> /\ issues[r] = <<>>
    BY <1>5 DEF Rows
  <2> QED BY <1>5, <2>1 DEF OtherRows, Working
<1>8. PlaceIn(Source, Target, Out, 0, 0)
  <2>1. Out = <<>>
    BY <1>4, <1>5 DEF Out
  <2> QED BY <1>5, <2>1, RowBegins
<1>9. Position
  <2>1. ~(y > RowCount) /\ ~(y > 1) /\ 0 \in 0..Count /\ 0 \in Nat
    BY <1>2, <1>4, <1>5
  <2> QED BY <1>5, <1>8, <2>1 DEF Position
<1>10. Ended
  BY <1>5 DEF Ended, Working
<1> QED BY <1>6, <1>7, <1>9, <1>10 DEF TwoStages

LEMMA Unmoved ==
  ASSUME TwoStages, UNCHANGED formatVars
  PROVE  TwoStages'
<1>1. UNCHANGED <<kinds, template, file, stage, y, i, depth, identifier, success, reports, issues>>
  BY DEF formatVars
<1>2. /\ Count' = Count /\ Pieces' = Pieces
      /\ \A row : Reported(row)' = Reported(row) /\ Issued(row)' = Issued(row)
      /\ \A n : Known(n)' = Known(n)
  BY <1>1 DEF Count, Pieces, Reported, Issued, First, Second, Expansion, Known
<1>3. Source' = Source /\ Target' = Target /\ Out' = Out /\ Working' = Working
  BY <1>1, <1>2 DEF Source, Target, Out, Working
<1>4. Given'
  BY <1>1, <1>2 DEF TwoStages, Given
<1>5. Position'
  BY <1>1, <1>2, <1>3 DEF TwoStages, Position, PlaceIn
<1>6. OtherRows'
  BY <1>1, <1>2, <1>3 DEF TwoStages, OtherRows
<1>7. Ended'
  BY <1>1, <1>2, <1>3 DEF TwoStages, Ended
<1> QED BY <1>4, <1>5, <1>6, <1>7 DEF TwoStages

-----------------------------------------------------------------------------
(* The theorems.                                                           *)

\* Row, place, depth of braces and identifier keep their types, and every row keeps a
\* report and an issue, whatever template and files hold
\* (format_report_by_file_replacement, format_feedback_issues).
THEOREM FormatTypeCorrect == FormatSpec => []FormatTypeOK
<1>1. FormatInit => FormatTypeOK
  BY RowsAreCounted DEF FormatInit, FormatTypeOK
<1>2. FormatTypeOK /\ [FormatNext]_formatVars => FormatTypeOK'
  <2> SUFFICES ASSUME FormatTypeOK, [FormatNext]_formatVars PROVE FormatTypeOK'
    OBVIOUS
  <2>1. file \in [Rows -> Contents] /\ y \in 1..RowCount + 1 /\ i \in Nat \ {0} /\ depth \in Nat
        /\ identifier \in Nat /\ success \in BOOLEAN /\ DOMAIN reports = Rows /\ DOMAIN issues = Rows
        /\ stage \in {"files", "labels", "done", "abort", "crash"}
    BY DEF FormatTypeOK
  <2>2. i + 1 \in Nat \ {0} /\ depth + 1 \in Nat
        /\ (IF depth = 0 THEN 0 ELSE depth - 1) \in Nat
    BY <2>1
  <2>3. ASSUME NEW s, Emit(s)
        PROVE  DOMAIN reports' = Rows /\ DOMAIN issues' = Rows
    BY <2>1, <2>3 DEF Emit
  <2>4. CASE Dollars \/ Text
    <3>1. i' = i + 1 /\ Fixed /\ UNCHANGED <<depth, identifier, success>>
      BY <2>4 DEF Dollars, Text
    <3>2. DOMAIN reports' = Rows /\ DOMAIN issues' = Rows
      BY <2>3, <2>4 DEF Dollars, Text
    <3> QED BY <2>1, <2>2, <3>1, <3>2 DEF FormatTypeOK, Fixed
  <2>5. CASE Open
    <3>1. i' = i + 1 /\ depth' = depth + 1 /\ identifier' \in {i + 1, identifier} /\ Fixed
          /\ UNCHANGED <<success, reports, issues>>
      BY <2>5 DEF Open
    <3> QED BY <2>1, <2>2, <3>1 DEF FormatTypeOK, Fixed
  <2>6. CASE CloseReport
    <3>1. i' = i + 1 /\ depth' = (IF depth = 0 THEN 0 ELSE depth - 1)
          /\ UNCHANGED <<file, y, identifier, success>>
      BY <2>6 DEF CloseReport
    <3>2. stage' \in {stage, "crash"}
      BY <2>6 DEF CloseReport
    <3>3. DOMAIN reports' = Rows /\ DOMAIN issues' = Rows
      <4>1. (\E s : Emit(s)) \/ UNCHANGED <<reports, issues>>
        BY <2>6 DEF CloseReport
      <4> QED BY <2>1, <2>3, <4>1
    <3> QED BY <2>1, <2>2, <3>1, <3>2, <3>3 DEF FormatTypeOK
  <2>7. CASE CloseIssue
    <3>1. i' = i + 1 /\ depth' = (IF depth = 0 THEN 0 ELSE depth - 1)
          /\ Fixed /\ UNCHANGED identifier
      BY <2>7 DEF CloseIssue
    <3>2. success' \in BOOLEAN
      BY <2>1, <2>7 DEF CloseIssue
    <3>3. DOMAIN reports' = Rows /\ DOMAIN issues' = Rows
      <4>1. (\E s : Emit(s)) \/ UNCHANGED <<reports, issues>>
        BY <2>7 DEF CloseIssue
      <4> QED BY <2>1, <2>3, <4>1
    <3> QED BY <2>1, <2>2, <3>1, <3>2, <3>3 DEF FormatTypeOK, Fixed
  <2>8. CASE NextRow
    BY <2>1, <2>8, RowsAreCounted DEF FormatTypeOK, NextRow
  <2>9. CASE NextStage
    BY <2>1, <2>9, RowsAreCounted DEF FormatTypeOK, NextStage
  <2>10. CASE UNCHANGED formatVars
    BY <2>1, <2>10 DEF FormatTypeOK, formatVars
  <2> QED BY <2>4, <2>5, <2>6, <2>7, <2>8, <2>9, <2>10 DEF FormatNext
<1> QED BY <1>1, <1>2, PTL DEF FormatSpec

LEMMA Stages == PlainFiles /\ FormatSpec => []TwoStages
<1>1. PlainFiles /\ FormatInit => TwoStages
  BY Beginning
<1>2. TwoStages /\ [FormatNext]_formatVars => TwoStages'
  <2> SUFFICES ASSUME TwoStages, [FormatNext]_formatVars PROVE TwoStages'
    OBVIOUS
  <2>1. CASE Dollars \/ Open \/ CloseReport \/ CloseIssue \/ Text
    <3>1. More
      BY <2>1 DEF Dollars, Open, CloseReport, CloseIssue, Text
    <3> QED BY <2>1, <3>1, WordRead
  <2>2. CASE NextRow
    BY <2>2, RowDone
  <2>3. CASE NextStage
    BY <2>3, StageDone
  <2>4. CASE UNCHANGED formatVars
    BY <2>4, Unmoved
  <2> QED BY <2>1, <2>2, <2>3, <2>4 DEF FormatNext
<1> QED BY <1>1, <1>2, PTL DEF FormatSpec

LEMMA StagesGive ==
  ASSUME TwoStages
  PROVE  Expanded
<1> SUFFICES ASSUME ~Working PROVE Expanded
  BY DEF Expanded
<1>1. Given /\ OtherRows /\ stage = IF Known(Count) THEN "done" ELSE "abort"
  BY DEF TwoStages, Ended
<1>2. DOMAIN kinds = 1..Count
  BY <1>1 DEF Given, Count
<1>3. CASE \E n \in DOMAIN kinds : kinds[n] = "unknown"
  BY <1>1, <1>2, <1>3 DEF Known, Expanded
<1>4. CASE ~\E n \in DOMAIN kinds : kinds[n] = "unknown"
  <2>1. stage = "done"
    BY <1>1, <1>2, <1>4 DEF Known
  <2>2. ASSUME NEW row \in Rows
        PROVE  issues[row] = FlattenSeq([n \in DOMAIN kinds |-> Expansion(kinds[n], row)])
    <3>1. issues[row] = Sofar(Issued(row), Count)
      BY <1>1 DEF OtherRows
    <3>2. \A n \in 1..Count : Issued(row)[n] = Expansion(kinds[n], row)
      BY <1>2, <1>4 DEF Issued, Second
    <3>3. [n \in 1..Count |-> Issued(row)[n]] = [n \in DOMAIN kinds |-> Expansion(kinds[n], row)]
      BY <1>2, <3>2
    <3> QED BY <3>1, <3>3 DEF Sofar
  <2> QED BY <1>4, <2>1, <2>2 DEF Expanded
<1> QED BY <1>3, <1>4

\* Whatever pieces a template has, for any number of students and as long as their
\* files have neither braces nor dollars, the two scans together write what the pieces say into every
\* student's issue: a brace pair in braces goes with the outer one, two dollar signs
\* survive the first scan as two and the second as one, no scan dereferences an
\* identifier that is null, and grades are held back when and only when a label is
\* unknown (format_report_by_file_replacement, format_feedback_issues,
\* announce_grade).
THEOREM StagesExpand == PlainFiles /\ FormatSpec => []Expanded
BY Stages, StagesGive, PTL

-----------------------------------------------------------------------------
(* Both readers of text, as they are checked together.                     *)

LEMMA Readers == MCSpec => Spec /\ FormatSpec
<1>1. MCInit => Init /\ FormatInit
  BY DEF MCInit
<1>2. [MCNext]_<<vars, formatVars>> => [Next]_vars
  BY DEF MCNext
<1>3. [MCNext]_<<vars, formatVars>> => [FormatNext]_formatVars
  BY DEF MCNext
<1> QED BY <1>1, <1>2, <1>3, PTL DEF MCSpec, Spec, FormatSpec

\* The configuration file and the templates do not share state: what is proved of
\* each reader holds of both (config.c, hand.c).
THEOREM BothTyped == MCSpec => []MCTypeOK
BY Readers, TypeCorrect, FormatTypeCorrect, PTL DEF MCTypeOK
=============================================================================
