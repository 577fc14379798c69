---------------------------- MODULE ConfigProof -----------------------------
(***************************************************************************)
(* Proofs about Config, for every file: type correctness, and the ring of  *)
(* look-ahead tokens that never loses, repeats or reorders a token.        *)
(***************************************************************************)
EXTENDS Config, WellFoundedInduction, TLAPS

-----------------------------------------------------------------------------
(* Tokens and positions.                                                   *)

LEMMA TokenFacts ==
  /\ Eof \in Token /\ Equal \in Token
  /\ \A t \in Token : t.type = "string" => t.text \in Values
BY DEF Eof, Equal, Id, Str, Token

LEMMA TokenAtTyped == ASSUME text \in Seq(Token), NEW n \in Nat \ {0} PROVE TokenAt(n) \in Token
BY TokenFacts DEF TokenAt

\* Positions wrap around, and so does the distance between two of them.
LEMMA WrapFacts == \A i \in Int : Wrap(i) \in Ring
BY DEF Wrap, Ring

LEMMA Distance ==
  ASSUME NEW a \in Ring, NEW b \in Ring
  PROVE  /\ Wrap(b - a) \in 0..3
         /\ Wrap(a + Wrap(b - a)) = b
         /\ \A n \in 0..3 : Wrap(a + n) = b => n = Wrap(b - a)
         /\ Wrap(b - a) < 3 => Wrap(Wrap(b + 1) - a) = Wrap(b - a) + 1
BY DEF Wrap, Ring

\* Eating tokens that are buffered brings the first position closer.
LEMMA Closer ==
  ASSUME NEW a \in Ring, NEW b \in Ring, NEW n \in 0..Wrap(b - a)
  PROVE  /\ Wrap(b - Wrap(a + n)) = Wrap(b - a) - n
         /\ \A j \in 0..3 : Wrap(Wrap(a + n) + j) = Wrap(a + (n + j))
BY DEF Wrap, Ring

-----------------------------------------------------------------------------
(* Type correctness and the order of the tokens.                           *)

Ordered == TypeOK /\ TokensInOrder

LEMMA OrderedInit == Init => Ordered
<1> SUFFICES ASSUME Init PROVE Ordered
  OBVIOUS
<1>1. text \in Seq(Token)
  BY KeysAreCounted DEF Init, Texts
<1>2. TypeOK
  BY <1>1, TokenFacts DEF Init, Start, TypeOK, Ring
<1>3. Buffered = 0 /\ peeked = 0
  BY DEF Init, Start, Buffered, Wrap
<1>4. TokensInOrder
  BY <1>3 DEF TokensInOrder
<1> QED BY <1>2, <1>4 DEF Ordered

LEMMA OrderedPeek == ASSUME Ordered, PeekToken PROVE Ordered'
<1> DEFINE index == Wrap(lookahead_to_read + peeked)
<1>1. /\ lookahead_to_read \in Ring /\ lookahead_to_write \in Ring /\ at \in Nat
      /\ text \in Seq(Token) /\ lookaheads \in [Ring -> Token] /\ peeked \in 0..2
      /\ peeked <= Buffered /\ Buffered \in 0..3
      /\ \A j \in 0..Buffered - 1 : T(j) = TokenAt(at - Buffered + j + 1)
  BY Distance DEF Ordered, TypeOK, TokensInOrder, PeekToken, Buffered
<1>2. UNCHANGED <<text, lookahead_to_read, value, parsing>> /\ peeked' = peeked + 1
  BY DEF PeekToken
<1>3. CASE index # lookahead_to_write
  <2>1. UNCHANGED <<lookaheads, lookahead_to_write, at>>
    BY <1>3 DEF PeekToken
  <2>2. TypeOK'
    BY <1>1, <1>2, <2>1 DEF Ordered, TypeOK
  <2>3. Wrap(lookahead_to_read + Buffered) = lookahead_to_write
    BY <1>1, Distance DEF Buffered
  <2>4. peeked # Buffered
    BY <1>3, <2>3
  <2>5. Buffered' = Buffered /\ \A j : T(j)' = T(j) /\ \A n : TokenAt(n)' = TokenAt(n)
    BY <1>2, <2>1 DEF Buffered, T, TokenAt
  <2>6. TokensInOrder'
    BY <1>1, <1>2, <2>1, <2>4, <2>5 DEF TokensInOrder
  <2> QED BY <2>2, <2>6 DEF Ordered
<1>4. CASE index = lookahead_to_write
  <2>1. /\ lookaheads' = [lookaheads EXCEPT ![lookahead_to_write] = TokenAt(at + 1)]
        /\ lookahead_to_write' = Wrap(lookahead_to_write + 1)
        /\ at' = at + 1
    BY <1>4 DEF PeekToken
  <2>2. TokenAt(at + 1) \in Token
    BY <1>1, TokenAtTyped
  <2>3. TypeOK'
    <3>1. lookahead_to_write' \in Ring
      BY <1>1, <2>1, WrapFacts DEF Ring
    <3>2. lookaheads' \in [Ring -> Token]
      BY <1>1, <2>1, <2>2
    <3> QED BY <1>1, <1>2, <2>1, <3>1, <3>2 DEF Ordered, TypeOK
  <2>4. peeked = Buffered
    BY <1>1, <1>4, Distance DEF Buffered
  <2>5. Buffered' = Buffered + 1
    BY <1>1, <1>2, <2>1, <2>4, Distance DEF Buffered
  <2>6. ASSUME NEW j \in 0..Buffered' - 1
        PROVE  T(j)' = TokenAt(at - Buffered + j + 1)
    <3>1. T(j)' = lookaheads'[Wrap(lookahead_to_read + j)] /\ j \in 0..3
          /\ Wrap(lookahead_to_read + j) \in Ring
      BY <1>1, <1>2, <2>4, <2>5, WrapFacts DEF T, Ring
    <3>2. CASE j = Buffered
      <4>1. Wrap(lookahead_to_read + j) = lookahead_to_write
        BY <1>4, <2>4, <3>2
      <4> QED BY <1>1, <2>1, <3>1, <3>2, <4>1
    <3>3. CASE j # Buffered
      <4>1. Wrap(lookahead_to_read + j) # lookahead_to_write
        BY <1>1, <3>1, <3>3, Distance DEF Buffered
      <4>2. T(j)' = T(j)
        BY <1>1, <2>1, <3>1, <4>1 DEF T
      <4>3. j \in 0..Buffered - 1
        BY <1>1, <2>5, <3>3
      <4> QED BY <1>1, <4>2, <4>3
    <3> QED BY <3>2, <3>3
  <2>7. at' - Buffered' = at - Buffered /\ \A n : TokenAt(n)' = TokenAt(n)
    BY <1>1, <1>2, <2>1, <2>5 DEF TokenAt
  <2>8. TokensInOrder'
    BY <1>2, <2>4, <2>5, <2>6, <2>7 DEF TokensInOrder
  <2> QED BY <2>3, <2>8 DEF Ordered
<1> QED BY <1>3, <1>4

LEMMA OrderedEat ==
  ASSUME Ordered, NEW n \in 1..3, peeked = 3, EatTokens(n), UNCHANGED parsing,
         value' \in [Keys -> Values \cup {Null}]
  PROVE  Ordered'
<1>1. /\ lookahead_to_read \in Ring /\ lookahead_to_write \in Ring /\ at \in Nat
      /\ peeked <= Buffered /\ Buffered \in 0..3
      /\ \A j \in 0..Buffered - 1 : T(j) = TokenAt(at - Buffered + j + 1)
  BY Distance DEF Ordered, TypeOK, TokensInOrder, Buffered
<1>2. /\ lookahead_to_read' = Wrap(lookahead_to_read + n) /\ peeked' = 0
      /\ UNCHANGED <<text, at, lookaheads, lookahead_to_write>>
  BY DEF EatTokens
<1>3. Buffered = 3
  BY <1>1
<1>4. lookahead_to_read' \in Ring
  BY <1>1, <1>2, WrapFacts DEF Ring
<1>5. TypeOK'
  BY <1>2, <1>4 DEF Ordered, TypeOK
<1>6. Buffered' = Buffered - n
      /\ \A j \in 0..3 : Wrap(lookahead_to_read' + j) = Wrap(lookahead_to_read + (n + j))
  <2>1. n \in 0..Wrap(lookahead_to_write - lookahead_to_read)
    BY <1>3 DEF Buffered
  <2> QED BY <1>1, <1>2, <2>1, Closer DEF Buffered
<1>7. ASSUME NEW j \in 0..Buffered' - 1
      PROVE  T(j)' = TokenAt(at' - Buffered' + j + 1)
  <2>1. j \in 0..3 /\ n + j \in 0..Buffered - 1
    BY <1>3, <1>6
  <2>2. T(j)' = T(n + j)
    BY <1>2, <1>6, <2>1 DEF T
  <2>3. at' - Buffered' + j + 1 = at - Buffered + (n + j) + 1
    BY <1>1, <1>2, <1>3, <1>6, <2>1
  <2> QED BY <1>1, <2>1, <2>2, <2>3
<1>8. \A m : TokenAt(m)' = TokenAt(m)
  BY <1>2 DEF TokenAt
<1>9. TokensInOrder'
  BY <1>2, <1>3, <1>6, <1>7, <1>8 DEF TokensInOrder
<1> QED BY <1>5, <1>9 DEF Ordered

LEMMA OrderedStep == Ordered /\ [Next]_vars => Ordered'
<1> SUFFICES ASSUME Ordered, [Next]_vars PROVE Ordered'
  OBVIOUS
<1>1. CASE UNCHANGED vars \/ EndOfFile
  <2>1. UNCHANGED <<text, at, lookaheads, lookahead_to_read, lookahead_to_write, peeked, value>>
        /\ parsing' \in {"on", "success", "failure"}
    BY <1>1 DEF vars, EndOfFile, ring, Ordered, TypeOK
  <2>2. TypeOK'
    BY <2>1 DEF Ordered, TypeOK
  <2>3. TokensInOrder'
    BY <2>1 DEF Ordered, TokensInOrder, Buffered, T, TokenAt
  <2> QED BY <2>2, <2>3 DEF Ordered
<1>2. CASE PeekToken
  BY <1>2, OrderedPeek
<1>3. CASE TakePair
  <2>1. T(2) \in Token
    BY WrapFacts DEF Ordered, TypeOK, T, Ring
  <2>2. T(2).text \in Values
    BY <1>3, <2>1, TokenFacts DEF TakePair, IsPair
  <2>3. value' \in [Keys -> Values \cup {Null}]
    BY <1>3, <2>2 DEF TakePair, Ordered, TypeOK
  <2> QED BY <1>3, <2>3, OrderedEat DEF TakePair
<1>4. CASE SkipTokens
  <2>1. \E n \in 1..3 : EatTokens(n)
    BY <1>4 DEF SkipTokens
  <2> QED BY <1>4, <2>1, OrderedEat DEF SkipTokens, Ordered, TypeOK
<1> QED BY <1>1, <1>2, <1>3, <1>4 DEF Next

\* Positions of the ring stay within its four places and values are strings of
\* the file, or missing (peek_token, eat_tokens, parse_key_value_pair).
THEOREM TypeCorrect == Spec => []TypeOK
<1>1. Ordered => TypeOK
  BY DEF Ordered
<1> QED BY OrderedInit, OrderedStep, <1>1, PTL DEF Spec

\* Whatever pairs, other tokens and bad characters the file holds, the parser
\* sees its tokens one after another: the ring is never full, where it would look
\* empty, and no place is written before it was eaten (peek_token, eat_tokens).
THEOREM TokensStayInOrder == Spec => []TokensInOrder
<1>1. Ordered => TokensInOrder
  BY DEF Ordered
<1> QED BY OrderedInit, OrderedStep, <1>1, PTL DEF Spec

-----------------------------------------------------------------------------
(* The values.                                                             *)

\* A set of numbers has a least element, and a bounded one a greatest.
LEMMA NatMin ==
  ASSUME NEW S \in SUBSET Nat, S # {}
  PROVE  \E x \in S : \A y \in S : x <= y
<1>1. PICK x \in S : \A y \in S : ~(<<y, x>> \in OpToRel(<, Nat))
  BY NatLessThanWellFounded, WFMin
<1>2. \A y \in S : ~(y < x)
  BY <1>1 DEF OpToRel
<1> QED BY <1>2

LEMMA MaxFact ==
  ASSUME NEW n \in Nat, NEW S \in SUBSET (1..n), S # {}
  PROVE  Max(S) \in S /\ \A y \in S : y <= Max(S)
<1> DEFINE Rest == {n - y : y \in S}
<1>0. \A y \in S : y \in Int /\ n - y \in Nat
  OBVIOUS
<1>1. Rest \in SUBSET Nat /\ Rest # {}
  BY <1>0
<1>2. PICK r \in Rest : \A z \in Rest : r <= z
  BY <1>1, NatMin
<1>3. PICK x \in S : r = n - x
  BY <1>2
<1>4. ASSUME NEW y \in S
      PROVE  x >= y
  <2>1. n - x <= n - y
    BY <1>2, <1>3
  <2>2. x \in Int /\ y \in Int
    BY <1>0, <1>3
  <2> QED BY <2>1, <2>2
<1> QED BY <1>3, <1>4 DEF Max

\* load_config finds the key a pair sets: the name of a key begins no earlier one.
LEMMA SetsItsKey ==
  ASSUME text \in Seq(Token), NEW p \in DOMAIN text, NEW k \in Keys, PairAt(p)
  PROVE  Sets(p, k) <=> k \in KeyOf(text[p].text)
<1> DEFINE s == text[p].text
           fits == Begins[s]
<1>1. s \in Ids
  <2>1. text[p] \in Token /\ text[p].type = "id"
    BY DEF PairAt
  <2> QED BY <2>1 DEF Token, Eof, Equal, Id, Str
<1>2. fits \in SUBSET Nat /\ fits \in SUBSET Keys /\ Keys \in SUBSET Nat
  BY <1>1, BeginsKeys DEF Keys
<1>3. Sets(p, k) <=> k \in fits /\ \A j \in fits : k <= j
  <2>1. s = Names[k] => k \in fits /\ \A j \in fits : k <= j
    BY NamesInOrder
  <2>2. (\A j \in 1..k - 1 : j \notin fits) <=> (\A j \in fits : k <= j)
    BY <1>2, KeysAreCounted DEF Keys
  <2> QED BY <2>1, <2>2 DEF Sets
<1>4. CASE fits = {}
  BY <1>3, <1>4 DEF KeyOf
<1>5. CASE fits # {}
  <2>1. Min(fits) \in fits /\ \A j \in fits : Min(fits) <= j
    <3> HIDE DEF fits
    <3>1. \E x \in fits : \A y \in fits : x <= y
      BY <1>2, <1>5, NatMin
    <3> QED BY <3>1 DEF Min
  <2>2. KeyOf(s) = {Min(fits)}
    BY <1>5 DEF KeyOf
  <2>3. (k \in fits /\ \A j \in fits : k <= j) <=> k = Min(fits)
    <3> HIDE DEF fits
    <3>1. Min(fits) \in Nat /\ k \in Nat
      BY <1>2, <2>1
    <3>2. CASE k = Min(fits)
      BY <2>1, <3>2
    <3>3. CASE k # Min(fits)
      <4>1. k \in fits => Min(fits) <= k
        BY <2>1
      <4>2. (\A j \in fits : k <= j) => k <= Min(fits)
        BY <2>1
      <4> QED BY <3>1, <3>3, <4>1, <4>2
    <3> QED BY <3>2, <3>3
  <2> QED BY <1>3, <2>2, <2>3
<1> QED BY <1>4, <1>5

\* Where the first token stands that the parser has not eaten.
Eaten == at - Buffered

LastPair(p, k) == Sets(p, k) /\ \A q \in DOMAIN text : Sets(q, k) => q <= p

\* Every value is that of a pair already eaten. An undisturbed pair is never
\* entered in the middle, and once it is eaten, no other value but that of a later
\* pair replaces its own. Reading ends at the end of the file or a bad character.
Loaded ==
  /\ Eaten \in Nat
  /\ \A k \in Keys : value[k] # Null =>
       \E p \in DOMAIN text : Sets(p, k) /\ value[k] = text[p + 2].text
  /\ \A p \in DOMAIN text : PairAt(p) /\ Undisturbed(p) => p > Eaten \/ p + 2 <= Eaten
  /\ \A k \in Keys : \A p \in DOMAIN text :
       LastPair(p, k) /\ Undisturbed(p) /\ p + 2 <= Eaten => value[k] = text[p + 2].text
  /\ parsing # "on" =>
       /\ TokenAt(Eaten + 1) = Eof
       /\ parsing = "success" <=> \A k \in Keys : value[k] # Null

\* The kinds of tokens are told apart by their types.
LEMMA TokenKinds ==
  /\ Eof.type = "eof" /\ Equal.type = "equal"
  /\ \A t \in Token : t.type \in {"eof", "equal", "id", "string"}
BY DEF Eof, Equal, Id, Str, Token

\* The three tokens the parser looks at are the next ones of the file.
LEMMA NextTokens ==
  ASSUME Ordered, peeked = 3, Eaten \in Nat
  PROVE  /\ Buffered = 3 /\ text \in Seq(Token)
         /\ T(0) = TokenAt(Eaten + 1) /\ T(1) = TokenAt(Eaten + 2) /\ T(2) = TokenAt(Eaten + 3)
<1>1. Buffered \in 0..3 /\ peeked <= Buffered /\ at \in Nat /\ text \in Seq(Token)
      /\ \A j \in 0..Buffered - 1 : T(j) = TokenAt(at - Buffered + j + 1)
  BY Distance DEF Ordered, TypeOK, TokensInOrder, Buffered
<1>2. Buffered = 3
  BY <1>1
<1>3. 0 \in 0..Buffered - 1 /\ 1 \in 0..Buffered - 1 /\ 2 \in 0..Buffered - 1
  BY <1>2
<1>4. /\ at - Buffered + 0 + 1 = Eaten + 1
      /\ at - Buffered + 1 + 1 = Eaten + 2
      /\ at - Buffered + 2 + 1 = Eaten + 3
  BY <1>1, <1>2 DEF Eaten
<1> QED BY <1>1, <1>2, <1>3, <1>4

\* Eating moves on by as many tokens.
LEMMA EatenTokens ==
  ASSUME Ordered, peeked = 3, NEW n \in 1..3, EatTokens(n)
  PROVE  Eaten' = Eaten + n /\ text' = text
<1>1. Buffered \in 0..3 /\ peeked <= Buffered /\ at \in Nat
      /\ lookahead_to_read \in Ring /\ lookahead_to_write \in Ring
  BY Distance DEF Ordered, TypeOK, TokensInOrder, Buffered
<1>2. n \in 0..Wrap(lookahead_to_write - lookahead_to_read)
  BY <1>1 DEF Buffered
<1>3. Buffered' = Buffered - n
  BY <1>1, <1>2, Closer DEF EatTokens, Buffered
<1> QED BY <1>1, <1>3 DEF EatTokens, Eaten

\* Peeking eats nothing.
LEMMA EatenPeek ==
  ASSUME Ordered, PeekToken
  PROVE  Eaten' = Eaten /\ text' = text
<1>1. Buffered \in 0..3 /\ peeked \in 0..2 /\ peeked <= Buffered /\ at \in Nat
      /\ lookahead_to_read \in Ring /\ lookahead_to_write \in Ring
  BY Distance DEF Ordered, TypeOK, TokensInOrder, Buffered, PeekToken
<1>2. CASE Wrap(lookahead_to_read + peeked) # lookahead_to_write
  BY <1>2 DEF PeekToken, Eaten, Buffered
<1>3. CASE Wrap(lookahead_to_read + peeked) = lookahead_to_write
  <2>1. peeked = Buffered
    BY <1>1, <1>3, Distance DEF Buffered
  <2>2. /\ lookahead_to_write' = Wrap(lookahead_to_write + 1) /\ at' = at + 1
        /\ UNCHANGED <<lookahead_to_read, text>>
    BY <1>3 DEF PeekToken
  <2>3. Buffered' = Buffered + 1
    BY <1>1, <2>1, <2>2, Distance DEF Buffered
  <2> QED BY <1>1, <2>2, <2>3 DEF Eaten
<1> QED BY <1>2, <1>3

\* A step that eats nothing and changes no value.
LEMMA LoadedKept ==
  ASSUME Loaded, UNCHANGED <<Eaten, text, value, parsing>>
  PROVE  Loaded'
<1>1. \A p, k : Sets(p, k)' = Sets(p, k) /\ LastPair(p, k)' = LastPair(p, k)
  BY DEF Sets, LastPair, PairAt
<1>2. \A p : PairAt(p)' = PairAt(p) /\ Undisturbed(p)' = Undisturbed(p)
  BY DEF PairAt, Undisturbed
<1>3. \A n : TokenAt(n)' = TokenAt(n)
  BY DEF TokenAt
<1> QED BY <1>1, <1>2, <1>3 DEF Loaded

\* What the tokens of an undisturbed pair, and the one before it, are.
LEMMA PairTokens ==
  ASSUME text \in Seq(Token), NEW p \in DOMAIN text, PairAt(p), Undisturbed(p)
  PROVE  /\ p \in Nat \ {0} /\ p + 2 <= Len(text)
         /\ TokenAt(p).type = "id" /\ TokenAt(p + 1) = Equal /\ TokenAt(p + 2).type = "string"
         /\ p = 1 \/ TokenAt(p - 1).type = "string"
         /\ \A q \in 1..p : TokenAt(q) # Eof
<1>1. p \in Nat \ {0} /\ p + 2 <= Len(text) /\ Len(text) \in Nat
  BY DEF PairAt
<1>2. \A q \in 1..Len(text) : TokenAt(q) = text[q]
  BY DEF TokenAt
<1>3. p \in 1..Len(text) /\ p + 1 \in 1..Len(text) /\ p + 2 \in 1..Len(text)
      /\ (p = 1 \/ p - 1 \in 1..Len(text))
  BY <1>1
<1>4. TokenAt(p).type = "id" /\ TokenAt(p + 1) = Equal /\ TokenAt(p + 2).type = "string"
  BY <1>2, <1>3 DEF PairAt
<1>5. p = 1 \/ TokenAt(p - 1).type = "string"
  BY <1>2, <1>3 DEF Undisturbed
<1>6. ASSUME NEW q \in 1..p
      PROVE  TokenAt(q) # Eof
  <2>1. CASE q = p
    BY <1>4, <2>1, TokenKinds
  <2>2. CASE q # p
    BY <1>1, <1>2, <2>2 DEF Undisturbed
  <2> QED BY <2>1, <2>2
<1> QED BY <1>1, <1>4, <1>5, <1>6

\* A pair is taken whole; an undisturbed pair after it is not touched.
LEMMA LoadedTake == ASSUME Ordered, Loaded, TakePair PROVE Loaded'
<1> DEFINE s == Eaten + 1
<1>1. Eaten \in Nat /\ parsing = "on" /\ parsing' = "on" /\ peeked = 3 /\ IsPair /\ EatTokens(3)
  BY DEF Loaded, TakePair
<1>2. Eaten' = Eaten + 3 /\ text' = text
  BY <1>1, EatenTokens
<1>3. /\ text \in Seq(Token) /\ Len(text) \in Nat
      /\ TokenAt(s).type = "id" /\ TokenAt(Eaten + 2) = Equal /\ TokenAt(Eaten + 3).type = "string"
      /\ T(0) = TokenAt(s) /\ T(2) = TokenAt(Eaten + 3)
  BY <1>1, NextTokens DEF IsPair
<1>4. Eaten + 3 <= Len(text)
  BY <1>1, <1>3, TokenKinds DEF TokenAt
<1>5. /\ s \in DOMAIN text /\ s + 1 = Eaten + 2 /\ s + 2 = Eaten + 3
      /\ TokenAt(s) = text[s] /\ TokenAt(s + 1) = text[s + 1] /\ TokenAt(s + 2) = text[s + 2]
  BY <1>1, <1>3, <1>4 DEF TokenAt
<1>6. PairAt(s)
  BY <1>3, <1>4, <1>5 DEF PairAt
<1>7. \A k \in Keys : value'[k] = IF k \in KeyOf(text[s].text) THEN text[s + 2].text ELSE value[k]
  BY <1>3, <1>5 DEF TakePair
<1>8. ASSUME NEW p \in DOMAIN text, PairAt(p), Undisturbed(p)
      PROVE  p = s \/ p > Eaten + 3 \/ p + 2 <= Eaten
  <2>1. p > Eaten \/ p + 2 <= Eaten
    BY <1>8 DEF Loaded
  <2>2. p # Eaten + 2 /\ p # Eaten + 3
    BY <1>3, <1>8, PairTokens, TokenKinds
  <2>3. p \in Nat
    BY <1>3
  <2> QED BY <1>1, <2>1, <2>2, <2>3
<1>9. ASSUME NEW k \in Keys, value'[k] # Null
      PROVE  \E p \in DOMAIN text : Sets(p, k) /\ value'[k] = text[p + 2].text
  <2>1. CASE k \in KeyOf(text[s].text)
    BY <1>3, <1>5, <1>6, <1>7, <2>1, SetsItsKey
  <2>2. CASE k \notin KeyOf(text[s].text)
    BY <1>7, <1>9, <2>2 DEF Loaded
  <2> QED BY <2>1, <2>2
<1>10. ASSUME NEW k \in Keys, NEW p \in DOMAIN text, LastPair(p, k), Undisturbed(p),
              p + 2 <= Eaten + 3
       PROVE  value'[k] = text[p + 2].text
  <2>1. PairAt(p) /\ p \in Nat
    BY <1>3, <1>10 DEF LastPair, Sets
  <2>2. k \in KeyOf(text[p].text)
    BY <1>3, <1>10, <2>1, SetsItsKey DEF LastPair
  <2>3. CASE p = s
    BY <1>7, <2>2, <2>3
  <2>4. CASE p # s
    <3>1. p + 2 <= Eaten
      BY <1>1, <1>8, <1>10, <2>1, <2>4
    <3>2. ~Sets(s, k)
      BY <1>1, <1>5, <1>10, <2>1, <3>1 DEF LastPair
    <3>3. k \notin KeyOf(text[s].text)
      BY <1>3, <1>5, <1>6, <3>2, SetsItsKey
    <3>4. value[k] = text[p + 2].text
      BY <1>10, <3>1 DEF Loaded
    <3> QED BY <1>7, <3>3, <3>4
  <2> QED BY <2>3, <2>4
<1>11. \A p \in DOMAIN text : PairAt(p) /\ Undisturbed(p) => p > Eaten + 3 \/ p + 2 <= Eaten + 3
  BY <1>1, <1>3, <1>8
<1>12. /\ \A p, k : Sets(p, k)' = Sets(p, k) /\ LastPair(p, k)' = LastPair(p, k)
       /\ \A p : PairAt(p)' = PairAt(p) /\ Undisturbed(p)' = Undisturbed(p)
  BY <1>2 DEF Sets, LastPair, PairAt, Undisturbed
<1>13. Eaten' \in Nat
  BY <1>1, <1>2
<1> QED BY <1>1, <1>2, <1>9, <1>10, <1>11, <1>12, <1>13 DEF Loaded

\* What is skipped never reaches into an undisturbed pair.
LEMMA LoadedSkip == ASSUME Ordered, Loaded, SkipTokens PROVE Loaded'
<1> DEFINE s == Eaten + 1
<1>1. /\ Eaten \in Nat /\ parsing = "on" /\ peeked = 3 /\ UNCHANGED <<value, parsing>>
      /\ ~IsPair /\ T(0) # Eof
  BY DEF Loaded, SkipTokens
<1>2. PICK n \in 1..3 :
        /\ EatTokens(n)
        /\ n = IF T(0).type # "id" THEN 1 ELSE IF T(1) = Equal THEN 3 ELSE 2
  BY DEF SkipTokens
<1>3. Eaten' = Eaten + n /\ text' = text
  BY <1>1, <1>2, EatenTokens
<1>4. /\ text \in Seq(Token)
      /\ T(0) = TokenAt(s) /\ T(1) = TokenAt(Eaten + 2) /\ T(2) = TokenAt(Eaten + 3)
  BY <1>1, NextTokens
<1>5. ASSUME NEW p \in DOMAIN text, PairAt(p), Undisturbed(p)
      PROVE  p > Eaten + n \/ p + 2 <= Eaten
  <2>1. p > Eaten \/ p + 2 <= Eaten
    BY <1>5 DEF Loaded
  <2>2. /\ p \in Nat \ {0}
        /\ TokenAt(p).type = "id" /\ TokenAt(p + 1) = Equal /\ TokenAt(p + 2).type = "string"
        /\ p = 1 \/ TokenAt(p - 1).type = "string"
    BY <1>4, <1>5, PairTokens
  <2>3. p # s \/ n = 0
    <3>1. CASE p = s
      <4>1. s + 1 = Eaten + 2 /\ s + 2 = Eaten + 3
        BY <1>1
      <4> QED BY <1>1, <1>4, <2>2, <3>1, <4>1 DEF IsPair
    <3> QED BY <3>1
  <2>4. p # Eaten + 2 \/ n = 1
    <3>1. CASE p = Eaten + 2
      <4>1. p - 1 = s /\ p # 1
        BY <1>1, <3>1
      <4>2. T(0).type # "id"
        BY <1>4, <2>2, <4>1
      <4> QED BY <1>2, <4>2
    <3> QED BY <3>1
  <2>5. p # Eaten + 3 \/ n # 3
    <3>1. CASE p = Eaten + 3
      <4>1. p - 1 = Eaten + 2 /\ p # 1
        BY <1>1, <3>1
      <4>2. T(1) # Equal
        BY <1>4, <2>2, <4>1, TokenKinds
      <4> QED BY <1>2, <4>2
    <3> QED BY <3>1
  <2> QED BY <1>1, <2>1, <2>2, <2>3, <2>4, <2>5
<1>6. ASSUME NEW k \in Keys, NEW p \in DOMAIN text, LastPair(p, k), Undisturbed(p),
             p + 2 <= Eaten + n
      PROVE  value'[k] = text[p + 2].text
  <2>1. PairAt(p) /\ p \in Nat
    BY <1>4, <1>6 DEF LastPair, Sets
  <2>2. p + 2 <= Eaten
    BY <1>1, <1>5, <1>6, <2>1
  <2> QED BY <1>1, <1>6, <2>2 DEF Loaded
<1>7. \A p \in DOMAIN text : PairAt(p) /\ Undisturbed(p) => p > Eaten + n \/ p + 2 <= Eaten + n
  BY <1>1, <1>4, <1>5
<1>8. /\ \A p, k : Sets(p, k)' = Sets(p, k) /\ LastPair(p, k)' = LastPair(p, k)
      /\ \A p : PairAt(p)' = PairAt(p) /\ Undisturbed(p)' = Undisturbed(p)
  BY <1>3 DEF Sets, LastPair, PairAt, Undisturbed
<1>9. Eaten' \in Nat
  BY <1>1, <1>3
<1>10. \A k \in Keys : value[k] # Null =>
         \E p \in DOMAIN text : Sets(p, k) /\ value[k] = text[p + 2].text
  BY DEF Loaded
<1> QED BY <1>1, <1>3, <1>6, <1>7, <1>8, <1>9, <1>10 DEF Loaded

LEMMA LoadedEnd == ASSUME Ordered, Loaded, EndOfFile PROVE Loaded'
<1>1. /\ UNCHANGED <<text, at, lookaheads, lookahead_to_read, lookahead_to_write, value>>
      /\ peeked = 3 /\ T(0) = Eof /\ Eaten \in Nat
      /\ parsing' = IF \A k \in Keys : value[k] # Null THEN "success" ELSE "failure"
  BY DEF EndOfFile, ring, Loaded
<1>2. TokenAt(Eaten + 1) = Eof
  BY <1>1, NextTokens
<1>3. Eaten' = Eaten
  BY <1>1 DEF Eaten, Buffered
<1>4. /\ \A p, k : Sets(p, k)' = Sets(p, k) /\ LastPair(p, k)' = LastPair(p, k)
      /\ \A p : PairAt(p)' = PairAt(p) /\ Undisturbed(p)' = Undisturbed(p)
      /\ \A n : TokenAt(n)' = TokenAt(n)
  BY <1>1 DEF Sets, LastPair, PairAt, Undisturbed, TokenAt
<1> QED BY <1>1, <1>2, <1>3, <1>4 DEF Loaded

LEMMA LoadedInit == Init => Loaded
<1> SUFFICES ASSUME Init PROVE Loaded
  OBVIOUS
<1>1. Eaten = 0 /\ parsing = "on" /\ \A k \in Keys : value[k] = Null
  BY DEF Init, Start, Eaten, Buffered, Wrap
<1>2. \A p \in DOMAIN text : p \in Nat \ {0}
  BY OrderedInit DEF Ordered, TypeOK
<1> QED BY <1>1, <1>2 DEF Loaded

LEMMA LoadedStep == Ordered /\ Loaded /\ [Next]_vars => Loaded'
<1> SUFFICES ASSUME Ordered, Loaded, [Next]_vars PROVE Loaded'
  OBVIOUS
<1>1. CASE UNCHANGED vars
  BY <1>1, LoadedKept DEF vars, Eaten, Buffered
<1>2. CASE PeekToken
  BY <1>2, EatenPeek, LoadedKept DEF PeekToken
<1> QED BY <1>1, <1>2, LoadedTake, LoadedSkip, LoadedEnd DEF Next

\* When the parser has come to the end, every undisturbed pair is behind it.
LEMMA LoadedGives == Ordered /\ Loaded => LoadedAsWritten
<1> SUFFICES ASSUME Ordered, Loaded, parsing # "on", NEW k \in Keys
             PROVE  LET pairs == {p \in DOMAIN text : Sets(p, k)} IN
                    /\ value[k] # Null => \E p \in pairs : value[k] = text[p + 2].text
                    /\ (pairs # {} /\ Undisturbed(Max(pairs))) =>
                         value[k] = text[Max(pairs) + 2].text
  BY DEF LoadedAsWritten, Loaded
<1> DEFINE pairs == {p \in DOMAIN text : Sets(p, k)}
<1>1. text \in Seq(Token) /\ Eaten \in Nat /\ TokenAt(Eaten + 1) = Eof
  BY DEF Ordered, TypeOK, Loaded
<1>2. ASSUME pairs # {}, Undisturbed(Max(pairs))
      PROVE  value[k] = text[Max(pairs) + 2].text
  <2>1. Max(pairs) \in pairs /\ \A q \in pairs : q <= Max(pairs)
    <3>1. Len(text) \in Nat /\ DOMAIN text = 1..Len(text)
      BY <1>1
    <3>2. pairs \in SUBSET (1..Len(text)) /\ pairs # {}
      BY <1>2, <3>1
    <3> HIDE DEF pairs
    <3> QED BY <3>1, <3>2, MaxFact
  <2>2. PICK m \in DOMAIN text : m = Max(pairs) /\ LastPair(m, k) /\ PairAt(m) /\ Undisturbed(m)
    BY <1>2, <2>1 DEF LastPair, Sets
  <2>3. m \in Nat /\ \A q \in 1..m : TokenAt(q) # Eof
    BY <1>1, <2>2, PairTokens
  <2>4. m > Eaten \/ m + 2 <= Eaten
    BY <2>2 DEF Loaded
  <2>5. m + 2 <= Eaten
    BY <1>1, <2>3, <2>4
  <2> QED BY <2>2, <2>5 DEF Loaded
<1> QED BY <1>2 DEF Loaded

\* Whatever else config.txt holds, every value is that of a pair for its key; the
\* last pair of a key counts when nothing before it can swallow its identifier; and
\* the configuration is accepted exactly when every key has a value, for any table in
\* which no name begins an earlier one (parse_key_value_pair, load_config).
THEOREM ValuesAsWritten == Spec => []LoadedAsWritten
BY OrderedInit, OrderedStep, LoadedInit, LoadedStep, LoadedGives, PTL DEF Spec

=============================================================================
