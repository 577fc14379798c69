------------------------------- MODULE Config -------------------------------
(***************************************************************************)
(* load_config: the tokens of config.txt are read through a ring of four   *)
(* look-ahead tokens, pairs key = "value" are taken, everything else is    *)
(* reported and skipped.                                                   *)
(*                                                                         *)
(* Characters are left out: the text is the sequence of its tokens.        *)
(***************************************************************************)
EXTENDS Integers, Sequences, FiniteSetsExt

CONSTANTS
  KeyCount,  \* keys of g_config_name, by their place in it (Config_one_past_last)
  Ids,       \* identifiers a file may hold
  Names,     \* g_config_name: the identifier each key is called
  Begins,    \* the keys each identifier is the beginning of, or the name
  Values,    \* contents of strings
  MaxTokens  \* bound on the length of the file

Keys == 1..KeyCount
Null == "null"

\* What the lexer returns for an unrecognized character has type 0, like the end.
Eof      == [type |-> "eof", text |-> Null]
Equal    == [type |-> "equal", text |-> Null]
Id(s)    == [type |-> "id", text |-> s]
Str(v)   == [type |-> "string", text |-> v]
Token    == {Eof, Equal} \cup {Id(s) : s \in Ids} \cup {Str(v) : v \in Values}
Ring     == 0..3      \* CONFIG_LOOKAHEAD_MASK + 1 places

ASSUME KeysAreCounted == KeyCount \in Nat \ {0} /\ MaxTokens \in Nat
ASSUME BeginsKeys == Begins \in [Ids -> SUBSET Keys]
\* No name in the table is the beginning of an earlier one.
ASSUME NamesInOrder ==
  /\ Names \in [Keys -> Ids]
  /\ \A k \in Keys : k \in Begins[Names[k]] /\ \A j \in Begins[Names[k]] : k <= j
ASSUME NullIsNoValue == Null \notin Values

VARIABLES
  text,                  \* tokens of the file; Eof stands for a bad character
  at,                    \* tokens the lexer has passed
  lookaheads, lookahead_to_read, lookahead_to_write,
  peeked,                \* 0 to 3 of the tokens t0, t1, t2 are known
  value,                 \* Config.value
  parsing                \* "on", then what load_config returns

vars == <<text, at, lookaheads, lookahead_to_read, lookahead_to_write, peeked, value, parsing>>
ring == <<lookaheads, lookahead_to_read, lookahead_to_write, at>>

Texts == UNION {[1..n -> Token] : n \in 0..MaxTokens}

TypeOK ==
  /\ text \in Seq(Token)
  /\ at \in Nat
  /\ lookaheads \in [Ring -> Token]
  /\ {lookahead_to_read, lookahead_to_write} \subseteq Ring
  /\ peeked \in 0..3
  /\ value \in [Keys -> Values \cup {Null}]
  /\ parsing \in {"on", "success", "failure"}

Start ==
  /\ at = 0
  /\ lookaheads = [i \in Ring |-> Eof]
  /\ lookahead_to_read = 0 /\ lookahead_to_write = 0
  /\ peeked = 0
  /\ value = [k \in Keys |-> Null]

Init == text \in Texts /\ Start /\ parsing = "on"

-----------------------------------------------------------------------------
(* The ring of tokens.                                                     *)

TokenAt(n) == IF n <= Len(text) THEN text[n] ELSE Eof

Wrap(i) == i % 4    \* & CONFIG_LOOKAHEAD_MASK

\* Mutant: the token is written where the next one is read.
PeekToken_AtRead ==
  LET index == Wrap(lookahead_to_read + peeked) IN
  /\ parsing = "on" /\ peeked < 3
  /\ peeked' = peeked + 1
  /\ IF index = lookahead_to_write
     THEN /\ lookaheads' = [lookaheads EXCEPT ![lookahead_to_read] = TokenAt(at + 1)]
          /\ lookahead_to_write' = Wrap(lookahead_to_write + 1)
          /\ at' = at + 1
     ELSE UNCHANGED <<lookaheads, lookahead_to_write, at>>
  /\ UNCHANGED <<text, lookahead_to_read, value, parsing>>

\* peek_token(parser, 0), 1 and 2: a place that is the one to write is lexed.
PeekToken ==
  LET index == Wrap(lookahead_to_read + peeked) IN
  /\ parsing = "on" /\ peeked < 3
  /\ peeked' = peeked + 1
  /\ IF index = lookahead_to_write
     THEN /\ lookaheads' = [lookaheads EXCEPT ![index] = TokenAt(at + 1)]
          /\ lookahead_to_write' = Wrap(lookahead_to_write + 1)
          /\ at' = at + 1
     ELSE UNCHANGED <<lookaheads, lookahead_to_write, at>>
  /\ UNCHANGED <<text, lookahead_to_read, value, parsing>>

T(n) == lookaheads[Wrap(lookahead_to_read + n)]

\* Mutant: the position runs past the ring.
EatTokens_Unmasked(n) ==
  /\ lookahead_to_read' = lookahead_to_read + n
  /\ peeked' = 0
  /\ UNCHANGED <<text, at, lookaheads, lookahead_to_write>>

\* Of tokens that were peeked.
EatTokens(n) ==
  /\ lookahead_to_read' = Wrap(lookahead_to_read + n)
  /\ peeked' = 0
  /\ UNCHANGED <<text, at, lookaheads, lookahead_to_write>>

-----------------------------------------------------------------------------
(* parse_key_value_pair and load_config.                                   *)

IsPair == T(0).type = "id" /\ T(1) = Equal /\ T(2).type = "string"

\* Mutant: the search of the table goes on after the first key that fits.
KeyOf_All(s) == Begins[s]

\* The first key in the table that begins with the identifier, if any.
KeyOf(s) == IF Begins[s] = {} THEN {} ELSE {Min(Begins[s])}

\* Mutant: the string of an earlier pair stays.
TakePair_First ==
  /\ parsing = "on" /\ peeked = 3 /\ IsPair
  /\ value' = [k \in Keys |-> IF k \in KeyOf(T(0).text) /\ value[k] = Null THEN T(2).text ELSE value[k]]
  /\ EatTokens(3)
  /\ UNCHANGED parsing

TakePair ==
  /\ parsing = "on" /\ peeked = 3 /\ IsPair
  /\ value' = [k \in Keys |-> IF k \in KeyOf(T(0).text) THEN T(2).text ELSE value[k]]
  /\ EatTokens(3)
  /\ UNCHANGED parsing

\* An identifier, an equal sign after it, and whatever token comes next.
SkipTokens ==
  /\ parsing = "on" /\ peeked = 3 /\ ~IsPair /\ T(0) # Eof
  /\ EatTokens(IF T(0).type # "id" THEN 1 ELSE IF T(1) = Equal THEN 3 ELSE 2)
  /\ UNCHANGED <<value, parsing>>

\* Mutant: what is returned is decided by the last key alone.
EndOfFile_LastKey ==
  /\ parsing = "on" /\ peeked = 3 /\ T(0) = Eof
  /\ parsing' = IF value[KeyCount] # Null THEN "success" ELSE "failure"
  /\ UNCHANGED <<text, ring, peeked, value>>

\* A configuration without all of its keys is refused.
EndOfFile ==
  /\ parsing = "on" /\ peeked = 3 /\ T(0) = Eof
  /\ parsing' = IF \A k \in Keys : value[k] # Null THEN "success" ELSE "failure"
  /\ UNCHANGED <<text, ring, peeked, value>>

Next == PeekToken \/ TakePair \/ SkipTokens \/ EndOfFile
Spec == Init /\ [][Next]_vars

-----------------------------------------------------------------------------
(* What must hold.                                                         *)

\* The tokens known to the parser are those of the file, one after another from
\* the first it has not eaten: positions wrap around and a full ring would look
\* like an empty one, so there are never more than three.
Buffered == Wrap(lookahead_to_write - lookahead_to_read)
TokensInOrder ==
  /\ peeked <= Buffered
  /\ \A j \in 0..Buffered - 1 : T(j) = TokenAt(at - Buffered + j + 1)

PairAt(p) ==
  p + 2 <= Len(text) /\ text[p].type = "id" /\ text[p + 1] = Equal /\ text[p + 2].type = "string"

\* The pair's identifier is the name of the key, or a shorter form of it that fits
\* no earlier key.
Sets(p, k) ==
  PairAt(p) /\ \/ text[p].text = Names[k]
               \/ k \in Begins[text[p].text] /\ \A j \in 1..k - 1 : j \notin Begins[text[p].text]

\* Nothing before the pair at p can swallow its key: it stands first or after a
\* string, and no bad character ended the file before.
Undisturbed(p) ==
  (p = 1 \/ text[p - 1].type = "string") /\ \A q \in 1..p - 1 : text[q] # Eof

\* Whatever else the file holds, a value is that of a pair in the file for its
\* key; if the last pair for a key is undisturbed, it is the value of this one;
\* and the configuration is accepted when every key has a value, and only then.
\* So a file that gives every key by its name in undisturbed pairs is accepted
\* with the strings in it (parse_key_value_pair, load_config).
LoadedAsWritten ==
  parsing # "on" =>
    /\ parsing = "success" <=> \A k \in Keys : value[k] # Null
    /\ \A k \in Keys :
         LET pairs == {p \in DOMAIN text : Sets(p, k)} IN
         /\ value[k] # Null => \E p \in pairs : value[k] = text[p + 2].text
         /\ (pairs # {} /\ Undisturbed(Max(pairs))) => value[k] = text[Max(pairs) + 2].text

=============================================================================
