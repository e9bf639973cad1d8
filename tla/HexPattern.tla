------------------------------ MODULE HexPattern ------------------------------
(***************************************************************************)
(* Hex strings (conversion.cpp).  hex_string_to_pattern writes a hex       *)
(* string as the text of a regular expression, or, when it is nothing but  *)
(* bytes, as the text of a literal pattern.  HyperScan compiles the one    *)
(* with hs_compile_multi and the other with hs_compile_lit_multi, which    *)
(* takes every character of its text for itself.                           *)
(***************************************************************************)
EXTENDS Naturals, Integers, Sequences, SequencesExt

CONSTANTS
  HexStrings,  \* the hex strings, with the substrings of their alternatives
  Regexes,     \* the texts of regular expressions, with those of their groups
  Nesting,     \* how deep alternatives are nested in each of them
  MaxNesting,
  Buffers      \* the data that is scanned

(***************************************************************************)
(* The units of a hex string: a byte of two halves, each a digit or `?`    *)
(* (yaramod's parser returns halves in pairs, which str_units collects); a *)
(* jump with an optional upper bound (`[-]` has neither bound, `[n]` the   *)
(* same one twice); alternatives.                                          *)
(***************************************************************************)
Wildcard == -1
Unbounded == -1
Byte(first, second) == [unit |-> "byte", first |-> first, second |-> second]
Jump(low, high) == [unit |-> "jump", low |-> low, high |-> high]
Or(substrings) == [unit |-> "or", substrings |-> substrings]

Halves == 0 .. 15 \cup {Wildcard}
Bounds == Nat \cup {Unbounded}
Units ==
  [unit : {"byte"}, first : Halves, second : Halves] \cup [unit : {"jump"}, low : Nat, high : Bounds]
    \cup [unit : {"or"}, substrings : Seq(HexStrings)]

(***************************************************************************)
(* The elements of a regular expression: a character, an escape \xHH, a    *)
(* dot with the number of its repetitions, a group of alternatives.        *)
(***************************************************************************)
Char(byte) == [element |-> "char", byte |-> byte]
Escape(byte) == [element |-> "escape", byte |-> byte]
Dots(low, high) == [element |-> "dots", low |-> low, high |-> high]
Group(alternatives) == [element |-> "group", alternatives |-> alternatives]

Elements ==
  [element : {"char", "escape"}, byte : 0 .. 255] \cup [element : {"dots"}, low : Nat, high : Bounds]
    \cup [element : {"group"}, alternatives : Seq(Regexes)]

\* Alternatives are finite trees; a buffer holds ASCII characters.
ASSUME NestingAssumption == MaxNesting \in Nat /\ Nesting \in [HexStrings \cup Regexes -> 0 .. MaxNesting]
ASSUME HexStringsAssumption ==
  /\ HexStrings \subseteq Seq(Units)
  /\ \A units \in HexStrings : \A k \in DOMAIN units : units[k].unit = "or" =>
       \A j \in DOMAIN units[k].substrings : Nesting[units[k].substrings[j]] < Nesting[units]
ASSUME RegexesAssumption ==
  /\ Regexes \subseteq Seq(Elements)
  /\ \A text \in Regexes : \A k \in DOMAIN text : text[k].element = "group" =>
       \A j \in DOMAIN text[k].alternatives : Nesting[text[k].alternatives[j]] < Nesting[text]
ASSUME BuffersAssumption == Buffers \subseteq Seq(0 .. 127)
-----------------------------------------------------------------------------
\* std::isalnum in the C locale.
IsAlnum(byte) == byte \in (48 .. 57) \cup (65 .. 90) \cup (97 .. 122)

\* nibbles_to_string
NibblesToString(high, low) ==
  LET byte == 16 * high + low IN IF IsAlnum(byte) THEN Char(byte) ELSE Escape(byte)

\* Mutant: the digit of a half that is known comes last in every case.
PairDigitLast(first, second) ==
  CASE first = Wildcard /\ second = Wildcard -> Dots(1, 1)
    [] first = Wildcard /\ second # Wildcard ->
         Group([k \in 1 .. 16 |-> <<NibblesToString(k - 1, second)>>])
    [] first # Wildcard /\ second = Wildcard ->
         Group([k \in 1 .. 16 |-> <<NibblesToString(k - 1, first)>>])
    [] OTHER -> NibblesToString(first, second)

\* The text for two halves of a byte.
Pair(first, second) ==
  CASE first = Wildcard /\ second = Wildcard -> Dots(1, 1)
    [] first = Wildcard /\ second # Wildcard ->
         Group([k \in 1 .. 16 |-> <<NibblesToString(k - 1, second)>>])
    [] first # Wildcard /\ second = Wildcard ->
         Group([k \in 1 .. 16 |-> <<NibblesToString(first, k - 1)>>])
    [] OTHER -> NibblesToString(first, second)

\* What one unit adds to the text; converted has the texts of its substrings.
UnitText(u, converted) ==
  CASE u.unit = "byte" -> Pair(u.first, u.second)
    [] u.unit = "jump" -> Dots(u.low, u.high)
    [] u.unit = "or" -> Group([j \in DOMAIN u.substrings |-> converted[u.substrings[j]]])

HexStringToPattern[units \in HexStrings] ==
  [k \in DOMAIN units |-> UnitText(units[k], HexStringToPattern)]

LiteralOnly(units) ==
  \A k \in DOMAIN units : units[k].unit = "byte" /\ Wildcard \notin {units[k].first, units[k].second}

\* The characters of the text of a literal pattern: \xHH is four of them.
HexCharacter(d) == Char(IF d < 10 THEN 48 + d ELSE 55 + d)
ElementCharacters(e) ==
  IF e.element = "char" THEN <<e>>
  ELSE <<Char(92), Char(120), HexCharacter(e.byte \div 16), HexCharacter(e.byte % 16)>>
Characters(text) == FlattenSeq([k \in DOMAIN text |-> ElementCharacters(text[k])])
-----------------------------------------------------------------------------
(***************************************************************************)
(* Where a regular expression that starts to match at offset `at` of data  *)
(* may end (HyperScan's part, with HS_FLAG_DOTALL).  A data byte below 128 *)
(* is a code point of its own; under HS_FLAG_UTF8 others are not, and      *)
(* the dots and escapes then stand for code points in place of bytes.      *)
(***************************************************************************)
Steps(data, at, low, high) ==
  {k \in at + low .. Len(data) : high = Unbounded \/ k <= at + high}

\* Where a sequence ends when moves[k][at] are the ends of its k-th member.
Through(moves, at) ==
  LET reached[k \in 0 .. Len(moves)] ==
        IF k = 0 THEN {at} ELSE UNION {moves[k][o] : o \in reached[k - 1]}
  IN  reached[Len(moves)]

ElementEnds(e, data, at, ends) ==
  CASE e.element \in {"char", "escape"} ->
         IF at < Len(data) /\ data[at + 1] = e.byte THEN {at + 1} ELSE {}
    [] e.element = "dots" -> Steps(data, at, e.low, e.high)
    [] e.element = "group" -> UNION {ends[e.alternatives[j]][data][at] : j \in DOMAIN e.alternatives}

RegexEnds[text \in Regexes] ==
  [data \in Buffers |-> [at \in 0 .. Len(data) |->
     Through([k \in DOMAIN text |->
                [o \in 0 .. Len(data) |-> ElementEnds(text[k], data, o, RegexEnds)]], at)]]

LiteralEnds(characters, data, at) ==
  IF /\ at + Len(characters) <= Len(data)
     /\ \A k \in DOMAIN characters : data[at + k] = characters[k].byte
    THEN {at + Len(characters)} ELSE {}

\* Where the hex string itself may end: each pair of halves takes a byte that
\* agrees with it in the halves that are given.
Agrees(first, second, byte) ==
  /\ first = Wildcard \/ byte \div 16 = first
  /\ second = Wildcard \/ byte % 16 = second

UnitEnds(u, data, at, ends) ==
  CASE u.unit = "byte" -> IF at < Len(data) /\ Agrees(u.first, u.second, data[at + 1]) THEN {at + 1} ELSE {}
    [] u.unit = "jump" -> Steps(data, at, u.low, u.high)
    [] u.unit = "or" -> UNION {ends[u.substrings[j]][data][at] : j \in DOMAIN u.substrings}

HexEnds[units \in HexStrings] ==
  [data \in Buffers |-> [at \in 0 .. Len(data) |->
     Through([k \in DOMAIN units |->
                [o \in 0 .. Len(data) |-> UnitEnds(units[k], data, o, HexEnds)]], at)]]
=============================================================================
