--------------------------- MODULE MCStringPatterns ---------------------------
(***************************************************************************)
(* Rules of up to three strings of which some are hex: bytes that are      *)
(* letters and bytes that are not, each kind of wildcard, bounded and      *)
(* unbounded jumps, nested alternatives, and texts that coincide with a    *)
(* plain string or a regular expression of the same rule.  The buffers are *)
(* all sequences of at most three of four bytes, and one that spells an    *)
(* escape.                                                                 *)
(***************************************************************************)
EXTENDS StringPatterns, MCPatternExtractor

A == 65
B == 66
Newline == 10
J == 74

Digits(b) == <<Byte(b \div 16, b % 16)>>
AnyByte == <<Byte(Wildcard, Wildcard)>>

LiteralHexes ==
  {Digits(A), Digits(A) \o Digits(B), Digits(B) \o Digits(A), Digits(Newline), Digits(A) \o Digits(Newline)}
Middles ==
  {AnyByte, <<Byte(Wildcard, 10)>>, <<Byte(4, Wildcard)>>,
   <<Jump(1, 1)>>, <<Jump(0, 1)>>, <<Jump(1, Unbounded)>>, <<Jump(0, Unbounded)>>,
   <<Or(<<Digits(A), Digits(B) \o Digits(Newline)>>)>>,
   <<Or(<<Digits(B) \o <<Or(<<Digits(A), AnyByte>>)>>, Digits(A)>>)>>,
   AnyByte \o <<Jump(0, 1)>>}
RegexHexes == {Digits(A) \o m : m \in Middles} \cup {Digits(A) \o m \o Digits(B) : m \in Middles}
                \cup {<<Byte(Wildcard, 1)>> \o Digits(Newline)}
Hexes == LiteralHexes \cup RegexHexes

WrittenRegexes == {<<Char(A), Dots(1, 1)>>, <<Char(A), Dots(0, Unbounded), Char(B)>>}
Written(name, form, content) == [name |-> name, form |-> form, content |-> content]
Others ==
  {Written(n2, "plain", t) : t \in
     {<<Char(A)>>, <<Char(A), Char(B)>>, <<Char(92), Char(120), Char(48), Char(65)>>}}
    \cup {Written(n2, "regex", t) : t \in WrittenRegexes}
    \cup {Written(n2, "hex", h) : h \in {Digits(A), Digits(Newline), Digits(A) \o AnyByte}}
Strings ==
  {<<Written(n1, "hex", h)>> : h \in Hexes}
    \cup {<<Written(n1, "hex", h), o>> : h \in Hexes, o \in Others}
    \cup {<<o, Written(n1, "hex", h), Written(n3, "plain", <<Char(B)>>)>> : h \in Hexes, o \in Others}
AnySource == {<<[strings |-> s, mutexes |-> <<>>]>> : s \in Strings}
HexSource == {<<[strings |-> <<Written(n1, "hex", h)>>, mutexes |-> <<>>]>> : h \in LiteralHexes}

Alphabet == {A, B, Newline, J}
AnyBuffer == UNION {[1 .. k -> Alphabet] : k \in 0 .. 3} \cup {<<92, 120, 48, 65>>}

\* The hex strings with the substrings of their alternatives, and the regular
\* expressions with those of their groups.
RECURSIVE Substrings(_), Alternatives(_)
Substrings(h) ==
  {h} \cup UNION {IF u.unit = "or" THEN UNION {Substrings(s) : s \in Range(u.substrings)} ELSE {} : u \in Range(h)}
Alternatives(t) ==
  {t} \cup UNION {IF e.element = "group" THEN UNION {Alternatives(a) : a \in Range(e.alternatives)} ELSE {} :
                 e \in Range(t)}

AnyHexString == UNION {Substrings(h) : h \in Hexes}
AnyRegex == WrittenRegexes \cup UNION {Alternatives(HexStringToPattern[h]) : h \in AnyHexString}

\* Three levels: two of alternatives, and the group of a half that is `?`.
DeepestNesting == 3
RECURSIVE DepthOf(_)
DepthOf(t) ==
  LET parts == UNION {IF "unit" \in DOMAIN e THEN IF e.unit = "or" THEN Range(e.substrings) ELSE {}
                      ELSE IF e.element = "group" THEN Range(e.alternatives) ELSE {} : e \in Range(t)}
  IN  IF parts = {} THEN 0 ELSE 1 + Max({DepthOf(p) : p \in parts})
AnyNesting == [t \in AnyHexString \cup AnyRegex |-> DepthOf(t)]

AnyText == {x, y, z} \cup AnyRegex \cup Seq([element : {"char"}, byte : 0 .. 255])
AnyFileOrConverted == AnyFile \cup {ConvertedFile(s) : s \in AnySource}
ConvertedHexes == {ConvertedFile(s) : s \in HexSource}
=============================================================================
