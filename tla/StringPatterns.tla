---------------------------- MODULE StringPatterns ----------------------------
(***************************************************************************)
(* From the strings of a ruleset to the matches of a scan: hex strings are *)
(* converted (HexPattern), patterns numbered (PatternExtractor) and        *)
(* compiled, and HyperScan reports them by number.                         *)
(***************************************************************************)
EXTENDS PatternExtractor, HexPattern

CONSTANTS
  Sources,   \* files of rules whose strings are as they are written
  NoSource   \* the value of `source` for the files of Rulesets

VARIABLE source  \* the file as it is written, or NoSource

stringVars == <<vars, source>>

(***************************************************************************)
(* A string as it is written: plain text as characters, a regular          *)
(* expression as elements, a hex string as units.                          *)
(***************************************************************************)
IsLiteral(s) == s.form = "plain" \/ (s.form = "hex" /\ LiteralOnly(s.content))
TextOf(s) ==
  CASE s.form \in {"plain", "regex"} -> s.content
    [] s.form = "hex" -> LET text == HexStringToPattern[s.content]
                         IN  IF IsLiteral(s) THEN Characters(text) ELSE text

ConvertedString(s) ==
  [name |-> s.name, kind |-> IF IsLiteral(s) THEN "literal" ELSE "regex", text |-> TextOf(s)]
ConvertedRule(r) ==
  [strings |-> [k \in DOMAIN r.strings |-> ConvertedString(r.strings[k])], mutexes |-> r.mutexes]

ConvertedFile(rules) == [k \in DOMAIN rules |-> ConvertedRule(rules[k])]

\* Regexes and Rulesets have what becomes of the hex strings and of Sources.
WrittenStrings ==
  [name : Names, form : {"plain"}, content : Seq([element : {"char"}, byte : 0 .. 255])]
    \cup [name : Names, form : {"regex"}, content : Regexes]
    \cup [name : Names, form : {"hex"}, content : HexStrings]
ASSUME SourcesAssumption ==
  /\ \A units \in HexStrings : HexStringToPattern[units] \in Regexes
  /\ Sources \subseteq Seq([strings : Seq(WrittenStrings), mutexes : Seq(Texts)])
  /\ \A rules \in Sources : ConvertedFile(rules) \in Rulesets

StringInit ==
  /\ \/ source = NoSource /\ file \in Rulesets
     \/ source \in Sources /\ file = ConvertedFile(source)
  /\ Start

StringNext == Next /\ UNCHANGED source

StringSpec == StringInit /\ [][StringNext]_stringVars
-----------------------------------------------------------------------------
Offsets(data) == 0 .. Len(data)

\* The offsets at which the databases report id for data.
ReportedEnds(id, data) ==
  LET p == CompiledText(id)
  IN  UNION {IF p.kind = "regex" THEN RegexEnds[p.text][data][at] ELSE LiteralEnds(p.text, data, at) :
             at \in Offsets(data)}

\* The offsets at which the string, as it is written, ends in data.
StringEnds(s, data) ==
  UNION {CASE s.form = "plain" -> LiteralEnds(s.content, data, at)
           [] s.form = "regex" -> RegexEnds[s.content][data][at]
           [] s.form = "hex" -> HexEnds[s.content][data][at] : at \in Offsets(data)}

SourceString(x) ==
  LET strings == source[x.rule].strings
  IN  strings[CHOOSE k \in DOMAIN strings : strings[k].name = x.string.name]

Found(x) ==
  \A data \in Buffers :
    IdOf(x) \in MatchIds /\ ReportedEnds(IdOf(x), data) = StringEnds(SourceString(x), data)

\* A hex literal with a byte that is no letter or digit: its text has escapes.
HasEscapes(s) ==
  /\ s.form = "hex" /\ LiteralOnly(s.content)
  /\ \E k \in DOMAIN s.content : HexStringToPattern[s.content][k].element = "escape"

(***************************************************************************)
(* What a rule sees under the number of a string are the matches of that   *)
(* string as it is written, byte for byte, after conversion, caching,      *)
(* numbering and compilation (conversion.cpp:36-119, pattern_extractor.hpp *)
(* 55-118, yarangc.cpp:49-54): in a file whose strings are in one rule, no *)
(* regular expression written twice, for data of ASCII characters.         *)
(***************************************************************************)
StringsFound ==
  phase = "done" /\ source # NoSource /\ StringsInOneRule /\ RegexesDiffer =>
    \A x \in AllStrings : ~HasEscapes(SourceString(x)) => Found(x)

(***************************************************************************)
(* README.md:43 calls literal the patterns "consisting only of characters  *)
(* which can be compared directly with string equality": a hex string that *)
(* is placed into the literals is found where its bytes are.               *)
(***************************************************************************)
HexLiteralsFound ==
  phase = "done" /\ source # NoSource /\ StringsInOneRule /\ RegexesDiffer =>
    \A x \in AllStrings : SourceString(x).form = "hex" /\ x.string.kind = "literal" => Found(x)
=============================================================================
