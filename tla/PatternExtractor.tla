--------------------------- MODULE PatternExtractor ---------------------------
(***************************************************************************)
(* Pattern extraction in yarangc: PatternExtractor::extract visits the     *)
(* rules of a file in order and gives each string and each mutex a number; *)
(* main compiles the collected patterns into databases, in which a pattern *)
(* is known by its position; the code generator asks RuleInfo for the      *)
(* numbers.  The three must agree on what a number stands for.             *)
(***************************************************************************)
EXTENDS Naturals, Sequences, FiniteSets

CONSTANTS
  Names,     \* string identifiers, such as $a
  Texts,     \* pattern texts, of strings after conversion and of mutexes
  Rulesets   \* the parsed files, see RuleType

(***************************************************************************)
(* A rule: its strings in order, each a literal (plain text, or a hex      *)
(* string without metacharacters) or a regex, and the arguments of its     *)
(* calls of cuckoo.sync.mutex in the order of the condition.               *)
(***************************************************************************)
RuleType ==
  [strings : Seq([name : Names, kind : {"literal", "regex"}, text : Texts]),
   mutexes : Seq(Texts)]

ASSUME NamesAssumption == IsFiniteSet(Names)

\* yaramod refuses a rule that defines a string identifier twice.
ASSUME RulesetsAssumption ==
  \A file \in Rulesets :
    /\ file \in Seq(RuleType)
    /\ \A r \in 1 .. Len(file) : \A i, j \in 1 .. Len(file[r].strings) :
         file[r].strings[i].name = file[r].strings[j].name => i = j

VARIABLES
  file,              \* the rules given to extract
  phase,             \* where extract is
  rule,              \* rule_index + 1
  pos,               \* next string or mutex call of the rule
  literal_index,
  regex_index,
  literal_patterns,  \* _literal_patterns, _regex_patterns and _mutexes,
  regex_patterns,    \* as sequences of texts
  mutexes,
  literal_cache,     \* the caches, as functions from a set of texts
  regex_cache,
  mutex_cache,
  info               \* _rule_info_table, in the order of the rules

vars == <<file, phase, rule, pos, literal_index, regex_index, literal_patterns,
          regex_patterns, mutexes, literal_cache, regex_cache, mutex_cache, info>>

Phases == {"rule", "strings", "mutexes", "done"}
NoEntries == [k \in {} |-> 0]

\* std::unordered_map::emplace: an entry that is there stays.
Emplace(table, k, v) ==
  [x \in DOMAIN table \cup {k} |-> IF x \in DOMAIN table THEN table[x] ELSE v]

\* Mutant: a pattern is collected although its text has been seen.
AddedAgain(patterns, cache, text) == Append(patterns, text)

\* if (inserted) patterns.emplace_back(...)
Added(patterns, cache, text) ==
  IF text \in DOMAIN cache THEN patterns ELSE Append(patterns, text)

\* Mutant: the id of a text seen before is not taken from the cache.
FreshId(cache, text, index) == index

\* inserted ? index : itr->second
IdFor(cache, text, index) == IF text \in DOMAIN cache THEN cache[text] ELSE index

\* Mutant: the index counts strings, not patterns.
AdvancedAlways(cache, text, index) == index + 1

\* index++ only when a pattern was inserted.
Advanced(cache, text, index) == IF text \in DOMAIN cache THEN index ELSE index + 1

\* The extractor before extract, with file about to be given to it.
Start ==
  /\ phase = "rule" /\ rule = 1 /\ pos = 1
  /\ literal_index = 0 /\ regex_index = 0
  /\ literal_patterns = <<>> /\ regex_patterns = <<>> /\ mutexes = <<>>
  /\ literal_cache = NoEntries /\ regex_cache = NoEntries /\ mutex_cache = NoEntries
  /\ info = <<>>

Init == file \in Rulesets /\ Start
-----------------------------------------------------------------------------
\* The head of the loop over the rules: the indices start at 0 for every rule.
StartRule ==
  /\ phase = "rule" /\ rule <= Len(file)
  /\ info' = Append(info, [literal_strings |-> NoEntries, regex_strings |-> NoEntries,
                           mutexes |-> NoEntries])
  /\ literal_index' = 0 /\ regex_index' = 0
  /\ pos' = 1 /\ phase' = "strings"
  /\ UNCHANGED <<file, rule, literal_patterns, regex_patterns, mutexes,
                 literal_cache, regex_cache, mutex_cache>>

String == file[rule].strings[pos]

\* isPlain, and isHex with a pattern that is_literal.
AddLiteral ==
  /\ phase = "strings" /\ pos <= Len(file[rule].strings) /\ String.kind = "literal"
  /\ literal_patterns' = Added(literal_patterns, literal_cache, String.text)
  /\ literal_cache' = Emplace(literal_cache, String.text, literal_index)
  /\ info' = [info EXCEPT ![rule].literal_strings =
                Emplace(@, String.name, IdFor(literal_cache, String.text, literal_index))]
  /\ literal_index' = Advanced(literal_cache, String.text, literal_index)
  /\ pos' = pos + 1
  /\ UNCHANGED <<file, phase, rule, regex_index, regex_patterns, mutexes,
                 regex_cache, mutex_cache>>

\* isRegexp, and isHex with a pattern that is_regex.
AddRegex ==
  /\ phase = "strings" /\ pos <= Len(file[rule].strings) /\ String.kind = "regex"
  /\ regex_patterns' = Added(regex_patterns, regex_cache, String.text)
  /\ regex_cache' = Emplace(regex_cache, String.text, regex_index)
  /\ info' = [info EXCEPT ![rule].regex_strings =
                Emplace(@, String.name, IdFor(regex_cache, String.text, regex_index))]
  /\ regex_index' = Advanced(regex_cache, String.text, regex_index)
  /\ pos' = pos + 1
  /\ UNCHANGED <<file, phase, rule, literal_index, literal_patterns, mutexes,
                 literal_cache, mutex_cache>>

\* _current_rule_info is set and the condition is observed.
ObserveCondition ==
  /\ phase = "strings" /\ pos > Len(file[rule].strings)
  /\ phase' = "mutexes" /\ pos' = 1
  /\ UNCHANGED <<file, rule, literal_index, regex_index, literal_patterns, regex_patterns,
                 mutexes, literal_cache, regex_cache, mutex_cache, info>>

\* Mutant: mutexes are numbered within their rule, as strings are.
MutexIndexInRule == Cardinality(DOMAIN info[rule].mutexes)

\* Mutant: the index of the last mutex, not of the next one.
LastMutexIndex == Len(mutexes) - 1

\* mutex_idx = _mutexes.size()
MutexIndex == Len(mutexes)

\* visit(FunctionCallExpression*) for a call of cuckoo.sync.mutex.
VisitMutex ==
  /\ phase = "mutexes" /\ pos <= Len(file[rule].mutexes)
  /\ LET text == file[rule].mutexes[pos]
     IN  /\ mutexes' = Added(mutexes, mutex_cache, text)
         /\ mutex_cache' = Emplace(mutex_cache, text, MutexIndex)
         /\ info' = [info EXCEPT ![rule].mutexes =
                       Emplace(@, text, IdFor(mutex_cache, text, MutexIndex))]
  /\ pos' = pos + 1
  /\ UNCHANGED <<file, phase, rule, literal_index, regex_index, literal_patterns,
                 regex_patterns, literal_cache, regex_cache>>

EndRule ==
  /\ phase = "mutexes" /\ pos > Len(file[rule].mutexes)
  /\ rule' = rule + 1 /\ phase' = "rule"
  /\ UNCHANGED <<file, pos, literal_index, regex_index, literal_patterns, regex_patterns,
                 mutexes, literal_cache, regex_cache, mutex_cache, info>>

\* Mutant: the literal ids are not moved past the regex ids.
NoRegexSize == 0

\* total_regex_size: the regex strings of all rules, counted one by one.
TotalRegexSize ==
  Cardinality(UNION {{r} \X DOMAIN info[r].regex_strings : r \in 1 .. Len(info)})

\* "Fix literal indices"
FixLiterals ==
  /\ phase = "rule" /\ rule > Len(file)
  /\ info' = [r \in 1 .. Len(info) |->
                [info[r] EXCEPT !.literal_strings =
                   [n \in DOMAIN @ |-> @[n] + TotalRegexSize]]]
  /\ phase' = "done"
  /\ UNCHANGED <<file, rule, pos, literal_index, regex_index, literal_patterns,
                 regex_patterns, mutexes, literal_cache, regex_cache, mutex_cache>>

Next ==
  \/ StartRule \/ AddLiteral \/ AddRegex \/ ObserveCondition
  \/ VisitMutex \/ EndRule \/ FixLiterals

Spec == Init /\ [][Next]_vars
-----------------------------------------------------------------------------
\* compile_regexes(regexes) and compile_literals(literals, regexes.size()):
\* the text that an id of on_match stands for.
MatchIds == 0 .. (Len(regex_patterns) + Len(literal_patterns)) - 1
CompiledText(id) ==
  IF id < Len(regex_patterns)
    THEN [kind |-> "regex", text |-> regex_patterns[id + 1]]
    ELSE [kind |-> "literal", text |-> literal_patterns[id - Len(regex_patterns) + 1]]

\* PATTERN_COUNT: the size of ScanContext::matches.
PatternCount == Len(literal_patterns) + Len(regex_patterns)

\* RuleInfo::get_string_id
StringId(r, name) ==
  IF name \in DOMAIN info[r].literal_strings
    THEN info[r].literal_strings[name] ELSE info[r].regex_strings[name]

\* Every string of the file, with the rule it belongs to.
AllStrings ==
  UNION {{[rule |-> r, string |-> file[r].strings[i]] : i \in 1 .. Len(file[r].strings)} :
         r \in 1 .. Len(file)}
IdOf(x) == StringId(x.rule, x.string.name)
-----------------------------------------------------------------------------
\* An std::unordered_map from keys in S to numbers.
IsTable(table, S) == DOMAIN table \subseteq S /\ table \in [DOMAIN table -> Nat]

TypeOK ==
  /\ file \in Seq(RuleType)
  /\ phase \in Phases
  /\ rule \in 1 .. Len(file) + 1 /\ pos \in Nat \ {0}
  /\ phase \in {"strings", "mutexes"} => rule <= Len(file)
  /\ literal_index \in Nat /\ regex_index \in Nat
  /\ literal_patterns \in Seq(Texts) /\ regex_patterns \in Seq(Texts) /\ mutexes \in Seq(Texts)
  /\ IsTable(literal_cache, Texts) /\ IsTable(regex_cache, Texts) /\ IsTable(mutex_cache, Texts)
  /\ Len(info) = IF phase \in {"strings", "mutexes"} THEN rule ELSE rule - 1
  /\ \A r \in 1 .. Len(info) :
       /\ IsTable(info[r].literal_strings, Names) /\ IsTable(info[r].regex_strings, Names)
       /\ IsTable(info[r].mutexes, Texts)

StringsInOneRule == \A x, y \in AllStrings : x.rule = y.rule
RegexesDiffer ==
  \A x, y \in AllStrings :
    x.string.kind = "regex" /\ y.string.kind = "regex" /\ x.string.text = y.string.text => x = y

(***************************************************************************)
(* The number a rule uses for a string is the number under which the       *)
(* databases report that string's pattern (README.md:51).  The extraction  *)
(* achieves it for files in which one rule has all the strings and uses no *)
(* regex twice; in others numbers clash (IdsUnique).                       *)
(***************************************************************************)
IdsResolve ==
  phase = "done" /\ StringsInOneRule /\ RegexesDiffer => \A x \in AllStrings :
    /\ IdOf(x) \in MatchIds
    /\ CompiledText(IdOf(x)) = [kind |-> x.string.kind, text |-> x.string.text]

\* README.md:51, "gives all strings their unique numeric identifier": strings
\* with different patterns have different numbers.
IdsUnique ==
  phase = "done" => \A x, y \in AllStrings :
    IdOf(x) = IdOf(y) => x.string.kind = y.string.kind /\ x.string.text = y.string.text

\* A number a rule uses is an index of ScanContext::matches (codegen.hpp:34 and
\* 46), in whatever rules the strings are, unless a regex is used twice.
IdsWithinMatches ==
  phase = "done" /\ RegexesDiffer => \A x \in AllStrings : IdOf(x) < PatternCount

\* Strings of the same kind with the same text share a number, in whatever
\* rules they are: what _literal_cache and _regex_cache are for.
SameTextSameId ==
  phase = "done" => \A x, y \in AllStrings :
    x.string.kind = y.string.kind /\ x.string.text = y.string.text => IdOf(x) = IdOf(y)

\* No text is compiled twice into one database.
Distinct(patterns) ==
  \A i, j \in 1 .. Len(patterns) : patterns[i] = patterns[j] => i = j
PatternsDistinct ==
  Distinct(literal_patterns) /\ Distinct(regex_patterns) /\ Distinct(mutexes)

(***************************************************************************)
(* The number a rule uses for a mutex is the position of that mutex in     *)
(* mutex_db, which compile_regexes makes its id, for every mutex that a    *)
(* rule calls and at every moment of the extraction: mutexes are numbered  *)
(* across rules.                                                           *)
(***************************************************************************)
MutexIdsResolve ==
  \A r \in 1 .. Len(info) :
    /\ \A t \in DOMAIN info[r].mutexes :
         info[r].mutexes[t] + 1 \in 1 .. Len(mutexes) /\ mutexes[info[r].mutexes[t] + 1] = t
    /\ r < rule => \A i \in 1 .. Len(file[r].mutexes) : file[r].mutexes[i] \in DOMAIN info[r].mutexes
=============================================================================
