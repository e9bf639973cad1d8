# A verification development for yarang

yarang compiles a YARA ruleset into native code: `yarangc` turns the strings of the rules into
HyperScan databases and the conditions into C++ functions, `scripts/yarangc.sh` builds a shared
object from them and `scripts/ruleset.yar.cpp`, and a client (the `yarang` program, or any user of
`libyarang`) opens that object and scans data with it. This directory holds TLA+ models of the
program, TLC configurations that check them on small instances, and theorems that TLAPS proves
for every instance.

Paths below are relative to the repository; `ruleset.yar.cpp` and `yarangc.sh` are in `scripts/`,
`codegen.hpp`, `pattern_extractor.hpp` and `conversion.cpp` in `src/lib/yarangc/`.

## 1. Inventory

| Component | State it keeps | Operations | What makes it correct | Module |
|---|---|---|---|---|
| Pattern extraction (`pattern_extractor.hpp`) | lists of literal, regex and mutex patterns, a cache per list, a table of ids per rule | `extract`, `visit(FunctionCallExpression*)`, `get_string_id`, `get_mutex_id` | the id a rule uses for a string or mutex is the id under which the database reports it; no pattern twice; an id is an index of the runtime's match array | `PatternExtractor` |
| Hex strings (`conversion.cpp`) | none | `hex_string_to_pattern` | the pattern matches exactly where the hex string does; a pattern without metacharacters is a literal | `HexPattern`, with extraction in `StringPatterns` |
| Code generation (`codegen.hpp`) | the rule at hand, loop variables, the text written so far | one `visit` per kind of expression | the C++ expression has the value of the YARA condition | `Conditions` (expressions and loop bodies), `QuantifiedLoop` (counts), `ScanRuntime` (connectives, calls of rules) |
| Database wrapper (`src/lib/hspp`) | a `hs_database_t*` | `compile_regexes`, `compile_literals`, `save`, `load` | ids are consecutive from `base_id`; a pattern is compiled as what it is | `PatternExtractor` (ids), `HexPattern` (literals), `BuildPipeline` (`save`) |
| Compiler driver (`src/yarangc.cpp`, `yarangc.sh`) | the files beside the ruleset: `rules.def`, `*.db`, `*.s`, `*.o`, `.bin` | parse, extract, compile, generate, save; assemble, link, clean up | the `.bin` belongs to the ruleset it is named for | `BuildPipeline` |
| Scan runtime (`ruleset.yar.cpp`) | per scanner a `ScanContext`; for the whole library the memo `rules[].match` | `yng_scan_data` with `on_match`, `on_mutex_match`, `evaluate_rule(s)`, the client's callback | a scan reports exactly the public rules that hold for its data, once each | `ScanRuntime`, abstractly `ScanService` |
| Condition helpers (`ruleset.yar.cpp`, `endian.hpp`) | none | `loop`, `loop_ints`, `loop_range`, `of`, `match_*`, `read_data` | stopping early does not change an answer; unsigned differences that wrap do no harm; a read or an index gives what is at its place or `UNDEFINED` | `QuantifiedLoop`, `ScanReads`, `Conditions` |
| Runtime lifecycle (`yng_initialize`, `yng_new_scanner`, `yng_free_scanner`, `yng_finalize`) | three global database pointers | the four functions | no use after free, no double free, no leak | `RulesetLifecycle` |
| `libyarang` (`src/lib/yarang`) | a `dlopen` handle and five function pointers; per `ScannerWrapper` two pointers | constructor, move, destructor, `initialize`, `finalize`, `new_scanner`, `scan_data`; `~ScannerWrapper` | calls are in the order README.md:80-85 asks for, and into a library that is loaded | `RulesetLifecycle` |
| `yarang` (`src/yarang.cpp`) | options | `parse_options`, `main` | the file scanned and the report used are those of the command line | `Toolchain`, with the builds of the `.bin` |
| Standalone `main` of `ruleset.yar.cpp` | none | one call of each `yng_` function | a behaviour that `RulesetLifecycle` and `ScanRuntime` already contain | not modelled |
| CMake files, `hyperscan_pic.patch`, `yng.syms` | | | configuration without behaviour | not modelled |

yaramod, HyperScan, rapidjson and the C++ toolchain are external. They appear only as far as the
code uses them: what yaramod's parser excludes is an assumption on inputs, HyperScan is the set of
matches of a request (and, for the elements `conversion.cpp` writes, their matching), rapidjson is
the outcome of a parse, and `g++` leaves an object, or the one that was there.

How the parts interact. Ids are the interface between extraction, databases, generated code and
runtime: extraction assigns them, `compile_literals` gives each literal the number of regexes plus
its position, the generated functions carry them as constants, and `on_match` uses them as array
indices. Nothing checks that the four agree. The steps of a build meet only in files, one of which
has the same name for every ruleset of a directory, and no step looks at whether the one before it
succeeded. At run time the client's threads call `yng_scan_data`, which calls HyperScan, which calls
`on_match`; rule functions call `evaluate_rule` for other rules, and `evaluate_rule` calls the client
back in the middle of the evaluation. What a scan found lives with its scanner, the memo of the
results does not: it is a static array.

What is hard. The memo is shared by all scanners, so scans of two threads, and a scan that a
callback starts, interleave with it. A scan may fail between any two of its phases, and what it
recorded stays in the context. Unsigned arithmetic wraps in the loops and truncates at HyperScan's
length parameter. The condition is printed without parentheses, for a compiler whose operators bind
otherwise than YARA's. The databases belong to the shared object, `Ruleset` objects come and go.
Builds overlap, are stopped halfway and leave files. All of these are listed with their lines under
"hazards" in `PROJECT.json`.

## 2. Modules

Each component has a module with the state machine and its properties, an `MC` module with small
instances for TLC, and, where theorems are proved, a `Proofs` module. Definitions whose comment
begins with "Mutant:" are deliberate errors, each a plausible bug in the definition after it;
`PROJECT.json` pairs each with a property that catches it.

                                        MachineWords
                                         /        \
    PatternExtractor   HexPattern  QuantifiedLoop  ScanReads   ScanService   BuildService    RulesetLifecycle
             \           /               \        /              | refined     | refined
            StringPatterns               Conditions         ScanRuntime   BuildPipeline
                                                                               |
                                                                           Toolchain

### ScanRuntime and ScanService

`yng_scan_data` as a program counter per scanner. The variables are `memo` (`rules[r].match`, one
array for all), `matches`, `mutexes` and `ctx` (the `ScanContext` of a scanner), `next` (the loop
over `rules`), `frames` (the active `evaluate_rule` calls), `stack` (which scan runs on which
thread, innermost first), and the history `calls`, `outcome` and `overlapped` (the scanners whose
last scan had another one open beside it) that the properties speak about.

| Code | Action |
|---|---|
| entry, clearing of matches and mutex counts (335-345) | `Begin` |
| `for (auto& rule : rules) rule.match = NotEvaluated` (347) | `ResetRule`, one entry a step |
| the two scans of the data (352-382) | `ScanLiterals`, `ScanRegexes`; HyperScan may fail after some matches |
| the Cuckoo report (384-433) | `NoCuckoo`, `UnreadableCuckoo`, `AbortInJson`, `ScanMutexes` |
| `ctx->data = data` ... (435-437) | `Publish` |
| `evaluate_rules` (252-256) | `EnterRule`, `FinishScan` |
| `evaluate_rule` (235-245) | `CheckMemo`, `TestContext`, `CallRule`, `StoreMemo`, `ReportMatch`, `CallbackReturns`, `ReturnRule` |

Every access to the shared memo is a step of its own; what is private to a scanner changes in one
step per phase. The accesses are unsynchronised, so after its store `evaluate_rule` may use the
value it has in a register or load the array again; `Seen` allows both. A rule is a short-circuit
`&&` or `||` of leaves that may be negated: a string, a mutex, a fact about the data (a stand-in
for what `Conditions` models), or an earlier rule. `Verdict` is the set of rules that hold for a
request, defined by the conditions alone; `VerdictAssumption` says so and TLC evaluates it for every
instance. A `Match` is the set of its occurrences: HyperScan reports a pattern once per end offset,
so that its 32-bit count stays below the 32-bit length and cannot wrap.

`ScanService` is what a client whose scans take turns (no two are ever open) may rely on: `Ask`, then `Tell` for each
public rule of `Verdict`, once and in the order of the file, then `Answer`; or `Fail`, only as long
as nothing has been told. `ScanRuntime` implements it with `asked`, `told` and `status` mapped to
`request`, `calls` and `outcome` (`ServiceKept`).

### PatternExtractor, HexPattern, StringPatterns

`PatternExtractor` is `extract` and the visitor it runs on each condition, one action per string
(`AddLiteral` for plain text and hex literals, `AddRegex` for regexes and hex regexes), per mutex
call (`VisitMutex`), and for the loop heads (`StartRule`, `ObserveCondition`, `EndRule`) and the
final shift of literal ids (`FixLiterals`). `CompiledText` is what the databases report under an id
(`yarangc.cpp:49-54`, `hspp/database.hpp:77` and `114`), `StringId` what the generated code uses,
`PatternCount` the size of `ScanContext::matches`. A text is a value: two strings have the same text
or not.

`HexPattern` is `hex_string_to_pattern` as a function from the units of a hex string (bytes of two halves that
may be `?`, jumps, alternatives) to the elements of the text it writes (characters, `\xHH` escapes,
dots with their repetition, groups). A byte with one half given becomes a group of sixteen alternatives. `RegexEnds` and
`LiteralEnds` are where HyperScan finds such a text, `HexEnds` where YARA finds the hex string. Hex strings
and texts are trees, so these are recursive functions over the sets `HexStrings` and `Regexes` (a recursive
operator would keep proofs away from all of it); `Nesting` says how deep each tree is. yaramod's parser
returns the two halves of a byte one after the other, which is why a unit may hold both.

`StringPatterns` composes the two: strings are converted, extracted and compiled, and what the
databases report under the id of a string is compared with where the string, as it is written,
matches (`StringsFound`). `ConvertedFile` is the file as `extract` sees it; `SourcesAssumption` says that the sets
of texts and of files contain what conversion makes of the sources.

### MachineWords, QuantifiedLoop, ScanReads and Conditions

`MachineWords` is `std::uint64_t`: `Words`, and sums and differences that wrap (`Plus`, `Minus`).

`QuantifiedLoop` is `loop`, `loop_ints`, `loop_range` and `of`, which differ only in their items and
in `n = std::min(n, high)`, with the count the generator computes (`Count`). `Enter`, `GiveUp`, `Hit`, `Miss` and `RunOut` are the statements of the loop.

`ScanReads` is what a rule function reads of a scan: `match_offset` and `match_length` (`Entry` of `Offsets`
and `Lengths`), `read_data` with `endian_convert` (`ReadData`, `Readable`, `Converted`), and the comparisons of
words. What is not there is `Undefined`.

`Conditions` gives the calls of that loop their bodies. A condition is a tree, as yaramod's parser
builds it (`WellFormed`, `GroupedByYara`); `Text` is the sequence of tokens the visitors print for it: operators,
numbers, and operands, which are variables, parentheses and calls of helpers. `ReadBack` is the C++ compiler: of a
text whose operands have values it applies the loosest operator last, of several the rightmost. `OperandValue` is the
value of an operand, by `match_at`, `match_in`, `match_offset`, `match_length`, `read_data` and the loops, whose
arguments and bodies are texts again; `Value` is that of a whole text. `Meaning` evaluates the tree as YARA defines it,
where a value may be undefined. `ConditionKept` compares the two. A quantifier at the top of a
condition is run as the loop of `QuantifiedLoop`, step by step; one inside it is evaluated by the
answer that `ResultExact` states of the loop (`Answer`). All of these are recursive functions over the set `Exprs` of the
conditions with their parts, of which `Depth` says how deeply they are nested; `&` and `^` are the constants `BitAnd` and
`BitXor`, of which only is assumed that they give words.

### RulesetLifecycle

`Ruleset` and `Ruleset::ScannerWrapper` over `dlopen` handles and the global databases. `uses` says what
a client does beyond scoped use (one `Ruleset` of a file at a time, scanners that end first): move,
copy a wrapper, share a file, let a wrapper outlive its parent, call `initialize` or `finalize`. A
call that goes wrong leaves its kind in `faults`, and the behaviour ends there. `Tidy` is none of these but further
calls of `initialize()`, which replace databases without freeing them and are counted in `again`. Whether `dlclose`
unloads the object is left open: both outcomes occur with real builds. Where it does, the `Ruleset`s that still have
that library (moved to, or of the same file) are `stale`: what they call is no longer there, also when the file is
loaded anew, and every call through one, of `new_scanner`, `initialize` or `finalize` too, is a fault (`CallFaults`).
`LibraryFaults` are those of a call into a finalized or unloaded library and of a freed database, `WrapperFaults` those of a
`Ruleset` or a scanner that is gone.

### BuildPipeline and Toolchain

`BuildPipeline` is a run of `yarangc.sh` as a program counter per builder over shared files. A file is
absent, partial (opened and not yet closed), or made of one content.

| Code | Action |
|---|---|
| call of the script (`yarangc.sh:22-40`) | `Start`, in any directory the client's `uses` allow |
| `yarangc` up to its first output (`yarangc.cpp:20-57`) | `Compile`; `Refuse` when it throws, finds a syntax error, or is missing |
| `rules.def`, then the databases that have patterns (`yarangc.cpp:59-68`) | `Open` and `Write`, per file |
| `generate_asm_file` and `g++ -c`, per database (`yarangc.sh:3-20`, `55-65`) | `Embed`, `Assemble` |
| `g++ -c ruleset.yar.cpp` (68) | `Build`: a `rules.def` beside the source shadows that of the working directory |
| `g++ -shared` (69) | `LinkerStops` when an object is missing: the `.bin` stays; else `RemoveBin`, `CreateBin` (a partial file), `FinishBin` |
| `rm -f` (75) | `Clean` |
| a signal; somebody with an editor | `Interrupt`, `Edit` |

`uses` says what people do besides careful builds: overlap them, stop them, call the script from
elsewhere, keep rulesets beside the script, build rulesets that `yarangc` refuses, or have `yarang`
and no `yarangc`. `trouble` and `built` are history: what was not careful about a build, and the
content and trouble of the last build of a ruleset that completed its `.bin`. The linker removes the `.bin` that is there and
writes a new file, in steps that other builds and `yarang` can come between; `writer` is the build whose linker made the file
that has the name. A second linker takes the name from the first, whose file is then nobody's; a link that fails
removes what is there; one that is stopped leaves a part.

`BuildService` is what people may rely on whose builds are careful (`uses = {}`): a build reads its ruleset
(`Read`) and in the end takes the `.bin` away (`Clear`) and puts the image of what it read in its place (`Replace`);
nothing else changes or removes a `.bin`. `BuildPipeline` implements it with `reading` mapped to what the build of a
ruleset has read and not yet linked (`HeldContent`) and `image` to `bin`, where a partial file is none (`BuildServiceKept`).

`Toolchain` adds runs of `yarang`: `ParseOptions`, `Load`, `Read`, `Scan`, beside the builds that replace the `.bin`.
`Load` meets the `.bin` as it is at that moment: it throws when there is none, may throw or go on when it is partial, and keeps
what it opened when the name is removed. The history `ready` says whether the ruleset had been built and no linker
was at work on its `.bin` then.

## 3. Runs

| Run | Expectation | What it shows |
|---|---|---|
| `ScanSequential` | passes | One thread, two scanners, eight kinds of request, `hs_scan` failing at will. A scan that returns was exact (`ReportExact`) whatever failed before it; its context is its own (`ContextIsOwn`); no rule function runs inside another (`NoNestedEvaluation`); the runtime implements `ScanService` (`ServiceKept`); every scan ends (`ScanEnds`). |
| `ScanConcurrent` | passes | Two threads, and scans from callbacks, over a ruleset without strings, all of whose string databases are null. Racing on the memo disturbs no context, and no later scan that is alone (`ReportExactAlone`), in which no rule is evaluated below another (`NoNestedEvaluation`); every scan ends. |
| `ScanNoMutexDb` | violates `ScansComplete` | A report given to a ruleset without mutexes makes the scan throw (README.md:29). |
| `ExtractAny` | passes | Patterns stay distinct, equal strings share an id, mutex ids are right in every file; ids stay within the matches where no regex occurs twice, and are right where, besides, one rule has the strings; strings of every form are found where they are (`StringsFound`). |
| `ExtractUnique` | violates `IdsUnique` | Strings of two rules get one id (README.md:51). |
| `HexLiteral` | violates `HexLiteralsFound` | A hex literal with a byte that is no letter or digit is not found (README.md:43). |
| `ConditionsAny` | passes | Printed conditions mean what YARA says where C++ groups them alike (`ConditionKept`); undefined values do not make a comparison true (`UndefinedIsFalse`); a read gives the bytes at its offset, an index the occurrence it counts, or else `UNDEFINED` (`ReadsExact`, `EntriesExact`); every quantifier over sets and ranges gives the answer of counting the items (`ResultExact`, `LiteralIsCut`), evaluates the items at which the answer is open, and no others, or all of them when n is 0 or above their number so that `tolerance` wraps (`EvaluatedWhileOpen`), and ends (`LoopEnds`). |
| `LoopAllRange` | violates `AllMeansEvery` | `for all i in (1 .. 3)` is never true. |
| `RulesetClients` | passes | A scoped client, also one that calls `initialize()` again, meets no fault (`NoFault`); the handles that are open are those of `Ruleset`s and of constructions that threw, the sets of databases those of `Ruleset`s and of each call of `initialize()` (`NothingLeaks`); it scans what its scanners were made for (`ScannerReady`). Clients that are careless with scanners meet dangling parents and freed scanners, but no freed database or unloaded code; those careless with `Ruleset`s the reverse (`FaultsFollowUse`). |
| `RulesetMoved` | violates `CallsInOrder` | A moved-from `Ruleset` finalizes the library again (README.md:81). |
| `Toolchain` | passes | A build nothing disturbed has linked what it read, whatever others do or left behind (`UntroubledBuildIsExact`); with careful builds every ruleset ever built has a whole `.bin` except while a linker replaces it (`CarefulBuildsAreWhole`), nothing else changes or removes one (`BuildServiceKept`), and `yarang` scans its file with one content's rules if it looked at another time, or found a file that a linker had closed (`PlainLineScans`). |
| `CliUsage` | violates `CuckooLineScans` | `-c` is taken for the file to scan (README.md:29). |

The violations are disagreements between the code and the quoted line; "findings" in `PROJECT.json`
gives the code line and the argument for each.

Bounds, and why they are enough.

* `ScanRuntime`: three rules, of which a private one feeds a public one that also negates another;
  one literal, one regex, one mutex and one fact. Each kind of leaf, each sign, both connectives and
  a rule that reads two others occur. Two scanners are needed for one to disturb the other, and a third would
  be another copy of the second: the memo they share has three values per rule. `MaxDepth = 2`
  allows a scan within a callback, with both scanners in use; `LengthMod = 4` stands for 2^32.
  `ScanConcurrent` has two requests with opposite results, so that a result of the wrong request shows.
* `PatternExtractor`: all pairs of rules with at most two strings over two texts and two mutex
  calls contain each way in which a text recurs within a rule, between rules and between kinds; one
  rule of three strings over three texts adds the order of literals and regexes.
* `StringPatterns`: hex strings of one to three bytes and jumps that contain every kind of unit, nested
  alternatives, bounded and unbounded jumps, beside strings whose text coincides with what they are
  converted to; all buffers of up to three of four bytes, and one that spells an escape. Alternatives nest
  two deep, with the group of a byte half given below them (`MaxNesting = 3`).
* `QuantifiedLoop`: `WordSize` 8 or 16, items up to seven and literals up to six, so that counts above
  the number of items and differences below zero both occur, at the bottom and at the top of a word.
* `Conditions`: `WordSize = 16` with `Undefined = 14`, and bytes of two values, which make reads of up
  to four bytes fit a word and `offset + sizeof(T)` wrap. Every pair of operators that can stand next
  to each other, every kind of read as operand and index, loops of each kind with each quantifier, loops
  within loops, nested up to five deep; three scans, one of which finds nothing in empty data.
* `RulesetLifecycle`: two rulesets and another shared object, two `Ruleset` variables, two wrappers,
  two scanners; each use involves at most two objects. Files of a kind, objects, wrappers and scanners are
  symmetric: no property names one. `MaxAgain = 2` bounds repeated `initialize` and `MaxLive = 3` the databases, one of a
  construction and two of such calls; `MaxFailed` bounds repeated failed constructions. Five clients: scoped use, with and
  without `initialize()`; careless with scanners; careless with `Ruleset`s; with both.
* `BuildPipeline`: two rulesets of one directory and one of the script's, two builders, three builds
  (two where they overlap): one to leave something behind, one to be disturbed, one to profit. One
  edit, two accepted contents with different databases and one refused. `yarang` runs once, in the
  policies in which what it meets is decided by builds that ran to their end. Builders are symmetric:
  no property names one.

Fairness. `yng_scan_data` runs on its caller's thread and waits for nothing, no lock and no queue:
weak fairness of a scanner's next step says only that the operating system schedules the thread. A
callback that could return again and again, because each scan it starts ends, does return (strong
fairness of `CallbackReturns`): a client's callback makes a finite number of scans. In
`Conditions` weak fairness of the loop's step says that the thread of the scan runs.
`RulesetLifecycle`, `PatternExtractor` and `BuildPipeline` state no liveness: clients and people
may stop, and what a build does is finite by its text. `CHECK_DEADLOCK FALSE` is given where the
system really stops: at the end of an extraction or loop, after a fault, and when the
bounded builds and runs are used up.

## 4. Proofs

The theorems hold for every value of the constants that satisfies the modules' named `ASSUME`s:
rules call only earlier rules and the names of a rule's strings differ (yaramod's parser), requests
are well-typed and matches end within the data, `Verdict` is what the conditions say, the path
constants of the build are distinct values.

| Theorem | States | Argument |
|---|---|---|
| `ScanRuntimeProofs!TypeCorrect` | `Spec => []TypeOK` | `TypeInv`: `TypeOK` strengthened by what each phase knows of frames, stacks and requests. |
| `ScanRuntimeProofs!PrivateRulesSilent` | `Spec => []PrivateIsSilent` | Only `ReportMatch` counts a call, and only of a public rule, whatever value it saw in the memo. |
| `ScanRuntimeProofs!ContextIsolated` | `Spec => []ContextIsOwn` | `ContextInv`: after each phase `matches`, `mutexes` and `ctx` hold what the phases passed should have delivered for the current request; no step of another scanner touches them. |
| `ScanRuntimeProofs!AloneReportExact` | `SizesFit` implies `Spec => []ReportExactAlone` | `AloneInv`, below. |
| `ScanRuntimeProofs!AloneEvaluatesOnce` | `SizesFit` implies `Spec => []NoNestedEvaluation` | In `AloneInv` the rules before the current one are settled, and a rule refers to those only. |
| `ScanRuntimeProofs!TurnsReportExact` | `SizesFit` implies `Spec /\ []NoOverlap => []ReportExact` | `NoOverlap`: no scan was ever open beside another; then every scan is one `AloneReportExact` speaks of. |
| `ScanRuntimeProofs!SequentialReportExact` | `OneScanAtATime`, `SizesFit` imply `Spec => []ReportExact` | `OneOpen`: with one thread whose callbacks do not scan, `NoOverlap` holds. |
| `ScanRuntimeProofs!ServiceForTurns` | `SizesFit` implies `Spec /\ []NoOverlap => ServiceKept` | Each action of the runtime maps to one of `ScanService` or to a stutter, by `TurnsInv`. |
| `ScanRuntimeProofs!ServiceImplemented` | `OneScanAtATime`, `SizesFit` imply `Spec => ServiceKept` | The same, by `OneOpen`. |
| `PatternExtractorProofs!TypeCorrect` | `Spec => []TypeOK` | `TypeInv`. |
| `PatternExtractorProofs!NoPatternTwice` | `Spec => []PatternsDistinct` | `PatternsInv`: a cache has exactly the texts of its list. |
| `PatternExtractorProofs!MutexNumbersAgree` | `Spec => []MutexIdsResolve` | `MutexInv`: the cache maps a text to its position in the list, and a rule's table agrees with the cache. |
| `PatternExtractorProofs!EqualStringsAgree` | `Spec => []SameTextSameId` | `StringInv`: the tables of the rules passed agree with caches that only grow; `FixLiterals` shifts all literals alike. |
| `PatternExtractorProofs!IdsStayWithin` | `Spec => []IdsWithinMatches` | `BoundsInv`: every number in a cache is below the length of its list, though indices restart. `SizeInv`: where no regex is used twice, the regex strings that `FixLiterals` counts are as many as the regex patterns. |
| `PatternExtractorProofs!OneRuleResolves` | `Spec => []IdsResolve` | `PlaceInv`: with all strings in one rule, an index is the length of its list and a cache gives the position in it. |
| `StringPatternsProofs!HexTextExact` | The text of a hex string ends in a buffer exactly where the hex string does, from every offset | Induction on `Nesting`; a byte agrees with its halves exactly if it is one of the sixteen that the group lists (`PairEnds`), and a sequence ends where its members, one after the other, lead (`ThroughIs`). |
| `StringPatternsProofs!WrittenStringsFound` | `StringSpec => []StringsFound` | `OneRuleResolves` gives the text that is compiled under the id of a string; `HexTextExact` says that a hex string's is found where the string is. A hex string without escapes becomes a literal, of one character per byte, and ends where its elements do (`LiteralTextEnds`); one with escapes is what the hazard of `HexLiteral` is about. |
| `ConditionHelpersProofs!TypeCorrect` | `Spec => []TypeOK` | `LoopInv` bounds each counter. |
| `ConditionHelpersProofs!LoopsExact` | `Spec => []ResultExact` | `LoopInv`: `hits` counts the items passed that hold, `index` the items passed; the case in which `tolerance` wrapped has more hits wanted than items left, so that giving up or not is the same. |
| `ConditionHelpersProofs!LiteralsAreCut` | `Spec => []LiteralIsCut` | From `ResultExact`: when as many items hold as there are items, all of them hold. |
| `ConditionHelpersProofs!EvaluatedOnlyWhileOpen` | `Spec => []EvaluatedWhileOpen` | `OpenInv`: where n can be reached, the answer was open at every item passed. The items held up to one only grow in number, so that an answer once decided, by n hits or by too few items left, stays so (`ReachedCloses`, `HopelessCloses`). Where n is 0 or above the number of items neither exit is ever taken. |
| `ConditionHelpersProofs!LoopAdvances` | `Spec => [][StepsLeft' < StepsLeft]_vars`, in `Nat` | A loop over k items takes at most k + 2 steps: each step passes an item, enters or ends. |
| `RulesetLifecycleProofs!TypeCorrect` | `Spec => []TypeOK` | `TypeInv` with `PointerInv`: a live pointer has its databases, a dangling one was finalized. |
| `RulesetLifecycleProofs!FaultsComeFromUse` | `Spec => []FaultsFollowUse` | `OwningInv`, for clients that neither move nor share `Ruleset`s nor call `finalize()`: a file is open in at most one `Ruleset`, which is not stale, and is then initialized (`FilesInv`). `PairedInv`, for those that neither copy wrappers nor let them outlive: each scanner belongs to one wrapper, whose `Ruleset` is there (`WrappersInv`). Neither needs the other, so each half holds whatever the client does besides. |
| `RulesetLifecycleProofs!ScopedUseIsSound`, `ScopedUseLeaksNothing`, `ScopedScannersReady` | `Spec => []NoFault`, `[]NothingLeaks`, `[]ScannerReady` | A `Tidy` client is of both kinds (`TidyIsBoth`): its faults would be of a library and of a wrapper at once. `FilesInv` counts what a file has: one handle more than failed constructions left while a `Ruleset` of it is there, and one set of databases more than there were calls of `initialize()`. |
| `BuildPipelineProofs!TypeCorrect` | `Spec => []TypeOK` | `TypeInv`: a build past `Compile` has read a content. |
| `BuildPipelineProofs!UntroubledBuilds` | `Spec => []UntroubledBuildIsExact` | `BuildInv`: while nothing troubled a build, no other is in its directory (`Alone`), and each file it has been through holds what its content makes (`Exact`); `OthersKeep`: no step of another build touches those. |
| `BuildPipelineProofs!CarefulBuilds` | `Spec => []CarefulBuildsAreWhole` | `CarefulInv`: when all are careful, every build is untroubled; in particular only a running build of a ruleset has its `.db` files. Then every link finds its objects and ends with the exact image (`LinkExact`), and from its `RemoveBin` to its `FinishBin` the build counts as one that replaces (`ReplacingKept`). |
| `BuildPipelineProofs!BuildServiceImplemented` | `Spec => BuildServiceKept` | By `BuildInv` and `CarefulInv`, with at most one build of a ruleset at a time (`OneBuild`): `Compile` is `Read`; `RemoveBin` is `Clear` or, with `CreateBin` or where there was no `.bin`, a stutter (`LinkClears`); `FinishBin`, whose objects are all there and hold what they should, is `Replace` (`LinkReplaces`); an edit is `Edit`, every other step is a stutter (`ServiceStutters`). |
| `ToolchainProofs!ToolBuildsCorrect` | `ToolSpec` implies the four results about builds | Steps of `yarang` leave the variables of the builds alone: `ToolSpec => Spec` (`ToolBuilds`). |
| `ToolchainProofs!PlainLines` | `ToolSpec => []PlainLineScans` | `UsersInv`: a run that looked when its ruleset was built and not being linked, or that found a closed file (`Looked`), holds an image that is whole, by `CarefulBuildsAreWhole` (`FoundWhole`); removing and writing the `.bin` later does not change what it has open. |
| `ConditionHelpersProofs!ReadsAreExact` | `ReadsExact` for every rule | `ReadableIsInside`: the sum wraps only where `offset >= data_size` has refused the read. `ConvertedBytes`: what is loaded are the bytes at the offset. |
| `ConditionHelpersProofs!EntriesAreExact` | `EntriesExact` for every rule | `LoweredIndex`: 0 becomes the largest word, which is no index because no vector is that long. |
| `ConditionsProofs!ConditionsKept` | `RuleSpec => []ConditionKept` | Induction on `Depth`, below. |
| `ConditionsProofs!UndefinedConditionsFalse` | `RuleSpec => []UndefinedIsFalse` | What is compared with the number is `UNDEFINED` (`AbsentIsUndefined`), which is not below it (`UndefinedIsLarge`); an undefined `and` has an undefined operand, an undefined `or` no true one (`GuardedFalse`). C++ groups such conditions as YARA does (`GuardedPlain`), so that the argument of `ConditionsKept` gives the values of their parts. |

`AloneInv` carries `AloneReportExact` and the five theorems after it. `ReportExact` is not inductive: it speaks about a
scan that has ended, and is decided by what the memo held while it ran. `AloneInv` says of every
open scan that nothing overlapped (`ScanOK`) that during the reset the entries before `next` are
`NotEvaluated`; that during the evaluation the rules before the current one are settled (memo as in
`Verdict`, reported once if public and true, else never) and those after it are untouched; that at
most one frame is under the current rule's, and returns at once; and, for the leaf a rule is at,
that the leaves before it left its connective undecided. It says nothing of what the memo held when
the scan began: overlapping scans may leave anything there. `SizesFit` says that no request is longer
than `hs_scan` can be told; a longer one loses matches. `NoOverlap` is a hypothesis on the client, on as many threads and scanners as it
likes; `OneScanAtATime` (one thread and `MaxDepth = 1`) is a client of which it can be proved. For scans that do overlap the code gives no promise but `ContextIsOwn` and `PrivateIsSilent`:
README.md does not say that scanners of one ruleset may be used at the same time, and they may not.

`StringPatternsProofs` does induction over data, for which the library's theorems cannot be used. `LeastNumber`, from
the fact that `<` on `Nat` is well-founded, gives every set of numbers with a member a smallest one, and
`NumbersFromZero` thus says of a set that holds 0 and with each number the next that it holds all. A recursive definition
is its equation once a function that satisfies it exists: for `HexStringToPattern`, `RegexEnds` and `HexEnds`
that is shown by extending a function from the trees nested less than `n` deep to those nested `n` deep
(`ConversionIs`, `RegexEndsIs`, `HexEndsIs`). The assumptions: nesting is bounded by `MaxNesting` and grows from a part
to the whole, buffers are ASCII, `Regexes` contains the texts that conversion writes, `Rulesets` the converted files.

`ConditionsProofs` does the same for conditions. `Text`, `Primary`, `Meaning` and `ReadBack` are shown to satisfy their
equations (`TextIs`, `PrimaryIs`, `MeaningIs`, `ReadBackIs`), the last by induction on the length of a text.
`AppliedLast` says where C++ divides a text: an operator that nothing before it is looser than, and that everything
after it is tighter than, is applied last, to what the two sides are worth; that is what `KeepsGrouping` asks of each
node. The induction (`PlainKept`) is over `Known`: in every environment that has what is free in an expression, its text
is worth a word and, where the expression means something, what it means. Stated for one environment it would not be
inductive, since the body of a loop runs in others, one per item (`BodyBinds`). Each kind of node has a lemma: `LeavesKept`,
`BinaryKept`, `NotKept`, `ParenKept`, `AtKept`, `InKept`, `EntryKept` and `ReadKept` by the helper it calls, `LoopKept` by
`AnswerIs`, which counts the items that hold. `RunInv` ties the loop that runs to the condition at the top: it is
`LoopInv` with the call that the condition makes. The assumptions: what yaramod's parser makes sure of in a tree, that four bytes fit a
word, that there are no more strings than words, and those of `ScanReads`. Which conditions the theorem is about is the
hypothesis of `ConditionKept` itself, `Plain`; section 5 says what it leaves out.

The theorems about reads and entries are about any value of the variable `rule`, which a behaviour of `Conditions`
never changes; their assumptions are that no buffer comes within four bytes of the end of the address space and
that no vector or buffer is as long as `UNDEFINED` is large.

Only model-checked:

* the liveness properties `ScanEnds` and `LoopEnds`, which are beyond the prover; of `LoopEnds` the bound
  is proved (`LoopAdvances`), and left to TLC is that a loop which has not ended can take a step;
* the six properties of the runs that expect a violation.

## 5. What the properties leave out, and why

Differences between YARA and the code that no line of the repository speaks against; the models
contain them and the properties are stated around them:

* `!=` is printed as `==` (`codegen.hpp:313`): `Text` prints it so, and `ConditionKept` leaves conditions
  with it out.
* No parentheses are added, and `not`, `&` and `^` bind otherwise in C++ than in YARA: `ConditionKept` is
  about conditions that both group alike (`Plain`). The same holds of an index looser than the
  `- 1ul` printed after it.
* `in (low .. high)` and `for ... in (low .. high)` stop before `high`; `Meaning` reads them so.
* `UNDEFINED` is an ordinary, large number: `#a > 0 or @a[9] > 5` may be true without a ninth
  occurrence. `ConditionKept` is about conditions with a defined meaning, and `UndefinedIsFalse` about
  comparisons with `==`, `<` and `<=`.
* Sums, differences and products wrap, and signed reads are returned unsigned; such values count as undefined in `Meaning`.
* A quantifier that is an expression (`for #a of them`) counts 0 and is never true; `all` of an empty set
  and 0 of a set are not what YARA says; `all` of a range is the finding of `LoopAllRange`.
* Inside a loop over integers within one over strings, `$` is the integer.
* A modulo by 0 is undefined behaviour: in `ConditionKept` a divisor is a number above 0.

Not modelled:

* Operators and operands for which `Codegen` has no visitor of its own (`|`, `<<`, `>>`, `~`, `\`, unary minus), or whose
  visitor throws (`#`, `!` and `$` as operands in bodies over strings). `Codegen` is a `yaramod::ObservingVisitor`
  (`codegen.hpp:25`), which is not in the repository: as its name says it visits the operands and nothing else, so that an
  operator may be dropped from the text without an error (`~x` would be printed as `x`, `a << b` as the two operands next to each
  other). `ConditionKept` is about conditions without them. Imported values other than the mutex call, and operands that are
  strings or regexes, are not modelled either.
* Data longer than `hs_scan`'s 32-bit length: matches beyond the narrowed length are lost. The requests of the runs are shorter
  than `LengthMod`, the theorems that need it assume `SizesFit`.
* The modifiers of strings: the extraction does not look at them.
* HyperScan beyond the elements `conversion.cpp` writes: its matching of regular expressions and its
  decoding of UTF-8. `HS_FLAG_UTF8` makes a dot a character and not a byte; the buffers of `StringsFound` are ASCII.
* `patterns.txt`, which nothing reads; `collect_files` of `yarang`, whose list `main` does not use.
* The environment checks of `yarangc.sh` other than for `yarangc`: they end the script before it does anything.
* `Database` objects being moved or loaded: the program moves none, and the runtime deserialises with
  HyperScan's own function.
* `main` of `ruleset.yar.cpp`: one call of each `yng_` function, never called in a shared library.
* Build configuration, linker patch, symbol list, wording of messages and layout of generated code.
