----------------------------- MODULE ScanRuntime -----------------------------
(***************************************************************************)
(* The scan runtime of a compiled ruleset (scripts/ruleset.yar.cpp):       *)
(* yng_scan_data, the HyperScan callbacks it installs, and the memoised    *)
(* rule evaluation it ends with.                                           *)
(*                                                                         *)
(* What a scan found is kept per scanner (ScanContext); the memo of the    *)
(* rule results is the static array `rules`, one for the whole library.    *)
(* Each read or write of that array is a step of its own, so that scans of *)
(* several threads, and a scan started from inside a match callback,       *)
(* interleave with it.  What is private to a scanner changes in one step   *)
(* per phase of yng_scan_data.                                             *)
(***************************************************************************)
EXTENDS Naturals, Sequences

CONSTANTS
  Threads,      \* client threads
  Scanners,     \* results of yng_new_scanner
  MaxDepth,     \* how many scans one thread may have open: 1, or more when
                \* the match callback itself calls yng_scan_data
  NumRules,     \* rules.def: size of the array `rules`
  PublicRules,  \* rules.def: the rules with RuleVisibility::Public
  Condition,    \* rules.def: Rule::function, see ConditionType
  LiteralIds,   \* ids in literal_db; {} when literal_db_size = 0
  RegexIds,     \* ids in regex_db;   {} when regex_db_size = 0
  MutexIds,     \* ids in mutex_db;   {} when mutex_db is a null pointer
  Facts,        \* facts about the data that rules read directly
  LengthMod,    \* 2^32: hs_scan takes its length as an unsigned int
  HsMayFail,    \* may hs_scan return an error although its arguments are fine?
  Requests,     \* the calls clients make, see RequestType
  Verdict,      \* Verdict[q]: the rules that hold for request q
  NoRequest     \* the data pointer of a fresh ScanContext

RuleIds == 1 .. NumRules
StringIds == LiteralIds \cup RegexIds

\* A match HyperScan reports: the pattern and the offset where it ends.  With
\* HS_FLAG_SOM_LEFTMOST there is one per pattern and end offset.
Events(ids) == [id : ids, end : Nat \ {0}]

(***************************************************************************)
(* A call of yng_scan_data: its data pointer and size, the matches of the  *)
(* literal and regex patterns in the data, the Cuckoo report passed with   *)
(* it, the mutex patterns that match the report, and the facts that        *)
(* read_data and filesize find true of the data.                           *)
(***************************************************************************)
RequestType ==
  [data : {"null", "buffer"}, size : Nat,
   literal : SUBSET Events(LiteralIds), regex : SUBSET Events(RegexIds),
   cuckoo : {"none", "unreadable", "malformed", "wellformed"},
   mutex : SUBSET MutexIds, facts : SUBSET Facts]

(***************************************************************************)
(* A generated rule function is a short-circuit && or || of leaves, each   *)
(* possibly under !: match_string(id), get_mutex_match(id) > 0, a test on  *)
(* the data, or evaluate_rule(id) for a rule defined earlier in the file.  *)
(***************************************************************************)
ConditionType(r) ==
  [op : {"and", "or"},
   leaves : Seq([kind : {"string"}, sign : {"plain", "not"}, arg : StringIds]
           \cup [kind : {"mutex"}, sign : {"plain", "not"}, arg : MutexIds]
           \cup [kind : {"data"}, sign : {"plain", "not"}, arg : Facts]
           \cup [kind : {"rule"}, sign : {"plain", "not"}, arg : 1 .. (r - 1)]) \ {<<>>}]

Signed(leaf, holds) == (leaf.sign = "plain") <=> holds

\* What a leaf means for request q when all of its data is considered.
LeafTruth(q, leaf) ==
  Signed(leaf, \/ leaf.kind = "string" /\ \E e \in q.literal \cup q.regex : e.id = leaf.arg
               \/ leaf.kind = "mutex" /\ q.cuckoo = "wellformed" /\ leaf.arg \in q.mutex
               \/ leaf.kind = "data" /\ leaf.arg \in q.facts
               \/ leaf.kind = "rule" /\ leaf.arg \in Verdict[q])

ConditionTruth(q, c) ==
  \/ c.op = "and" /\ \A i \in 1 .. Len(c.leaves) : LeafTruth(q, c.leaves[i])
  \/ c.op = "or" /\ \E i \in 1 .. Len(c.leaves) : LeafTruth(q, c.leaves[i])

ASSUME RulesAssumption ==
  /\ NumRules \in Nat
  /\ PublicRules \subseteq RuleIds
  /\ DOMAIN Condition = RuleIds
  /\ \A r \in RuleIds : Condition[r] \in ConditionType(r)
ASSUME RequestsAssumption ==
  /\ Requests \subseteq RequestType
  /\ NoRequest \notin Requests
  /\ \A q \in Requests : \A e \in q.literal \cup q.regex : e.end <= q.size
ASSUME VerdictAssumption ==
  /\ Verdict \in [Requests -> SUBSET RuleIds]
  /\ \A q \in Requests, r \in RuleIds : r \in Verdict[q] <=> ConditionTruth(q, Condition[r])
ASSUME BoundsAssumption ==
  MaxDepth \in Nat /\ LengthMod \in Nat \ {0} /\ HsMayFail \in BOOLEAN

VARIABLES
  memo,      \* rules[r].match, shared by every scanner
  stack,     \* the scanners whose scan is open on a thread, innermost first
  pc,        \* phase of yng_scan_data a scanner is in
  request,   \* arguments of the scanner's current or last yng_scan_data
  matches,   \* ScanContext::matches, as the set of recorded matches
  mutexes,   \* ScanContext::mutex_matches, as the set of ids with a count > 0
  ctx,       \* ScanContext::data, data_size and user_data
  next,      \* loop variable of `for (auto& rule : rules)`
  frames,    \* active evaluate_rule calls, innermost first
  calls,     \* history: how often match_callback ran for a rule in this scan
  outcome,   \* how the scanner's last yng_scan_data ended
  overlapped \* history: the scanners whose last scan was not alone

vars == <<memo, stack, pc, request, matches, mutexes, ctx, next, frames, calls, outcome,
          overlapped>>

Phases == {"idle", "reset", "regex", "cuckoo", "publish", "rules"}
MemoValues == {"Hit", "NoHit", "NotEvaluated"}
Stages == {"check", "body", "store", "report", "callback", "return"}
\* An evaluate_rule call: its rule, the leaf its rule function is at, where in
\* evaluate_rule it is, and the result it has last seen or computed.
Frames == {f \in [rule : RuleIds, leaf : Nat \ {0}, stage : Stages, val : MemoValues] :
             f.leaf <= Len(Condition[f.rule].leaves)}
Outcomes == {"fresh", "running", "ok", "threw", "aborted"}

Init ==
  /\ memo = [r \in RuleIds |-> "NotEvaluated"]
  /\ stack = [t \in Threads |-> <<>>]
  /\ pc = [s \in Scanners |-> "idle"]
  /\ request = [s \in Scanners |-> NoRequest]
  /\ matches = [s \in Scanners |-> {}]
  /\ mutexes = [s \in Scanners |-> {}]
  /\ ctx = [s \in Scanners |-> NoRequest]
  /\ next = [s \in Scanners |-> 1]
  /\ frames = [s \in Scanners |-> <<>>]
  /\ calls = [s \in Scanners |-> [r \in RuleIds |-> 0]]
  /\ outcome = [s \in Scanners |-> "fresh"]
  /\ overlapped = {}
-----------------------------------------------------------------------------
\* abort() inside rapidjson ends the process.
Alive == \A s \in Scanners : outcome[s] # "aborted"

\* A scanner makes a step only while its scan is the innermost of a thread.
Running(s) == Alive /\ \E t \in Threads : stack[t] # <<>> /\ Head(stack[t]) = s

\* The user's match_callback is running on top of scan s.
InCallback(s) == frames[s] # <<>> /\ Head(frames[s]).stage = "callback"

\* A thread may call yng_scan_data when it runs no scan, or from a callback.
MayCall(t) ==
  /\ Len(stack[t]) < MaxDepth
  /\ stack[t] # <<>> => InCallback(Head(stack[t]))

\* yng_scan_data of s is left: by returning, or by an exception, which the
\* caller catches.
Leave(s, how) ==
  /\ stack' = [t \in Threads |-> IF stack[t] # <<>> /\ Head(stack[t]) = s
                                   THEN Tail(stack[t]) ELSE stack[t]]
  /\ pc' = [pc EXCEPT ![s] = "idle"]
  /\ outcome' = [outcome EXCEPT ![s] = how]

\* hs_scan reports the matches that end within its 32-bit length.
Delivered(events, size) == {e \in events : e.end <= size % LengthMod}

\* hs_scan returns HS_INVALID for a null data pointer, which the data() of an
\* empty std::vector is.
Refused(q) == q.data = "null"
-----------------------------------------------------------------------------
\* Mutant: the matches of the scanner's previous scan are not cleared.
StaleMatches(s) == matches[s]

\* Mutant: nor are the mutexes.
StaleMutexes(s) == mutexes[s]

\* The loops of yng_scan_data that empty the context of the previous scan.
KeptMatches(s) == {}
KeptMutexes(s) == {}

\* The scans that are open while s has one that begins now.
Open(s) == {x \in Scanners : pc[x] # "idle"} \ {s}

(***************************************************************************)
(* Thread t calls yng_scan_data(s, q).  A scanner is used by one scan at a *)
(* time: its HyperScan scratch space allows no more.                       *)
(***************************************************************************)
Begin(t, s, q) ==
  /\ Alive
  /\ MayCall(t)
  /\ pc[s] = "idle"
  /\ stack' = [stack EXCEPT ![t] = <<s>> \o @]
  /\ pc' = [pc EXCEPT ![s] = "reset"]
  /\ request' = [request EXCEPT ![s] = q]
  /\ matches' = [matches EXCEPT ![s] = KeptMatches(s)]
  /\ mutexes' = [mutexes EXCEPT ![s] = KeptMutexes(s)]
  /\ next' = [next EXCEPT ![s] = 1]
  /\ calls' = [calls EXCEPT ![s] = [r \in RuleIds |-> 0]]
  /\ outcome' = [outcome EXCEPT ![s] = "running"]
  /\ overlapped' = IF Open(s) = {} THEN overlapped \ {s} ELSE overlapped \cup Open(s) \cup {s}
  /\ UNCHANGED <<memo, ctx, frames>>

\* Mutant: only the first rule is reset.
ResetOnlyFirst(s) ==
  /\ Running(s) /\ pc[s] = "reset" /\ next[s] <= NumRules
  /\ memo' = [memo EXCEPT ![1] = "NotEvaluated"]
  /\ next' = [next EXCEPT ![s] = @ + 1]
  /\ UNCHANGED <<stack, pc, request, matches, mutexes, ctx, frames, calls, outcome>>

\* for (auto& rule : rules) rule.match = RuleMatch::NotEvaluated;
ResetRule(s) ==
  /\ Running(s) /\ pc[s] = "reset" /\ next[s] <= NumRules
  /\ memo' = [memo EXCEPT ![next[s]] = "NotEvaluated"]
  /\ next' = [next EXCEPT ![s] = @ + 1]
  /\ UNCHANGED <<stack, pc, request, matches, mutexes, ctx, frames, calls, outcome>>

\* hs_scan(db, data, size, ..., &on_match): found are the matches it delivers,
\* to is the phase that follows.  On an error it may have delivered a few of
\* them before yng_scan_data throws.
HsScan(s, found, to) ==
  \/ /\ ~Refused(request[s])
     /\ matches' = [matches EXCEPT ![s] = @ \cup found]
     /\ pc' = [pc EXCEPT ![s] = to]
     /\ UNCHANGED <<stack, outcome>>
  \/ /\ HsMayFail \/ Refused(request[s])
     /\ \E part \in SUBSET found : matches' = [matches EXCEPT ![s] = @ \cup part]
     /\ Leave(s, "threw")

SkipScan(s, to) ==
  /\ pc' = [pc EXCEPT ![s] = to]
  /\ UNCHANGED <<matches, stack, outcome>>

ScanLiterals(s) ==
  /\ Running(s) /\ pc[s] = "reset" /\ next[s] > NumRules
  /\ \/ LiteralIds = {} /\ SkipScan(s, "regex")
     \/ LiteralIds # {} /\ HsScan(s, Delivered(request[s].literal, request[s].size), "regex")
  /\ UNCHANGED <<memo, request, mutexes, ctx, next, frames, calls>>

ScanRegexes(s) ==
  /\ Running(s) /\ pc[s] = "regex"
  /\ \/ RegexIds = {} /\ SkipScan(s, "cuckoo")
     \/ RegexIds # {} /\ HsScan(s, Delivered(request[s].regex, request[s].size), "cuckoo")
  /\ UNCHANGED <<memo, request, mutexes, ctx, next, frames, calls>>

NoCuckoo(s) ==
  /\ Running(s) /\ pc[s] = "cuckoo" /\ request[s].cuckoo = "none"
  /\ pc' = [pc EXCEPT ![s] = "publish"]
  /\ UNCHANGED <<memo, stack, request, matches, mutexes, ctx, next, frames, calls, outcome>>

(***************************************************************************)
(* The report is read into a string that was only reserved, so that the    *)
(* byte after its last one, which ends the text for rapidjson, is not      *)
(* initialised: the parser may see a further character and leave a null    *)
(* document, and the lookup of "behavior" in it asserts.                   *)
(***************************************************************************)
AbortInJson(s) ==
  /\ Running(s) /\ pc[s] = "cuckoo" /\ request[s].cuckoo \in {"malformed", "wellformed"}
  /\ outcome' = [outcome EXCEPT ![s] = "aborted"]
  /\ UNCHANGED <<memo, stack, pc, request, matches, mutexes, ctx, next, frames, calls>>

\* tellg() is -1 for a report that cannot be opened, and reserve(-1) throws.
UnreadableCuckoo(s) ==
  /\ Running(s) /\ pc[s] = "cuckoo" /\ request[s].cuckoo = "unreadable"
  /\ Leave(s, "threw")
  /\ UNCHANGED <<memo, request, matches, mutexes, ctx, next, frames, calls>>

\* Mutant: the mutex scan is given on_match in place of on_mutex_match.
ScanMutexesWithOnMatch(s) ==
  /\ Running(s) /\ pc[s] = "cuckoo" /\ request[s].cuckoo = "wellformed"
  /\ MutexIds # {}
  /\ matches' = [matches EXCEPT ![s] = @ \cup [id : request[s].mutex, end : {1}]]
  /\ pc' = [pc EXCEPT ![s] = "publish"]
  /\ UNCHANGED <<memo, stack, request, mutexes, ctx, next, frames, calls, outcome>>

\* The report is parsed and its mutexes are scanned.  The call of hs_scan is
\* guarded by a size that is never 0, not by mutex_db being there.
ScanMutexes(s) ==
  /\ Running(s) /\ pc[s] = "cuckoo" /\ request[s].cuckoo = "wellformed"
  /\ \/ /\ MutexIds # {}
        /\ mutexes' = [mutexes EXCEPT ![s] = @ \cup request[s].mutex]
        /\ pc' = [pc EXCEPT ![s] = "publish"]
        /\ UNCHANGED <<stack, outcome>>
     \/ /\ HsMayFail \/ MutexIds = {}
        /\ \E part \in SUBSET request[s].mutex :
             mutexes' = [mutexes EXCEPT ![s] = @ \cup part]
        /\ Leave(s, "threw")
  /\ UNCHANGED <<memo, request, matches, ctx, next, frames, calls>>

\* ctx->data, data_size and user_data are set; evaluate_rules is entered.
Publish(s) ==
  /\ Running(s) /\ pc[s] = "publish"
  /\ ctx' = [ctx EXCEPT ![s] = request[s]]
  /\ next' = [next EXCEPT ![s] = 1]
  /\ pc' = [pc EXCEPT ![s] = "rules"]
  /\ UNCHANGED <<memo, stack, request, matches, mutexes, frames, calls, outcome>>
-----------------------------------------------------------------------------
\* A call of evaluate_rule(ctx, rules[r]).
Call(r) == [rule |-> r, leaf |-> 1, stage |-> "check", val |-> "NotEvaluated"]

\* Mutant: the loop over the rules does not advance.
EnterSameRule(s) ==
  /\ Running(s) /\ pc[s] = "rules" /\ frames[s] = <<>> /\ next[s] <= NumRules
  /\ frames' = [frames EXCEPT ![s] = <<Call(next[s])>>]
  /\ UNCHANGED <<memo, stack, pc, request, matches, mutexes, ctx, next, calls, outcome>>

\* for (auto& rule : rules) evaluate_rule(ctx, rule);
EnterRule(s) ==
  /\ Running(s) /\ pc[s] = "rules" /\ frames[s] = <<>> /\ next[s] <= NumRules
  /\ frames' = [frames EXCEPT ![s] = <<Call(next[s])>>]
  /\ next' = [next EXCEPT ![s] = @ + 1]
  /\ UNCHANGED <<memo, stack, pc, request, matches, mutexes, ctx, calls, outcome>>

FinishScan(s) ==
  /\ Running(s) /\ pc[s] = "rules" /\ frames[s] = <<>> /\ next[s] > NumRules
  /\ Leave(s, "ok")
  /\ UNCHANGED <<memo, request, matches, mutexes, ctx, next, frames, calls>>

\* The innermost evaluate_rule call of s, when it is at the given stage.
At(s, stage) ==
  /\ Running(s) /\ pc[s] = "rules" /\ frames[s] # <<>>
  /\ Head(frames[s]).stage = stage

SetTop(s, frame) == frames' = [frames EXCEPT ![s] = <<frame>> \o Tail(@)]

LeafOf(f) == Condition[f.rule].leaves[f.leaf]

\* if (rule.match == RuleMatch::NotEvaluated)
CheckMemo(s) ==
  /\ At(s, "check")
  /\ LET f == Head(frames[s])
         m == memo[f.rule]
     IN  SetTop(s, [f EXCEPT !.val = m,
                             !.stage = IF m = "NotEvaluated" THEN "body" ELSE "return"])
  /\ UNCHANGED <<memo, stack, pc, request, matches, mutexes, ctx, next, calls, outcome>>

\* The value of a leaf, `holds`, ends the rule function or moves it to its
\* next leaf.
AfterLeaf(f, holds) ==
  LET c == Condition[f.rule]
      x == Signed(LeafOf(f), holds)
      decided == (c.op = "and" /\ ~x) \/ (c.op = "or" /\ x) \/ f.leaf = Len(c.leaves)
  IN  IF decided
        THEN [f EXCEPT !.stage = "store", !.val = IF x THEN "Hit" ELSE "NoHit"]
        ELSE [f EXCEPT !.leaf = @ + 1]

\* match_string, get_mutex_match and the reads of the data look at nothing but
\* the context of the scanner.
ContextHolds(s, leaf) ==
  \/ leaf.kind = "string" /\ \E e \in matches[s] : e.id = leaf.arg
  \/ leaf.kind = "mutex" /\ leaf.arg \in mutexes[s]
  \/ leaf.kind = "data" /\ leaf.arg \in ctx[s].facts

TestContext(s) ==
  /\ At(s, "body")
  /\ LeafOf(Head(frames[s])).kind # "rule"
  /\ LET f == Head(frames[s]) IN SetTop(s, AfterLeaf(f, ContextHolds(s, LeafOf(f))))
  /\ UNCHANGED <<memo, stack, pc, request, matches, mutexes, ctx, next, calls, outcome>>

\* A leaf evaluate_rule(ctx, id).
CallRule(s) ==
  /\ At(s, "body")
  /\ LeafOf(Head(frames[s])).kind = "rule"
  /\ frames' = [frames EXCEPT ![s] = <<Call(LeafOf(Head(@)).arg)>> \o @]
  /\ UNCHANGED <<memo, stack, pc, request, matches, mutexes, ctx, next, calls, outcome>>

\* Mutant: the result is kept only when the rule matched.
StoreHitOnly(s) ==
  /\ At(s, "store")
  /\ LET f == Head(frames[s])
     IN  /\ memo' = [memo EXCEPT ![f.rule] = IF f.val = "Hit" THEN "Hit" ELSE @]
         /\ SetTop(s, [f EXCEPT !.stage = "report"])
  /\ UNCHANGED <<stack, pc, request, matches, mutexes, ctx, next, calls, outcome>>

\* rule.match = ... ? RuleMatch::Hit : RuleMatch::NoHit;
StoreMemo(s) ==
  /\ At(s, "store")
  /\ LET f == Head(frames[s])
     IN  /\ memo' = [memo EXCEPT ![f.rule] = f.val]
         /\ SetTop(s, [f EXCEPT !.stage = "report"])
  /\ UNCHANGED <<stack, pc, request, matches, mutexes, ctx, next, calls, outcome>>

\* Mutant: the visibility of the rule is not looked at.
ReportedAnyway(r, m) == m = "Hit"

\* if (rule.match == RuleMatch::Hit && rule.visibility == RuleVisibility::Public)
Reported(r, m) == m = "Hit" /\ r \in PublicRules

(***************************************************************************)
(* The two reads of rule.match that follow the store are not synchronised. *)
(* A build may reuse the value in a register or load the array again; each *)
(* read below is either.  After the callback, which may have changed the   *)
(* array, it has to be loaded.                                             *)
(***************************************************************************)
Seen(f) == {f.val, memo[f.rule]}

ReportMatch(s) ==
  /\ At(s, "report")
  /\ \E m \in Seen(Head(frames[s])) :
       LET f == Head(frames[s])
           hit == Reported(f.rule, m)
       IN  /\ calls' = [calls EXCEPT ![s][f.rule] = IF hit THEN @ + 1 ELSE @]
           /\ SetTop(s, [f EXCEPT !.stage = IF hit THEN "callback" ELSE "return"])
  /\ UNCHANGED <<memo, stack, pc, request, matches, mutexes, ctx, next, outcome>>

CallbackReturns(s) ==
  /\ At(s, "callback")
  /\ LET f == Head(frames[s])
     IN  SetTop(s, [f EXCEPT !.stage = "return", !.val = memo[f.rule]])
  /\ UNCHANGED <<memo, stack, pc, request, matches, mutexes, ctx, next, calls, outcome>>

\* return rule.match == RuleMatch::Hit;
ReturnRule(s) ==
  /\ At(s, "return")
  /\ \E m \in Seen(Head(frames[s])) :
       frames' = [frames EXCEPT ![s] =
         IF Len(@) = 1 THEN <<>>
         ELSE <<AfterLeaf(Head(Tail(@)), m = "Hit")>> \o Tail(Tail(@))]
  /\ UNCHANGED <<memo, stack, pc, request, matches, mutexes, ctx, next, calls, outcome>>
-----------------------------------------------------------------------------
EvaluateRule(s) ==
  \/ CheckMemo(s) \/ TestContext(s) \/ CallRule(s) \/ StoreMemo(s)
  \/ ReportMatch(s) \/ CallbackReturns(s) \/ ReturnRule(s)

ScanStep(s) ==
  /\ \/ ResetRule(s) \/ ScanLiterals(s) \/ ScanRegexes(s)
     \/ NoCuckoo(s) \/ AbortInJson(s) \/ UnreadableCuckoo(s) \/ ScanMutexes(s)
     \/ Publish(s) \/ EnterRule(s) \/ FinishScan(s) \/ EvaluateRule(s)
  /\ UNCHANGED overlapped

Next ==
  \/ \E t \in Threads, s \in Scanners, q \in Requests : Begin(t, s, q)
  \/ \E s \in Scanners : ScanStep(s)

Spec == Init /\ [][Next]_vars

\* yng_scan_data runs on the caller's thread and waits for nothing: a thread
\* that is scheduled takes its next step.  A callback makes a finite number of
\* scans: it returns if it can do so again and again.
FairSpec ==
  Spec /\ \A s \in Scanners : 
    WF_vars(ScanStep(s)) /\ SF_vars(CallbackReturns(s) /\ UNCHANGED overlapped)
-----------------------------------------------------------------------------
TypeOK ==
  /\ memo \in [RuleIds -> MemoValues]
  /\ stack \in [Threads -> Seq(Scanners)]
  /\ pc \in [Scanners -> Phases]
  /\ request \in [Scanners -> Requests \cup {NoRequest}]
  /\ matches \in [Scanners -> SUBSET Events(StringIds)]
  /\ mutexes \in [Scanners -> SUBSET MutexIds]
  /\ ctx \in [Scanners -> Requests \cup {NoRequest}]
  /\ next \in [Scanners -> 1 .. NumRules + 1]
  /\ frames \in [Scanners -> Seq(Frames)]
  /\ calls \in [Scanners -> [RuleIds -> Nat]]
  /\ outcome \in [Scanners -> Outcomes]
  /\ overlapped \subseteq Scanners

(***************************************************************************)
(* README.md:82, "Provided callback is called each time a match is found": *)
(* a scan that ends normally has called it exactly once for each public    *)
(* rule whose condition holds for the data and the Cuckoo report of that   *)
(* scan, and for no other rule.  It can go wrong through a stale memo or   *)
(* stale matches of an earlier, failed or concurrent scan.                 *)
(***************************************************************************)
ReportExact ==
  \A s \in Scanners : outcome[s] = "ok" =>
    \A r \in RuleIds :
      calls[s][r] = IF r \in PublicRules /\ r \in Verdict[request[s]] THEN 1 ELSE 0

(***************************************************************************)
(* While rules are evaluated, the context of a scanner describes the       *)
(* current request: no match of an earlier scan that threw halfway, of     *)
(* another scanner, or of the previous buffer is left in it                *)
(* (yng_scan_data:335-345 and 435-438).                                    *)
(***************************************************************************)
ContextIsOwn ==
  \A s \in Scanners : pc[s] = "rules" =>
    LET q == request[s]
    IN  /\ ctx[s] = q
        /\ matches[s] = Delivered(q.literal \cup q.regex, q.size)
        /\ mutexes[s] = IF q.cuckoo = "wellformed" THEN q.mutex ELSE {}

(***************************************************************************)
(* The same whatever other threads and callbacks do, for a scan that was   *)
(* the only one open from its call to its end: what the scans before it    *)
(* left in the memo the library shares, also those that overlapped, threw  *)
(* or were started from callbacks, does not reach it (yng_scan_data:       *)
(* 335-348).  Scans that overlap have no such promise.                     *)
(***************************************************************************)
ReportExactAlone ==
  \A s \in Scanners \ overlapped : outcome[s] = "ok" =>
    \A r \in RuleIds :
      calls[s][r] = IF r \in PublicRules /\ r \in Verdict[request[s]] THEN 1 ELSE 0

(***************************************************************************)
(* The memo does its work: evaluate_rules visits rules in file order and a *)
(* rule refers only to earlier ones, so that a nested evaluate_rule finds  *)
(* the result and never runs a rule function a second time in one scan,    *)
(* unless another scan is open meanwhile.                                  *)
(***************************************************************************)
NoNestedEvaluation ==
  \A s \in Scanners \ overlapped : Len(frames[s]) > 1 => Head(frames[s]).stage \in {"check", "return"}

\* A scan of data whose parts HyperScan handles without an error ends without
\* an exception (README.md:84 and README.md:29: any data, Cuckoo report optional).
ScansComplete == \A s \in Scanners : outcome[s] # "threw"

\* Every call of yng_scan_data comes to an end: it returns, throws, or the
\* process is aborted.
ScanEnds == \A s \in Scanners : outcome[s] = "running" ~> (outcome[s] # "running" \/ ~Alive)

(***************************************************************************)
(* The runtime implements what ScanService promises when one scan is open  *)
(* at a time: in particular rules are told in the order of the file, and a *)
(* scan that throws has told none (yng_scan_data:347-438).                 *)
(***************************************************************************)
Service == INSTANCE ScanService WITH asked <- request, told <- calls, status <- outcome
ServiceKept == Service!Spec
=============================================================================
