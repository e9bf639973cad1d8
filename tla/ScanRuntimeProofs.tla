-------------------------- MODULE ScanRuntimeProofs --------------------------
(***************************************************************************)
(* What holds of ScanRuntime for every ruleset, every set of requests and  *)
(* every number of threads, scanners and nested scans; and, last, what a   *)
(* client gets who scans with one thread at a time.                        *)
(***************************************************************************)
EXTENDS ScanRuntime, SequenceTheorems, TLAPS

\* A pushed element is on top, and the stack below it is what it was.
LEMMA Push ==
  ASSUME NEW S, NEW x \in S, NEW q \in Seq(S)
  PROVE  /\ <<x>> \o q \in Seq(S)
         /\ <<x>> \o q # <<>>
         /\ Head(<<x>> \o q) = x
         /\ Tail(<<x>> \o q) = q
         /\ Len(<<x>> \o q) = Len(q) + 1
  OBVIOUS

\* The top of a stack that is not empty, and what lies below it, are typed.
LEMMA Pop ==
  ASSUME NEW S, NEW q \in Seq(S), q # <<>>
  PROVE  /\ Head(q) \in S /\ Tail(q) \in Seq(S) /\ Len(q) \in Nat \ {0}
         /\ Len(q) # 1 => Tail(q) # <<>>
<1>1. Head(q) \in S /\ Tail(q) \in Seq(S)
  OBVIOUS
<1>2. Len(Tail(q)) = Len(q) - 1 /\ Len(q) \in Nat \ {0}
  OBVIOUS
<1>3. Len(<<>>) = 0
  OBVIOUS
<1>4. ASSUME Len(q) # 1 PROVE Tail(q) # <<>>
  <2>1. \A n \in Nat \ {0} : n # 1 => n - 1 # 0
    OBVIOUS
  <2>2. Len(Tail(q)) # 0
    BY <1>2, <1>4, <2>1, HeadTailProperties, Zenon
  <2> QED BY <1>3, <2>2, Zenon
<1> QED BY <1>1, <1>2, <1>4

\* The conditions of the ruleset are what ConditionType says, and a rule leaf
\* names an earlier rule.
LEMMA LeafTyped ==
  ASSUME NEW f \in Frames
  PROVE  /\ f.leaf \in 1 .. Len(Condition[f.rule].leaves)
         /\ Len(Condition[f.rule].leaves) \in Nat \ {0}
         /\ LeafOf(f).kind \in {"string", "mutex", "data", "rule"}
         /\ LeafOf(f).kind = "rule" => LeafOf(f).arg \in 1 .. (f.rule - 1)
         /\ Condition[f.rule].op \in {"and", "or"}
<1>1. f.rule \in RuleIds /\ f.leaf \in Nat \ {0} /\ f.leaf <= Len(Condition[f.rule].leaves)
  BY DEF Frames
<1>2. Condition[f.rule] \in ConditionType(f.rule)
  BY <1>1, RulesAssumption
<1>3. PICK L : Condition[f.rule].leaves \in Seq(L) \ {<<>>}
               /\ \A x \in L : /\ x.kind \in {"string", "mutex", "data", "rule"}
                               /\ x.kind = "rule" => x.arg \in 1 .. (f.rule - 1)
  <2> DEFINE L == [kind : {"string"}, sign : {"plain", "not"}, arg : StringIds]
              \cup [kind : {"mutex"}, sign : {"plain", "not"}, arg : MutexIds]
              \cup [kind : {"data"}, sign : {"plain", "not"}, arg : Facts]
              \cup [kind : {"rule"}, sign : {"plain", "not"}, arg : 1 .. (f.rule - 1)]
  <2>1. Condition[f.rule].leaves \in Seq(L) \ {<<>>}
    BY <1>2 DEF ConditionType
  <2>2. \A x \in L : /\ x.kind \in {"string", "mutex", "data", "rule"}
                     /\ x.kind = "rule" => x.arg \in 1 .. (f.rule - 1)
    OBVIOUS
  <2> QED BY <2>1, <2>2
<1>4. Len(Condition[f.rule].leaves) \in Nat \ {0}
  BY <1>3
<1>5. f.leaf \in 1 .. Len(Condition[f.rule].leaves)
  BY <1>1, <1>4
<1>6. LeafOf(f) \in L
  BY <1>3, <1>5 DEF LeafOf
<1>7. Condition[f.rule].op \in {"and", "or"}
  BY <1>2 DEF ConditionType
<1> QED BY <1>3, <1>4, <1>5, <1>6, <1>7

\* A call of evaluate_rule for a rule of the ruleset is well formed.
LEMMA CallTyped ==
  ASSUME NEW r \in RuleIds
  PROVE  Call(r) \in Frames /\ Call(r).rule = r /\ Call(r).stage = "check"
<1>1. Condition[r] \in ConditionType(r)
  BY RulesAssumption
<1>2. PICK L : Condition[r].leaves \in Seq(L) \ {<<>>}
  BY <1>1 DEF ConditionType
<1>3. Len(Condition[r].leaves) \in Nat \ {0}
  BY <1>2
<1> QED BY <1>3 DEF Call, Frames, Stages, MemoValues

\* The rule function stays within its leaves, in the same rule.
LEMMA AfterLeafTyped ==
  ASSUME NEW f \in Frames, NEW holds \in BOOLEAN
  PROVE  AfterLeaf(f, holds) \in Frames /\ AfterLeaf(f, holds).rule = f.rule
<1>1. /\ f.leaf \in 1 .. Len(Condition[f.rule].leaves)
      /\ Len(Condition[f.rule].leaves) \in Nat \ {0}
  BY LeafTyped
<1>2. f \in [rule : RuleIds, leaf : Nat \ {0}, stage : Stages, val : MemoValues]
  BY DEF Frames
<1>3. \A v \in {"Hit", "NoHit"} :
        [f EXCEPT !.stage = "store", !.val = v] \in Frames
  BY <1>1, <1>2 DEF Frames, Stages, MemoValues
<1>4. f.leaf # Len(Condition[f.rule].leaves) => [f EXCEPT !.leaf = @ + 1] \in Frames
  BY <1>1, <1>2 DEF Frames
<1> QED BY <1>2, <1>3, <1>4 DEF AfterLeaf

\* Types, and a scan that is open has a request.
TypeInv ==
  /\ TypeOK
  /\ \A s \in Scanners : pc[s] # "idle" => request[s] \in Requests

\* Leaving yng_scan_data keeps the types of what it changes.
LEMMA LeaveTyped ==
  ASSUME TypeInv, NEW s \in Scanners, NEW how \in {"ok", "threw"}, Leave(s, how)
  PROVE  /\ stack' \in [Threads -> Seq(Scanners)]
         /\ pc' \in [Scanners -> Phases]
         /\ outcome' \in [Scanners -> Outcomes]
         /\ \A x \in Scanners : pc'[x] # "idle" => pc[x] # "idle"
<1>1. \A t \in Threads : stack[t] # <<>> => Tail(stack[t]) \in Seq(Scanners)
  BY Pop DEF TypeInv, TypeOK
<1> QED BY <1>1 DEF Leave, TypeInv, TypeOK, Phases, Outcomes

\* Replacing the innermost evaluate_rule call keeps the calls typed.
LEMMA SetTopTyped ==
  ASSUME TypeInv, NEW s \in Scanners, frames[s] # <<>>, NEW f \in Frames, SetTop(s, f)
  PROVE  frames' \in [Scanners -> Seq(Frames)]
<1>1. frames \in [Scanners -> Seq(Frames)]
  BY DEF TypeInv, TypeOK
<1>2. Tail(frames[s]) \in Seq(Frames)
  BY <1>1, Pop
<1>3. <<f>> \o Tail(frames[s]) \in Seq(Frames)
  BY <1>2, Push
<1> QED BY <1>1, <1>3 DEF SetTop

\* The innermost call is well formed.
LEMMA TopTyped ==
  ASSUME TypeInv, NEW s \in Scanners, NEW stage, At(s, stage)
  PROVE  /\ Head(frames[s]) \in Frames
         /\ Head(frames[s]).rule \in RuleIds
         /\ Head(frames[s]).val \in MemoValues
         /\ frames[s] \in Seq(Frames)
         /\ frames[s] # <<>>
<1>1. frames[s] \in Seq(Frames) /\ frames[s] # <<>>
  BY DEF At, TypeInv, TypeOK
<1>2. Head(frames[s]) \in Frames
  BY <1>1, Pop
<1> QED BY <1>1, <1>2 DEF Frames

LEMMA TypeInit == Init => TypeInv
<1> SUFFICES ASSUME Init PROVE TypeInv
  OBVIOUS
<1>1. NumRules \in Nat
  BY RulesAssumption
<1>2. \A S : <<>> \in Seq(S)
  OBVIOUS
<1> QED BY <1>1, <1>2 DEF Init, TypeInv, TypeOK, MemoValues, Phases, Outcomes

\* Begin and the phases of yng_scan_data that precede the rules.
LEMMA TypeScanning ==
  ASSUME TypeInv, NEW s \in Scanners,
         \/ \E t \in Threads, q \in Requests : Begin(t, s, q)
         \/ ResetRule(s) \/ ScanLiterals(s) \/ ScanRegexes(s)
         \/ NoCuckoo(s) \/ AbortInJson(s) \/ UnreadableCuckoo(s) \/ ScanMutexes(s)
         \/ Publish(s),
         overlapped' \subseteq Scanners
  PROVE  TypeInv'
<1>0. NumRules \in Nat
  BY RulesAssumption
<1> USE DEF Phases, Outcomes, MemoValues
<1>1. CASE \E t \in Threads, q \in Requests : Begin(t, s, q)
  <2>1. PICK t \in Threads, q \in Requests : Begin(t, s, q)
    BY <1>1
  <2>2. <<s>> \o stack[t] \in Seq(Scanners)
    BY Push DEF TypeInv, TypeOK
  <2> QED BY <1>0, <2>1, <2>2 DEF Begin, TypeInv, TypeOK, KeptMatches, KeptMutexes
<1>2. CASE ResetRule(s)
  BY <1>0, <1>2 DEF ResetRule, TypeInv, TypeOK, RuleIds
<1>3. CASE ScanLiterals(s)
  <2>1. request[s] \in Requests
    BY <1>3 DEF ScanLiterals, TypeInv
  <2>2. Delivered(request[s].literal, request[s].size) \subseteq Events(StringIds)
    BY <2>1, RequestsAssumption DEF Delivered, RequestType, Events, StringIds
  <2>3. CASE LiteralIds = {} /\ SkipScan(s, "regex")
    BY <1>3, <2>3 DEF ScanLiterals, SkipScan, TypeInv, TypeOK
  <2>4. CASE HsScan(s, Delivered(request[s].literal, request[s].size), "regex")
    <3>1. matches' \in [Scanners -> SUBSET Events(StringIds)]
      <4>1. PICK part \in SUBSET Delivered(request[s].literal, request[s].size) :
              matches' = [matches EXCEPT ![s] = @ \cup part]
        BY <2>4 DEF HsScan
      <4>2. matches[s] \cup part \in SUBSET Events(StringIds)
        BY <2>2, <4>1 DEF TypeInv, TypeOK
      <4> QED BY <4>1, <4>2 DEF TypeInv, TypeOK
    <3>2. \/ UNCHANGED <<stack, outcome>> /\ pc' = [pc EXCEPT ![s] = "regex"]
          \/ Leave(s, "threw")
      BY <2>4 DEF HsScan
    <3>3. CASE Leave(s, "threw")
      BY <1>3, <2>1, <3>1, <3>3, LeaveTyped DEF ScanLiterals, TypeInv, TypeOK
    <3>4. CASE UNCHANGED <<stack, outcome>> /\ pc' = [pc EXCEPT ![s] = "regex"]
      BY <1>3, <2>1, <3>1, <3>4 DEF ScanLiterals, TypeInv, TypeOK
    <3> QED BY <3>2, <3>3, <3>4
  <2> QED BY <1>3, <2>3, <2>4 DEF ScanLiterals
<1>4. CASE ScanRegexes(s)
  <2>1. request[s] \in Requests
    BY <1>4 DEF ScanRegexes, TypeInv
  <2>2. Delivered(request[s].regex, request[s].size) \subseteq Events(StringIds)
    BY <2>1, RequestsAssumption DEF Delivered, RequestType, Events, StringIds
  <2>3. CASE RegexIds = {} /\ SkipScan(s, "cuckoo")
    BY <1>4, <2>3 DEF ScanRegexes, SkipScan, TypeInv, TypeOK
  <2>4. CASE HsScan(s, Delivered(request[s].regex, request[s].size), "cuckoo")
    <3>1. matches' \in [Scanners -> SUBSET Events(StringIds)]
      <4>1. PICK part \in SUBSET Delivered(request[s].regex, request[s].size) :
              matches' = [matches EXCEPT ![s] = @ \cup part]
        BY <2>4 DEF HsScan
      <4>2. matches[s] \cup part \in SUBSET Events(StringIds)
        BY <2>2, <4>1 DEF TypeInv, TypeOK
      <4> QED BY <4>1, <4>2 DEF TypeInv, TypeOK
    <3>2. \/ UNCHANGED <<stack, outcome>> /\ pc' = [pc EXCEPT ![s] = "cuckoo"]
          \/ Leave(s, "threw")
      BY <2>4 DEF HsScan
    <3>3. CASE Leave(s, "threw")
      BY <1>4, <2>1, <3>1, <3>3, LeaveTyped DEF ScanRegexes, TypeInv, TypeOK
    <3>4. CASE UNCHANGED <<stack, outcome>> /\ pc' = [pc EXCEPT ![s] = "cuckoo"]
      BY <1>4, <2>1, <3>1, <3>4 DEF ScanRegexes, TypeInv, TypeOK
    <3> QED BY <3>2, <3>3, <3>4
  <2> QED BY <1>4, <2>3, <2>4 DEF ScanRegexes
<1>5. CASE NoCuckoo(s)
  BY <1>5 DEF NoCuckoo, TypeInv, TypeOK
<1>6. CASE AbortInJson(s)
  BY <1>6 DEF AbortInJson, TypeInv, TypeOK
<1>7. CASE UnreadableCuckoo(s)
  BY <1>7, LeaveTyped DEF UnreadableCuckoo, TypeInv, TypeOK
<1>8. CASE ScanMutexes(s)
  <2>1. request[s].mutex \subseteq MutexIds
    BY <1>8, RequestsAssumption DEF ScanMutexes, TypeInv, RequestType
  <2>2. mutexes' \in [Scanners -> SUBSET MutexIds]
    <3>1. PICK part \in SUBSET request[s].mutex :
            mutexes' = [mutexes EXCEPT ![s] = @ \cup part]
      BY <1>8 DEF ScanMutexes
    <3>2. mutexes[s] \cup part \in SUBSET MutexIds
      BY <2>1, <3>1 DEF TypeInv, TypeOK
    <3> QED BY <3>1, <3>2 DEF TypeInv, TypeOK
  <2>3. CASE Leave(s, "threw")
    BY <1>8, <2>2, <2>3, LeaveTyped DEF ScanMutexes, TypeInv, TypeOK
  <2>4. CASE pc' = [pc EXCEPT ![s] = "publish"] /\ UNCHANGED <<stack, outcome>>
    BY <1>8, <2>2, <2>4 DEF ScanMutexes, TypeInv, TypeOK
  <2> QED BY <1>8, <2>3, <2>4 DEF ScanMutexes
<1>9. CASE Publish(s)
  <2>1. request[s] \in Requests
    BY <1>9 DEF Publish, TypeInv
  <2>2. next' \in [Scanners -> 1 .. NumRules + 1]
    BY <1>0, <1>9 DEF Publish, TypeInv, TypeOK
  <2>3. ctx' \in [Scanners -> Requests \cup {NoRequest}]
    BY <2>1, <1>9 DEF Publish, TypeInv, TypeOK
  <2> QED BY <1>9, <2>1, <2>2, <2>3 DEF Publish, TypeInv, TypeOK
<1> QED BY <1>1, <1>2, <1>3, <1>4, <1>5, <1>6, <1>7, <1>8, <1>9

\* The evaluation of the rules.
LEMMA TypeEvaluating ==
  ASSUME TypeInv, NEW s \in Scanners,
         EnterRule(s) \/ FinishScan(s) \/ EvaluateRule(s),
         overlapped' \subseteq Scanners
  PROVE  TypeInv'
<1>0. NumRules \in Nat
  BY RulesAssumption
<1>1. CASE EnterRule(s)
  <2>1. next[s] \in RuleIds
    BY <1>0, <1>1 DEF EnterRule, TypeInv, TypeOK, RuleIds
  <2>2. <<Call(next[s])>> \in Seq(Frames)
    BY <2>1, CallTyped
  <2>3. frames' \in [Scanners -> Seq(Frames)]
    BY <1>1, <2>2 DEF EnterRule, TypeInv, TypeOK
  <2>4. next' \in [Scanners -> 1 .. NumRules + 1]
    BY <1>0, <1>1, <2>1 DEF EnterRule, TypeInv, TypeOK, RuleIds
  <2> QED BY <1>1, <2>3, <2>4 DEF EnterRule, TypeInv, TypeOK
<1>2. CASE FinishScan(s)
  BY <1>2, LeaveTyped DEF FinishScan, TypeInv, TypeOK
<1>3. CASE CheckMemo(s)
  <2> DEFINE f == Head(frames[s])
             m == memo[f.rule]
             g == [f EXCEPT !.val = m,
                            !.stage = IF m = "NotEvaluated" THEN "body" ELSE "return"]
  <2>1. f \in Frames /\ f.rule \in RuleIds /\ frames[s] # <<>>
    BY <1>3, TopTyped DEF CheckMemo
  <2>2. m \in MemoValues
    BY <2>1 DEF TypeInv, TypeOK
  <2>3. g \in Frames
    BY <2>1, <2>2 DEF Frames, Stages
  <2>4. SetTop(s, g)
    BY <1>3 DEF CheckMemo
  <2>5. frames' \in [Scanners -> Seq(Frames)]
    BY <2>1, <2>3, <2>4, SetTopTyped
  <2> QED BY <1>3, <2>5 DEF CheckMemo, TypeInv, TypeOK
<1>4. CASE TestContext(s)
  <2> DEFINE f == Head(frames[s])
  <2>1. f \in Frames /\ frames[s] # <<>>
    BY <1>4, TopTyped DEF TestContext
  <2>2. ContextHolds(s, LeafOf(f)) \in BOOLEAN
    BY DEF ContextHolds
  <2>3. AfterLeaf(f, ContextHolds(s, LeafOf(f))) \in Frames
    BY <2>1, <2>2, AfterLeafTyped
  <2>4. SetTop(s, AfterLeaf(f, ContextHolds(s, LeafOf(f))))
    BY <1>4 DEF TestContext
  <2>5. frames' \in [Scanners -> Seq(Frames)]
    BY <2>1, <2>3, <2>4, SetTopTyped
  <2> QED BY <1>4, <2>5 DEF TestContext, TypeInv, TypeOK
<1>5. CASE CallRule(s)
  <2> DEFINE f == Head(frames[s])
  <2>1. f \in Frames /\ f.rule \in RuleIds /\ frames[s] \in Seq(Frames)
    BY <1>5, TopTyped DEF CallRule
  <2>2. LeafOf(f).arg \in 1 .. (f.rule - 1)
    BY <1>5, <2>1, LeafTyped DEF CallRule
  <2>3. LeafOf(f).arg \in RuleIds
    BY <1>0, <2>1, <2>2 DEF RuleIds
  <2>4. <<Call(LeafOf(f).arg)>> \o frames[s] \in Seq(Frames)
    BY <2>1, <2>3, CallTyped, Push
  <2> QED BY <1>5, <2>4 DEF CallRule, TypeInv, TypeOK
<1>6. CASE StoreMemo(s)
  <2> DEFINE f == Head(frames[s])
  <2>1. f \in Frames /\ f.rule \in RuleIds /\ f.val \in MemoValues /\ frames[s] # <<>>
    BY <1>6, TopTyped DEF StoreMemo
  <2>2. [f EXCEPT !.stage = "report"] \in Frames
    BY <2>1 DEF Frames, Stages
  <2>3. frames' \in [Scanners -> Seq(Frames)]
    BY <1>6, <2>1, <2>2, SetTopTyped DEF StoreMemo
  <2> QED BY <1>6, <2>1, <2>3 DEF StoreMemo, TypeInv, TypeOK
<1>7. CASE ReportMatch(s)
  <2> DEFINE f == Head(frames[s])
  <2>1. f \in Frames /\ f.rule \in RuleIds /\ frames[s] # <<>>
    BY <1>7, TopTyped DEF ReportMatch
  <2>2. PICK m \in Seen(f) :
          /\ calls' = [calls EXCEPT ![s][f.rule] = IF Reported(f.rule, m) THEN @ + 1 ELSE @]
          /\ SetTop(s, [f EXCEPT !.stage = IF Reported(f.rule, m) THEN "callback" ELSE "return"])
    BY <1>7 DEF ReportMatch
  <2>3. [f EXCEPT !.stage = IF Reported(f.rule, m) THEN "callback" ELSE "return"] \in Frames
    BY <2>1 DEF Frames, Stages
  <2>4. frames' \in [Scanners -> Seq(Frames)]
    BY <2>1, <2>2, <2>3, SetTopTyped
  <2>5. calls' \in [Scanners -> [RuleIds -> Nat]]
    BY <2>1, <2>2 DEF TypeInv, TypeOK
  <2> QED BY <1>7, <2>4, <2>5 DEF ReportMatch, TypeInv, TypeOK
<1>8. CASE CallbackReturns(s)
  <2> DEFINE f == Head(frames[s])
  <2>1. f \in Frames /\ f.rule \in RuleIds /\ frames[s] # <<>>
    BY <1>8, TopTyped DEF CallbackReturns
  <2>2. memo[f.rule] \in MemoValues
    BY <2>1 DEF TypeInv, TypeOK
  <2>3. [f EXCEPT !.stage = "return", !.val = memo[f.rule]] \in Frames
    BY <2>1, <2>2 DEF Frames, Stages
  <2>4. frames' \in [Scanners -> Seq(Frames)]
    BY <1>8, <2>1, <2>3, SetTopTyped DEF CallbackReturns
  <2> QED BY <1>8, <2>4 DEF CallbackReturns, TypeInv, TypeOK
<1>9. CASE ReturnRule(s)
  <2>1. frames[s] \in Seq(Frames) /\ frames[s] # <<>>
    BY <1>9, TopTyped DEF ReturnRule
  <2>2. PICK m : frames' = [frames EXCEPT ![s] =
                    IF Len(frames[s]) = 1 THEN <<>>
                    ELSE <<AfterLeaf(Head(Tail(frames[s])), m = "Hit")>> \o Tail(Tail(frames[s]))]
    BY <1>9 DEF ReturnRule
  <2>3. Tail(frames[s]) \in Seq(Frames) /\ (Len(frames[s]) # 1 => Tail(frames[s]) # <<>>)
    BY <2>1, Pop
  <2>4. ASSUME Len(frames[s]) # 1
        PROVE  <<AfterLeaf(Head(Tail(frames[s])), m = "Hit")>> \o Tail(Tail(frames[s])) \in Seq(Frames)
    <3>1. Head(Tail(frames[s])) \in Frames /\ Tail(Tail(frames[s])) \in Seq(Frames)
      BY <2>3, <2>4, Pop
    <3>2. AfterLeaf(Head(Tail(frames[s])), m = "Hit") \in Frames
      BY <3>1, AfterLeafTyped
    <3> QED BY <3>1, <3>2, Push
  <2>5. frames' \in [Scanners -> Seq(Frames)]
    BY <2>2, <2>4 DEF TypeInv, TypeOK
  <2> QED BY <1>9, <2>5 DEF ReturnRule, TypeInv, TypeOK
<1> QED BY <1>1, <1>2, <1>3, <1>4, <1>5, <1>6, <1>7, <1>8, <1>9 DEF EvaluateRule

LEMMA TypeNext == TypeInv /\ [Next]_vars => TypeInv'
<1> SUFFICES ASSUME TypeInv, [Next]_vars PROVE TypeInv'
  OBVIOUS
<1>0. overlapped \subseteq Scanners
  BY DEF TypeInv, TypeOK
<1>1. CASE UNCHANGED vars
  BY <1>1 DEF vars, TypeInv, TypeOK
<1>2. CASE \E t \in Threads, s \in Scanners, q \in Requests : Begin(t, s, q)
  <2>1. overlapped' \subseteq Scanners
    BY <1>0, <1>2 DEF Begin, Open
  <2> QED BY <1>2, <2>1, TypeScanning
<1>3. CASE \E s \in Scanners : ScanStep(s)
  <2>1. overlapped' \subseteq Scanners
    BY <1>0, <1>3 DEF ScanStep
  <2> QED BY <1>3, <2>1, TypeScanning, TypeEvaluating DEF ScanStep
<1> QED BY <1>1, <1>2, <1>3 DEF Next

(***************************************************************************)
(* The state keeps its types under every interleaving; in particular no    *)
(* rule function leaves its leaves and no nested call leaves `rules`.      *)
(***************************************************************************)
THEOREM TypeCorrect == Spec => []TypeOK
<1>1. TypeInv => TypeOK
  BY DEF TypeInv
<1> QED BY <1>1, TypeInit, TypeNext, PTL DEF Spec

\* No private rule has reached a callback.
PrivateIsSilent == \A s \in Scanners, r \in RuleIds \ PublicRules : calls[s][r] = 0

(***************************************************************************)
(* Whoever else is scanning, the callback of a scanner is never called     *)
(* with the name of a private rule (evaluate_rule, ruleset.yar.cpp:240).   *)
(***************************************************************************)
THEOREM PrivateRulesSilent == Spec => []PrivateIsSilent
<1>1. Init => PrivateIsSilent
  BY RulesAssumption DEF Init, PrivateIsSilent
<1>2. TypeInv /\ PrivateIsSilent /\ [Next]_vars => PrivateIsSilent'
  <2> SUFFICES ASSUME TypeInv, PrivateIsSilent, [Next]_vars PROVE PrivateIsSilent'
    OBVIOUS
  <2>1. CASE UNCHANGED calls
    BY <2>1 DEF PrivateIsSilent
  <2>2. CASE \E t \in Threads, s \in Scanners, q \in Requests : Begin(t, s, q)
    BY <2>2 DEF Begin, PrivateIsSilent, TypeInv, TypeOK
  <2>3. ASSUME NEW s \in Scanners, ReportMatch(s) PROVE PrivateIsSilent'
    <3> DEFINE f == Head(frames[s])
    <3>1. f.rule \in RuleIds
      BY <2>3, TopTyped DEF ReportMatch
    <3>2. PICK m : calls' = [calls EXCEPT ![s][f.rule] = IF Reported(f.rule, m) THEN @ + 1 ELSE @]
      BY <2>3 DEF ReportMatch
    <3>3. f.rule \notin PublicRules => ~Reported(f.rule, m)
      BY DEF Reported
    <3> QED BY <3>1, <3>2, <3>3 DEF PrivateIsSilent, TypeInv, TypeOK
  <2>4. ASSUME NEW s \in Scanners, ScanStep(s), ~ReportMatch(s) PROVE UNCHANGED calls
    BY <2>4 DEF ScanStep, EvaluateRule, ResetRule, ScanLiterals, ScanRegexes, NoCuckoo,
       AbortInJson, UnreadableCuckoo, ScanMutexes, Publish, EnterRule, FinishScan,
       CheckMemo, TestContext, CallRule, StoreMemo, CallbackReturns, ReturnRule
  <2> QED BY <2>1, <2>2, <2>3, <2>4 DEF Next, vars
<1> QED BY <1>1, <1>2, TypeInit, TypeNext, PTL DEF Spec
-----------------------------------------------------------------------------
(***************************************************************************)
(* What the context of scanner s holds in each phase of its scan.  It does *)
(* not mention another scanner or the memo, which is why no interleaving   *)
(* can break it.                                                           *)
(***************************************************************************)
ContextOf(s) ==
  LET q == request[s]
  IN  /\ pc[s] = "reset" => matches[s] = {}
      /\ pc[s] = "regex" => matches[s] = Delivered(q.literal, q.size)
      /\ pc[s] \in {"cuckoo", "publish", "rules"} =>
           matches[s] = Delivered(q.literal \cup q.regex, q.size)
      /\ pc[s] \in {"reset", "regex", "cuckoo"} => mutexes[s] = {}
      /\ pc[s] \in {"publish", "rules"} =>
           mutexes[s] = IF q.cuckoo = "wellformed" THEN q.mutex ELSE {}
      /\ pc[s] = "rules" => ctx[s] = q

ContextInv == \A s \in Scanners : ContextOf(s)

\* Without literal (regex) patterns no literal (regex) match is delivered.
LEMMA NothingDelivered ==
  ASSUME NEW q \in Requests
  PROVE  /\ LiteralIds = {} => Delivered(q.literal, q.size) = {}
         /\ RegexIds = {} => Delivered(q.regex, q.size) = {}
         /\ Delivered(q.literal \cup q.regex, q.size) =
              Delivered(q.literal, q.size) \cup Delivered(q.regex, q.size)
<1>1. q \in RequestType
  BY RequestsAssumption
<1>2. LiteralIds = {} => q.literal = {}
  BY <1>1 DEF RequestType, Events
<1>3. RegexIds = {} => q.regex = {}
  BY <1>1 DEF RequestType, Events
<1> QED BY <1>2, <1>3 DEF Delivered

\* A scanner whose part of the state does not change keeps its context.
LEMMA ContextFrame ==
  ASSUME NEW s \in Scanners, ContextOf(s), pc'[s] \in {pc[s], "idle"},
         request'[s] = request[s], matches'[s] = matches[s],
         mutexes'[s] = mutexes[s], ctx'[s] = ctx[s]
  PROVE  ContextOf(s)'
  BY DEF ContextOf

\* Once its scan is left a scanner has no open context to speak of.
LEMMA ContextIdle ==
  ASSUME NEW s \in Scanners, pc'[s] = "idle"
  PROVE  ContextOf(s)'
  BY DEF ContextOf

LEMMA ContextNext == TypeInv /\ ContextInv /\ [Next]_vars => ContextInv'
<1> SUFFICES ASSUME TypeInv, ContextInv, [Next]_vars, NEW x \in Scanners
             PROVE  ContextOf(x)'
  BY DEF ContextInv
<1>0. ContextOf(x)
  BY DEF ContextInv
<1>1. CASE UNCHANGED <<pc, request, matches, mutexes, ctx>>
  BY <1>0, <1>1, ContextFrame
<1>2. ASSUME NEW t \in Threads, NEW s \in Scanners, NEW q \in Requests, Begin(t, s, q)
      PROVE  ContextOf(x)'
  <2>1. CASE x = s
    BY <1>2, <2>1 DEF Begin, ContextOf, KeptMatches, KeptMutexes, TypeInv, TypeOK
  <2>2. CASE x # s
    BY <1>0, <1>2, <2>2, ContextFrame DEF Begin, TypeInv, TypeOK
  <2> QED BY <2>1, <2>2
<1>3. ASSUME NEW s \in Scanners, ScanStep(s) PROVE ContextOf(x)'
  <2>1. CASE ScanLiterals(s)
    <3>1. request[s] \in Requests /\ pc[s] = "reset" /\ matches[s] = {}
      BY <2>1 DEF ScanLiterals, TypeInv, ContextInv, ContextOf
    <3>2. CASE x # s
      BY <1>0, <2>1, <3>2, ContextFrame
         DEF ScanLiterals, HsScan, SkipScan, Leave, TypeInv, TypeOK
    <3>3. CASE x = s /\ pc'[s] = "idle"
      BY <3>3, ContextIdle
    <3>4. CASE x = s /\ pc'[s] = "regex"
      <4> DEFINE found == Delivered(request[s].literal, request[s].size)
      <4>1. LiteralIds = {} => found = {}
        BY <3>1, NothingDelivered
      <4>2. ASSUME SkipScan(s, "regex"), LiteralIds = {} PROVE matches'[s] = found
        BY <3>1, <4>1, <4>2 DEF SkipScan
      <4>3. ASSUME HsScan(s, found, "regex") PROVE matches'[s] = found
        BY <3>1, <3>4, <4>3 DEF HsScan, Leave, TypeInv, TypeOK
      <4>4. matches'[s] = found
        BY <2>1, <4>2, <4>3 DEF ScanLiterals
      <4> QED BY <1>0, <2>1, <3>1, <3>4, <4>4 DEF ScanLiterals, ContextOf
    <3>5. pc'[s] \in {"idle", "regex"}
      BY <2>1 DEF ScanLiterals, HsScan, SkipScan, Leave, TypeInv, TypeOK
    <3> QED BY <3>2, <3>3, <3>4, <3>5
  <2>2. CASE ScanRegexes(s)
    <3>1. /\ request[s] \in Requests /\ pc[s] = "regex"
          /\ matches[s] = Delivered(request[s].literal, request[s].size)
      BY <2>2 DEF ScanRegexes, TypeInv, ContextInv, ContextOf
    <3>2. CASE x # s
      BY <1>0, <2>2, <3>2, ContextFrame
         DEF ScanRegexes, HsScan, SkipScan, Leave, TypeInv, TypeOK
    <3>3. CASE x = s /\ pc'[s] = "idle"
      BY <3>3, ContextIdle
    <3>4. CASE x = s /\ pc'[s] = "cuckoo"
      <4> DEFINE found == Delivered(request[s].regex, request[s].size)
                 all == Delivered(request[s].literal \cup request[s].regex, request[s].size)
      <4>1. (RegexIds = {} => found = {}) /\ all = matches[s] \cup found
        BY <3>1, NothingDelivered
      <4>2. ASSUME SkipScan(s, "cuckoo"), RegexIds = {} PROVE matches'[s] = all
        BY <3>1, <4>1, <4>2 DEF SkipScan
      <4>3. ASSUME HsScan(s, found, "cuckoo") PROVE matches'[s] = all
        BY <3>1, <3>4, <4>1, <4>3 DEF HsScan, Leave, TypeInv, TypeOK
      <4>4. matches'[s] = all
        BY <2>2, <4>2, <4>3 DEF ScanRegexes
      <4> QED BY <1>0, <2>2, <3>1, <3>4, <4>4 DEF ScanRegexes, ContextOf
    <3>5. pc'[s] \in {"idle", "cuckoo"}
      BY <2>2 DEF ScanRegexes, HsScan, SkipScan, Leave, TypeInv, TypeOK
    <3> QED BY <3>2, <3>3, <3>4, <3>5
  <2>3. CASE NoCuckoo(s)
    BY <1>0, <2>3 DEF NoCuckoo, ContextInv, ContextOf, TypeInv, TypeOK
  <2>4. CASE UnreadableCuckoo(s) \/ FinishScan(s)
    BY <1>0, <2>4 DEF UnreadableCuckoo, FinishScan, Leave, ContextOf, TypeInv, TypeOK
  <2>5. CASE ScanMutexes(s)
    <3>1. mutexes[s] = {} /\ pc[s] = "cuckoo" /\ request[s].cuckoo = "wellformed"
      BY <2>5 DEF ScanMutexes, ContextInv, ContextOf
    <3>2. CASE x # s
      BY <1>0, <2>5, <3>2, ContextFrame DEF ScanMutexes, Leave, TypeInv, TypeOK
    <3>3. CASE x = s /\ pc'[s] = "idle"
      BY <3>3, ContextIdle
    <3>4. CASE x = s /\ pc'[s] = "publish"
      <4>1. mutexes'[s] = request[s].mutex
        BY <2>5, <3>1, <3>4 DEF ScanMutexes, Leave, TypeInv, TypeOK
      <4> QED BY <1>0, <2>5, <3>1, <3>4, <4>1 DEF ScanMutexes, ContextOf
    <3>5. pc'[s] \in {"idle", "publish"}
      BY <2>5 DEF ScanMutexes, Leave, TypeInv, TypeOK
    <3> QED BY <3>2, <3>3, <3>4, <3>5
  <2>6. CASE Publish(s)
    BY <1>0, <2>6 DEF Publish, ContextOf, TypeInv, TypeOK
  <2>7. CASE \/ ResetRule(s) \/ AbortInJson(s) \/ EnterRule(s) \/ EvaluateRule(s)
    <3>1. UNCHANGED <<pc, request, matches, mutexes, ctx>>
      BY <2>7 DEF ResetRule, AbortInJson, EnterRule, EvaluateRule,
         CheckMemo, TestContext, CallRule, StoreMemo, ReportMatch, CallbackReturns, ReturnRule
    <3> QED BY <1>1, <3>1
  <2> QED BY <1>3, <2>1, <2>2, <2>3, <2>4, <2>5, <2>6, <2>7 DEF ScanStep
<1> QED BY <1>1, <1>2, <1>3 DEF Next, vars

(***************************************************************************)
(* For every ruleset and any number of threads and nested scans: a scanner *)
(* that evaluates rules looks at the matches of its own current request,   *)
(* all of those hs_scan delivered and no others.  What concurrent scans    *)
(* can spoil is therefore the memo, and nothing else.                      *)
(***************************************************************************)
THEOREM ContextIsolated == Spec => []ContextIsOwn
<1>1. Init => ContextInv
  BY DEF Init, ContextInv, ContextOf
<1>2. ContextInv => ContextIsOwn
  BY DEF ContextInv, ContextOf, ContextIsOwn
<1> QED BY <1>1, <1>2, ContextNext, TypeInit, TypeNext, PTL DEF Spec
-----------------------------------------------------------------------------
(***************************************************************************)
(* From here on: scans that are alone, on data whose size the length type  *)
(* of hs_scan can say.                                                     *)
(***************************************************************************)
SizesFit == \A q \in Requests : q.size < LengthMod

\* How often the callback is due for rule r under request q.
Due(q, r) == IF r \in PublicRules /\ r \in Verdict[q] THEN 1 ELSE 0

\* The result m of rule r is there, and is the one request q calls for.
Right(q, r, m) == m # "NotEvaluated" /\ (m = "Hit" <=> r \in Verdict[q])

\* The evaluate_rule call made by the loop over the rules; a rule function can
\* only be on top of it.
Outer(s) == frames[s][Len(frames[s])]

\* Rule r has had its result stored (its callback called) in the scan of s.
Past(s, r, stages) ==
  \/ r < next[s] - 1
  \/ r = next[s] - 1 /\ (frames[s] = <<>> \/ Outer(s).stage \in stages)
Stored(s, r) == Past(s, r, {"report", "callback", "return"})
Settled(s, r) == Past(s, r, {"callback", "return"})

\* The leaves that a rule function has passed did not decide its condition.
Undecided(q, f) ==
  \A i \in 1 .. f.leaf - 1 :
    LeafTruth(q, Condition[f.rule].leaves[i]) <=> Condition[f.rule].op = "and"

OuterOK(s, f) ==
  /\ f.rule = next[s] - 1
  /\ f.stage \in {"check", "body"} => Undecided(request[s], f)
  /\ f.stage \notin {"check", "body"} => Right(request[s], f.rule, f.val)

InnerOK(s, f, g) ==
  /\ f.stage = "body" /\ LeafOf(f).kind = "rule" /\ g.rule = LeafOf(f).arg
  /\ g.stage \in {"check", "return"}
  /\ g.stage = "return" => Right(request[s], g.rule, g.val)

\* The open evaluate_rule calls: none, one, or one made by a rule function.
CallsOK(s) ==
  \/ frames[s] = <<>>
  \/ Len(frames[s]) = 1 /\ OuterOK(s, frames[s][1])
  \/ Len(frames[s]) = 2 /\ OuterOK(s, frames[s][2]) /\ InnerOK(s, frames[s][2], frames[s][1])

ScanOK(s) ==
  /\ pc[s] # "idle" => outcome[s] # "ok" /\ \A x \in Scanners \ {s} : pc[x] = "idle"
  /\ pc[s] # "rules" => frames[s] = <<>>
  /\ outcome[s] = "ok" => \A r \in RuleIds : calls[s][r] = Due(request[s], r)
  /\ pc[s] \in {"reset", "regex", "cuckoo", "publish"} =>
       /\ calls[s] = [r \in RuleIds |-> 0]
       /\ \A r \in RuleIds : (pc[s] = "reset" => r < next[s]) => memo[r] = "NotEvaluated"
  /\ pc[s] = "rules" =>
       /\ CallsOK(s)
       /\ \A r \in RuleIds :
            /\ Stored(s, r) => Right(request[s], r, memo[r])
            /\ ~Stored(s, r) => memo[r] = "NotEvaluated"
            /\ calls[s][r] = IF Settled(s, r) THEN Due(request[s], r) ELSE 0

\* How the phase of a scan goes with its open calls and its outcome.
PhaseOf(s) ==
  /\ pc[s] # "rules" => frames[s] = <<>>
  /\ pc[s] = "idle" <=> outcome[s] \in {"fresh", "ok", "threw"}
PhaseInv == \A s \in Scanners : PhaseOf(s)

\* The other scans may have spoilt the memo for each other, but not for these.
AloneInv ==
  TypeInv /\ ContextInv /\ PhaseInv /\ \A s \in Scanners \ overlapped : ScanOK(s)

LEMMA PhaseNext == TypeInv /\ PhaseInv /\ [Next]_vars => PhaseInv'
<1> SUFFICES ASSUME TypeInv, PhaseInv, [Next]_vars, NEW x \in Scanners PROVE PhaseOf(x)'
  BY DEF PhaseInv
<1>0. /\ PhaseOf(x) /\ pc \in [Scanners -> Phases] /\ outcome \in [Scanners -> Outcomes]
      /\ frames \in [Scanners -> Seq(Frames)]
  BY DEF PhaseInv, TypeInv, TypeOK
<1>1. CASE UNCHANGED vars
  BY <1>0, <1>1 DEF vars, PhaseOf
<1>2. CASE \E t \in Threads, s \in Scanners, q \in Requests : Begin(t, s, q)
  BY <1>0, <1>2 DEF Begin, PhaseOf
<1>3. ASSUME NEW s \in Scanners, ScanStep(s) PROVE PhaseOf(x)'
  <2>1. CASE ResetRule(s) \/ NoCuckoo(s) \/ AbortInJson(s) \/ Publish(s) \/ EnterRule(s)
    BY <1>0, <2>1 DEF ResetRule, NoCuckoo, AbortInJson, Publish, EnterRule, PhaseOf
  <2>2. CASE ScanLiterals(s) \/ ScanRegexes(s) \/ UnreadableCuckoo(s) \/ ScanMutexes(s) \/ FinishScan(s)
    <3>1. /\ UNCHANGED frames /\ pc[s] # "idle" /\ (pc[s] = "rules" => frames[s] = <<>>)
          /\ \/ \E how \in {"ok", "threw"} : Leave(s, how)
             \/ /\ \E to \in {"regex", "cuckoo", "publish"} : pc' = [pc EXCEPT ![s] = to]
                /\ UNCHANGED outcome
      BY <2>2 DEF ScanLiterals, ScanRegexes, UnreadableCuckoo, ScanMutexes, FinishScan, HsScan,
         SkipScan
    <3>2. CASE \E how \in {"ok", "threw"} : Leave(s, how)
      BY <1>0, <3>1, <3>2 DEF Leave, PhaseOf, PhaseInv
    <3>3. CASE \E to \in {"regex", "cuckoo", "publish"} : pc' = [pc EXCEPT ![s] = to] /\ UNCHANGED outcome
      BY <1>0, <3>1, <3>3 DEF PhaseOf, PhaseInv
    <3> QED BY <3>1, <3>2, <3>3
  <2>3. CASE EvaluateRule(s)
    <3>1. pc[s] = "rules" /\ UNCHANGED <<pc, outcome>> /\ \A y \in Scanners \ {s} : frames'[y] = frames[y]
      BY <1>0, <2>3 DEF EvaluateRule, CheckMemo, TestContext, CallRule, StoreMemo,
         ReportMatch, CallbackReturns, ReturnRule, SetTop, At
    <3> QED BY <1>0, <3>1 DEF PhaseOf
  <2> QED BY <1>3, <2>1, <2>2, <2>3 DEF ScanStep
<1> QED BY <1>1, <1>2, <1>3 DEF Next

\* Stacks of one and of two calls, taken apart and put together.
LEMMA Short ==
  ASSUME NEW S, NEW q \in Seq(S)
  PROVE  /\ Len(q) = 0 => q = <<>>
         /\ Len(q) = 1 => q = <<q[1]>>
         /\ Len(q) = 2 => q = <<q[1], q[2]>>
<1>1. ASSUME Len(q) = 0 PROVE q = <<>>
  BY <1>1, EmptySeq, SeqEqual
<1>2. ASSUME Len(q) = 1 PROVE q = <<q[1]>>
  <2>1. q[1] \in S
    BY <1>2
  <2>2. <<q[1]>> \in Seq(S) /\ Len(<<q[1]>>) = 1 /\ <<q[1]>>[1] = q[1]
    BY <2>1
  <2>3. \A i \in 1 .. Len(q) : q[i] = <<q[1]>>[i]
    BY <1>2, <2>2
  <2> QED BY <1>2, <2>2, <2>3, SeqEqual, Zenon
<1>3. ASSUME Len(q) = 2 PROVE q = <<q[1], q[2]>>
  <2>1. q[1] \in S /\ q[2] \in S
    <3>1. 1 \in 1 .. Len(q) /\ 2 \in 1 .. Len(q)
      BY <1>3
    <3> QED BY <3>1, ElementOfSeq
  <2>2. /\ <<q[1], q[2]>> \in Seq(S) /\ Len(<<q[1], q[2]>>) = 2
        /\ <<q[1], q[2]>>[1] = q[1] /\ <<q[1], q[2]>>[2] = q[2]
    BY <2>1
  <2>3. \A i \in 1 .. Len(q) : q[i] = <<q[1], q[2]>>[i]
    BY <1>3, <2>2
  <2> QED BY <1>3, <2>2, <2>3, SeqEqual, Zenon
<1> QED BY <1>1, <1>2, <1>3

LEMMA OneCall ==
  ASSUME NEW S, NEW q \in Seq(S), Len(q) = 1
  PROVE  q[1] \in S /\ Head(q) = q[1] /\ Tail(q) = <<>>
<1>1. q # <<>>
  BY EmptySeq
<1>2. Tail(q) \in Seq(S) /\ Len(Tail(q)) = 0
  BY <1>1, HeadTailProperties
<1>3. Tail(q) = <<>>
  BY <1>2, Short
<1>4. 1 \in 1 .. Len(q) /\ Head(q) = q[1]
  OBVIOUS
<1> QED BY <1>3, <1>4, ElementOfSeq

LEMMA TwoCalls ==
  ASSUME NEW S, NEW q \in Seq(S), Len(q) = 2
  PROVE  /\ q[1] \in S /\ q[2] \in S /\ Head(q) = q[1]
         /\ Tail(q) = <<q[2]>> /\ Head(Tail(q)) = q[2] /\ Tail(Tail(q)) = <<>>
<1>1. q # <<>>
  BY EmptySeq
<1>2. /\ Tail(q) \in Seq(S) /\ Len(Tail(q)) = 1 /\ Tail(q)[1] = q[2]
  BY <1>1, HeadTailProperties
<1>3. q[1] \in S /\ q[2] \in S /\ Head(q) = q[1]
  <2>1. 1 \in 1 .. Len(q) /\ 2 \in 1 .. Len(q) /\ Head(q) = q[1]
    OBVIOUS
  <2> QED BY <2>1, ElementOfSeq
<1>4. Tail(q) = <<q[2]>>
  BY <1>2, Short
<1>5. Head(Tail(q)) = q[2] /\ Tail(Tail(q)) = <<>>
  BY <1>2, OneCall
<1> QED BY <1>3, <1>4, <1>5

\* A call pushed on no call and on one call.
LEMMA Stacked ==
  ASSUME NEW f, NEW g
  PROVE  /\ <<f>> \o <<>> = <<f>> /\ <<g>> \o <<f>> = <<g, f>>
         /\ Len(<<f>>) = 1 /\ <<f>>[1] = f /\ <<f>> # <<>>
         /\ Len(<<g, f>>) = 2 /\ <<g, f>>[1] = g /\ <<g, f>>[2] = f /\ <<g, f>> # <<>>
<1> DEFINE S == {f, g}
<1>1. <<f>> \in Seq(S) /\ <<g>> \in Seq(S) /\ <<>> \in Seq(S) /\ <<g, f>> \in Seq(S)
  OBVIOUS
<1>2. Len(<<f>>) = 1 /\ <<f>>[1] = f /\ Len(<<g>>) = 1 /\ <<g>>[1] = g /\ Len(<<>>) = 0
  OBVIOUS
<1>3. Len(<<g, f>>) = 2 /\ <<g, f>>[1] = g /\ <<g, f>>[2] = f
  OBVIOUS
<1>4. <<f>> \o <<>> = <<f>>
  BY <1>1, ConcatEmptySeq, Zenon
<1>5. <<g>> \o <<f>> \in Seq(S) /\ Len(<<g>> \o <<f>>) = 2
      /\ (<<g>> \o <<f>>)[1] = g /\ (<<g>> \o <<f>>)[2] = f
  OBVIOUS
<1>6. <<g>> \o <<f>> = <<g, f>>
  BY <1>5, Short
<1>7. <<f>> # <<>> /\ <<g, f>> # <<>>
  BY <1>1, <1>2, <1>3, EmptySeq
<1> QED BY <1>2, <1>3, <1>4, <1>6, <1>7

\* A rule function that knows the truth of the leaf it is at goes on to its
\* next leaf, or ends with the verdict on its rule.
LEMMA AfterLeafRight ==
  ASSUME NEW q \in Requests, NEW f \in Frames, NEW holds \in BOOLEAN,
         f.stage = "body", Undecided(q, f),
         Signed(LeafOf(f), holds) <=> LeafTruth(q, LeafOf(f))
  PROVE  LET g == AfterLeaf(f, holds)
         IN  /\ g \in Frames /\ g.rule = f.rule /\ g.stage \in {"body", "store"}
             /\ g.stage = "body" => Undecided(q, g)
             /\ g.stage = "store" => Right(q, g.rule, g.val)
<1> DEFINE c == Condition[f.rule]
           n == Len(c.leaves)
           x == Signed(LeafOf(f), holds)
           decided == (c.op = "and" /\ ~x) \/ (c.op = "or" /\ x) \/ f.leaf = n
           g == AfterLeaf(f, holds)
<1>1. /\ f.rule \in RuleIds /\ f.leaf \in 1 .. n /\ n \in Nat \ {0}
      /\ c.op \in {"and", "or"} /\ f.leaf \in Nat \ {0}
      /\ f \in [rule : RuleIds, leaf : Nat \ {0}, stage : Stages, val : MemoValues]
  BY LeafTyped DEF Frames
<1>2. f.rule \in Verdict[q] <=> ConditionTruth(q, c)
  BY <1>1, VerdictAssumption
<1>3. x <=> LeafTruth(q, c.leaves[f.leaf])
  BY DEF LeafOf
<1>4. g \in Frames /\ g.rule = f.rule
  BY AfterLeafTyped
<1>5. CASE decided
  <2>1. g = [f EXCEPT !.stage = "store", !.val = IF x THEN "Hit" ELSE "NoHit"]
    BY <1>5 DEF AfterLeaf
  <2>2. g.stage = "store" /\ g.val = IF x THEN "Hit" ELSE "NoHit"
    BY <1>1, <2>1
  <2>3. x <=> ConditionTruth(q, c)
    <3>1. CASE c.op = "and" /\ ~x
      BY <1>1, <1>3, <3>1 DEF ConditionTruth
    <3>2. CASE c.op = "or" /\ x
      BY <1>1, <1>3, <3>2 DEF ConditionTruth
    <3>3. CASE c.op = "and" /\ x /\ f.leaf = n
      <4>1. \A i \in 1 .. n : i \in 1 .. f.leaf - 1 \/ i = f.leaf
        BY <1>1, <3>3
      <4>2. \A i \in 1 .. n : LeafTruth(q, c.leaves[i])
        BY <1>3, <3>3, <4>1 DEF Undecided
      <4> QED BY <3>3, <4>2 DEF ConditionTruth
    <3>4. CASE c.op = "or" /\ ~x /\ f.leaf = n
      <4>1. \A i \in 1 .. n : i \in 1 .. f.leaf - 1 \/ i = f.leaf
        BY <1>1, <3>4
      <4>2. \A i \in 1 .. n : ~LeafTruth(q, c.leaves[i])
        BY <1>3, <3>4, <4>1 DEF Undecided
      <4> QED BY <3>4, <4>2 DEF ConditionTruth
    <3> QED BY <1>1, <1>5, <3>1, <3>2, <3>3, <3>4
  <2> QED BY <1>2, <1>4, <2>2, <2>3 DEF Right
<1>6. CASE ~decided
  <2>1. g = [f EXCEPT !.leaf = @ + 1]
    BY <1>6 DEF AfterLeaf
  <2>2. g.stage = "body" /\ g.leaf = f.leaf + 1
    BY <1>1, <2>1
  <2>3. \A i \in 1 .. g.leaf - 1 : i \in 1 .. f.leaf - 1 \/ i = f.leaf
    BY <1>1, <2>2
  <2>4. LeafTruth(q, c.leaves[f.leaf]) <=> c.op = "and"
    BY <1>1, <1>3, <1>6
  <2>5. Undecided(q, g)
    BY <1>4, <2>3, <2>4 DEF Undecided
  <2> QED BY <1>4, <2>2, <2>5
<1> QED BY <1>5, <1>6

\* What a leaf finds in the context is what it means for the request.
LEMMA ContextRight ==
  ASSUME TypeInv, ContextInv, SizesFit, NEW s \in Scanners, pc[s] = "rules",
         NEW f \in Frames, LeafOf(f).kind # "rule"
  PROVE  Signed(LeafOf(f), ContextHolds(s, LeafOf(f))) <=> LeafTruth(request[s], LeafOf(f))
<1> DEFINE q == request[s]
           leaf == LeafOf(f)
<1>1. q \in Requests /\ q \in RequestType
  BY RequestsAssumption DEF TypeInv
<1>2. Delivered(q.literal \cup q.regex, q.size) = q.literal \cup q.regex
  <2>1. q.size \in Nat /\ q.size < LengthMod /\ LengthMod \in Nat \ {0}
    BY <1>1, BoundsAssumption DEF SizesFit, RequestType
  <2>2. q.size % LengthMod = q.size
    BY <2>1
  <2>3. \A e \in q.literal \cup q.regex : e.end <= q.size
    BY <1>1, RequestsAssumption
  <2> QED BY <2>2, <2>3 DEF Delivered
<1>3. /\ matches[s] = q.literal \cup q.regex /\ ctx[s] = q
      /\ mutexes[s] = IF q.cuckoo = "wellformed" THEN q.mutex ELSE {}
  BY <1>2 DEF ContextInv, ContextOf
<1>4. ContextHolds(s, leaf) <=>
        \/ leaf.kind = "string" /\ \E e \in q.literal \cup q.regex : e.id = leaf.arg
        \/ leaf.kind = "mutex" /\ q.cuckoo = "wellformed" /\ leaf.arg \in q.mutex
        \/ leaf.kind = "data" /\ leaf.arg \in q.facts
        \/ leaf.kind = "rule" /\ leaf.arg \in Verdict[q]
  BY <1>3 DEF ContextHolds
<1> QED BY <1>4 DEF LeafTruth, Signed

\* What the open calls of a scanner that evaluates rules look like.
IsOne(s, f) ==
  /\ frames[s] = <<f>> /\ Head(frames[s]) = f /\ Tail(frames[s]) = <<>>
  /\ Len(frames[s]) = 1 /\ Outer(s) = f /\ OuterOK(s, f)
IsTwo(s, f, g) ==
  /\ frames[s] = <<g, f>> /\ Head(frames[s]) = g /\ Tail(frames[s]) = <<f>>
  /\ Head(Tail(frames[s])) = f /\ Tail(Tail(frames[s])) = <<>>
  /\ Len(frames[s]) = 2 /\ Outer(s) = f /\ OuterOK(s, f) /\ InnerOK(s, f, g)

LEMMA Shape ==
  ASSUME TypeInv, NEW s \in Scanners, ScanOK(s), pc[s] = "rules", frames[s] # <<>>
  PROVE  \/ \E f \in Frames : IsOne(s, f)
         \/ \E f, g \in Frames : IsTwo(s, f, g)
<1>1. frames[s] \in Seq(Frames)
  BY DEF TypeInv, TypeOK
<1>2. CallsOK(s)
  BY DEF ScanOK
<1>3. CASE Len(frames[s]) = 1 /\ OuterOK(s, frames[s][1])
  BY <1>1, <1>3, Short, OneCall, Zenon DEF Outer, IsOne
<1>4. CASE Len(frames[s]) = 2 /\ OuterOK(s, frames[s][2]) /\ InnerOK(s, frames[s][2], frames[s][1])
  BY <1>1, <1>4, Short, TwoCalls, Zenon DEF Outer, IsTwo
<1> QED BY <1>2, <1>3, <1>4 DEF CallsOK

LEMMA OneRebuilt ==
  ASSUME NEW s \in Scanners, NEW f, frames'[s] = <<f>>, OuterOK(s, f)'
  PROVE  CallsOK(s)' /\ Outer(s)' = f /\ frames'[s] # <<>>
  BY Stacked, Zenon DEF CallsOK, Outer

LEMMA TwoRebuilt ==
  ASSUME NEW s \in Scanners, NEW f, NEW g, frames'[s] = <<g, f>>,
         OuterOK(s, f)', InnerOK(s, f, g)'
  PROVE  CallsOK(s)' /\ Outer(s)' = f /\ frames'[s] # <<>>
<1>1. /\ Len(frames'[s]) = 2 /\ frames'[s][1] = g /\ frames'[s][2] = f
      /\ frames'[s] # <<>>
  BY Stacked
<1>2. OuterOK(s, frames[s][2])' /\ InnerOK(s, frames[s][2], frames[s][1])'
  BY <1>1 DEF OuterOK, InnerOK
<1> QED BY <1>1, <1>2 DEF CallsOK, Outer

\* A step that stores and reports nothing keeps what ScanOK says of the memo.
LEMMA SameProgress ==
  ASSUME NEW s \in Scanners, ScanOK(s), pc[s] = "rules",
         UNCHANGED <<memo, stack, pc, request, calls, outcome, next>>, CallsOK(s)',
         \A r \in RuleIds : (Stored(s, r)' <=> Stored(s, r)) /\ (Settled(s, r)' <=> Settled(s, r))
  PROVE  ScanOK(s)'
  BY DEF ScanOK, Right, Due

\* A scanner that a step does not concern: its scan is not open.
LEMMA OtherKept ==
  ASSUME NEW x \in Scanners, ScanOK(x), pc[x] = "idle", pc'[x] = "idle",
         frames'[x] = frames[x], outcome'[x] = outcome[x],
         calls'[x] = calls[x], request'[x] = request[x]
  PROVE  ScanOK(x)'
  BY DEF ScanOK, Due

\* A scan that is alone stays what it was when another scanner takes a step: it
\* is not open then.
LEMMA OtherStep ==
  ASSUME TypeInv, NEW s \in Scanners, NEW x \in Scanners, x # s, ScanStep(s), ScanOK(x)
  PROVE  ScanOK(x)'
<1>1. pc[s] # "idle"
  BY DEF ScanStep, ResetRule, ScanLiterals, ScanRegexes, NoCuckoo, AbortInJson,
     UnreadableCuckoo, ScanMutexes, Publish, EnterRule, FinishScan, EvaluateRule, CheckMemo,
     TestContext, CallRule, StoreMemo, ReportMatch, CallbackReturns, ReturnRule, At
<1>2. pc[x] = "idle"
  BY <1>1 DEF ScanOK
<1>3. CASE ResetRule(s) \/ NoCuckoo(s) \/ AbortInJson(s) \/ Publish(s) \/ EnterRule(s)
  BY <1>2, <1>3, OtherKept DEF ResetRule, NoCuckoo, AbortInJson, Publish, EnterRule,
     TypeInv, TypeOK
<1>4. CASE ScanLiterals(s) \/ ScanRegexes(s) \/ UnreadableCuckoo(s) \/ ScanMutexes(s) \/ FinishScan(s)
  <2>1. pc'[x] = pc[x] /\ outcome'[x] = outcome[x] /\ UNCHANGED <<frames, calls, request>>
    BY <1>4 DEF ScanLiterals, ScanRegexes, UnreadableCuckoo, ScanMutexes, FinishScan, HsScan,
       SkipScan, Leave, TypeInv, TypeOK
  <2> QED BY <1>2, <2>1, OtherKept
<1>5. CASE EvaluateRule(s)
  <2>1. /\ UNCHANGED <<pc, outcome, request>>
        /\ frames'[x] = frames[x] /\ calls'[x] = calls[x]
    BY <1>5 DEF EvaluateRule, CheckMemo, TestContext, CallRule,
       StoreMemo, ReportMatch, CallbackReturns, ReturnRule, SetTop, TypeInv, TypeOK
  <2> QED BY <1>2, <2>1, OtherKept
<1> QED BY <1>3, <1>4, <1>5 DEF ScanStep

\* A scan that is left is no longer open.
LEMMA Left ==
  ASSUME TypeInv, NEW s \in Scanners, ScanOK(s), frames'[s] = <<>>,
         NEW how, Leave(s, how), calls'[s] = calls[s], request'[s] = request[s],
         how = "ok" => \A r \in RuleIds : calls[s][r] = Due(request[s], r)
  PROVE  ScanOK(s)'
<1>1. pc'[s] = "idle" /\ outcome'[s] = how
  BY DEF Leave, TypeInv, TypeOK
<1> QED BY <1>1 DEF ScanOK, Due

LEMMA AloneInit == Init => AloneInv
<1> SUFFICES ASSUME Init, NEW s \in Scanners PROVE ScanOK(s)
  BY TypeInit DEF AloneInv, ContextInv, ContextOf, PhaseInv, PhaseOf, Init
<1> QED BY DEF Init, ScanOK

\* A scan that begins: it is alone, or neither it nor those that are open are.
LEMMA AloneBegin ==
  ASSUME AloneInv, NEW t \in Threads, NEW s \in Scanners, NEW q \in Requests, Begin(t, s, q),
         NEW x \in Scanners, x \notin overlapped'
  PROVE  ScanOK(x)'
<1>0. TypeInv
  BY DEF AloneInv
<1>1. CASE x = s
  <2>1. \A y \in Scanners \ {s} : pc[y] = "idle"
    BY <1>1 DEF Begin, Open
  <2>2. /\ pc'[s] = "reset" /\ outcome'[s] = "running" /\ next'[s] = 1
        /\ frames'[s] = frames[s] /\ calls'[s] = [r \in RuleIds |-> 0]
        /\ \A y \in Scanners \ {s} : pc'[y] = "idle"
    BY <1>0, <2>1 DEF Begin, TypeInv, TypeOK
  <2>3. frames[s] = <<>>
    BY DEF Begin, AloneInv, PhaseInv, PhaseOf
  <2>4. \A r \in RuleIds : ~(r < next'[s])
    BY <2>2 DEF RuleIds
  <2> QED BY <1>1, <2>2, <2>3, <2>4 DEF ScanOK
<1>2. CASE x # s
  <2>1. x \notin overlapped /\ pc[x] = "idle"
    BY <1>2 DEF Begin, Open
  <2> QED BY <1>0, <1>2, <2>1, OtherKept DEF AloneInv, Begin, TypeInv, TypeOK
<1> QED BY <1>1, <1>2

\* The phases of yng_scan_data that precede the rules, and its end.
LEMMA AloneScanning ==
  ASSUME AloneInv, NEW s \in Scanners, s \notin overlapped,
         \/ ResetRule(s) \/ ScanLiterals(s) \/ ScanRegexes(s)
         \/ NoCuckoo(s) \/ AbortInJson(s) \/ UnreadableCuckoo(s) \/ ScanMutexes(s)
         \/ Publish(s) \/ FinishScan(s)
  PROVE  ScanOK(s)'
<1>0. /\ TypeInv /\ ContextInv /\ ScanOK(s) /\ NumRules \in Nat
      /\ next[s] \in 1 .. NumRules + 1 /\ pc \in [Scanners -> Phases]
  BY RulesAssumption DEF AloneInv, TypeInv, TypeOK
<1>3. CASE ResetRule(s)
  <2>1. /\ memo' = [memo EXCEPT ![next[s]] = "NotEvaluated"]
        /\ next'[s] = next[s] + 1 /\ pc[s] = "reset" /\ next[s] \in RuleIds
    BY <1>0, <1>3 DEF ResetRule, TypeInv, TypeOK, RuleIds
  <2>2. \A r \in RuleIds : r < next'[s] => memo'[r] = "NotEvaluated"
    BY <1>0, <2>1 DEF ScanOK, TypeInv, TypeOK, RuleIds
  <2> QED BY <1>0, <1>3, <2>1, <2>2 DEF ResetRule, ScanOK, Due
<1>4. ASSUME Leave(s, "threw"), pc[s] \notin {"idle", "rules"}, UNCHANGED <<frames, calls, request>>
      PROVE  ScanOK(s)'
  BY <1>0, <1>4, Left DEF ScanOK
<1>5. ASSUME NEW to \in {"regex", "cuckoo", "publish"}, pc' = [pc EXCEPT ![s] = to],
             pc[s] \in {"reset", "regex", "cuckoo"}, pc[s] = "reset" => next[s] > NumRules,
             UNCHANGED <<memo, stack, frames, calls, outcome, request>>
      PROVE  ScanOK(s)'
  <2>1. \A r \in RuleIds : memo[r] = "NotEvaluated"
    BY <1>0, <1>5 DEF ScanOK, RuleIds
  <2> QED BY <1>0, <1>5, <2>1 DEF ScanOK
<1>6. CASE ScanLiterals(s)
  <2>1. Leave(s, "threw") \/ (pc' = [pc EXCEPT ![s] = "regex"] /\ UNCHANGED <<stack, outcome>>)
    BY <1>6 DEF ScanLiterals, SkipScan, HsScan
  <2> QED BY <1>4, <1>5, <1>6, <2>1 DEF ScanLiterals
<1>7. CASE ScanRegexes(s)
  <2>1. Leave(s, "threw") \/ (pc' = [pc EXCEPT ![s] = "cuckoo"] /\ UNCHANGED <<stack, outcome>>)
    BY <1>7 DEF ScanRegexes, SkipScan, HsScan
  <2> QED BY <1>4, <1>5, <1>7, <2>1 DEF ScanRegexes
<1>8. CASE NoCuckoo(s)
  BY <1>5, <1>8 DEF NoCuckoo
<1>9. CASE AbortInJson(s)
  BY <1>0, <1>9 DEF AbortInJson, ScanOK, TypeInv, TypeOK
<1>10. CASE UnreadableCuckoo(s)
  BY <1>4, <1>10 DEF UnreadableCuckoo
<1>11. CASE ScanMutexes(s)
  <2>1. Leave(s, "threw") \/ (pc' = [pc EXCEPT ![s] = "publish"] /\ UNCHANGED <<stack, outcome>>)
    BY <1>11 DEF ScanMutexes
  <2> QED BY <1>4, <1>5, <1>11, <2>1 DEF ScanMutexes
<1>12. CASE Publish(s)
  <2>1. pc'[s] = "rules" /\ next'[s] = 1 /\ frames'[s] = <<>>
    BY <1>0, <1>12 DEF Publish, ScanOK, TypeInv, TypeOK
  <2>2. \A r \in RuleIds : ~Stored(s, r)' /\ ~Settled(s, r)'
    BY <2>1 DEF Stored, Settled, Past, RuleIds
  <2>3. CallsOK(s)'
    BY <2>1 DEF CallsOK
  <2>4. \A y \in Scanners \ {s} : pc'[y] = pc[y]
    BY <1>0, <1>12 DEF Publish
  <2> QED BY <1>0, <1>12, <2>1, <2>2, <2>3, <2>4 DEF Publish, ScanOK
<1>13. CASE FinishScan(s)
  <2>1. \A r \in RuleIds : Settled(s, r)
    <3>1. frames[s] = <<>> /\ next[s] > NumRules
      BY <1>13 DEF FinishScan
    <3> QED BY <1>0, <3>1 DEF Settled, Past, RuleIds
  <2>2. \A r \in RuleIds : calls[s][r] = Due(request[s], r)
    BY <1>0, <1>13, <2>1 DEF FinishScan, ScanOK
  <2> QED BY <1>0, <1>13, <2>2, Left DEF FinishScan
<1> QED BY <1>3, <1>6, <1>7, <1>8, <1>9, <1>10, <1>11, <1>12, <1>13

\* The steps of the rule evaluation, for the scanner that takes them.
LEMMA AloneEvaluating ==
  ASSUME SizesFit, AloneInv, NEW s \in Scanners, s \notin overlapped,
         EnterRule(s) \/ EvaluateRule(s)
  PROVE  ScanOK(s)'
<1>0. /\ TypeInv /\ ContextInv /\ ScanOK(s) /\ NumRules \in Nat
      /\ next[s] \in 1 .. NumRules + 1 /\ frames \in [Scanners -> Seq(Frames)]
  BY RulesAssumption DEF AloneInv, TypeInv, TypeOK
<1>1. /\ pc[s] = "rules" /\ request[s] \in Requests
      /\ UNCHANGED <<stack, pc, request, matches, mutexes, ctx, outcome>>
  BY <1>0 DEF EnterRule, EvaluateRule, CheckMemo, TestContext, CallRule, StoreMemo,
     ReportMatch, CallbackReturns, ReturnRule, At, TypeInv
<1>2. CASE EnterRule(s)
  <2>1. next[s] \in RuleIds /\ frames[s] = <<>>
    BY <1>0, <1>2 DEF EnterRule, RuleIds
  <2>2. PICK f : f = Call(next[s])
    OBVIOUS
  <2>3. frames'[s] = <<f>> /\ next'[s] = next[s] + 1
    BY <1>0, <1>2, <2>2 DEF EnterRule, TypeInv, TypeOK
  <2>4. f.rule = next'[s] - 1 /\ f.stage = "check" /\ f.leaf = 1
    BY <1>0, <2>2, <2>3 DEF Call
  <2>5. OuterOK(s, f)'
    BY <2>4 DEF OuterOK, Undecided
  <2>6. CallsOK(s)' /\ Outer(s)' = f /\ frames'[s] # <<>>
    BY <2>3, <2>5, OneRebuilt
  <2>7. \A r \in RuleIds : (Stored(s, r)' <=> Stored(s, r)) /\ (Settled(s, r)' <=> Settled(s, r))
    BY <1>0, <2>1, <2>3, <2>4, <2>6 DEF Stored, Settled, Past, RuleIds
  <2> QED BY <1>0, <1>1, <1>2, <2>6, <2>7 DEF EnterRule, ScanOK, Right, Due
<1>3. ASSUME NEW f \in Frames, f.rule \in RuleIds,
             NEW g \in 1 .. (f.rule - 1), f.rule = next[s] - 1
      PROVE  Right(request[s], g, memo[g])
  <2>1. g \in RuleIds /\ Stored(s, g)
    BY <1>0, <1>3 DEF RuleIds, Stored, Past
  <2> QED BY <1>0, <1>1, <2>1 DEF ScanOK
<1>4. \A f \in Frames : /\ f.rule \in RuleIds
                        /\ f \in [rule : RuleIds, leaf : Nat \ {0}, stage : Stages, val : MemoValues]
  BY DEF Frames
<1>5. ASSUME frames[s] # <<>>, UNCHANGED <<memo, calls, next>>,
             NEW f, frames'[s] = <<f>>, OuterOK(s, f)',
             f.stage \in {"report"} <=> Outer(s).stage \in {"report"},
             f.stage \in {"callback", "return"} <=> Outer(s).stage \in {"callback", "return"}
      PROVE  ScanOK(s)'
  <2>1. CallsOK(s)' /\ Outer(s)' = f /\ frames'[s] # <<>>
    BY <1>5, OneRebuilt
  <2>2. \A r \in RuleIds : (Stored(s, r)' <=> Stored(s, r)) /\ (Settled(s, r)' <=> Settled(s, r))
    BY <1>5, <2>1 DEF Stored, Settled, Past
  <2> QED BY <1>0, <1>1, <1>5, <2>1, <2>2, SameProgress
<1>6. ASSUME frames[s] # <<>>, UNCHANGED <<memo, calls, next>>,
             NEW f, NEW g, frames'[s] = <<g, f>>, OuterOK(s, f)', InnerOK(s, f, g)',
             f = Outer(s)
      PROVE  ScanOK(s)'
  <2>1. CallsOK(s)' /\ Outer(s)' = f /\ frames'[s] # <<>>
    BY <1>6, TwoRebuilt
  <2>2. \A r \in RuleIds : (Stored(s, r)' <=> Stored(s, r)) /\ (Settled(s, r)' <=> Settled(s, r))
    BY <1>6, <2>1 DEF Stored, Settled, Past
  <2> QED BY <1>0, <1>1, <1>6, <2>1, <2>2, SameProgress
<1>7. CASE CheckMemo(s)
  <2>0. frames[s] # <<>> /\ Head(frames[s]).stage = "check" /\ UNCHANGED <<memo, calls, next>>
    BY <1>7 DEF CheckMemo, At
  <2>1. CASE \E f \in Frames : IsOne(s, f)
    <3>0. PICK f \in Frames : IsOne(s, f)
      BY <2>1
    <3>1. /\ frames[s] = <<f>> /\ Head(frames[s]) = f /\ Tail(frames[s]) = <<>>
          /\ Outer(s) = f /\ OuterOK(s, f)
      BY <3>0 DEF IsOne
    <3>2. f.rule \in RuleIds /\ ~Stored(s, f.rule)
      BY <1>0, <1>4, <2>0, <3>1 DEF Stored, Past, OuterOK
    <3>3. memo[f.rule] = "NotEvaluated"
      BY <1>0, <1>1, <3>2 DEF ScanOK
    <3>4. PICK h : h = [f EXCEPT !.val = "NotEvaluated", !.stage = "body"]
      OBVIOUS
    <3>5. frames'[s] = <<h>>
      BY <1>0, <1>7, <3>1, <3>3, <3>4, Stacked DEF CheckMemo, SetTop
    <3>6. h.rule = f.rule /\ h.leaf = f.leaf /\ h.stage = "body"
      BY <1>4, <3>4
    <3>7. OuterOK(s, h)'
      BY <1>1, <2>0, <3>1, <3>6 DEF OuterOK, Undecided
    <3> QED BY <1>5, <2>0, <3>1, <3>5, <3>6, <3>7
  <2>2. CASE \E f, g \in Frames : IsTwo(s, f, g)
    <3>0. PICK f \in Frames, g \in Frames : IsTwo(s, f, g)
      BY <2>2
    <3>1. /\ Head(frames[s]) = g /\ Tail(frames[s]) = <<f>>
          /\ Outer(s) = f /\ OuterOK(s, f) /\ InnerOK(s, f, g)
      BY <3>0 DEF IsTwo
    <3>2. g.rule \in 1 .. (f.rule - 1) /\ f.rule = next[s] - 1
      BY <3>1, LeafTyped DEF InnerOK, OuterOK
    <3>3. Right(request[s], g.rule, memo[g.rule])
      BY <1>3, <1>4, <3>2
    <3>4. PICK h : h = [g EXCEPT !.val = memo[g.rule], !.stage = "return"]
      OBVIOUS
    <3>5. frames'[s] = <<h, f>>
      <4>1. memo[g.rule] # "NotEvaluated"
        BY <3>3 DEF Right
      <4>2. SetTop(s, h)
        BY <1>7, <3>1, <3>4, <4>1 DEF CheckMemo
      <4>3. frames'[s] = <<h>> \o <<f>>
        BY <1>0, <3>1, <4>2 DEF SetTop
      <4> QED BY <4>3, Stacked
    <3>6. h.rule = g.rule /\ h.val = memo[g.rule] /\ h.stage = "return"
      BY <1>4, <3>4
    <3>7. OuterOK(s, f)' /\ InnerOK(s, f, h)'
      BY <1>1, <2>0, <3>1, <3>3, <3>6 DEF OuterOK, InnerOK, Undecided, Right
    <3> QED BY <1>6, <2>0, <3>1, <3>5, <3>7
  <2> QED BY <1>0, <1>1, <2>0, <2>1, <2>2, Shape
\* Only the innermost call of two is at "check" or "return".
<1>8. ASSUME frames[s] # <<>>, Head(frames[s]).stage \notin {"check", "return"}
      PROVE  \E f \in Frames : IsOne(s, f)
  BY <1>0, <1>1, <1>8, Shape DEF IsTwo, InnerOK
<1>9. CASE TestContext(s)
  <2>0. /\ frames[s] # <<>> /\ Head(frames[s]).stage = "body" /\ UNCHANGED <<memo, calls, next>>
        /\ LeafOf(Head(frames[s])).kind # "rule"
    BY <1>9 DEF TestContext, At
  <2>1. PICK f \in Frames : IsOne(s, f)
    BY <1>8, <2>0
  <2>2. /\ frames[s] = <<f>> /\ Head(frames[s]) = f /\ Tail(frames[s]) = <<>>
        /\ Outer(s) = f /\ OuterOK(s, f)
    BY <2>1 DEF IsOne
  <2>3. PICK holds \in BOOLEAN : holds = ContextHolds(s, LeafOf(f))
    BY DEF ContextHolds
  <2>4. Signed(LeafOf(f), holds) <=> LeafTruth(request[s], LeafOf(f))
    BY <1>0, <1>1, <2>0, <2>2, <2>3, ContextRight
  <2>5. PICK h : h = AfterLeaf(f, holds)
    OBVIOUS
  <2>6. /\ h.rule = f.rule /\ h.stage \in {"body", "store"}
        /\ h.stage = "body" => Undecided(request[s], h)
        /\ h.stage = "store" => Right(request[s], h.rule, h.val)
    BY <1>1, <2>0, <2>2, <2>4, <2>5, AfterLeafRight DEF OuterOK
  <2>7. frames'[s] = <<h>>
    BY <1>0, <1>9, <2>2, <2>3, <2>5, Stacked DEF TestContext, SetTop
  <2>8. OuterOK(s, h)'
    BY <1>1, <2>0, <2>2, <2>6 DEF OuterOK, Undecided, Right
  <2> QED BY <1>5, <2>0, <2>2, <2>6, <2>7, <2>8
<1>10. CASE CallRule(s)
  <2>0. /\ frames[s] # <<>> /\ Head(frames[s]).stage = "body" /\ UNCHANGED <<memo, calls, next>>
        /\ LeafOf(Head(frames[s])).kind = "rule"
    BY <1>10 DEF CallRule, At
  <2>1. PICK f \in Frames : IsOne(s, f)
    BY <1>8, <2>0
  <2>2. /\ frames[s] = <<f>> /\ Head(frames[s]) = f
        /\ Outer(s) = f /\ OuterOK(s, f)
    BY <2>1 DEF IsOne
  <2>3. PICK g : g = Call(LeafOf(f).arg)
    OBVIOUS
  <2>4. g.rule = LeafOf(f).arg /\ g.stage = "check"
    BY <2>3 DEF Call
  <2>5. frames'[s] = <<g, f>>
    BY <1>0, <1>10, <2>2, <2>3, Stacked DEF CallRule
  <2>6. OuterOK(s, f)' /\ InnerOK(s, f, g)'
    BY <1>1, <2>0, <2>2, <2>4 DEF OuterOK, InnerOK, Undecided, Right
  <2> QED BY <1>6, <2>0, <2>2, <2>5, <2>6
<1>11. CASE StoreMemo(s)
  <2>0. /\ frames[s] # <<>> /\ Head(frames[s]).stage = "store" /\ UNCHANGED <<calls, next>>
    BY <1>11 DEF StoreMemo, At
  <2>1. PICK f \in Frames : IsOne(s, f)
    BY <1>8, <2>0
  <2>2. /\ frames[s] = <<f>> /\ Head(frames[s]) = f /\ Tail(frames[s]) = <<>>
        /\ Outer(s) = f /\ f.rule = next[s] - 1 /\ Right(request[s], f.rule, f.val)
    BY <2>0, <2>1 DEF IsOne, OuterOK
  <2>3. PICK h : h = [f EXCEPT !.stage = "report"]
    OBVIOUS
  <2>4. h.rule = f.rule /\ h.val = f.val /\ h.stage = "report" /\ f.rule \in RuleIds
    BY <1>4, <2>3
  <2>5. frames'[s] = <<h>> /\ memo' = [memo EXCEPT ![f.rule] = f.val]
    BY <1>0, <1>11, <2>2, <2>3, Stacked DEF StoreMemo, SetTop
  <2>6. OuterOK(s, h)'
    BY <1>1, <2>0, <2>2, <2>4 DEF OuterOK, Right
  <2>7. CallsOK(s)' /\ Outer(s)' = h /\ frames'[s] # <<>>
    BY <2>5, <2>6, OneRebuilt
  <2>8. \A r \in RuleIds : /\ Stored(s, r)' <=> (Stored(s, r) \/ r = f.rule)
                           /\ Settled(s, r)' <=> Settled(s, r)
    BY <2>0, <2>2, <2>4, <2>7 DEF Stored, Settled, Past
  <2>9. /\ memo'[f.rule] = f.val
        /\ \A r \in RuleIds : r # f.rule => memo'[r] = memo[r]
    BY <1>0, <2>4, <2>5 DEF TypeInv, TypeOK
  <2> QED BY <1>0, <1>1, <2>0, <2>2, <2>7, <2>8, <2>9 DEF ScanOK, Right, Due
<1>12. CASE ReportMatch(s)
  <2>0. /\ frames[s] # <<>> /\ Head(frames[s]).stage = "report" /\ UNCHANGED <<memo, next>>
    BY <1>12 DEF ReportMatch, At
  <2>1. PICK f \in Frames : IsOne(s, f)
    BY <1>8, <2>0
  <2>2. /\ frames[s] = <<f>> /\ Head(frames[s]) = f /\ Tail(frames[s]) = <<>>
        /\ Outer(s) = f /\ f.rule = next[s] - 1 /\ Right(request[s], f.rule, f.val)
    BY <2>0, <2>1 DEF IsOne, OuterOK
  <2>3. PICK m \in Seen(f) :
          /\ calls' = [calls EXCEPT ![s][f.rule] = IF Reported(f.rule, m) THEN @ + 1 ELSE @]
          /\ SetTop(s, [f EXCEPT !.stage = IF Reported(f.rule, m) THEN "callback" ELSE "return"])
    BY <1>12, <2>2 DEF ReportMatch
  <2>4. f.rule \in RuleIds /\ Stored(s, f.rule) /\ ~Settled(s, f.rule)
    BY <1>0, <1>4, <2>0, <2>2 DEF Stored, Settled, Past
  <2>5. Right(request[s], f.rule, memo[f.rule]) /\ calls[s][f.rule] = 0
    BY <1>0, <1>1, <2>4 DEF ScanOK
  <2>6. Reported(f.rule, m) <=> f.rule \in PublicRules /\ f.rule \in Verdict[request[s]]
    BY <2>2, <2>3, <2>5 DEF Reported, Seen, Right
  <2>7. PICK h : h = [f EXCEPT !.stage = IF Reported(f.rule, m) THEN "callback" ELSE "return"]
    OBVIOUS
  <2>8. h.rule = f.rule /\ h.val = f.val /\ h.stage \in {"callback", "return"}
    BY <1>4, <2>7
  <2>9. frames'[s] = <<h>>
    BY <1>0, <2>2, <2>3, <2>7, Stacked DEF SetTop
  <2>10. OuterOK(s, h)'
    BY <1>1, <2>0, <2>2, <2>8 DEF OuterOK, Right
  <2>11. CallsOK(s)' /\ Outer(s)' = h /\ frames'[s] # <<>>
    BY <2>9, <2>10, OneRebuilt
  <2>12. \A r \in RuleIds : /\ Stored(s, r)' <=> Stored(s, r)
                            /\ Settled(s, r)' <=> (Settled(s, r) \/ r = f.rule)
    BY <2>0, <2>2, <2>8, <2>11 DEF Stored, Settled, Past
  <2>13. /\ calls'[s][f.rule] = Due(request[s], f.rule)
         /\ \A r \in RuleIds : r # f.rule => calls'[s][r] = calls[s][r]
    BY <1>0, <2>3, <2>4, <2>5, <2>6 DEF Due, TypeInv, TypeOK
  <2> QED BY <1>0, <1>1, <2>0, <2>4, <2>11, <2>12, <2>13 DEF ScanOK, Right, Due
<1>13. CASE CallbackReturns(s)
  <2>0. /\ frames[s] # <<>> /\ Head(frames[s]).stage = "callback" /\ UNCHANGED <<memo, calls, next>>
    BY <1>13 DEF CallbackReturns, At
  <2>1. PICK f \in Frames : IsOne(s, f)
    BY <1>8, <2>0
  <2>2. /\ frames[s] = <<f>> /\ Head(frames[s]) = f /\ Tail(frames[s]) = <<>>
        /\ Outer(s) = f /\ f.rule = next[s] - 1
    BY <2>0, <2>1 DEF IsOne, OuterOK
  <2>3. f.rule \in RuleIds /\ Right(request[s], f.rule, memo[f.rule])
    <3>1. f.rule \in RuleIds /\ Stored(s, f.rule)
      BY <1>0, <1>4, <2>0, <2>2 DEF Stored, Past
    <3> QED BY <1>0, <1>1, <3>1 DEF ScanOK
  <2>4. PICK h : h = [f EXCEPT !.stage = "return", !.val = memo[f.rule]]
    OBVIOUS
  <2>5. h.rule = f.rule /\ h.val = memo[f.rule] /\ h.stage = "return"
    BY <1>4, <2>4
  <2>6. frames'[s] = <<h>>
    BY <1>0, <1>13, <2>2, <2>4, Stacked DEF CallbackReturns, SetTop
  <2>7. OuterOK(s, h)'
    BY <1>1, <2>0, <2>2, <2>3, <2>5 DEF OuterOK, Right
  <2> QED BY <1>5, <2>0, <2>2, <2>5, <2>6, <2>7
<1>14. CASE ReturnRule(s)
  <2>0. /\ frames[s] # <<>> /\ Head(frames[s]).stage = "return" /\ UNCHANGED <<memo, calls, next>>
    BY <1>14 DEF ReturnRule, At
  <2>1. PICK m \in Seen(Head(frames[s])) : frames' = [frames EXCEPT ![s] =
                    IF Len(frames[s]) = 1 THEN <<>>
                    ELSE <<AfterLeaf(Head(Tail(frames[s])), m = "Hit")>> \o Tail(Tail(frames[s]))]
    BY <1>14 DEF ReturnRule
  <2>2. CASE \E f \in Frames : IsOne(s, f)
    <3>1. PICK f \in Frames : IsOne(s, f)
      BY <2>2
    <3>2. Len(frames[s]) = 1 /\ Outer(s).stage = "return"
      BY <2>0, <3>1 DEF IsOne
    <3>3. frames'[s] = <<>>
      BY <1>0, <2>1, <3>2
    <3>4. CallsOK(s)'
      BY <3>3 DEF CallsOK
    <3>5. \A r \in RuleIds : (Stored(s, r)' <=> Stored(s, r)) /\ (Settled(s, r)' <=> Settled(s, r))
      BY <2>0, <3>2, <3>3 DEF Stored, Settled, Past
    <3> QED BY <1>0, <1>1, <2>0, <3>4, <3>5, SameProgress
  <2>3. CASE \E f, g \in Frames : IsTwo(s, f, g)
    <3>0. PICK f \in Frames, g \in Frames : IsTwo(s, f, g)
      BY <2>3
    <3>1. /\ Head(frames[s]) = g /\ Len(frames[s]) = 2
          /\ Head(Tail(frames[s])) = f /\ Tail(Tail(frames[s])) = <<>>
          /\ Outer(s) = f /\ OuterOK(s, f) /\ InnerOK(s, f, g)
      BY <3>0 DEF IsTwo
    <3>2. g.rule \in 1 .. (f.rule - 1) /\ f.rule = next[s] - 1 /\ f.stage = "body"
      BY <3>1, LeafTyped DEF InnerOK, OuterOK
    <3>3. Right(request[s], g.rule, memo[g.rule]) /\ Right(request[s], g.rule, g.val)
      BY <1>3, <1>4, <2>0, <3>1, <3>2 DEF InnerOK
    <3>4. m = "Hit" <=> LeafOf(f).arg \in Verdict[request[s]]
      BY <2>1, <3>1, <3>3 DEF Seen, Right, InnerOK
    <3>5. Signed(LeafOf(f), m = "Hit") <=> LeafTruth(request[s], LeafOf(f))
      BY <3>1, <3>4 DEF Signed, LeafTruth, InnerOK
    <3>6. PICK h : h = AfterLeaf(f, m = "Hit")
      OBVIOUS
    <3>7. /\ h.rule = f.rule /\ h.stage \in {"body", "store"}
          /\ h.stage = "body" => Undecided(request[s], h)
          /\ h.stage = "store" => Right(request[s], h.rule, h.val)
      BY <1>1, <3>1, <3>2, <3>5, <3>6, AfterLeafRight DEF OuterOK
    <3>8. frames'[s] = <<h>>
      <4>1. Len(frames[s]) # 1
        BY <3>1
      <4>2. frames'[s] = <<AfterLeaf(Head(Tail(frames[s])), m = "Hit")>> \o Tail(Tail(frames[s]))
        BY <1>0, <2>1, <4>1, Zenon
      <4>3. frames'[s] = <<h>> \o <<>>
        BY <3>1, <3>6, <4>2, Zenon
      <4> QED BY <4>3, Stacked
    <3>9. OuterOK(s, h)'
      BY <1>1, <2>0, <3>2, <3>7 DEF OuterOK, Undecided, Right
    <3> QED BY <1>5, <2>0, <3>1, <3>2, <3>7, <3>8, <3>9
  <2> QED BY <1>0, <1>1, <2>0, <2>2, <2>3, Shape
<1> QED BY <1>2, <1>7, <1>9, <1>10, <1>11, <1>12, <1>13, <1>14 DEF EvaluateRule

LEMMA AloneNext == SizesFit /\ AloneInv /\ [Next]_vars => AloneInv'
<1> SUFFICES ASSUME SizesFit, AloneInv, [Next]_vars, NEW x \in Scanners, x \notin overlapped'
             PROVE  ScanOK(x)'
  BY TypeNext, ContextNext, PhaseNext DEF AloneInv
<1>0. TypeInv
  BY DEF AloneInv
<1>1. CASE UNCHANGED vars
  BY <1>1 DEF AloneInv, vars, ScanOK, CallsOK, OuterOK, InnerOK, Undecided, Right, Due,
     Stored, Settled, Past, Outer
<1>2. CASE \E t \in Threads, s \in Scanners, q \in Requests : Begin(t, s, q)
  BY <1>2, AloneBegin
<1>3. ASSUME NEW s \in Scanners, ScanStep(s) PROVE ScanOK(x)'
  <2>1. x \notin overlapped /\ ScanOK(x)
    BY <1>3 DEF ScanStep, AloneInv
  <2>2. CASE x = s
    BY <1>3, <2>1, <2>2, AloneScanning, AloneEvaluating DEF ScanStep
  <2>3. CASE x # s
    BY <1>0, <1>3, <2>1, <2>3, OtherStep
  <2> QED BY <2>2, <2>3
<1> QED BY <1>1, <1>2, <1>3 DEF Next

(***************************************************************************)
(* README.md:82, for every ruleset, any number of threads and callbacks    *)
(* that scan, and every request whose size hs_scan can take: a scan that   *)
(* was the only one open from its call to its end has called back exactly  *)
(* once for each public rule that holds, whatever earlier scans did: also  *)
(* after scans that threw or spoilt the memo for each other.               *)
(***************************************************************************)
THEOREM AloneReportExact ==
  ASSUME SizesFit
  PROVE  Spec => []ReportExactAlone
<1>1. AloneInv => ReportExactAlone
  BY DEF AloneInv, ScanOK, ReportExactAlone, Due
<1> QED BY <1>1, AloneInit, AloneNext, PTL DEF Spec

(***************************************************************************)
(* In such a scan the memo spares every rule function a second run: an     *)
(* evaluate_rule called from a rule function finds the result              *)
(* (evaluate_rule, ruleset.yar.cpp:237), whatever scans came before it.    *)
(***************************************************************************)
THEOREM AloneEvaluatesOnce ==
  ASSUME SizesFit
  PROVE  Spec => []NoNestedEvaluation
<1>1. AloneInv => NoNestedEvaluation
  <2> SUFFICES ASSUME AloneInv, NEW s \in Scanners \ overlapped, Len(frames[s]) > 1
               PROVE  Head(frames[s]).stage \in {"check", "return"}
    BY DEF NoNestedEvaluation
  <2>1. frames[s] \in Seq(Frames) /\ ScanOK(s)
    BY DEF AloneInv, TypeInv, TypeOK
  <2>2. frames[s] # <<>>
    BY <2>1, EmptySeq
  <2>3. Len(frames[s]) = 2 /\ InnerOK(s, frames[s][2], frames[s][1])
    BY <2>1, <2>2 DEF ScanOK, CallsOK
  <2>4. Head(frames[s]) = frames[s][1]
    BY <2>1, <2>3, TwoCalls
  <2> QED BY <2>3, <2>4 DEF InnerOK
<1> QED BY <1>1, AloneInit, AloneNext, PTL DEF Spec
-----------------------------------------------------------------------------
(***************************************************************************)
(* And now clients that never have two scans open: from one thread and     *)
(* from no callback, or from as many threads as they like that take turns. *)
(***************************************************************************)
NoOverlap == overlapped = {}

(***************************************************************************)
(* README.md:82, for a client that never has two scans open, on however    *)
(* many threads: every scan that ends normally has reported exactly the    *)
(* public rules that hold, whatever earlier scans did: also after one that *)
(* threw, and with scanners used in any order.                             *)
(***************************************************************************)
THEOREM TurnsReportExact ==
  ASSUME SizesFit
  PROVE  Spec /\ []NoOverlap => []ReportExact
<1>1. ReportExactAlone /\ NoOverlap => ReportExact
  BY DEF ReportExactAlone, NoOverlap, ReportExact
<1> QED BY <1>1, AloneReportExact, PTL

\* A client with one thread, whose callbacks do not scan, is such a client.
OneScanAtATime == (\E t : Threads = {t}) /\ MaxDepth = 1

OneOpen ==
  /\ NoOverlap
  /\ \A s \in Scanners : pc[s] # "idle" => \A t \in Threads : stack[t] = <<s>>

LEMMA OneOpenNext ==
  ASSUME OneScanAtATime, TypeInv, OneOpen, [Next]_vars
  PROVE  OneOpen'
<1> PICK t : Threads = {t}
  BY DEF OneScanAtATime
<1>0. stack \in [Threads -> Seq(Scanners)] /\ pc \in [Scanners -> Phases]
  BY DEF TypeInv, TypeOK
<1>1. ASSUME NEW s \in Scanners, NEW q \in Requests, Begin(t, s, q) PROVE OneOpen'
  <2>1. stack[t] = <<>>
    <3>1. stack[t] \in Seq(Scanners) /\ Len(stack[t]) < 1
      BY <1>0, <1>1 DEF Begin, MayCall, OneScanAtATime
    <3> QED BY <3>1, EmptySeq
  <2>2. \A x \in Scanners : pc[x] = "idle"
    BY <2>1, Stacked DEF OneOpen
  <2>3. stack'[t] = <<s>>
    BY <1>0, <1>1, <2>1, Stacked DEF Begin
  <2>4. overlapped' = {}
    BY <1>1, <2>2 DEF Begin, Open, OneOpen, NoOverlap
  <2>5. \A x \in Scanners : pc'[x] # "idle" => x = s
    BY <1>0, <1>1, <2>2 DEF Begin
  <2> QED BY <2>3, <2>4, <2>5 DEF OneOpen, NoOverlap
<1>2. ASSUME NEW s \in Scanners, ScanStep(s) PROVE OneOpen'
  <2>1. pc[s] # "idle" /\ overlapped' = {}
    BY <1>2 DEF ScanStep, ResetRule, ScanLiterals, ScanRegexes, NoCuckoo, AbortInJson,
       UnreadableCuckoo, ScanMutexes, Publish, EnterRule, FinishScan, EvaluateRule, CheckMemo,
       TestContext, CallRule, StoreMemo, ReportMatch, CallbackReturns, ReturnRule, At, OneOpen, NoOverlap
  <2>2. \A x \in Scanners : x # s => pc[x] = "idle"
    <3>1. \A x \in Scanners : x # s => <<x>> # <<s>>
      BY Stacked, Zenon
    <3> QED BY <2>1, <3>1 DEF OneOpen
  <2>3. CASE UNCHANGED stack /\ \A x \in Scanners : x # s => pc'[x] = pc[x]
    BY <2>1, <2>2, <2>3 DEF OneOpen, NoOverlap
  <2>4. CASE \E how \in {"ok", "threw"} : Leave(s, how)
    <3>1. \A x \in Scanners : pc'[x] = "idle"
      BY <1>0, <2>2, <2>4 DEF Leave
    <3> QED BY <2>1, <3>1 DEF OneOpen, NoOverlap
  <2>5. CASE ResetRule(s) \/ NoCuckoo(s) \/ AbortInJson(s) \/ Publish(s) \/ EnterRule(s) \/ EvaluateRule(s)
    <3>1. UNCHANGED stack /\ \A x \in Scanners : x # s => pc'[x] = pc[x]
      BY <1>0, <2>5 DEF ResetRule, NoCuckoo, AbortInJson, Publish, EnterRule, EvaluateRule, CheckMemo,
         TestContext, CallRule, StoreMemo, ReportMatch, CallbackReturns, ReturnRule
    <3> QED BY <2>3, <3>1
  <2>6. CASE ScanLiterals(s) \/ ScanRegexes(s) \/ UnreadableCuckoo(s) \/ ScanMutexes(s) \/ FinishScan(s)
    <3>1. \/ \E how \in {"ok", "threw"} : Leave(s, how)
          \/ UNCHANGED stack /\ \A x \in Scanners : x # s => pc'[x] = pc[x]
      BY <1>0, <2>6 DEF ScanLiterals, ScanRegexes, UnreadableCuckoo, ScanMutexes, FinishScan,
         HsScan, SkipScan
    <3> QED BY <2>3, <2>4, <3>1
  <2> QED BY <1>2, <2>5, <2>6 DEF ScanStep
<1>3. CASE UNCHANGED vars
  BY <1>3 DEF vars, OneOpen, NoOverlap
<1> QED BY <1>1, <1>2, <1>3 DEF Next

LEMMA SequentialTakesTurns ==
  ASSUME OneScanAtATime
  PROVE  Spec => []NoOverlap
<1>1. Init => OneOpen
  BY DEF Init, OneOpen, NoOverlap
<1>2. TypeInv /\ OneOpen /\ [Next]_vars => OneOpen'
  BY OneOpenNext
<1>3. OneOpen => NoOverlap
  BY DEF OneOpen
<1> QED BY <1>1, <1>2, <1>3, TypeInit, TypeNext, PTL DEF Spec

(***************************************************************************)
(* In particular: with one thread, and callbacks that do not scan, every   *)
(* scan reports exactly the public rules that hold.                        *)
(***************************************************************************)
COROLLARY SequentialReportExact ==
  ASSUME OneScanAtATime, SizesFit
  PROVE  Spec => []ReportExact
  BY TurnsReportExact, SequentialTakesTurns, PTL
-----------------------------------------------------------------------------
(***************************************************************************)
(* ScanRuntime implements ScanService for a client that never has two      *)
(* scans open: Begin asks, ReportMatch tells, FinishScan answers, the steps *)
(* that throw or abort fail, and every other step is a stutter.            *)
(***************************************************************************)
TurnsInv == AloneInv /\ NoOverlap

\* A scanner that takes a step is asked for, and nobody else is.
LEMMA Active ==
  ASSUME TurnsInv, NEW s \in Scanners, Running(s), pc[s] # "idle"
  PROVE  outcome[s] = "running" /\ ScanOK(s) /\ TypeInv
  BY DEF TurnsInv, NoOverlap, AloneInv, PhaseInv, PhaseOf, Running, Alive, TypeInv, TypeOK,
     Outcomes

LEMMA BeginAsks ==
  ASSUME TurnsInv, NoOverlap', NEW t \in Threads, NEW s \in Scanners,
         NEW q \in Requests, Begin(t, s, q)
  PROVE  Service!Ask(s, q)
<1>1. Open(s) = {} /\ pc[s] = "idle"
  BY DEF Begin, NoOverlap
<1>2. \A x \in Scanners : pc[x] = "idle"
  BY <1>1 DEF Open
<1>3. \A x \in Scanners : outcome[x] \notin {"running", "aborted"}
  BY <1>2 DEF TurnsInv, AloneInv, PhaseInv, PhaseOf
<1> QED BY <1>3 DEF Service!Ask, Service!Untold, Begin, RuleIds

\* Before its rules are evaluated a scan may fail, having told nothing.
LEMMA ThrowFails ==
  ASSUME TurnsInv, NEW s \in Scanners, Running(s),
         pc[s] \in {"reset", "regex", "cuckoo"}, NEW how \in {"threw", "aborted"},
         outcome' = [outcome EXCEPT ![s] = how], UNCHANGED <<request, calls>>
  PROVE  Service!Fail(s)
<1>1. outcome[s] = "running" /\ calls[s] = [r \in RuleIds |-> 0]
  BY Active DEF ScanOK
<1> QED BY <1>1 DEF Service!Fail, Service!Untold, RuleIds

\* A call of the callback tells a rule that is due, after those before it.
LEMMA ReportTells ==
  ASSUME TurnsInv, NEW s \in Scanners, ReportMatch(s)
  PROVE  (\E r \in RuleIds : Service!Tell(s, r)) \/ UNCHANGED <<request, calls, outcome>>
<1>1. /\ TypeInv /\ ScanOK(s) /\ pc[s] = "rules" /\ frames[s] # <<>> /\ outcome[s] = "running"
      /\ Head(frames[s]).stage = "report"
  BY Active DEF ReportMatch, At
<1>2. PICK f \in Frames : IsOne(s, f)
  BY <1>1, Shape DEF IsTwo, InnerOK
<1> DEFINE r == f.rule
           q == request[s]
<1>3. /\ r \in RuleIds /\ r = next[s] - 1 /\ f.stage = "report" /\ Right(q, r, f.val)
      /\ Head(frames[s]) = f
  BY <1>1, <1>2 DEF IsOne, OuterOK, Frames
<1>4. /\ Stored(s, r) /\ ~Settled(s, r)
      /\ \A e \in RuleIds : e < r => Settled(s, e)
  BY <1>1, <1>2, <1>3 DEF Stored, Settled, Past, IsOne, TypeInv, TypeOK, RuleIds
<1>5. /\ Right(q, r, memo[r]) /\ calls[s][r] = 0
      /\ \A e \in RuleIds : e < r => calls[s][e] = Due(q, e)
  BY <1>1, <1>3, <1>4 DEF ScanOK
<1>6. PICK m \in {f.val, memo[r]} :
        calls' = [calls EXCEPT ![s][r] = IF Reported(r, m) THEN @ + 1 ELSE @]
  BY <1>3 DEF ReportMatch, Seen
<1>7. UNCHANGED <<request, outcome>> /\ calls \in [Scanners -> [RuleIds -> Nat]]
  BY <1>1 DEF ReportMatch, TypeInv, TypeOK
<1>8. CASE Reported(r, m)
  <2>1. r \in PublicRules \cap Verdict[q]
    BY <1>3, <1>5, <1>6, <1>8 DEF Reported, Right
  <2>2. calls' = [calls EXCEPT ![s][r] = 1]
    BY <1>3, <1>5, <1>6, <1>7, <1>8
  <2>3. \A e \in PublicRules \cap Verdict[q] : e < r => calls[s][e] = 1
    BY <1>5, RulesAssumption DEF Due
  <2>4. Service!Tell(s, r)
    BY <1>1, <1>5, <1>7, <2>1, <2>2, <2>3 DEF Service!Tell, Service!Due
  <2> QED BY <1>3, <2>4
<1>9. CASE ~Reported(r, m)
  BY <1>3, <1>6, <1>7, <1>9
<1> QED BY <1>8, <1>9

LEMMA FinishAnswers ==
  ASSUME TurnsInv, NEW s \in Scanners, FinishScan(s)
  PROVE  Service!Answer(s)
<1>1. /\ TypeInv /\ ScanOK(s) /\ pc[s] = "rules" /\ outcome[s] = "running"
      /\ frames[s] = <<>> /\ next[s] > NumRules
  BY Active DEF FinishScan
<1>2. \A r \in RuleIds : Settled(s, r)
  BY <1>1, RulesAssumption DEF Settled, Past, RuleIds, TypeInv, TypeOK
<1>3. \A r \in PublicRules \cap Verdict[request[s]] : calls[s][r] = 1
  BY <1>1, <1>2, RulesAssumption DEF ScanOK, Due
<1> QED BY <1>1, <1>3 DEF Service!Answer, Service!Due, FinishScan, Leave

LEMMA StepServes ==
  ASSUME TurnsInv, NoOverlap', [Next]_vars
  PROVE  [Service!Next]_(Service!service)
<1>1. ASSUME NEW t \in Threads, NEW s \in Scanners, NEW q \in Requests, Begin(t, s, q)
      PROVE  Service!Next
  BY <1>1, BeginAsks DEF Service!Next
<1>2. ASSUME NEW s \in Scanners, ScanStep(s) PROVE [Service!Next]_(Service!service)
  <2>1. CASE ReportMatch(s)
    BY <2>1, ReportTells DEF Service!Next, Service!service, RuleIds
  <2>2. CASE FinishScan(s)
    BY <2>2, FinishAnswers DEF Service!Next
  <2>3. CASE AbortInJson(s)
    <3>1. Service!Fail(s)
      BY <2>3, ThrowFails DEF AbortInJson
    <3> QED BY <3>1 DEF Service!Next
  <2>4. CASE UNCHANGED <<request, calls, outcome>>
    BY <2>4 DEF Service!service
  <2>5. CASE ScanLiterals(s) \/ ScanRegexes(s) \/ UnreadableCuckoo(s) \/ ScanMutexes(s)
    <3>1. /\ Running(s) /\ pc[s] \in {"reset", "regex", "cuckoo"} /\ UNCHANGED <<request, calls>>
          /\ UNCHANGED outcome \/ outcome' = [outcome EXCEPT ![s] = "threw"]
      BY <2>5 DEF ScanLiterals, ScanRegexes, UnreadableCuckoo, ScanMutexes, HsScan, SkipScan,
         Leave
    <3>2. UNCHANGED outcome \/ Service!Fail(s)
      BY <3>1, ThrowFails
    <3> QED BY <2>4, <3>1, <3>2 DEF Service!Next
  <2>6. CASE \/ ResetRule(s) \/ NoCuckoo(s) \/ Publish(s) \/ EnterRule(s) \/ CheckMemo(s)
             \/ TestContext(s) \/ CallRule(s) \/ StoreMemo(s) \/ CallbackReturns(s)
             \/ ReturnRule(s)
    BY <2>4, <2>6 DEF ResetRule, NoCuckoo, Publish, EnterRule, CheckMemo, TestContext, CallRule,
       StoreMemo, CallbackReturns, ReturnRule
  <2> QED BY <1>2, <2>1, <2>2, <2>3, <2>5, <2>6 DEF ScanStep, EvaluateRule
<1>3. CASE UNCHANGED vars
  BY <1>3 DEF vars, Service!service
<1> QED BY <1>1, <1>2, <1>3 DEF Next

(***************************************************************************)
(* The runtime of ruleset.yar.cpp keeps the promises of ScanService to     *)
(* clients that never have two scans open, on however many threads, and    *)
(* whose buffers are shorter than hs_scan can take: rules are told once    *)
(* each and in the order of the file, and a scan that throws or aborts the *)
(* process has told none.                                                  *)
(***************************************************************************)
THEOREM ServiceForTurns ==
  ASSUME SizesFit
  PROVE  Spec /\ []NoOverlap => ServiceKept
<1>1. Init => Service!Init
  BY DEF Init, Service!Init, Service!Untold, RuleIds
<1>2. AloneInv /\ NoOverlap /\ NoOverlap' /\ [Next]_vars => [Service!Next]_(Service!service)
  BY StepServes DEF TurnsInv
<1> QED BY <1>1, <1>2, AloneInit, AloneNext, PTL DEF Spec, ServiceKept, Service!Spec

(***************************************************************************)
(* In particular to a client with one thread whose callbacks do not scan.  *)
(***************************************************************************)
COROLLARY ServiceImplemented ==
  ASSUME OneScanAtATime, SizesFit
  PROVE  Spec => ServiceKept
  BY ServiceForTurns, SequentialTakesTurns, PTL
=============================================================================
