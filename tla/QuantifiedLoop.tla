---------------------------- MODULE QuantifiedLoop ----------------------------
(***************************************************************************)
(* The quantifiers of a condition: `2 of them`, `for any of them : (...)`, *)
(* `for all i in (1, 2, 3) : (...)`, `for all i in (low .. high) : (...)`. *)
(* Codegen turns the quantifier into a count; loop, loop_ints, loop_range  *)
(* and of (scripts/ruleset.yar.cpp) evaluate the body for one item after   *)
(* the other and stop as soon as the answer is known.  Their arithmetic is *)
(* that of std::uint64_t.                                                  *)
(***************************************************************************)
EXTENDS MachineWords, FiniteSets

CONSTANT Calls  \* quantified expressions, see CallType

(***************************************************************************)
(* A set of `high` strings or integers is visited by position, with low =  *)
(* 0; a range is the integers low .. high - 1.  holds are the items whose  *)
(* body is true.  A quantifier that is neither any, all nor a literal, as  *)
(* in `for (#a + 1) i in ...`, is "other".                                 *)
(***************************************************************************)
CallType ==
  [over : {"set", "range"}, low : Words, high : Words, holds : SUBSET Words,
   quantifier : {"any", "all", "literal", "other"}, value : Words]

ASSUME CallsAssumption ==
  Calls \subseteq CallType /\ \A c \in Calls : c.over = "set" => c.low = 0

Least(a, b) == IF a < b THEN a ELSE b
Greatest(a, b) == IF a < b THEN b ELSE a

\* The number of items, as far as the code generator knows it.
TotalCount(c) == IF c.over = "set" THEN c.high ELSE WordSize - 1

\* Mutant: a literal is not cut to the number of items.
UncutCount(c) ==
  CASE c.quantifier = "any" -> 1
    [] c.quantifier = "all" -> TotalCount(c)
    [] c.quantifier = "literal" -> Greatest(1, c.value)
    [] c.quantifier = "other" -> 0

\* count in visit(OfExpression*), visit(ForStringExpression*) and
\* visit(ForArrayExpression*)
Count(c) ==
  CASE c.quantifier = "any" -> 1
    [] c.quantifier = "all" -> TotalCount(c)
    [] c.quantifier = "literal" -> Greatest(1, Least(TotalCount(c), c.value))
    [] c.quantifier = "other" -> 0

VARIABLES
  call,       \* the expression being evaluated
  pc,
  n,          \* parameter n
  tolerance,
  i,          \* the item the loop is at
  index, hits,
  result

vars == <<call, pc, n, tolerance, i, index, hits, result>>

Init ==
  /\ call \in Calls
  /\ pc = "enter"
  /\ n = Count(call)
  /\ tolerance = 0 /\ i = call.low /\ index = 0 /\ hits = 0
  /\ result = FALSE

\* n = std::min(n, high), in loop_range only.
CutToRange(c, k) == IF c.over = "range" THEN Least(k, c.high) ELSE k

\* Mutant: tolerance is a signed number.
EnterSigned ==
  /\ pc = "enter"
  /\ n' = CutToRange(call, n)
  /\ tolerance' = call.high - call.low - CutToRange(call, n)
  /\ pc' = "loop"
  /\ UNCHANGED <<call, i, index, hits, result>>

Enter ==
  /\ pc = "enter"
  /\ n' = CutToRange(call, n)
  /\ tolerance' = Minus(Minus(call.high, call.low), CutToRange(call, n))
  /\ pc' = "loop"
  /\ UNCHANGED <<call, i, index, hits, result>>

Return(value) ==
  /\ pc' = "done"
  /\ result' = value

\* Mutant: the loop gives up one miss early.
HopelessEarly == Minus(index, hits) >= tolerance

\* Mutant: the loop never gives up.
HopelessNever == FALSE

\* if (index - hits > tolerance)
Hopeless == Minus(index, hits) > tolerance

GiveUp ==
  /\ pc = "loop" /\ i < call.high /\ Hopeless
  /\ Return(FALSE)
  /\ UNCHANGED <<call, n, tolerance, i, index, hits>>

Hit ==
  /\ pc = "loop" /\ i < call.high /\ ~Hopeless
  /\ i \in call.holds
  /\ hits' = hits + 1
  /\ \/ hits + 1 = n /\ Return(TRUE) /\ UNCHANGED <<i, index>>
     \/ hits + 1 # n /\ i' = i + 1 /\ index' = index + 1 /\ UNCHANGED <<pc, result>>
  /\ UNCHANGED <<call, n, tolerance>>

\* Mutant: an item whose body is false is tried again.
MissAgain ==
  /\ pc = "loop" /\ i < call.high /\ ~Hopeless
  /\ i \notin call.holds
  /\ UNCHANGED vars

Miss ==
  /\ pc = "loop" /\ i < call.high /\ ~Hopeless
  /\ i \notin call.holds
  /\ i' = i + 1 /\ index' = index + 1
  /\ UNCHANGED <<call, pc, n, tolerance, hits, result>>

RunOut ==
  /\ pc = "loop" /\ i >= call.high
  /\ Return(FALSE)
  /\ UNCHANGED <<call, n, tolerance, i, index, hits>>

Next == Enter \/ GiveUp \/ Hit \/ Miss \/ RunOut

Spec == Init /\ [][Next]_vars

\* A loop runs on the thread of the scan, without waiting.
FairSpec == Spec /\ WF_vars(Next)
-----------------------------------------------------------------------------
Items(c) == {k \in Words : c.low <= k /\ k < c.high}

TypeOK ==
  /\ call \in CallType
  /\ pc \in {"enter", "loop", "done"}
  /\ n \in Words /\ tolerance \in Words /\ i \in Words \cup {WordSize}
  /\ index \in Words /\ hits \in Words
  /\ result \in BOOLEAN

(***************************************************************************)
(* Stopping early, and the wrap-around of tolerance when n is more than    *)
(* the items there are, never change the answer: a loop is true exactly    *)
(* when the body is true for at least n items, n not being 0.  In loop and *)
(* loop_ints n is the count of the code generator; loop_range cuts it to   *)
(* high (ruleset.yar.cpp:133-201).                                         *)
(***************************************************************************)
ResultExact ==
  pc = "done" =>
    LET wanted == CutToRange(call, Count(call))
    IN  result = (wanted # 0 /\ Cardinality(Items(call) \cap call.holds) >= wanted)

\* `k of (...)` and `for k ... of (...)`: a literal above the number of items
\* asks for all of them, and 0 for one (codegen.hpp:134-135).
LiteralIsCut ==
  pc = "done" /\ call.over = "set" /\ call.quantifier = "literal" /\ call.high > 0 =>
    LET held == Items(call) \cap call.holds
    IN  result = IF call.value = 0 THEN held # {}
                 ELSE Cardinality(held) >= call.value \/ held = Items(call)

\* The items before k whose body is true, and the n of the loop.
Held(c, k) == {j \in Items(c) \cap c.holds : j < k}
Wanted(c) == CutToRange(c, Count(c))

\* At item k the answer is open: n is not reached, and can be.
OpenAt(c, k) ==
  LET held == Cardinality(Held(c, k))
  IN  held < Wanted(c) /\ held + (c.high - k) >= Wanted(c)

\* The items whose body a loop that has returned evaluated.
Evaluated == {k \in Items(call) : k < i \/ (k = i /\ result)}

(***************************************************************************)
(* The body of an item is evaluated exactly when the answer is still open  *)
(* at that item.  This is so when n is reachable at all: an answer that is *)
(* decided from the start, because n is 0 or more than the items there are *)
(* (tolerance wraps around), is computed by evaluating every item          *)
(* (ruleset.yar.cpp:133-201).                                              *)
(***************************************************************************)
EvaluatedWhileOpen ==
  pc = "done" =>
    Evaluated = IF Wanted(call) \in 1 .. Cardinality(Items(call))
                THEN {k \in Items(call) : OpenAt(call, k)} ELSE Items(call)

\* Every loop ends, also when tolerance has wrapped around.
LoopEnds == <>(pc = "done")

\* `for all i in (low .. high)` is true when the body is true for every item.
AllMeansEvery ==
  pc = "done" /\ call.quantifier = "all" /\ Items(call) # {} =>
    result = (Items(call) \subseteq call.holds)
=============================================================================
