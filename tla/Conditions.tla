------------------------------ MODULE Conditions ------------------------------
(***************************************************************************)
(* The condition of a rule, as Codegen prints it and as the C++ compiler   *)
(* reads it back.  Codegen visits the tree yaramod's parser built and      *)
(* prints operands and operators in the order of the rule's text; it adds  *)
(* no parentheses, and YARA and C++ do not group operators alike.  Text is *)
(* the printed tokens, Value what C++ makes of them with the helpers of    *)
(* scripts/ruleset.yar.cpp on std::uint64_t, Meaning what YARA says the    *)
(* condition is.  A quantifier at the top of a condition runs as the loop  *)
(* of QuantifiedLoop.                                                      *)
(***************************************************************************)
EXTENDS QuantifiedLoop, ScanReads, Integers

CONSTANTS
  Exprs,          \* the conditions, with all that they are made of
  Depth,          \* how deep the operands of each of them are nested
  MaxDepth,
  StringCount,    \* how many strings and mutexes the databases report
  MutexCount,
  VariableNames,  \* of the variables of loops over integers
  BitAnd(_, _),   \* & and ^ of words
  BitXor(_, _)

(***************************************************************************)
(* A node has an operator, operands, and where the operator needs them a   *)
(* name and a number.  The operands of a loop are its body and its items.  *)
(* A string is named by its number, or `$`.                                *)
(***************************************************************************)
Node(op, args, name, val) == [op |-> op, args |-> args, name |-> name, val |-> val]

Comparing == {"==", "!=", "<", "<=", ">", ">="}
Binary == {"or", "and", "^", "&", "+", "-", "*", "%"} \cup Comparing
Leaves == {"int", "var", "id", "filesize", "mutex", "string", "count"}
OverStrings == {"of", "for strings"}
OverIntegers == {"for ints", "for range"}
Loops == OverStrings \cup OverIntegers

\* What yaramod's parser makes sure of in each node.
WellFormed(e) ==
  /\ e.op \in Binary \cup Leaves \cup Loops \cup {"not", "paren", "offset", "length", "at", "in", "read"}
  /\ e.op \in Binary \cup {"in"} => Len(e.args) = 2
  /\ e.op \in {"not", "paren", "at", "read"} => Len(e.args) = 1
  /\ e.op \in Leaves => e.args = <<>>
  /\ e.op \in {"offset", "length"} => Len(e.args) <= 1
  /\ e.op = "int" => e.val \in Words
  /\ e.op = "id" => e.val \in 0 .. StringCount - 1
  /\ e.op = "mutex" => e.val \in 0 .. MutexCount - 1
  /\ e.op \in {"string", "count", "offset", "length", "at", "in"} => e.name = "$" \/ e.val \in 0 .. StringCount - 1
  /\ e.op = "read" => e.val \in {1, 2, 4} /\ e.name \in {"le", "be"} /\ e.signed \in BOOLEAN
  /\ e.op \in {"var"} \cup OverIntegers => e.name \in VariableNames
  /\ e.op \in Loops => /\ e.quantifier \in {"any", "all", "literal", "other"} /\ e.val \in Words
                       /\ Len(e.args) \in 1 .. WordSize
  /\ e.op \in OverStrings => \A k \in 2 .. Len(e.args) : e.args[k].op = "id"
  /\ e.op = "for range" => Len(e.args) = 3

ASSUME ExprsAssumption ==
  /\ MaxDepth \in Nat /\ Depth \in [Exprs -> 0 .. MaxDepth]
  /\ \A e \in Exprs : /\ e.args \in Seq(Exprs) /\ WellFormed(e)
                      /\ \A k \in DOMAIN e.args : Depth[e.args[k]] < Depth[e]
ASSUME BitsAssumption == \A a, b \in Words : BitAnd(a, b) \in Words /\ BitXor(a, b) \in Words
\* A word has four bytes and more, and there are fewer strings than words.
ASSUME ConditionSizes ==
  /\ ByteSize \in Nat \ {0} /\ ByteSize * ByteSize * ByteSize * ByteSize <= WordSize
  /\ StringCount \in 0 .. WordSize /\ MutexCount \in Nat
  /\ "$" \notin VariableNames

\* The nodes of a condition, and the variables (and `$`) that are bound around it.
Nodes[e \in Exprs] == {e} \cup UNION {Nodes[e.args[k]] : k \in DOMAIN e.args}

Bound(e) == IF e.op \in OverStrings THEN {"$"} ELSE IF e.op \in OverIntegers THEN {e.name} ELSE {}
Free[e \in Exprs] ==
  (IF e.op = "var" \/ e.name = "$" THEN {e.name} ELSE {})
    \cup UNION {Free[e.args[k]] \ (IF k = 1 THEN Bound(e) ELSE {}) : k \in DOMAIN e.args}

\* How tightly operators bind: in the grammar of YARA, and in that of C++.
YaraLevel(op) ==
  CASE op = "or" -> 1 [] op = "and" -> 2 [] op = "not" -> 3
    [] op \in {"==", "!="} -> 4 [] op \in {"<", "<=", ">", ">="} -> 5
    [] op = "^" -> 6 [] op = "&" -> 7
    [] op \in {"+", "-"} -> 8 [] op \in {"*", "%"} -> 9 [] OTHER -> 10
CxxLevel(op) ==
  CASE op = "or" -> 1 [] op = "and" -> 2 [] op = "^" -> 3 [] op = "&" -> 4
    [] op \in {"==", "!="} -> 5 [] op \in {"<", "<=", ">", ">="} -> 6
    [] op \in {"+", "-"} -> 7 [] op \in {"*", "%"} -> 8

\* The tree that the grammar of YARA gives the text of e.
GroupedByYara(e) ==
  \A s \in Nodes[e] :
    /\ s.op \in Binary => /\ YaraLevel(s.args[1].op) >= YaraLevel(s.op)
                          /\ YaraLevel(s.args[2].op) > YaraLevel(s.op)
    /\ s.op = "not" => YaraLevel(s.args[1].op) >= YaraLevel("not")

\* Every rule has a condition that is a tree of YARA's grammar, and uses its
\* own strings, its own variables, and `$` in loops over strings.
ASSUME ConditionsAssumption ==
  \A r \in Rules :
    /\ r.condition \in Exprs /\ GroupedByYara(r.condition) /\ Free[r.condition] = {}
    /\ Len(r.matches) = StringCount /\ Len(r.mutexes) = MutexCount
-----------------------------------------------------------------------------
(***************************************************************************)
(* The tokens the visitors write: an operator, a number, or an operand     *)
(* that is a variable, parentheses or the call of a helper.                *)
(***************************************************************************)
Operator(op) == [token |-> "operator", op |-> op]
Number(v) == [token |-> "number", val |-> v]
Operand(e) == [token |-> "operand", of |-> e]

Text[e \in Exprs] ==
  CASE e.op = "!=" -> Text[e.args[1]] \o <<Operator("==")>> \o Text[e.args[2]]
    [] e.op \in Binary \ {"!="} -> Text[e.args[1]] \o <<Operator(e.op)>> \o Text[e.args[2]]
    [] e.op = "not" -> <<Operator("not")>> \o Text[e.args[1]]
    [] e.op = "mutex" -> <<Operand(e), Operator(">"), Number(0)>>
    [] e.op = "int" -> <<Number(e.val)>>
    [] OTHER -> <<Operand(e)>>

\* Mutant: the index is printed as it is in the rule.
IndexTextUnshifted(e) == Text[e]

\* index_expr->accept(this); _out << " - 1ul";
\* An index counts from 1 in YARA and from 0 in the vectors of a Match.
IndexText(e) == Text[e] \o <<Operator("-"), Number(1)>>

\* The C++ operators on std::uint64_t.  % has no defined result for 0.
Apply(op, a, b) ==
  CASE op = "or" -> Bool(a # 0 \/ b # 0)
    [] op = "and" -> Bool(a # 0 /\ b # 0)
    [] op = "^" -> BitXor(a, b)
    [] op = "&" -> BitAnd(a, b)
    [] op \in Comparisons -> Compare(op, a, b)
    [] op = "+" -> Plus(a, b)
    [] op = "-" -> Minus(a, b)
    [] op = "*" -> (a * b) % WordSize
    [] op = "%" -> a % b

(***************************************************************************)
(* What C++ makes of operators and the values of operands: the loosest     *)
(* operator is applied last, of several the rightmost; ! binds its operand *)
(* before any of them.                                                     *)
(***************************************************************************)
Atoms == [op : Binary \cup {"not", "value"}, val : Words]

ReadBack[atoms \in Seq(Atoms)] ==
  LET ops == {k \in DOMAIN atoms : atoms[k].op \in Binary}
      loosest == {k \in ops : \A j \in ops : CxxLevel(atoms[k].op) <= CxxLevel(atoms[j].op)}
      at == CHOOSE k \in loosest : \A j \in loosest : j <= k
  IN  IF ops # {}
        THEN Apply(atoms[at].op, ReadBack[SubSeq(atoms, 1, at - 1)],
                                 ReadBack[SubSeq(atoms, at + 1, Len(atoms))])
      ELSE IF Len(atoms) > 1 THEN Bool(ReadBack[Tail(atoms)] = 0)
      ELSE atoms[1].val

(***************************************************************************)
(* Where an expression is evaluated: the rule, the loop variables with     *)
(* their values (_loop_vars and the tuple `vars`), the parameter `id` of   *)
(* the innermost body, and the string of the innermost loop over strings.  *)
(***************************************************************************)
Envs == [rule : Rules, vars : Seq([name : VariableNames, val : Words]), id : Words, string : Words]
Top(r) == [rule |-> r, vars |-> <<>>, id |-> 0, string |-> 0]

\* `$` and `@` are printed as `id`, other strings as their number.
StringIn(e, id) == IF e.name = "$" THEN id ELSE e.val
\* yaramod refuses a loop whose variable is bound already, so a name has one place.
Variable(env, name) == env.vars[CHOOSE k \in DOMAIN env.vars : env.vars[k].name = name].val

\* The environment of the body for one item.
ItemEnv(e, env, item) ==
  IF e.op \in OverStrings THEN [env EXCEPT !.id = item, !.string = item]
  ELSE [env EXCEPT !.id = item, !.vars = Append(@, [name |-> e.name, val |-> item])]

ItemOf(e, items, p) == IF e.op = "for range" THEN p ELSE items[p + 1]

\* The answer of a call: what ResultExact states of the loop.
Answer(c) ==
  LET wanted == CutToRange(c, Count(c))
  IN  wanted # 0 /\ Cardinality(Items(c) \cap c.holds) >= wanted
-----------------------------------------------------------------------------
\* The value of a text, given the values of its operands.
AtomOf(t, env, operands) ==
  CASE t.token = "operator" -> [op |-> t.op, val |-> 0]
    [] t.token = "number" -> [op |-> "value", val |-> t.val]
    [] t.token = "operand" -> [op |-> "value", val |-> operands[t.of][env]]
TextValue(text, env, operands) == ReadBack[[k \in DOMAIN text |-> AtomOf(text[k], env, operands)]]

\* The call of loop, loop_ints, loop_range or of printed for e: its items are
\* the values of its ids, integers or bounds.
LoopCall(e, env, operands) ==
  LET items == [k \in 1 .. Len(e.args) - 1 |-> TextValue(Text[e.args[k + 1]], env, operands)]
      low == IF e.op = "for range" THEN items[1] ELSE 0
      high == IF e.op = "for range" THEN items[2] ELSE Len(items)
      body(p) == TextValue(Text[e.args[1]], ItemEnv(e, env, ItemOf(e, items, p)), operands)
  IN  [over |-> IF e.op = "for range" THEN "range" ELSE "set", low |-> low, high |-> high,
       holds |-> {p \in low .. high - 1 : body(p) # 0},
       quantifier |-> e.quantifier, value |-> e.val]

\* The value of a single operand.
OperandValue(e, env, operands) ==
  LET r == env.rule
      id == StringIn(e, env.id)
      position == IF e.args = <<>> THEN 0 ELSE TextValue(IndexText(e.args[1]), env, operands)
      arg(k) == TextValue(Text[e.args[k]], env, operands)
  IN  CASE e.op = "var" -> Variable(env, e.name)
        [] e.op = "paren" -> arg(1)
        [] e.op = "id" -> e.val
        [] e.op = "filesize" -> Len(r.data)
        [] e.op = "mutex" -> r.mutexes[e.val + 1]
        [] e.op = "string" -> Bool(Occurrences(r, id) # <<>>)
        [] e.op = "count" -> Len(Occurrences(r, id))
        [] e.op = "offset" -> Entry(Offsets(r, id), position)
        [] e.op = "length" -> Entry(Lengths(r, id), position)
        [] e.op = "at" -> Bool(\E k \in DOMAIN Offsets(r, id) : Offsets(r, id)[k] = arg(1))
        [] e.op = "in" -> Bool(\E k \in DOMAIN Offsets(r, id) :
                                 arg(1) <= Offsets(r, id)[k] /\ Offsets(r, id)[k] < arg(2))
        [] e.op = "read" -> ReadData(r.data, arg(1), e.val, e.name)
        [] e.op \in Loops -> Bool(Answer(LoopCall(e, env, operands)))

Primary[e \in Exprs] == [env \in Envs |-> OperandValue(e, env, Primary)]

Value(e, env) == TextValue(Text[e], env, Primary)
CallOf(e, env) == LoopCall(e, env, Primary)
-----------------------------------------------------------------------------
(***************************************************************************)
(* The meaning of a condition in YARA: <<v>>, or <<>> when it is undefined *)
(* or an integer that is no word, as a difference below 0.  The upper      *)
(* bounds of `in (low .. high)` and `for ... in (low .. high)` are read as *)
(* the code reads them, as the first position that is not meant.           *)
(***************************************************************************)
InWord(v) == IF v \in Words THEN <<v>> ELSE <<>>
Defined(test) == <<Bool(test)>>

BinaryMeaning(op, a, b) ==
  CASE op = "+" -> InWord(a + b)
    [] op = "-" -> InWord(a - b)
    [] op = "*" -> InWord(a * b)
    [] op = "%" -> IF b = 0 THEN <<>> ELSE <<a % b>>
    [] op = "!=" -> Defined(a # b)
    [] OTHER -> <<Apply(op, a, b)>>

\* Signed reads of a value with its top bit set are below 0.
ReadMeaning(data, offset, e) ==
  LET bytes == SubSeq(data, offset + 1, offset + e.val)
      v == Loaded(IF e.name = "be" THEN Reverse(bytes) ELSE bytes)
  IN  IF offset + e.val > Len(data) \/ (e.signed /\ 2 * v >= ByteSize ^ e.val) THEN <<>> ELSE <<v>>

EntryMeaning(entries, place) == IF place \in DOMAIN entries THEN <<entries[place]>> ELSE <<>>

\* k of n items, each of which holds or not.
QuantifierMeaning(e, env, meanings) ==
  LET items == [k \in 1 .. Len(e.args) - 1 |-> meanings[e.args[k + 1]][env]]
      positions == IF e.op = "for range" THEN items[1][1] .. items[2][1] - 1 ELSE DOMAIN items
      itemAt(p) == IF e.op = "for range" THEN p ELSE items[p][1]
      body(p) == meanings[e.args[1]][ItemEnv(e, env, itemAt(p))]
      held == {p \in positions : body(p) # <<0>>}
  IN  IF \E k \in DOMAIN items : items[k] = <<>> THEN <<>>
      ELSE IF \E p \in positions : body(p) = <<>> THEN <<>>
      ELSE CASE e.quantifier = "any" -> Defined(held # {})
             [] e.quantifier = "all" -> Defined(held = positions)
             [] e.quantifier = "literal" -> Defined(Cardinality(held) >= e.val)
             [] e.quantifier = "other" -> <<>>

\* An expression without loops, of operands that mean args and are defined.
DefinedMeaning(e, env, args) ==
  LET r == env.rule
      id == StringIn(e, env.string)
      val(k) == args[k][1]
      place == IF args = <<>> THEN 1 ELSE val(1)
  IN  CASE e.op \in {"int", "id"} -> <<e.val>>
        [] e.op = "var" -> <<Variable(env, e.name)>>
        [] e.op = "filesize" -> <<Len(r.data)>>
        [] e.op = "mutex" -> Defined(r.mutexes[e.val + 1] > 0)
        [] e.op = "string" -> Defined(Occurrences(r, id) # <<>>)
        [] e.op = "count" -> <<Len(Occurrences(r, id))>>
        [] e.op = "not" -> Defined(val(1) = 0)
        [] e.op = "paren" -> args[1]
        [] e.op = "offset" -> EntryMeaning(Offsets(r, id), place)
        [] e.op = "length" -> EntryMeaning(Lengths(r, id), place)
        [] e.op = "at" -> Defined(\E k \in DOMAIN Offsets(r, id) : Offsets(r, id)[k] = val(1))
        [] e.op = "in" -> Defined(\E k \in DOMAIN Offsets(r, id) : Offsets(r, id)[k] \in val(1) .. val(2) - 1)
        [] e.op = "read" -> ReadMeaning(r.data, val(1), e)
        [] e.op \in Binary -> BinaryMeaning(e.op, val(1), val(2))

OperatorMeaning(e, env, args) ==
  CASE e.op = "and" /\ (args[1] = <<0>> \/ args[2] = <<0>>) -> <<0>>
    [] e.op = "or" /\ (args[1] = <<1>> \/ args[2] = <<1>>) -> <<1>>
    [] OTHER -> IF \E k \in DOMAIN args : args[k] = <<>> THEN <<>> ELSE DefinedMeaning(e, env, args)

Meaning[e \in Exprs] ==
  [env \in Envs |->
     IF e.op \in Loops THEN QuantifierMeaning(e, env, Meaning)
     ELSE OperatorMeaning(e, env, [k \in DOMAIN e.args |-> Meaning[e.args[k]][env]])]
-----------------------------------------------------------------------------
\* The operators of a text that C++ has to place.
Placed(text) == {op \in Binary : \E k \in DOMAIN text : text[k] = Operator(op)}

(***************************************************************************)
(* The conditions whose text keeps their meaning.  C++ groups each operand *)
(* as YARA does: what its text is made of binds more tightly than what is  *)
(* printed around it, - after an index included.  != does not occur, a     *)
(* divisor is a number above 0, a quantifier asks for a number of items    *)
(* that are there, and `$` is not used inside a loop over integers that is *)
(* itself in one over strings.                                             *)
(***************************************************************************)
KeepsGrouping(e) ==
  /\ e.op \in Binary => /\ \A op \in Placed(Text[e.args[1]]) : CxxLevel(op) >= CxxLevel(e.op)
                        /\ \A op \in Placed(Text[e.args[2]]) : CxxLevel(op) > CxxLevel(e.op)
  /\ e.op = "not" => Placed(Text[e.args[1]]) = {} \/ e.args[1].op = "mutex"
  /\ e.op \in {"offset", "length"} =>
       \A k \in DOMAIN e.args : \A op \in Placed(Text[e.args[k]]) : CxxLevel(op) >= CxxLevel("-")
KeepsValue(e) ==
  /\ e.op # "!="
  /\ e.op = "%" => e.args[2].op = "int" /\ e.args[2].val # 0
  /\ e.op = "for range" => e.quantifier = "any"
  /\ e.op \in Loops \ {"for range"} =>
       \/ e.quantifier = "any"
       \/ e.quantifier = "all" /\ Len(e.args) > 1
       \/ e.quantifier = "literal" /\ e.val \in 1 .. Len(e.args) - 1
  /\ e.op \in OverIntegers => "$" \notin Free[e.args[1]]

Plain(e) == \A s \in Nodes[e] : KeepsGrouping(s) /\ KeepsValue(s)

\* Conditions in which an offset, a length or a read that may be undefined is
\* compared for being equal to, or below, a number below UNDEFINED, and their
\* connectives.
BoundedTests == {"==", "<", "<="}
AbsentTest(e) ==
  LET absent == e.args[1]
      number == e.args[2]
  IN  /\ absent.op \in {"offset", "length", "read"}
      /\ \A k \in DOMAIN absent.args : absent.args[k].op = "int"
      /\ absent.op = "read" => ~absent.signed
      /\ number.op \in {"filesize", "count"} \/ (number.op = "int" /\ number.val < Undefined)
Guarded(e) ==
  /\ e.op \in BoundedTests \cup {"and", "or"}
  /\ \A s \in Nodes[e] :
       /\ s.op \in BoundedTests => AbsentTest(s)
       /\ s.op \in {"and", "or"} => \A k \in {1, 2} : s.args[k].op \in BoundedTests \cup {"and", "or"}
-----------------------------------------------------------------------------
conditionVars == <<vars, rule>>

IsQuantified(r) == r # NoRule /\ r.condition.op \in Loops
NoCall == [over |-> "set", low |-> 0, high |-> 0, holds |-> {}, quantifier |-> "any", value |-> 0]

ASSUME RuleCallsAssumption ==
  /\ NoCall \in Calls
  /\ \A r \in Rules : IsQuantified(r) => CallOf(r.condition, Top(r)) \in Calls

RuleInit ==
  /\ \/ rule = NoRule /\ call \in Calls
     \/ rule \in Rules /\ call = IF IsQuantified(rule) THEN CallOf(rule.condition, Top(rule)) ELSE NoCall
  /\ Init

RuleNext == Next /\ UNCHANGED rule

RuleSpec == RuleInit /\ [][RuleNext]_conditionVars /\ WF_conditionVars(RuleNext)

\* What the rule function returns when its loop, if it has one, is done.
Returned == IF IsQuantified(rule) THEN result ELSE Value(rule.condition, Top(rule)) # 0

(***************************************************************************)
(* A generated function returns what the condition means in YARA, whatever *)
(* operators and helpers it combines, for the conditions whose text keeps  *)
(* their grouping and whose meaning is defined (codegen.hpp:97-493,        *)
(* ruleset.yar.cpp:90-229).                                                *)
(***************************************************************************)
ConditionKept ==
  pc = "done" /\ rule # NoRule /\ Plain(rule.condition) =>
    LET meant == Meaning[rule.condition][Top(rule)]
    IN  meant # <<>> => Returned = (meant[1] # 0)

\* UNDEFINED is an ordinary word.  A condition that is undefined because of an
\* index of 0, an index beyond the occurrences or a read beyond the data is
\* nevertheless false, as in YARA, when it asks for equal or less
\* (codegen.hpp:391 and 409, ruleset.yar.cpp:100-110 and 224).
UndefinedIsFalse ==
  pc = "done" /\ rule # NoRule /\ Guarded(rule.condition)
    /\ Meaning[rule.condition][Top(rule)] = <<>> => ~Returned
=============================================================================
