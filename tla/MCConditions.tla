----------------------------- MODULE MCConditions -----------------------------
(***************************************************************************)
(* Conditions over two strings and two mutexes, in a word of 16 values and *)
(* bytes of two: integers built from every kind of read and one or two     *)
(* operators, comparisons of them, two levels of connectives, and loops,   *)
(* some in one another.  Each is evaluated for three scans.                *)
(***************************************************************************)
EXTENDS Conditions, MCQuantifiedLoop, Bitwise

Bin(op, a, b) == Node(op, <<a, b>>, "", 0)
Negation(a) == Node("not", <<a>>, "", 0)
Paren(a) == Node("paren", <<a>>, "", 0)
Filesize == Node("filesize", <<>>, "", 0)
CountOf(id) == Node("count", <<>>, "", id)
OffsetOf(id, args) == Node("offset", args, "", id)
LengthOf(id, args) == Node("length", args, "", id)
StringMatch(id) == Node("string", <<>>, "", id)
MutexMatch(id) == Node("mutex", <<>>, "", id)
AtOffset(id, a) == Node("at", <<a>>, "", id)
InOffsets(id, a, b) == Node("in", <<a, b>>, "", id)
Read(width, order, signed, a) ==
  [op |-> "read", args |-> <<a>>, name |-> order, val |-> width, signed |-> signed]
Own(op, args) == Node(op, args, "$", 0)
Var(name) == Node("var", <<>>, name, 0)
Loop(op, quantifier, value, name, body, items) ==
  [op |-> op, args |-> <<body>> \o items, name |-> name, val |-> value, quantifier |-> quantifier]
Id(id) == Node("id", <<>>, "", id)
Lit(v) == Node("int", <<>>, "", v)

Reads ==
  {Lit(0), Lit(1), Lit(3), Filesize, CountOf(0), OffsetOf(0, <<>>), LengthOf(1, <<>>)}
    \cup {OffsetOf(0, <<a>>) : a \in {Lit(0), Lit(2), Lit(3), CountOf(1), Bin("-", Lit(3), Lit(1)),
                                      Bin("&", Lit(3), Lit(1)), Bin("*", Lit(1), Lit(2))}}
    \cup {LengthOf(0, <<Lit(2)>>), OffsetOf(1, <<OffsetOf(0, <<>>)>>)}
    \cup {Read(w, o, s, a) : w \in {1, 2, 4}, o \in {"le", "be"}, s \in BOOLEAN,
                             a \in {Lit(0), Lit(2), Lit(14), OffsetOf(0, <<Lit(2)>>)}}
SumsOf(few) ==
  {Bin(op, a, b) : op \in {"+", "-", "*", "&", "^"}, a \in few, b \in few}
    \cup {Bin("%", a, Lit(2)) : a \in few}
    \cup {Bin(op, Paren(Bin("+", a, Lit(3))), b) : op \in {"*", "&"}, a \in few, b \in few}
    \cup {Bin("-", Bin(op, a, Lit(1)), b) : op \in {"-", "*"}, a \in few, b \in few}
    \cup {Bin("-", a, Paren(Bin("-", b, Lit(1)))) : a \in few, b \in few}
Sums == SumsOf({Lit(1), Lit(3), Filesize, CountOf(0), OffsetOf(0, <<Lit(2)>>)})
Compared == {Bin(op, a, b) : op \in {"==", "!=", "<", "<=", ">", ">="},
                             a \in Reads \cup Sums, b \in {Lit(0), Lit(2), Filesize}}
Tests ==
  {StringMatch(0), StringMatch(1), MutexMatch(0), MutexMatch(1), AtOffset(0, Lit(3)),
   AtOffset(1, Bin("-", Filesize, Lit(4))), InOffsets(0, Lit(1), Lit(3)), InOffsets(0, Lit(1), Filesize),
   Bin("==", CountOf(0), Lit(2)), Bin("!=", CountOf(0), Lit(2)),
   Bin("<", OffsetOf(0, <<Lit(3)>>), Lit(2)), Bin("==", Lit(1), Bin("&", CountOf(0), Lit(1)))}
Joined(es) == {Bin(op, a, b) : op \in {"and", "or"}, a \in es, b \in es}
Absent == {Bin("<", OffsetOf(0, <<Lit(3)>>), Lit(2)), Bin("<=", LengthOf(1, <<Lit(0)>>), Filesize),
           Bin("==", Read(2, "be", FALSE, Lit(14)), CountOf(0))}
AbsentConnected(absent) == Joined(absent) \cup {Bin("or", a, b) : a \in Joined(absent), b \in absent}
Connected(tests) ==
  LET some == {MutexMatch(1), StringMatch(0)}
  IN  Joined(tests)
        \cup {Negation(a) : a \in tests} \cup {Negation(Paren(a)) : a \in tests \cup Joined(tests)}
        \cup {Bin("or", a, Bin("and", b, Negation(c))) : a \in tests, b \in tests, c \in some}
        \cup {Bin("and", Paren(Bin("or", a, b)), c) : a \in tests, b \in tests, c \in some}

Quantified == {<<q, 0>> : q \in {"any", "all", "other"}} \cup {<<"literal", v>> : v \in 0 .. 3}
Both == <<Id(0), Id(1)>>
StringBodies == {Own("at", <<Lit(3)>>), Own("in", <<Lit(0), Lit(2)>>), Bin("<", Own("offset", <<>>), Lit(2)),
                 Bin("and", Own("at", <<Lit(1)>>), MutexMatch(1)), Negation(Paren(Own("at", <<Lit(0)>>)))}
j == Var("j")
IntBodies == {Bin("<", j, Lit(2)), AtOffset(0, j), Bin("==", OffsetOf(0, <<j>>), Lit(3)),
              Bin("==", Read(1, "le", FALSE, j), Lit(1)), Own("at", <<j>>)}
Ints == {<<Lit(1)>>, <<Lit(0), Lit(3), CountOf(0)>>, <<Lit(2), Lit(2)>>}
Bounds == {<<Lit(0), CountOf(0)>>, <<Lit(1), Lit(4)>>, <<CountOf(0), Filesize>>}
Looped ==
  {Loop("of", q[1], q[2], "", Own("string", <<>>), ids) : q \in Quantified, ids \in {<<>>, <<Id(1)>>, Both}}
    \cup {Loop("for strings", q[1], q[2], "", b, Both) : q \in Quantified, b \in StringBodies}
    \cup {Loop("for ints", q[1], q[2], "j", b, v) :
            q \in Quantified, b \in IntBodies \ {Own("at", <<j>>)}, v \in Ints}
    \cup {Loop("for range", q[1], q[2], "j", b, v) :
            q \in Quantified, b \in IntBodies \ {Own("at", <<j>>)}, v \in Bounds}
\* Loops in loops: the inner body uses the outer variable, the outer string,
\* or the string of the inner loop.
Nested ==
  LET any(op, name, body, items) == Loop(op, "any", 0, name, body, items)
      inner == any("for ints", "k", Bin("==", Bin("+", Var("k"), j), Lit(3)), <<Lit(1), Lit(3)>>)
  IN  {Loop("for strings", q[1], q[2], "", any(op, "j", b, <<Lit(0), Lit(1)>>), Both) :
         q \in Quantified, op \in {"for ints", "for range"}, b \in IntBodies}
        \cup {Loop("for ints", q[1], q[2], "j", b, <<Lit(0), Lit(1), Lit(2)>>) : q \in Quantified,
                b \in {inner, any("for strings", "", Own("at", <<j>>), Both)}}
        \cup {Bin("and", StringMatch(0), any("for ints", "j", inner, <<Lit(0)>>))}

Scans ==
  LET at(o, l) == [offset |-> o, length |-> l]
  IN  {[matches |-> << <<at(0, 2), at(3, 1)>>, <<at(1, 2)>> >>, mutexes |-> <<0, 2>>, data |-> <<1, 0, 1, 1, 0>>],
       [matches |-> << <<>>, <<at(0, 1), at(1, 1)>> >>, mutexes |-> <<1, 0>>, data |-> <<0, 1>>],
       [matches |-> << <<>>, <<>> >>, mutexes |-> <<0, 0>>, data |-> <<>>]}

AnyCondition == Compared \cup Connected(Tests) \cup AbsentConnected(Absent) \cup Looped \cup Nested
CachedRules ==
  {[condition |-> c, matches |-> s.matches, mutexes |-> s.mutexes, data |-> s.data] : c \in AnyCondition, s \in Scans}

\* The conditions with all that they are made of, and the calls of their loops.
Parts(es) ==
  LET part(k) == {e.args[k] : e \in {x \in es : k \in DOMAIN x.args}}
  IN  part(1) \cup part(2) \cup part(3) \cup part(4)
RECURSIVE WithParts(_)
WithParts(es) == IF es = {} THEN {} ELSE es \cup WithParts(Parts(es))
CachedExprs == WithParts(AnyCondition)
CachedDepth[e \in CachedExprs] == IF e.args = <<>> THEN 0 ELSE 1 + Max({CachedDepth[a] : a \in Range(e.args)})
AnyRule == CachedRules
AnyExpr == CachedExprs
AnyDepth == CachedDepth
DeepestNesting == 5
LoopNames == {"j", "k"}
WordAnd(a, b) == a & b
WordXor(a, b) == a ^^ b

ConditionCalls == AnyCalls \cup CallsOver("range", {2}, {5}, {<<q, 0>> : q \in {"any", "all", "other"}} \cup {<<"literal", v>> : v \in 0 .. 3})
=============================================================================
