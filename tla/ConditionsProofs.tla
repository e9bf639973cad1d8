--------------------------- MODULE ConditionsProofs ---------------------------
(***************************************************************************)
(* That the generated code keeps the meaning of conditions, for every      *)
(* condition, however large and deeply nested, every scan and every word   *)
(* size.  Conditions are trees; what is printed for them, what C++ makes   *)
(* of the text, and what they mean are recursive functions; the proofs     *)
(* are by induction on the trees and on the length of a text.              *)
(***************************************************************************)
EXTENDS Conditions, ConditionHelpersProofs, WellFoundedInduction

\* A set of numbers has a least one, so numbers can be reached one by one.
LEMMA LeastNumber ==
  ASSUME NEW S \in SUBSET Nat, S # {}
  PROVE  \E m \in S : \A k \in S : m <= k
<1> DEFINE Less == {p \in Nat \X Nat : p[1] < p[2]}
<1>1. IsWellFoundedOn(Less, Nat)
  <2>1. OpToRel(<, Nat) = Less
    BY DEF OpToRel
  <2> QED BY <2>1, NatLessThanWellFounded
<1>2. PICK m \in S : \A k \in S : <<k, m>> \notin Less
  <2> HIDE DEF Less
  <2> QED BY <1>1, WFMin
<1>3. \A k \in S : ~(k < m)
  BY <1>2
<1> QED BY <1>3

LEMMA NumbersFromZero ==
  ASSUME NEW S, 0 \in S, \A k \in Nat : k \in S => k + 1 \in S
  PROVE  Nat \subseteq S
<1> SUFFICES ASSUME Nat \ S # {} PROVE FALSE
  OBVIOUS
<1>1. PICK m \in Nat \ S : \A k \in Nat \ S : m <= k
  BY LeastNumber
<1>2. m - 1 \in Nat
  BY <1>1
<1> QED BY <1>1, <1>2

\* What a node consists of.
LEMMA NodeTyped ==
  ASSUME NEW e \in Exprs
  PROVE  /\ e.args \in Seq(Exprs) /\ WellFormed(e) /\ DOMAIN e.args = 1 .. Len(e.args) /\ Len(e.args) \in Nat
         /\ \A k \in DOMAIN e.args : e.args[k] \in Exprs /\ Depth[e.args[k]] < Depth[e]
         /\ Depth[e] \in Nat /\ Depth[e] < MaxDepth + 1 /\ MaxDepth + 1 \in Nat
<1>1. e.args \in Seq(Exprs) /\ WellFormed(e) /\ \A k \in DOMAIN e.args : Depth[e.args[k]] < Depth[e]
  BY ExprsAssumption
<1>2. DOMAIN e.args = 1 .. Len(e.args) /\ Len(e.args) \in Nat /\ \A k \in DOMAIN e.args : e.args[k] \in Exprs
  BY <1>1
<1>3. Depth[e] \in Nat /\ Depth[e] < MaxDepth + 1 /\ MaxDepth + 1 \in Nat
  BY ExprsAssumption
<1> QED BY <1>1, <1>2, <1>3

\* What holds of a node whenever it holds of its operands holds of all.
LEMMA ByOperands ==
  ASSUME NEW P, \A e \in Exprs : (\A k \in DOMAIN e.args : e.args[k] \in P) => e \in P
  PROVE  Exprs \subseteq P
<1> SUFFICES ASSUME Exprs \ P # {} PROVE FALSE
  OBVIOUS
<1> DEFINE S == {Depth[e] : e \in Exprs \ P}
<1>1. S \in SUBSET Nat /\ S # {}
  BY NodeTyped
<1>2. PICK e \in Exprs \ P : \A o \in Exprs \ P : Depth[e] <= Depth[o]
  <2>1. PICK m \in S : \A k \in S : m <= k
    <3> HIDE DEF S
    <3> QED BY <1>1, LeastNumber
  <2> QED BY <2>1
<1>3. \A k \in DOMAIN e.args : e.args[k] \in P
  BY <1>2, NodeTyped
<1> QED BY <1>3

\* How many operands a node has.
LEMMA Operands ==
  ASSUME NEW e \in Exprs
  PROVE  /\ e.op \in Binary \cup {"in"} =>
              /\ DOMAIN e.args = {1, 2} /\ Len(e.args) = 2
              /\ e.args[1] \in Exprs /\ Depth[e.args[1]] < Depth[e] /\ e.args[2] \in Exprs /\ Depth[e.args[2]] < Depth[e]
         /\ e.op \in {"not", "paren", "at", "read"} =>
              /\ DOMAIN e.args = {1} /\ Len(e.args) = 1 /\ e.args[1] \in Exprs /\ Depth[e.args[1]] < Depth[e]
         /\ e.op \in Leaves => e.args = <<>> /\ DOMAIN e.args = {}
         /\ e.op \in {"offset", "length"} =>
              \/ e.args = <<>> /\ DOMAIN e.args = {}
              \/ /\ DOMAIN e.args = {1} /\ Len(e.args) = 1 /\ e.args # <<>>
                 /\ e.args[1] \in Exprs /\ Depth[e.args[1]] < Depth[e]
         /\ e.op \in Loops => /\ Len(e.args) \in 1 .. WordSize /\ 1 \in DOMAIN e.args
                              /\ e.args[1] \in Exprs /\ Depth[e.args[1]] < Depth[e]
<1>1. DOMAIN e.args = 1 .. Len(e.args) /\ Len(e.args) \in Nat /\ \A k \in DOMAIN e.args : e.args[k] \in Exprs /\ Depth[e.args[k]] < Depth[e]
  BY NodeTyped
<1>2. /\ e.op \in Binary \cup {"in"} => Len(e.args) = 2
      /\ e.op \in {"not", "paren", "at", "read"} => Len(e.args) = 1
      /\ e.op \in Leaves => e.args = <<>>
      /\ e.op \in {"offset", "length"} => Len(e.args) <= 1
      /\ e.op \in Loops => Len(e.args) \in 1 .. WordSize
  BY NodeTyped, Zenon DEF WellFormed
<1>3. ASSUME Len(e.args) = 2 PROVE DOMAIN e.args = {1, 2}
  BY <1>1, <1>3
<1>4. ASSUME Len(e.args) = 1 PROVE DOMAIN e.args = {1}
  BY <1>1, <1>4
<1>5. ASSUME e.op \in Binary \cup {"in"} PROVE Len(e.args) = 2 /\ DOMAIN e.args = {1, 2} /\ 1 \in DOMAIN e.args /\ 2 \in DOMAIN e.args
  BY <1>2, <1>3, <1>5
<1>6. ASSUME e.op \in {"not", "paren", "at", "read"} PROVE Len(e.args) = 1 /\ DOMAIN e.args = {1} /\ 1 \in DOMAIN e.args
  BY <1>2, <1>4, <1>6
<1>7. ASSUME e.op \in {"offset", "length"}
      PROVE  \/ e.args = <<>> /\ DOMAIN e.args = {}
             \/ Len(e.args) = 1 /\ DOMAIN e.args = {1} /\ e.args # <<>>
  <2>1. CASE Len(e.args) = 0
    <3>1. e.args = <<>>
      BY <2>1, NodeTyped
    <3> QED BY <3>1
  <2>2. CASE Len(e.args) = 1
    <3>1. e.args # <<>>
      BY <2>2
    <3> QED BY <2>2, <3>1, <1>4
  <2>3. Len(e.args) <= 1
    BY <1>2, <1>7
  <2>4. ASSUME NEW s \in Nat, s <= 1 PROVE s = 0 \/ s = 1
    BY <2>4
  <2>5. Len(e.args) \in Nat
    BY NodeTyped
  <2> QED BY <2>1, <2>2, <2>3, <2>4, <2>5, Zenon
<1>8. ASSUME e.op \in Loops PROVE Len(e.args) \in 1 .. WordSize /\ 1 \in DOMAIN e.args
  BY <1>1, <1>2, <1>8
<1>9. ASSUME e.op \in Leaves PROVE e.args = <<>> /\ DOMAIN e.args = {}
  BY <1>2, <1>9
<1> HIDE DEF Binary, Leaves, Loops
<1> QED BY <1>1, <1>5, <1>6, <1>7, <1>8, <1>9
-----------------------------------------------------------------------------
(***************************************************************************)
(* The recursive functions over conditions exist: a function that agrees   *)
(* with the definition below depth m is extended to depth m by evaluating  *)
(* the body, which looks at deeper nodes only, once more.                  *)
(***************************************************************************)
NodesBody(e, f) == {e} \cup UNION {f[e.args[k]] : k \in DOMAIN e.args}

LEMMA NodesLocal ==
  ASSUME NEW f, NEW g, NEW e \in Exprs, \A d \in Exprs : Depth[d] < Depth[e] => f[d] = g[d]
  PROVE  NodesBody(e, f) = NodesBody(e, g)
<1>1. \A k \in DOMAIN e.args : f[e.args[k]] = g[e.args[k]]
  BY NodeTyped
<1> QED BY <1>1 DEF NodesBody

NodesBelow(m, f) == \A e \in Exprs : Depth[e] < m => f[e] = NodesBody(e, f)

LEMMA NodesStep ==
  ASSUME NEW m \in Nat, \E f : NodesBelow(m, f)
  PROVE  \E g : g = [e \in Exprs |-> g[e]] /\ NodesBelow(m + 1, g)
<1>1. PICK f : NodesBelow(m, f)
  OBVIOUS
<1> DEFINE g == [e \in Exprs |-> NodesBody(e, f)]
<1>2. \A e \in Exprs : Depth[e] < m => g[e] = f[e]
  BY <1>1 DEF NodesBelow
<1>3. ASSUME NEW e \in Exprs, Depth[e] < m + 1
      PROVE  NodesBody(e, f) = NodesBody(e, g)
  <2>1. \A d \in Exprs : Depth[d] < Depth[e] => Depth[d] < m
    BY <1>3, NodeTyped
  <2>2. \A d \in Exprs : Depth[d] < Depth[e] => f[d] = g[d]
    BY <2>1, <1>2
  <2> HIDE DEF g
  <2> QED BY <2>2, NodesLocal
<1>4. NodesBelow(m + 1, g)
  BY <1>3 DEF NodesBelow
<1> QED BY <1>4

LEMMA NodesIs == \A e \in Exprs : Nodes[e] = NodesBody(e, Nodes)
<1> DEFINE S == {m \in Nat : \E f : NodesBelow(m, f)}
<1>1. 0 \in S
  <2>1. NodesBelow(0, Depth)
    BY NodeTyped DEF NodesBelow
  <2> QED BY <2>1
<1>2. \A m \in Nat : m \in S => m + 1 \in S
  BY NodesStep
<1>3. Nat \subseteq S
  <2> HIDE DEF S
  <2> QED BY <1>1, <1>2, NumbersFromZero
<1>4. PICK g : g = [e \in Exprs |-> g[e]] /\ NodesBelow(MaxDepth + 1, g)
  BY <1>3, NodesStep, ExprsAssumption
<1>5. \A e \in Exprs : g[e] = NodesBody(e, g)
  BY <1>4, NodeTyped DEF NodesBelow
<1>6. g = [e \in Exprs |-> NodesBody(e, g)]
  BY <1>4, <1>5
<1>7. Nodes = [e \in Exprs |-> NodesBody(e, Nodes)]
  BY <1>6 DEF Nodes, NodesBody
<1> QED BY <1>7
-----------------------------------------------------------------------------
FreeBody(e, f) ==
  (IF e.op = "var" \/ e.name = "$" THEN {e.name} ELSE {})
    \cup UNION {f[e.args[k]] \ (IF k = 1 THEN Bound(e) ELSE {}) : k \in DOMAIN e.args}

LEMMA FreeLocal ==
  ASSUME NEW f, NEW g, NEW e \in Exprs, \A d \in Exprs : Depth[d] < Depth[e] => f[d] = g[d]
  PROVE  FreeBody(e, f) = FreeBody(e, g)
<1>1. \A k \in DOMAIN e.args : f[e.args[k]] = g[e.args[k]]
  BY NodeTyped
<1>2. UNION {f[e.args[k]] \ (IF k = 1 THEN Bound(e) ELSE {}) : k \in DOMAIN e.args}
        = UNION {g[e.args[k]] \ (IF k = 1 THEN Bound(e) ELSE {}) : k \in DOMAIN e.args}
  BY <1>1
<1> QED BY <1>2 DEF FreeBody

FreeBelow(m, f) == \A e \in Exprs : Depth[e] < m => f[e] = FreeBody(e, f)

LEMMA FreeStep ==
  ASSUME NEW m \in Nat, \E f : FreeBelow(m, f)
  PROVE  \E g : g = [e \in Exprs |-> g[e]] /\ FreeBelow(m + 1, g)
<1>1. PICK f : FreeBelow(m, f)
  OBVIOUS
<1> DEFINE g == [e \in Exprs |-> FreeBody(e, f)]
<1>2. \A e \in Exprs : Depth[e] < m => g[e] = f[e]
  BY <1>1 DEF FreeBelow
<1>3. ASSUME NEW e \in Exprs, Depth[e] < m + 1
      PROVE  FreeBody(e, f) = FreeBody(e, g)
  <2>1. \A d \in Exprs : Depth[d] < Depth[e] => Depth[d] < m
    BY <1>3, NodeTyped
  <2>2. \A d \in Exprs : Depth[d] < Depth[e] => f[d] = g[d]
    BY <2>1, <1>2
  <2> HIDE DEF g
  <2> QED BY <2>2, FreeLocal
<1>4. FreeBelow(m + 1, g)
  BY <1>3 DEF FreeBelow
<1> QED BY <1>4

LEMMA FreeIs == \A e \in Exprs : Free[e] = FreeBody(e, Free)
<1> DEFINE S == {m \in Nat : \E f : FreeBelow(m, f)}
<1>1. 0 \in S
  <2>1. FreeBelow(0, Depth)
    BY NodeTyped DEF FreeBelow
  <2> QED BY <2>1
<1>2. \A m \in Nat : m \in S => m + 1 \in S
  BY FreeStep
<1>3. Nat \subseteq S
  <2> HIDE DEF S
  <2> QED BY <1>1, <1>2, NumbersFromZero
<1>4. PICK g : g = [e \in Exprs |-> g[e]] /\ FreeBelow(MaxDepth + 1, g)
  BY <1>3, FreeStep, ExprsAssumption
<1>5. \A e \in Exprs : g[e] = FreeBody(e, g)
  BY <1>4, NodeTyped DEF FreeBelow
<1>6. g = [e \in Exprs |-> FreeBody(e, g)]
  BY <1>4, <1>5
<1>7. Free = [e \in Exprs |-> FreeBody(e, Free)]
  BY <1>6 DEF Free, FreeBody
<1> QED BY <1>7
-----------------------------------------------------------------------------
TextBody(e, f) ==
  CASE e.op = "!=" -> f[e.args[1]] \o <<Operator("==")>> \o f[e.args[2]]
    [] e.op \in Binary \ {"!="} -> f[e.args[1]] \o <<Operator(e.op)>> \o f[e.args[2]]
    [] e.op = "not" -> <<Operator("not")>> \o f[e.args[1]]
    [] e.op = "mutex" -> <<Operand(e), Operator(">"), Number(0)>>
    [] e.op = "int" -> <<Number(e.val)>>
    [] OTHER -> <<Operand(e)>>

LEMMA TextLocal ==
  ASSUME NEW f, NEW g, NEW e \in Exprs, \A d \in Exprs : Depth[d] < Depth[e] => f[d] = g[d]
  PROVE  TextBody(e, f) = TextBody(e, g)
<1>1. \A k \in DOMAIN e.args : f[e.args[k]] = g[e.args[k]]
  BY NodeTyped
<1>2. CASE e.op \in Binary
  <2>1. f[e.args[1]] = g[e.args[1]] /\ f[e.args[2]] = g[e.args[2]]
    BY <1>2, Operands
  <2> QED BY <2>1 DEF TextBody
<1>3. CASE e.op = "not"
  <2>1. f[e.args[1]] = g[e.args[1]]
    BY <1>3, Operands
  <2> QED BY <2>1, <1>3 DEF TextBody, Binary, Comparing
<1>4. CASE e.op \notin Binary \cup {"not"}
  BY <1>4 DEF TextBody, Binary, Comparing
<1> QED BY <1>2, <1>3, <1>4

TextBelow(m, f) == \A e \in Exprs : Depth[e] < m => f[e] = TextBody(e, f)

LEMMA TextStep ==
  ASSUME NEW m \in Nat, \E f : TextBelow(m, f)
  PROVE  \E g : g = [e \in Exprs |-> g[e]] /\ TextBelow(m + 1, g)
<1>1. PICK f : TextBelow(m, f)
  OBVIOUS
<1> DEFINE g == [e \in Exprs |-> TextBody(e, f)]
<1>2. \A e \in Exprs : Depth[e] < m => g[e] = f[e]
  BY <1>1 DEF TextBelow
<1>3. ASSUME NEW e \in Exprs, Depth[e] < m + 1
      PROVE  TextBody(e, f) = TextBody(e, g)
  <2>1. \A d \in Exprs : Depth[d] < Depth[e] => Depth[d] < m
    BY <1>3, NodeTyped
  <2>2. \A d \in Exprs : Depth[d] < Depth[e] => f[d] = g[d]
    BY <2>1, <1>2
  <2> HIDE DEF g
  <2> QED BY <2>2, TextLocal
<1>4. TextBelow(m + 1, g)
  BY <1>3 DEF TextBelow
<1> QED BY <1>4

LEMMA TextIs == \A e \in Exprs : Text[e] = TextBody(e, Text)
<1> DEFINE S == {m \in Nat : \E f : TextBelow(m, f)}
<1>1. 0 \in S
  <2>1. TextBelow(0, Depth)
    BY NodeTyped DEF TextBelow
  <2> QED BY <2>1
<1>2. \A m \in Nat : m \in S => m + 1 \in S
  BY TextStep
<1>3. Nat \subseteq S
  <2> HIDE DEF S
  <2> QED BY <1>1, <1>2, NumbersFromZero
<1>4. PICK g : g = [e \in Exprs |-> g[e]] /\ TextBelow(MaxDepth + 1, g)
  BY <1>3, TextStep, ExprsAssumption
<1>5. \A e \in Exprs : g[e] = TextBody(e, g)
  BY <1>4, NodeTyped DEF TextBelow
<1>6. g = [e \in Exprs |-> TextBody(e, g)]
  BY <1>4, <1>5
<1>7. Text = [e \in Exprs |-> TextBody(e, Text)]
  BY <1>6 DEF Text, TextBody
<1> QED BY <1>7
-----------------------------------------------------------------------------
(***************************************************************************)
(* The tokens of a text: operators, numbers, and operands that are nodes   *)
(* of the condition.                                                       *)
(***************************************************************************)
Signs == {Operator(op) : op \in (Binary \ {"!="}) \cup {"not"}}
Numbers == {Number(v) : v \in Words}
TokensUpto(d) == Signs \cup Numbers \cup {Operand(e) : e \in {o \in Exprs : Depth[o] <= d}}

LEMMA SmallWords == 0 \in Words /\ 1 \in Words /\ Words \subseteq Nat /\ WordSize \in Nat /\ WordSize > 1
  BY WordAssumption DEF Words

LEMMA TextOfBinary ==
  ASSUME NEW e \in Exprs, e.op \in Binary
  PROVE  Text[e] = Text[e.args[1]] \o <<Operator(IF e.op = "!=" THEN "==" ELSE e.op)>> \o Text[e.args[2]]
<1>1. Text[e] = TextBody(e, Text)
  BY TextIs
<1>2. CASE e.op = "!="
  BY <1>1, <1>2 DEF TextBody
<1>3. CASE e.op # "!="
  <2>1. e.op \in Binary \ {"!="} /\ e.op \notin {"not", "mutex", "int"}
    BY <1>3 DEF Binary, Comparing
  <2> QED BY <1>1, <2>1, <1>3 DEF TextBody
<1> QED BY <1>2, <1>3

LEMMA TextOfOthers ==
  ASSUME NEW e \in Exprs, e.op \notin Binary
  PROVE  /\ e.op = "not" => Text[e] = <<Operator("not")>> \o Text[e.args[1]]
         /\ e.op = "mutex" => Text[e] = <<Operand(e), Operator(">"), Number(0)>>
         /\ e.op = "int" => Text[e] = <<Number(e.val)>>
         /\ e.op \notin {"not", "mutex", "int"} => Text[e] = <<Operand(e)>>
<1>1. Text[e] = TextBody(e, Text) /\ e.op # "!="
  BY TextIs DEF Binary, Comparing
<1> QED BY <1>1 DEF TextBody

LEMMA TextTyped == \A e \in Exprs : Text[e] \in Seq(TokensUpto(Depth[e]))
<1> DEFINE P == {e \in Exprs : Text[e] \in Seq(TokensUpto(Depth[e]))}
<1>1. ASSUME NEW e \in Exprs, \A k \in DOMAIN e.args : e.args[k] \in P
      PROVE  e \in P
  <2> DEFINE T == TokensUpto(Depth[e])
  <2>1. ASSUME NEW k \in DOMAIN e.args PROVE Text[e.args[k]] \in Seq(T)
    <3>1. Depth[e.args[k]] < Depth[e] /\ Depth[e.args[k]] \in Nat /\ Depth[e] \in Nat
      BY NodeTyped
    <3>2. TokensUpto(Depth[e.args[k]]) \subseteq T
      BY <3>1, NodeTyped DEF TokensUpto
    <3>3. Text[e.args[k]] \in Seq(TokensUpto(Depth[e.args[k]]))
      BY <1>1
    <3> HIDE DEF T
    <3> QED BY <3>2, <3>3, SeqMonotonic
  <2>2. /\ \A op \in (Binary \ {"!="}) \cup {"not"} : Operator(op) \in T
        /\ \A v \in Words : Number(v) \in T
        /\ Operand(e) \in T
    BY NodeTyped DEF TokensUpto, Signs, Numbers
  <2>3. ">" \in Binary \ {"!="} /\ "==" \in Binary \ {"!="}
    BY DEF Binary, Comparing
  <2> HIDE DEF T
  <2>4. CASE e.op \in Binary
    <3>1. Text[e.args[1]] \in Seq(T) /\ Text[e.args[2]] \in Seq(T)
      BY <2>1, <2>4, Operands
    <3>2. Operator(IF e.op = "!=" THEN "==" ELSE e.op) \in T
      BY <2>2, <2>3, <2>4
    <3>3. ASSUME NEW t \in T PROVE Text[e.args[1]] \o <<t>> \o Text[e.args[2]] \in Seq(T)
      BY <3>1, <3>3
    <3>4. Text[e] \in Seq(T)
      BY <3>2, <3>3, <2>4, TextOfBinary, Zenon
    <3> QED BY <3>4 DEF T
  <2>5. CASE e.op = "not"
    <3>1. Text[e.args[1]] \in Seq(T)
      BY <2>1, <2>5, Operands
    <3>2. Text[e] = <<Operator("not")>> \o Text[e.args[1]]
      BY <2>5, TextOfOthers DEF Binary, Comparing
    <3>3. Text[e] \in Seq(T)
      BY <3>1, <3>2, <2>2
    <3> QED BY <3>3 DEF T
  <2>6. CASE e.op = "mutex"
    <3>1. Text[e] = <<Operand(e), Operator(">"), Number(0)>>
      BY <2>6, TextOfOthers DEF Binary, Comparing
    <3>2. Text[e] \in Seq(T)
      BY <3>1, <2>2, <2>3, SmallWords
    <3> QED BY <3>2 DEF T
  <2>7. CASE e.op = "int"
    <3>1. Text[e] = <<Number(e.val)>>
      BY <2>7, TextOfOthers DEF Binary, Comparing
    <3>2. e.val \in Words
      BY <2>7, NodeTyped DEF WellFormed
    <3>3. Text[e] \in Seq(T)
      BY <3>1, <3>2, <2>2
    <3> QED BY <3>3 DEF T
  <2>8. CASE e.op \notin Binary \cup {"not", "mutex", "int"}
    <3>1. Text[e] = <<Operand(e)>>
      BY <2>8, TextOfOthers
    <3>2. Text[e] \in Seq(T)
      BY <3>1, <2>2
    <3> QED BY <3>2 DEF T
  <2> QED BY <2>4, <2>5, <2>6, <2>7, <2>8
<1>2. Exprs \subseteq P
  <2> HIDE DEF P
  <2> QED BY <1>1, ByOperands
<1> QED BY <1>2
-----------------------------------------------------------------------------
(***************************************************************************)
(* How C++ reads a text back.                                              *)
(***************************************************************************)
OpsOf(a) == {k \in DOMAIN a : a[k].op \in Binary}
LoosestOf(a) == {k \in OpsOf(a) : \A j \in OpsOf(a) : CxxLevel(a[k].op) <= CxxLevel(a[j].op)}
PlaceOf(a) == CHOOSE k \in LoosestOf(a) : \A j \in LoosestOf(a) : j <= k

LEMMA LevelTyped == ASSUME NEW op \in Binary PROVE CxxLevel(op) \in Nat
  BY DEF CxxLevel, Binary, Comparing

LEMMA PlaceIs ==
  ASSUME NEW a \in Seq(Atoms), OpsOf(a) # {}
  PROVE  PlaceOf(a) \in LoosestOf(a) /\ \A j \in LoosestOf(a) : j <= PlaceOf(a)
<1> DEFINE Levels == {CxxLevel(a[k].op) : k \in OpsOf(a)}
<1>1. Levels \in SUBSET Nat /\ Levels # {}
  BY LevelTyped DEF OpsOf
<1>2. PICK m \in Levels : \A o \in Levels : m <= o
  <2> HIDE DEF Levels
  <2> QED BY <1>1, LeastNumber
<1>3. LoosestOf(a) # {}
  BY <1>2 DEF LoosestOf
<1>4. Len(a) \in Nat /\ LoosestOf(a) \subseteq 1 .. Len(a)
  BY DEF LoosestOf, OpsOf
<1> DEFINE Behind == {Len(a) - k : k \in LoosestOf(a)}
<1>5. Behind \in SUBSET Nat /\ Behind # {}
  BY <1>3, <1>4
<1>6. PICK b \in Behind : \A o \in Behind : b <= o
  <2> HIDE DEF Behind
  <2> QED BY <1>5, LeastNumber
<1>7. PICK k \in LoosestOf(a) : b = Len(a) - k
  BY <1>6
<1>8. ASSUME NEW j \in LoosestOf(a) PROVE j <= k
  <2>1. Len(a) - k <= Len(a) - j
    BY <1>6, <1>7
  <2>2. j \in Int /\ k \in Int
    BY <1>4
  <2> QED BY <2>1, <2>2, <1>4
<1> QED BY <1>8 DEF PlaceOf

ReadBackBody(a, f) ==
  IF OpsOf(a) # {}
    THEN Apply(a[PlaceOf(a)].op, f[SubSeq(a, 1, PlaceOf(a) - 1)], f[SubSeq(a, PlaceOf(a) + 1, Len(a))])
  ELSE IF Len(a) > 1 THEN Bool(f[Tail(a)] = 0)
  ELSE a[1].val

ReadBackBelow(m, f) == \A a \in Seq(Atoms) : Len(a) < m => f[a] = ReadBackBody(a, f)

LEMMA ReadBackLocal ==
  ASSUME NEW f, NEW g, NEW a \in Seq(Atoms), \A b \in Seq(Atoms) : Len(b) < Len(a) => f[b] = g[b]
  PROVE  ReadBackBody(a, f) = ReadBackBody(a, g)
<1>1. CASE OpsOf(a) # {}
  <2>1. PlaceOf(a) \in 1 .. Len(a) /\ Len(a) \in Nat
    BY <1>1, PlaceIs DEF LoosestOf, OpsOf
  <2>2. /\ SubSeq(a, 1, PlaceOf(a) - 1) \in Seq(Atoms) /\ Len(SubSeq(a, 1, PlaceOf(a) - 1)) < Len(a)
        /\ SubSeq(a, PlaceOf(a) + 1, Len(a)) \in Seq(Atoms) /\ Len(SubSeq(a, PlaceOf(a) + 1, Len(a))) < Len(a)
    BY <2>1
  <2> QED BY <1>1, <2>2 DEF ReadBackBody
<1>2. CASE OpsOf(a) = {} /\ Len(a) > 1
  <2>1. Tail(a) \in Seq(Atoms) /\ Len(Tail(a)) < Len(a)
    BY <1>2
  <2> QED BY <1>2, <2>1 DEF ReadBackBody
<1>3. CASE OpsOf(a) = {} /\ ~(Len(a) > 1)
  BY <1>3 DEF ReadBackBody
<1> QED BY <1>1, <1>2, <1>3

LEMMA ReadBackStep ==
  ASSUME NEW m \in Nat, \E f : ReadBackBelow(m, f)
  PROVE  \E g : g = [a \in Seq(Atoms) |-> g[a]] /\ ReadBackBelow(m + 1, g)
<1>1. PICK f : ReadBackBelow(m, f)
  OBVIOUS
<1> DEFINE g == [a \in Seq(Atoms) |-> ReadBackBody(a, f)]
<1>2. \A a \in Seq(Atoms) : Len(a) < m => g[a] = f[a]
  BY <1>1 DEF ReadBackBelow
<1>3. ASSUME NEW a \in Seq(Atoms), Len(a) < m + 1
      PROVE  ReadBackBody(a, f) = ReadBackBody(a, g)
  <2>1. \A b \in Seq(Atoms) : Len(b) < Len(a) => Len(b) < m
    BY <1>3
  <2>2. \A b \in Seq(Atoms) : Len(b) < Len(a) => f[b] = g[b]
    BY <2>1, <1>2
  <2> HIDE DEF g
  <2> QED BY <2>2, ReadBackLocal
<1>4. ReadBackBelow(m + 1, g)
  BY <1>3 DEF ReadBackBelow
<1> QED BY <1>4

\* Two functions that agree with the definition give a text the same value.
LEMMA ReadBackUnique ==
  ASSUME NEW m \in Nat, NEW f, ReadBackBelow(m, f), NEW g, ReadBackBelow(m, g),
         NEW a \in Seq(Atoms), Len(a) < m
  PROVE  f[a] = g[a]
<1> SUFFICES ASSUME f[a] # g[a] PROVE FALSE
  OBVIOUS
<1> DEFINE Differ == {b \in Seq(Atoms) : Len(b) < m /\ f[b] # g[b]}
           LengthsOf == {Len(b) : b \in Differ}
<1>1. LengthsOf \in SUBSET Nat /\ LengthsOf # {}
  OBVIOUS
<1>2. PICK k \in LengthsOf : \A o \in LengthsOf : k <= o
  <2> HIDE DEF LengthsOf
  <2> QED BY <1>1, LeastNumber
<1>3. PICK b \in Differ : \A o \in Differ : Len(b) <= Len(o)
  BY <1>2
<1>4. \A o \in Seq(Atoms) : Len(o) < Len(b) => f[o] = g[o]
  BY <1>3
<1>5. ReadBackBody(b, f) = ReadBackBody(b, g)
  BY <1>3, <1>4, ReadBackLocal
<1> QED BY <1>3, <1>5 DEF ReadBackBelow

LEMMA ReadBackIs == \A a \in Seq(Atoms) : ReadBack[a] = ReadBackBody(a, ReadBack)
<1> DEFINE S == {m \in Nat : \E f : ReadBackBelow(m, f)}
           Upto(m) == CHOOSE f : ReadBackBelow(m, f)
           g == [a \in Seq(Atoms) |-> Upto(Len(a) + 1)[a]]
<1>1. Nat \subseteq S
  <2>1. 0 \in S
    <3>1. ReadBackBelow(0, Depth)
      BY DEF ReadBackBelow
    <3> QED BY <3>1
  <2>2. \A m \in Nat : m \in S => m + 1 \in S
    BY ReadBackStep
  <2> HIDE DEF S
  <2> QED BY <2>1, <2>2, NumbersFromZero
<1>2. \A m \in Nat : ReadBackBelow(m, Upto(m))
  BY <1>1
<1>3. ASSUME NEW a \in Seq(Atoms)
      PROVE  g[a] = ReadBackBody(a, g)
  <2> DEFINE h == Upto(Len(a) + 1)
  <2>1. ReadBackBelow(Len(a) + 1, h) /\ g[a] = h[a] /\ Len(a) \in Nat
    BY <1>2
  <2>2. h[a] = ReadBackBody(a, h)
    BY <2>1 DEF ReadBackBelow
  <2>3. ASSUME NEW b \in Seq(Atoms), Len(b) < Len(a) PROVE h[b] = g[b]
    <3>1. ReadBackBelow(Len(b) + 1, Upto(Len(b) + 1)) /\ Len(b) + 1 \in Nat /\ Len(b) < Len(b) + 1
      BY <1>2
    <3>2. ReadBackBelow(Len(b) + 1, h)
      BY <2>1, <2>3 DEF ReadBackBelow
    <3>3. g[b] = Upto(Len(b) + 1)[b]
      OBVIOUS
    <3> HIDE DEF g, h, Upto
    <3> QED BY <3>1, <3>2, <3>3, ReadBackUnique
  <2> HIDE DEF g, h
  <2>4. ReadBackBody(a, h) = ReadBackBody(a, g)
    BY <2>3, ReadBackLocal
  <2> QED BY <2>1, <2>2, <2>4
<1>4. g = [a \in Seq(Atoms) |-> g[a]]
  OBVIOUS
<1>5. g = [a \in Seq(Atoms) |-> ReadBackBody(a, g)]
  <2> HIDE DEF g
  <2> QED BY <1>3, <1>4, Zenon
<1>6. ReadBack = [a \in Seq(Atoms) |-> ReadBackBody(a, ReadBack)]
  <2> HIDE DEF g
  <2> QED BY <1>5 DEF ReadBack, ReadBackBody, OpsOf, LoosestOf, PlaceOf
<1> QED BY <1>6

\* One value, and ! before operands without operators.
LEMMA SingleValue ==
  ASSUME NEW a \in Atoms, a.op = "value"
  PROVE  ReadBack[<<a>>] = a.val
<1> DEFINE t == <<a>>
<1>1. t \in Seq(Atoms) /\ ~(Len(t) > 1) /\ t[1] = a /\ \A k \in DOMAIN t : t[k] = a
  OBVIOUS
<1>2. OpsOf(t) = {}
  BY <1>1 DEF OpsOf, Binary, Comparing
<1> HIDE DEF t
<1>3. ReadBack[t] = t[1].val
  BY <1>1, <1>2, ReadBackIs DEF ReadBackBody
<1> QED BY <1>1, <1>3 DEF t

LEMMA NegatedValue ==
  ASSUME NEW a \in Atoms, a.op = "not", NEW s \in Seq(Atoms), s # <<>>, OpsOf(s) = {}
  PROVE  ReadBack[<<a>> \o s] = Bool(ReadBack[s] = 0)
<1> DEFINE t == <<a>> \o s
<1>1. t \in Seq(Atoms) /\ Len(t) > 1 /\ Tail(t) = s /\ t[1] = a /\ \A k \in DOMAIN t : k = 1 \/ (k - 1 \in DOMAIN s /\ t[k] = s[k - 1])
  OBVIOUS
<1>2. OpsOf(t) = {}
  BY <1>1 DEF OpsOf, Binary, Comparing
<1> HIDE DEF t
<1>3. ReadBack[t] = Bool(ReadBack[Tail(t)] = 0)
  BY <1>1, <1>2, ReadBackIs DEF ReadBackBody
<1> QED BY <1>1, <1>3 DEF t

\* An operator is applied last when none before it binds looser, and those
\* after it bind more tightly.
LEMMA AppliedLast ==
  ASSUME NEW s \in Seq(Atoms), NEW c \in Atoms, NEW t \in Seq(Atoms), c.op \in Binary,
         \A k \in OpsOf(s) : CxxLevel(s[k].op) >= CxxLevel(c.op),
         \A k \in OpsOf(t) : CxxLevel(t[k].op) > CxxLevel(c.op)
  PROVE  ReadBack[s \o <<c>> \o t] = Apply(c.op, ReadBack[s], ReadBack[t])
<1> DEFINE a == s \o <<c>> \o t
           m == Len(s) + 1
<1>1. /\ a \in Seq(Atoms) /\ Len(a) = Len(s) + 1 + Len(t) /\ Len(s) \in Nat /\ Len(t) \in Nat
      /\ m \in Nat /\ Len(a) \in Nat /\ m \in DOMAIN a /\ DOMAIN a = 1 .. Len(a)
      /\ a[m] = c
      /\ \A k \in 1 .. Len(s) : a[k] = s[k]
      /\ \A k \in 1 .. Len(t) : a[m + k] = t[k]
  OBVIOUS
<1>2. ASSUME NEW k \in OpsOf(a)
      PROVE  /\ k < m => k \in OpsOf(s) /\ a[k] = s[k]
             /\ k > m => k - m \in OpsOf(t) /\ a[k] = t[k - m]
  <2>1. k \in 1 .. Len(a) /\ a[k].op \in Binary
    BY <1>1 DEF OpsOf
  <2>2. ASSUME k < m PROVE k \in OpsOf(s) /\ a[k] = s[k]
    <3>1. k \in 1 .. Len(s)
      BY <2>1, <2>2, <1>1
    <3> HIDE DEF a, m
    <3> QED BY <2>1, <3>1, <1>1 DEF OpsOf
  <2>3. ASSUME k > m PROVE k - m \in OpsOf(t) /\ a[k] = t[k - m]
    <3>1. k - m \in 1 .. Len(t) /\ m + (k - m) = k
      BY <2>1, <2>3, <1>1
    <3> HIDE DEF a, m
    <3> QED BY <2>1, <3>1, <1>1 DEF OpsOf
  <2> HIDE DEF a, m
  <2> QED BY <2>2, <2>3
<1> HIDE DEF a
<1>3. m \in OpsOf(a)
  BY <1>1 DEF OpsOf
<1>4. ASSUME NEW k \in OpsOf(a)
      PROVE  CxxLevel(a[m].op) <= CxxLevel(a[k].op) /\ (k > m => CxxLevel(a[m].op) < CxxLevel(a[k].op)) /\ k \in Nat
  <2>1. k \in Nat /\ a[k].op \in Binary
    BY <1>1 DEF OpsOf
  <2> HIDE DEF m
  <2>2. CASE k < m
    BY <1>1, <1>2, <2>1, <2>2, LevelTyped
  <2>3. CASE k = m
    BY <1>1, <2>3, LevelTyped
  <2>4. CASE k > m
    <3>1. k - m \in OpsOf(t) /\ a[k] = t[k - m]
      BY <1>2, <2>4
    <3>2. CxxLevel(t[k - m].op) > CxxLevel(c.op)
      BY <3>1
    <3>3. CxxLevel(a[k].op) \in Nat /\ CxxLevel(c.op) \in Nat
      BY <2>1, LevelTyped
    <3> QED BY <2>1, <3>1, <3>2, <3>3, <1>1
  <2> QED BY <2>1, <2>2, <2>3, <2>4, <1>1
<1>5. m \in LoosestOf(a)
  BY <1>3, <1>4 DEF LoosestOf
<1>6. \A k \in LoosestOf(a) : k <= m
  <2> SUFFICES ASSUME NEW k \in LoosestOf(a), k > m PROVE FALSE
    BY <1>1, <1>4 DEF LoosestOf
  <2>1. k \in OpsOf(a) /\ CxxLevel(a[k].op) <= CxxLevel(a[m].op)
    BY <1>3 DEF LoosestOf
  <2>2. CxxLevel(a[m].op) < CxxLevel(a[k].op)
    BY <2>1, <1>4
  <2>3. CxxLevel(a[m].op) \in Nat /\ CxxLevel(a[k].op) \in Nat
    BY <2>1, <1>3, LevelTyped DEF OpsOf
  <2> QED BY <2>1, <2>2, <2>3
<1>7. PlaceOf(a) = m
  <2>1. PlaceOf(a) \in LoosestOf(a) /\ m <= PlaceOf(a) /\ PlaceOf(a) <= m
    BY <1>1, <1>3, <1>5, <1>6, PlaceIs
  <2>2. PlaceOf(a) \in Nat
    BY <2>1, <1>1 DEF LoosestOf, OpsOf
  <2> HIDE DEF m
  <2> QED BY <2>1, <2>2, <1>1
<1>8. SubSeq(a, 1, m - 1) = s
  BY DEF a
<1>9. SubSeq(a, m + 1, Len(a)) = t
  BY <1>1 DEF a
<1>10. ReadBack[a] = ReadBackBody(a, ReadBack)
  BY <1>1, ReadBackIs
<1> HIDE DEF m
<1>11. ReadBack[a] = Apply(a[m].op, ReadBack[SubSeq(a, 1, m - 1)], ReadBack[SubSeq(a, m + 1, Len(a))])
  BY <1>3, <1>7, <1>10 DEF ReadBackBody
<1>12. ReadBack[a] = Apply(c.op, ReadBack[s], ReadBack[t])
  BY <1>8, <1>9, <1>11, <1>1
<1> QED BY <1>12 DEF a
-----------------------------------------------------------------------------
(***************************************************************************)
(* The value of a text depends on the values of its operands only, which   *)
(* are no deeper than the expression it is printed for.                    *)
(***************************************************************************)
LEMMA TokenKinds ==
  ASSUME NEW d, NEW t \in TokensUpto(d)
  PROVE  \/ t.token = "operator" /\ t.op \in (Binary \ {"!="}) \cup {"not"} /\ t = Operator(t.op)
         \/ t.token = "number" /\ t.val \in Words /\ t = Number(t.val)
         \/ t.token = "operand" /\ t.of \in Exprs /\ Depth[t.of] <= d /\ t = Operand(t.of)
<1>1. CASE t \in Signs
  BY <1>1 DEF Signs, Operator
<1>2. CASE t \in Numbers
  BY <1>2 DEF Numbers, Number
<1>3. CASE t \in {Operand(e) : e \in {o \in Exprs : Depth[o] <= d}}
  BY <1>3 DEF Operand
<1> QED BY <1>1, <1>2, <1>3 DEF TokensUpto

LEMMA TextValueLocal ==
  ASSUME NEW f, NEW g, NEW d, \A o \in Exprs : Depth[o] <= d => f[o] = g[o],
         NEW text \in Seq(TokensUpto(d)), NEW env
  PROVE  TextValue(text, env, f) = TextValue(text, env, g)
<1>1. ASSUME NEW k \in DOMAIN text PROVE AtomOf(text[k], env, f) = AtomOf(text[k], env, g)
  <2>1. text[k] \in TokensUpto(d)
    OBVIOUS
  <2>2. \/ text[k].token = "operator"
        \/ text[k].token = "number"
        \/ text[k].token = "operand" /\ f[text[k].of] = g[text[k].of]
    BY <2>1, TokenKinds
  <2> QED BY <2>2 DEF AtomOf
<1>2. [k \in DOMAIN text |-> AtomOf(text[k], env, f)] = [k \in DOMAIN text |-> AtomOf(text[k], env, g)]
  BY <1>1
<1> QED BY <1>2 DEF TextValue

LEMMA IndexTextTyped ==
  ASSUME NEW e \in Exprs
  PROVE  IndexText(e) \in Seq(TokensUpto(Depth[e]))
<1> DEFINE T == TokensUpto(Depth[e])
<1>1. Text[e] \in Seq(T)
  BY TextTyped
<1>2. Operator("-") \in T /\ Number(1) \in T
  BY SmallWords DEF TokensUpto, Signs, Numbers, Binary, Comparing
<1> HIDE DEF T
<1>3. Text[e] \o <<Operator("-"), Number(1)>> \in Seq(T)
  BY <1>1, <1>2
<1> QED BY <1>3 DEF IndexText, T

LEMMA ArgValueLocal ==
  ASSUME NEW f, NEW g, NEW e \in Exprs, \A d \in Exprs : Depth[d] < Depth[e] => f[d] = g[d],
         NEW k \in DOMAIN e.args, NEW env
  PROVE  /\ TextValue(Text[e.args[k]], env, f) = TextValue(Text[e.args[k]], env, g)
         /\ TextValue(IndexText(e.args[k]), env, f) = TextValue(IndexText(e.args[k]), env, g)
<1>1. e.args[k] \in Exprs /\ Depth[e.args[k]] < Depth[e] /\ Depth[e] \in Nat /\ Depth[e.args[k]] \in Nat
  BY NodeTyped
<1>2. \A o \in Exprs : Depth[o] <= Depth[e.args[k]] => f[o] = g[o]
  BY <1>1, NodeTyped
<1> QED BY <1>1, <1>2, TextTyped, IndexTextTyped, TextValueLocal

LEMMA LoopCallLocal ==
  ASSUME NEW f, NEW g, NEW e \in Exprs, \A d \in Exprs : Depth[d] < Depth[e] => f[d] = g[d], e.op \in Loops, NEW env
  PROVE  LoopCall(e, env, f) = LoopCall(e, env, g)
<1>1. \A k \in DOMAIN e.args : \A x : TextValue(Text[e.args[k]], x, f) = TextValue(Text[e.args[k]], x, g)
  BY ArgValueLocal
<1>2. 1 \in DOMAIN e.args /\ \A k \in 1 .. Len(e.args) - 1 : k + 1 \in DOMAIN e.args
  BY Operands, NodeTyped
<1> DEFINE items(h) == [k \in 1 .. Len(e.args) - 1 |-> TextValue(Text[e.args[k + 1]], env, h)]
<1>3. items(f) = items(g)
  BY <1>1, <1>2
<1> DEFINE low(h) == IF e.op = "for range" THEN items(h)[1] ELSE 0
           high(h) == IF e.op = "for range" THEN items(h)[2] ELSE Len(items(h))
           body(h, p) == TextValue(Text[e.args[1]], ItemEnv(e, env, ItemOf(e, items(h), p)), h)
<1>4. low(f) = low(g) /\ high(f) = high(g)
  <2> HIDE DEF items
  <2> QED BY <1>3
<1>5. \A p : body(f, p) = body(g, p)
  BY <1>1, <1>2, <1>3
<1>6. {p \in low(f) .. high(f) - 1 : body(f, p) # 0} = {p \in low(g) .. high(g) - 1 : body(g, p) # 0}
  <2> HIDE DEF low, high, body
  <2> QED BY <1>4, <1>5
<1> HIDE DEF low, high, body, items
<1> QED BY <1>4, <1>6 DEF LoopCall, low, high, body, items

PrimaryBody(e, f) == [env \in Envs |-> OperandValue(e, env, f)]

LEMMA PrimaryLocal ==
  ASSUME NEW f, NEW g, NEW e \in Exprs, \A d \in Exprs : Depth[d] < Depth[e] => f[d] = g[d]
  PROVE  PrimaryBody(e, f) = PrimaryBody(e, g)
<1>1. ASSUME NEW env PROVE OperandValue(e, env, f) = OperandValue(e, env, g)
  <2> DEFINE arg(k, h) == TextValue(Text[e.args[k]], env, h)
             position(h) == IF e.args = <<>> THEN 0 ELSE TextValue(IndexText(e.args[1]), env, h)
  <2>1. \A k \in DOMAIN e.args : arg(k, f) = arg(k, g)
    BY ArgValueLocal
  <2>2. e.op \in {"paren", "at", "read", "in"} => arg(1, f) = arg(1, g)
    BY <2>1, Operands
  <2>3. e.op = "in" => arg(2, f) = arg(2, g)
    BY <2>1, Operands
  <2>4. e.op \in {"offset", "length"} => position(f) = position(g)
    <3> SUFFICES ASSUME e.op \in {"offset", "length"}, e.args # <<>> PROVE position(f) = position(g)
      OBVIOUS
    <3>1. 1 \in DOMAIN e.args
      BY Operands
    <3>2. \A k \in DOMAIN e.args : TextValue(IndexText(e.args[k]), env, f) = TextValue(IndexText(e.args[k]), env, g)
      BY ArgValueLocal
    <3> QED BY <3>1, <3>2
  <2>5. e.op \in Loops => LoopCall(e, env, f) = LoopCall(e, env, g)
    BY LoopCallLocal
  <2> HIDE DEF arg, position
  <2>6. CASE e.op \in {"paren", "at", "read"}
    BY <2>6, <2>2 DEF OperandValue, arg, Loops, OverStrings, OverIntegers
  <2>7. CASE e.op = "in"
    BY <2>7, <2>2, <2>3 DEF OperandValue, arg, Loops, OverStrings, OverIntegers
  <2>8. CASE e.op \in {"offset", "length"}
    BY <2>8, <2>4 DEF OperandValue, position, Loops, OverStrings, OverIntegers
  <2>9. CASE e.op \in Loops
    BY <2>9, <2>5 DEF OperandValue, Loops, OverStrings, OverIntegers
  <2>10. CASE e.op \in Leaves
    BY <2>10 DEF OperandValue, Leaves, Loops, OverStrings, OverIntegers
  <2>11. CASE e.op \in Binary \cup {"not"}
    BY <2>11 DEF OperandValue, Binary, Comparing, Loops, OverStrings, OverIntegers
  <2>12. e.op \in Binary \cup Leaves \cup Loops \cup {"not", "paren", "offset", "length", "at", "in", "read"}
    BY NodeTyped, Zenon DEF WellFormed
  <2> QED BY <2>6, <2>7, <2>8, <2>9, <2>10, <2>11, <2>12
<1> QED BY <1>1 DEF PrimaryBody

PrimaryBelow(m, f) == \A e \in Exprs : Depth[e] < m => f[e] = PrimaryBody(e, f)

LEMMA PrimaryStep ==
  ASSUME NEW m \in Nat, \E f : PrimaryBelow(m, f)
  PROVE  \E g : g = [e \in Exprs |-> g[e]] /\ PrimaryBelow(m + 1, g)
<1>1. PICK f : PrimaryBelow(m, f)
  OBVIOUS
<1> DEFINE g == [e \in Exprs |-> PrimaryBody(e, f)]
<1>2. \A e \in Exprs : Depth[e] < m => g[e] = f[e]
  BY <1>1 DEF PrimaryBelow
<1>3. ASSUME NEW e \in Exprs, Depth[e] < m + 1
      PROVE  PrimaryBody(e, f) = PrimaryBody(e, g)
  <2>1. \A d \in Exprs : Depth[d] < Depth[e] => Depth[d] < m
    BY <1>3, NodeTyped
  <2>2. \A d \in Exprs : Depth[d] < Depth[e] => f[d] = g[d]
    BY <2>1, <1>2
  <2> HIDE DEF g
  <2> QED BY <2>2, PrimaryLocal
<1>4. PrimaryBelow(m + 1, g)
  BY <1>3 DEF PrimaryBelow
<1> QED BY <1>4

LEMMA PrimaryIs == \A e \in Exprs : Primary[e] = PrimaryBody(e, Primary)
<1> DEFINE S == {m \in Nat : \E f : PrimaryBelow(m, f)}
<1>1. 0 \in S
  <2>1. PrimaryBelow(0, Depth)
    BY NodeTyped DEF PrimaryBelow
  <2> QED BY <2>1
<1>2. \A m \in Nat : m \in S => m + 1 \in S
  BY PrimaryStep
<1>3. Nat \subseteq S
  <2> HIDE DEF S
  <2> QED BY <1>1, <1>2, NumbersFromZero
<1>4. PICK g : g = [e \in Exprs |-> g[e]] /\ PrimaryBelow(MaxDepth + 1, g)
  BY <1>3, PrimaryStep, ExprsAssumption
<1>5. \A e \in Exprs : g[e] = PrimaryBody(e, g)
  BY <1>4, NodeTyped DEF PrimaryBelow
<1>6. g = [e \in Exprs |-> PrimaryBody(e, g)]
  BY <1>4, <1>5
<1>7. Primary = [e \in Exprs |-> PrimaryBody(e, Primary)]
  BY <1>6 DEF Primary, PrimaryBody
<1> QED BY <1>7
-----------------------------------------------------------------------------
\* The meaning of an expression depends on those of its operands only.
MeaningBody(e, f) ==
  [env \in Envs |->
     IF e.op \in Loops THEN QuantifierMeaning(e, env, f)
     ELSE OperatorMeaning(e, env, [k \in DOMAIN e.args |-> f[e.args[k]][env]])]

QuantifierOf(e, env, items, bodies) ==
  LET positions == IF e.op = "for range" THEN items[1][1] .. items[2][1] - 1 ELSE DOMAIN items
      itemAt(p) == IF e.op = "for range" THEN p ELSE items[p][1]
      body(p) == bodies[ItemEnv(e, env, itemAt(p))]
      held == {p \in positions : body(p) # <<0>>}
  IN  IF \E k \in DOMAIN items : items[k] = <<>> THEN <<>>
      ELSE IF \E p \in positions : body(p) = <<>> THEN <<>>
      ELSE CASE e.quantifier = "any" -> Defined(held # {})
             [] e.quantifier = "all" -> Defined(held = positions)
             [] e.quantifier = "literal" -> Defined(Cardinality(held) >= e.val)
             [] e.quantifier = "other" -> <<>>

LEMMA QuantifierIs ==
  ASSUME NEW e, NEW env, NEW f
  PROVE  QuantifierMeaning(e, env, f)
           = QuantifierOf(e, env, [k \in 1 .. Len(e.args) - 1 |-> f[e.args[k + 1]][env]], f[e.args[1]])
  BY DEF QuantifierMeaning, QuantifierOf

LEMMA QuantifierMeaningLocal ==
  ASSUME NEW f, NEW g, NEW e \in Exprs, \A d \in Exprs : Depth[d] < Depth[e] => f[d] = g[d], e.op \in Loops, NEW env
  PROVE  QuantifierMeaning(e, env, f) = QuantifierMeaning(e, env, g)
<1>1. \A k \in DOMAIN e.args : f[e.args[k]] = g[e.args[k]]
  BY NodeTyped
<1>2. 1 \in DOMAIN e.args /\ \A k \in 1 .. Len(e.args) - 1 : k + 1 \in DOMAIN e.args
  BY Operands, NodeTyped
<1> DEFINE items(h) == [k \in 1 .. Len(e.args) - 1 |-> h[e.args[k + 1]][env]]
<1>3. items(f) = items(g)
  BY <1>1, <1>2
<1>4. f[e.args[1]] = g[e.args[1]]
  BY <1>1, <1>2
<1> HIDE DEF items
<1>5. \A h : QuantifierMeaning(e, env, h) = QuantifierOf(e, env, items(h), h[e.args[1]])
  BY QuantifierIs DEF items
<1> QED BY <1>3, <1>4, <1>5

LEMMA MeaningLocal ==
  ASSUME NEW f, NEW g, NEW e \in Exprs, \A d \in Exprs : Depth[d] < Depth[e] => f[d] = g[d]
  PROVE  MeaningBody(e, f) = MeaningBody(e, g)
<1>1. \A k \in DOMAIN e.args : f[e.args[k]] = g[e.args[k]]
  BY NodeTyped
<1>2. \A env : [k \in DOMAIN e.args |-> f[e.args[k]][env]] = [k \in DOMAIN e.args |-> g[e.args[k]][env]]
  BY <1>1
<1>3. CASE e.op \in Loops
  <2>1. \A env : QuantifierMeaning(e, env, f) = QuantifierMeaning(e, env, g)
    BY <1>3, QuantifierMeaningLocal
  <2> QED BY <1>3, <2>1 DEF MeaningBody
<1>4. CASE e.op \notin Loops
  BY <1>2, <1>4 DEF MeaningBody
<1> QED BY <1>3, <1>4

MeaningBelow(m, f) == \A e \in Exprs : Depth[e] < m => f[e] = MeaningBody(e, f)

LEMMA MeaningStep ==
  ASSUME NEW m \in Nat, \E f : MeaningBelow(m, f)
  PROVE  \E g : g = [e \in Exprs |-> g[e]] /\ MeaningBelow(m + 1, g)
<1>1. PICK f : MeaningBelow(m, f)
  OBVIOUS
<1> DEFINE g == [e \in Exprs |-> MeaningBody(e, f)]
<1>2. \A e \in Exprs : Depth[e] < m => g[e] = f[e]
  BY <1>1 DEF MeaningBelow
<1>3. ASSUME NEW e \in Exprs, Depth[e] < m + 1
      PROVE  MeaningBody(e, f) = MeaningBody(e, g)
  <2>1. \A d \in Exprs : Depth[d] < Depth[e] => Depth[d] < m
    BY <1>3, NodeTyped
  <2>2. \A d \in Exprs : Depth[d] < Depth[e] => f[d] = g[d]
    BY <2>1, <1>2
  <2> HIDE DEF g
  <2> QED BY <2>2, MeaningLocal
<1>4. MeaningBelow(m + 1, g)
  BY <1>3 DEF MeaningBelow
<1> QED BY <1>4

LEMMA MeaningIs == \A e \in Exprs : Meaning[e] = MeaningBody(e, Meaning)
<1> DEFINE S == {m \in Nat : \E f : MeaningBelow(m, f)}
<1>1. 0 \in S
  <2>1. MeaningBelow(0, Depth)
    BY NodeTyped DEF MeaningBelow
  <2> QED BY <2>1
<1>2. \A m \in Nat : m \in S => m + 1 \in S
  BY MeaningStep
<1>3. Nat \subseteq S
  <2> HIDE DEF S
  <2> QED BY <1>1, <1>2, NumbersFromZero
<1>4. PICK g : g = [e \in Exprs |-> g[e]] /\ MeaningBelow(MaxDepth + 1, g)
  BY <1>3, MeaningStep, ExprsAssumption
<1>5. \A e \in Exprs : g[e] = MeaningBody(e, g)
  BY <1>4, NodeTyped DEF MeaningBelow
<1>6. g = [e \in Exprs |-> MeaningBody(e, g)]
  BY <1>4, <1>5
<1>7. Meaning = [e \in Exprs |-> MeaningBody(e, Meaning)]
  BY <1>6 DEF Meaning, MeaningBody
<1> QED BY <1>7
-----------------------------------------------------------------------------
(***************************************************************************)
(* The value of a text, operator by operator.                              *)
(***************************************************************************)
AtomsOf(text, env) == [k \in DOMAIN text |-> AtomOf(text[k], env, Primary)]
Typed(text, env) ==
  /\ text \in Seq(TokensUpto(MaxDepth))
  /\ \A k \in DOMAIN text : text[k].token = "operand" => Primary[text[k].of][env] \in Words

LEMMA AtomTyped ==
  ASSUME NEW d, NEW t \in TokensUpto(d), NEW env, t.token = "operand" => Primary[t.of][env] \in Words
  PROVE  /\ AtomOf(t, env, Primary) \in Atoms
         /\ AtomOf(t, env, Primary).op \in Binary => t = Operator(AtomOf(t, env, Primary).op)
<1>1. CASE t.token = "operator" /\ t.op \in (Binary \ {"!="}) \cup {"not"} /\ t = Operator(t.op)
  BY <1>1, SmallWords DEF AtomOf, Atoms
<1>2. CASE t.token = "number" /\ t.val \in Words /\ t = Number(t.val)
  BY <1>2 DEF AtomOf, Atoms, Binary, Comparing
<1>3. CASE t.token = "operand"
  BY <1>3 DEF AtomOf, Atoms, Binary, Comparing
<1> QED BY <1>1, <1>2, <1>3, TokenKinds

LEMMA AtomsTyped ==
  ASSUME NEW text, NEW env, Typed(text, env)
  PROVE  /\ AtomsOf(text, env) \in Seq(Atoms) /\ Len(AtomsOf(text, env)) = Len(text)
         /\ text # <<>> => AtomsOf(text, env) # <<>>
         /\ \A k \in OpsOf(AtomsOf(text, env)) : AtomsOf(text, env)[k].op \in Placed(text)
<1>1. ASSUME NEW k \in DOMAIN text
      PROVE  /\ AtomOf(text[k], env, Primary) \in Atoms
             /\ AtomOf(text[k], env, Primary).op \in Binary => text[k] = Operator(AtomOf(text[k], env, Primary).op)
  <2>1. text[k] \in TokensUpto(MaxDepth)
    BY DEF Typed
  <2> QED BY <2>1, AtomTyped DEF Typed
<1>2. text \in Seq(TokensUpto(MaxDepth)) /\ DOMAIN text = 1 .. Len(text) /\ Len(text) \in Nat
  BY DEF Typed
<1>3. AtomsOf(text, env) \in Seq(Atoms) /\ Len(AtomsOf(text, env)) = Len(text)
  BY <1>1, <1>2 DEF AtomsOf
<1>4. ASSUME text # <<>> PROVE AtomsOf(text, env) # <<>>
  <2>1. Len(text) # 0
    BY <1>2, <1>4
  <2> QED BY <1>3, <2>1
<1>5. \A k \in OpsOf(AtomsOf(text, env)) : AtomsOf(text, env)[k].op \in Placed(text)
  BY <1>1 DEF OpsOf, Placed, AtomsOf
<1> QED BY <1>3, <1>4, <1>5

LEMMA TextJoined ==
  ASSUME NEW env, NEW s, Typed(s, env), NEW t, Typed(t, env)
  PROVE  Typed(s \o t, env) /\ AtomsOf(s \o t, env) = AtomsOf(s, env) \o AtomsOf(t, env)
<1>1. s \in Seq(TokensUpto(MaxDepth)) /\ t \in Seq(TokensUpto(MaxDepth))
  BY DEF Typed
<1> DEFINE u == s \o t
<1>2. /\ u \in Seq(TokensUpto(MaxDepth)) /\ Len(u) = Len(s) + Len(t) /\ Len(s) \in Nat /\ Len(t) \in Nat
      /\ DOMAIN u = 1 .. Len(u) /\ DOMAIN s = 1 .. Len(s) /\ DOMAIN t = 1 .. Len(t)
      /\ \A k \in DOMAIN u : u[k] = IF k <= Len(s) THEN s[k] ELSE t[k - Len(s)]
  BY <1>1
<1> HIDE DEF u
<1>3. \A k \in DOMAIN u : \/ k \in DOMAIN s /\ u[k] = s[k]
                          \/ k - Len(s) \in DOMAIN t /\ u[k] = t[k - Len(s)]
  BY <1>2
<1>4. Typed(u, env)
  BY <1>2, <1>3 DEF Typed
<1> DEFINE a == AtomsOf(s, env)
           b == AtomsOf(t, env)
           c == AtomsOf(u, env)
<1>5. /\ a \in Seq(Atoms) /\ Len(a) = Len(s) /\ b \in Seq(Atoms) /\ Len(b) = Len(t)
      /\ c \in Seq(Atoms) /\ Len(c) = Len(u)
  BY <1>4, AtomsTyped
<1>6. ASSUME NEW k \in 1 .. Len(u)
      PROVE  c[k] = IF k <= Len(s) THEN a[k] ELSE b[k - Len(s)]
  <2>1. c[k] = AtomOf(u[k], env, Primary)
    BY <1>2 DEF AtomsOf
  <2>2. /\ \A j \in DOMAIN s : a[j] = AtomOf(s[j], env, Primary)
        /\ \A j \in DOMAIN t : b[j] = AtomOf(t[j], env, Primary)
    BY DEF AtomsOf
  <2>3. CASE k <= Len(s)
    <3>1. k \in DOMAIN s /\ u[k] = s[k]
      BY <1>2, <2>3
    <3> HIDE DEF a, b, c
    <3> QED BY <2>1, <2>2, <2>3, <3>1
  <2>4. CASE ~(k <= Len(s))
    <3>1. k - Len(s) \in DOMAIN t /\ u[k] = t[k - Len(s)]
      BY <1>2, <2>4
    <3> HIDE DEF a, b, c
    <3> QED BY <2>1, <2>2, <2>4, <3>1
  <2> HIDE DEF a, b, c
  <2> QED BY <2>3, <2>4
<1> HIDE DEF a, b, c
<1>7. Len(c) = Len(a) + Len(b) /\ \A k \in 1 .. Len(c) : c[k] = IF k <= Len(a) THEN a[k] ELSE b[k - Len(a)]
  BY <1>2, <1>5, <1>6
<1>8. c = a \o b
  <2>1. /\ a \o b \in Seq(Atoms) /\ Len(a \o b) = Len(c)
        /\ \A k \in 1 .. Len(c) : (a \o b)[k] = IF k <= Len(a) THEN a[k] ELSE b[k - Len(a)]
    BY <1>5, <1>7, ConcatProperties
  <2>2. \A k \in 1 .. Len(c) : c[k] = (a \o b)[k]
    BY <1>7, <2>1
  <2> QED BY <1>5, <2>1, <2>2, SeqEqual
<1> QED BY <1>4, <1>8 DEF u, a, b, c

\* The tokens of the visitors, one by one.
LEMMA TokenTyped ==
  ASSUME NEW env
  PROVE  /\ \A op \in (Binary \ {"!="}) \cup {"not"} :
              Typed(<<Operator(op)>>, env) /\ AtomsOf(<<Operator(op)>>, env) = <<[op |-> op, val |-> 0]>>
         /\ \A v \in Words :
              /\ Typed(<<Number(v)>>, env) /\ TextValue(<<Number(v)>>, env, Primary) = v
              /\ Placed(<<Number(v)>>) = {} /\ <<Number(v)>> # <<>>
         /\ \A e \in Exprs : Primary[e][env] \in Words =>
              /\ Typed(<<Operand(e)>>, env) /\ TextValue(<<Operand(e)>>, env, Primary) = Primary[e][env]
              /\ Placed(<<Operand(e)>>) = {} /\ <<Operand(e)>> # <<>>
<1>1. ASSUME NEW t, t \in TokensUpto(MaxDepth), t.token = "operand" => Primary[t.of][env] \in Words
      PROVE  Typed(<<t>>, env) /\ AtomsOf(<<t>>, env) = <<AtomOf(t, env, Primary)>>
  <2> DEFINE s == <<t>>
  <2>1. s \in Seq(TokensUpto(MaxDepth)) /\ DOMAIN s = {1} /\ s[1] = t
    BY <1>1
  <2> HIDE DEF s
  <2>2. Typed(s, env)
    BY <1>1, <2>1 DEF Typed
  <2>3. AtomsOf(s, env) = [k \in {1} |-> AtomOf(t, env, Primary)]
    BY <2>1 DEF AtomsOf
  <2> QED BY <2>2, <2>3 DEF s
<1>2. ASSUME NEW op \in (Binary \ {"!="}) \cup {"not"}
      PROVE  Typed(<<Operator(op)>>, env) /\ AtomsOf(<<Operator(op)>>, env) = <<[op |-> op, val |-> 0]>>
  <2>1. Operator(op) \in TokensUpto(MaxDepth) /\ Operator(op).token = "operator" /\ Operator(op).op = op
    BY DEF TokensUpto, Signs, Operator
  <2>2. AtomOf(Operator(op), env, Primary) = [op |-> op, val |-> 0]
    BY <2>1 DEF AtomOf
  <2> QED BY <1>1, <2>1, <2>2
<1>3. ASSUME NEW t, t \in TokensUpto(MaxDepth), t.token = "operand" => Primary[t.of][env] \in Words,
             t.token \in {"number", "operand"}, NEW v \in Words, AtomOf(t, env, Primary) = [op |-> "value", val |-> v]
      PROVE  Typed(<<t>>, env) /\ TextValue(<<t>>, env, Primary) = v /\ Placed(<<t>>) = {} /\ <<t>> # <<>>
  <2>1. Typed(<<t>>, env) /\ AtomsOf(<<t>>, env) = <<[op |-> "value", val |-> v]>>
    BY <1>1, <1>3
  <2>2. ReadBack[<<[op |-> "value", val |-> v]>>] = v
    BY SingleValue DEF Atoms
  <2>3. \A op : t # Operator(op)
    BY <1>3 DEF Operator
  <2>4. Placed(<<t>>) = {}
    BY <2>3 DEF Placed
  <2>5. TextValue(<<t>>, env, Primary) = v
    BY <2>1, <2>2 DEF TextValue, AtomsOf
  <2> QED BY <2>1, <2>4, <2>5
<1>4. ASSUME NEW v \in Words
      PROVE  /\ Typed(<<Number(v)>>, env) /\ TextValue(<<Number(v)>>, env, Primary) = v
             /\ Placed(<<Number(v)>>) = {} /\ <<Number(v)>> # <<>>
  <2>1. Number(v) \in TokensUpto(MaxDepth) /\ Number(v).token = "number" /\ Number(v).val = v
    BY DEF TokensUpto, Numbers, Number
  <2>2. AtomOf(Number(v), env, Primary) = [op |-> "value", val |-> v]
    BY <2>1 DEF AtomOf
  <2> QED BY <1>3, <2>1, <2>2
<1>5. ASSUME NEW e \in Exprs, Primary[e][env] \in Words
      PROVE  /\ Typed(<<Operand(e)>>, env) /\ TextValue(<<Operand(e)>>, env, Primary) = Primary[e][env]
             /\ Placed(<<Operand(e)>>) = {} /\ <<Operand(e)>> # <<>>
  <2>1. Operand(e) \in TokensUpto(MaxDepth) /\ Operand(e).token = "operand" /\ Operand(e).of = e
    BY NodeTyped, ExprsAssumption DEF TokensUpto, Operand
  <2>2. AtomOf(Operand(e), env, Primary) = [op |-> "value", val |-> Primary[e][env]]
    BY <2>1 DEF AtomOf
  <2> QED BY <1>3, <1>5, <2>1, <2>2
<1> QED BY <1>2, <1>4, <1>5

LEMMA OperatorText ==
  ASSUME NEW env, NEW s, Typed(s, env), NEW t, Typed(t, env), NEW op \in Binary, op # "!=",
         \A o \in Placed(s) : CxxLevel(o) >= CxxLevel(op),
         \A o \in Placed(t) : CxxLevel(o) > CxxLevel(op)
  PROVE  /\ Typed(s \o <<Operator(op)>> \o t, env)
         /\ TextValue(s \o <<Operator(op)>> \o t, env, Primary)
              = Apply(op, TextValue(s, env, Primary), TextValue(t, env, Primary))
<1> DEFINE c == [op |-> op, val |-> 0]
           u == <<Operator(op)>>
           w == s \o u
<1>1. Typed(u, env) /\ AtomsOf(u, env) = <<c>>
  BY TokenTyped
<1> HIDE DEF u
<1>2. Typed(w, env) /\ AtomsOf(w, env) = AtomsOf(s, env) \o <<c>>
  <2>1. Typed(s \o u, env) /\ AtomsOf(s \o u, env) = AtomsOf(s, env) \o AtomsOf(u, env)
    BY <1>1, TextJoined
  <2> QED BY <1>1, <2>1
<1> HIDE DEF w
<1>3. Typed(w \o t, env) /\ AtomsOf(w \o t, env) = AtomsOf(s, env) \o <<c>> \o AtomsOf(t, env)
  <2>1. Typed(w \o t, env) /\ AtomsOf(w \o t, env) = AtomsOf(w, env) \o AtomsOf(t, env)
    BY <1>2, TextJoined
  <2> QED BY <1>2, <2>1
<1>4. c \in Atoms /\ c.op = op
  BY SmallWords DEF Atoms
<1>5. ReadBack[AtomsOf(s, env) \o <<c>> \o AtomsOf(t, env)] = Apply(op, ReadBack[AtomsOf(s, env)], ReadBack[AtomsOf(t, env)])
  <2> HIDE DEF c
  <2> QED BY <1>4, AtomsTyped, AppliedLast
<1>6. \A x : TextValue(x, env, Primary) = ReadBack[AtomsOf(x, env)]
  BY DEF TextValue, AtomsOf
<1>7. TextValue(w \o t, env, Primary) = Apply(op, TextValue(s, env, Primary), TextValue(t, env, Primary))
  <2>1. TextValue(w \o t, env, Primary) = ReadBack[AtomsOf(w \o t, env)]
    BY DEF TextValue, AtomsOf
  <2>2. TextValue(s, env, Primary) = ReadBack[AtomsOf(s, env)] /\ TextValue(t, env, Primary) = ReadBack[AtomsOf(t, env)]
    BY <1>6
  <2> HIDE DEF c
  <2> QED BY <1>3, <1>5, <2>1, <2>2
<1> QED BY <1>3, <1>7 DEF w, u

LEMMA NegatedText ==
  ASSUME NEW env, NEW s, Typed(s, env), s # <<>>, Placed(s) = {}
  PROVE  /\ Typed(<<Operator("not")>> \o s, env)
         /\ TextValue(<<Operator("not")>> \o s, env, Primary) = Bool(TextValue(s, env, Primary) = 0)
<1> DEFINE c == [op |-> "not", val |-> 0]
<1>1. Typed(<<Operator("not")>>, env) /\ AtomsOf(<<Operator("not")>>, env) = <<c>>
  BY TokenTyped
<1>2. /\ Typed(<<Operator("not")>> \o s, env)
      /\ AtomsOf(<<Operator("not")>> \o s, env) = <<c>> \o AtomsOf(s, env)
  BY <1>1, TextJoined
<1>3. c \in Atoms /\ c.op = "not"
  BY SmallWords DEF Atoms
<1>4. AtomsOf(s, env) \in Seq(Atoms) /\ AtomsOf(s, env) # <<>> /\ OpsOf(AtomsOf(s, env)) = {}
  BY AtomsTyped
<1>5. ReadBack[<<c>> \o AtomsOf(s, env)] = Bool(ReadBack[AtomsOf(s, env)] = 0)
  BY <1>3, <1>4, NegatedValue
<1>6. \A x : TextValue(x, env, Primary) = ReadBack[AtomsOf(x, env)]
  BY DEF TextValue, AtomsOf
<1> QED BY <1>2, <1>5, <1>6
-----------------------------------------------------------------------------
(***************************************************************************)
(* What C++ computes is a word, and what YARA computes when that is one.   *)
(***************************************************************************)
LEMMA BoolTyped == ASSUME NEW b PROVE Bool(b) \in {0, 1} /\ Bool(b) \in Words /\ (Bool(b) # 0 <=> b) /\ (Bool(b) = 0 <=> ~b)
  BY SmallWords DEF Bool

LEMMA Remainder ==
  ASSUME NEW a \in Nat, NEW b \in Nat \ {0}
  PROVE  a % b \in 0 .. b - 1 /\ (a < b => a % b = a)
  OBVIOUS

LEMMA ApplyIs ==
  ASSUME NEW op \in Binary, op # "!=", NEW a \in Words, NEW b \in Words, op = "%" => b # 0
  PROVE  /\ Apply(op, a, b) \in Words
         /\ BinaryMeaning(op, a, b) # <<>> => BinaryMeaning(op, a, b) = <<Apply(op, a, b)>>
         /\ op \in {"or", "and"} \cup Comparing => BinaryMeaning(op, a, b) = <<Apply(op, a, b)>> /\ Apply(op, a, b) \in {0, 1}
<1>1. a \in Nat /\ b \in Nat /\ a < WordSize /\ b < WordSize /\ WordSize \in Nat \ {0}
  BY WordAssumption DEF Words
<1>2. \A v \in Nat : v % WordSize \in Words /\ (v \in Words => v % WordSize = v)
  BY WordAssumption, Remainder DEF Words
<1>3. CASE op \in {"or", "and"}
  <2>1. op = "or" => Apply(op, a, b) = Bool(a # 0 \/ b # 0)
    BY DEF Apply, Comparisons
  <2>2. op = "and" => Apply(op, a, b) = Bool(a # 0 /\ b # 0)
    BY DEF Apply, Comparisons
  <2>3. BinaryMeaning(op, a, b) = <<Apply(op, a, b)>>
    BY <1>3 DEF BinaryMeaning
  <2> QED BY <1>3, <2>1, <2>2, <2>3, BoolTyped
<1>4. CASE op \in {"^", "&"}
  <2>1. op = "^" => Apply(op, a, b) = BitXor(a, b)
    BY DEF Apply, Comparisons
  <2>2. op = "&" => Apply(op, a, b) = BitAnd(a, b)
    BY DEF Apply, Comparisons
  <2>3. BinaryMeaning(op, a, b) = <<Apply(op, a, b)>>
    BY <1>4 DEF BinaryMeaning
  <2> QED BY <1>4, <2>1, <2>2, <2>3, BitsAssumption DEF Comparing
<1>5. CASE op \in Comparing
  BY <1>5, BoolTyped DEF Apply, BinaryMeaning, Comparing, Comparisons, Compare
<1>6. CASE op = "+"
  <2>1. Apply(op, a, b) = (a + b) % WordSize /\ BinaryMeaning(op, a, b) = InWord(a + b) /\ a + b \in Nat
    BY <1>1, <1>6 DEF Apply, BinaryMeaning, Comparisons, Plus
  <2> QED BY <1>2, <1>6, <2>1 DEF InWord, Comparing
<1>7. CASE op = "*"
  <2>1. Apply(op, a, b) = (a * b) % WordSize /\ BinaryMeaning(op, a, b) = InWord(a * b)
    BY <1>7 DEF Apply, BinaryMeaning, Comparisons
  <2>2. a * b \in Nat
    BY <1>1
  <2> QED BY <1>2, <1>7, <2>1, <2>2 DEF InWord, Comparing
<1>8. CASE op = "-"
  <2>1. Apply(op, a, b) = Minus(a, b) /\ BinaryMeaning(op, a, b) = InWord(a - b)
    BY <1>8 DEF Apply, BinaryMeaning, Comparisons
  <2>2. a - b \in Words => b <= a
    BY <1>1 DEF Words
  <2> QED BY <1>8, <2>1, <2>2, MinusIs DEF InWord, Comparing
<1>9. CASE op = "%"
  <2>1. Apply(op, a, b) = a % b /\ BinaryMeaning(op, a, b) = <<a % b>> /\ b \in Nat \ {0}
    BY <1>1, <1>9 DEF Apply, BinaryMeaning, Comparisons
  <2>2. a % b \in 0 .. b - 1
    BY <1>1, <2>1, Remainder
  <2>3. a % b \in Words
    BY <1>1, <2>2 DEF Words
  <2> QED BY <1>9, <2>1, <2>3 DEF Comparing
<1> QED BY <1>3, <1>4, <1>5, <1>6, <1>7, <1>8, <1>9 DEF Binary

LEMMA Horner ==
  ASSUME NEW b \in Nat \ {0}, NEW m \in Nat \ {0}, NEW x \in 0 .. b - 1, NEW y \in 0 .. m - 1
  PROVE  x + b * y \in 0 .. b * m - 1
<1>1. b * y \in Nat /\ b * m \in Nat
  OBVIOUS
<1>2. b * (m - 1 - y) \in Nat
  OBVIOUS
<1>3. b * (m - 1 - y) = b * m - b - b * y
  OBVIOUS
<1> QED BY <1>1, <1>2, <1>3

LEMMA LoadedTyped ==
  ASSUME NEW bytes, DOMAIN bytes = 1 .. Len(bytes), Len(bytes) \in Nat,
         \A k \in DOMAIN bytes : bytes[k] \in 0 .. ByteSize - 1
  PROVE  Loaded(bytes) \in Words
<1> DEFINE byte(k) == IF k <= Len(bytes) THEN bytes[k] ELSE 0
           B == ByteSize
<1>1. B \in Nat \ {0} /\ B * B \in Nat \ {0} /\ B * (B * B) \in Nat \ {0} /\ B * (B * (B * B)) <= WordSize
      /\ B * (B * (B * B)) \in Nat
  BY ConditionSizes
<1>2. \A k \in {1, 2, 3, 4} : byte(k) \in 0 .. B - 1
  BY <1>1
<1> HIDE DEF byte, B
<1>3. byte(3) + B * byte(4) \in 0 .. B * B - 1
  BY <1>1, <1>2, Horner
<1>4. byte(2) + B * (byte(3) + B * byte(4)) \in 0 .. B * (B * B) - 1
  BY <1>1, <1>2, <1>3, Horner
<1>5. byte(1) + B * (byte(2) + B * (byte(3) + B * byte(4))) \in 0 .. B * (B * (B * B)) - 1
  BY <1>1, <1>2, <1>4, Horner
<1>6. byte(1) + B * (byte(2) + B * (byte(3) + B * byte(4))) \in Words
  BY <1>1, <1>5, WordAssumption DEF Words
<1> QED BY <1>6 DEF Loaded, byte, B

LEMMA ReadTyped ==
  ASSUME NEW r \in Rules, NEW offset \in Words, NEW width \in Widths, NEW order \in Orders
  PROVE  ReadData(r.data, offset, width, order) \in Words
<1>1. /\ r.data \in Seq(0 .. ByteSize - 1) /\ Len(r.data) \in Nat /\ offset \in Nat /\ width \in 1 .. 4
  BY Sizes, WordAssumption DEF Words, Widths
<1>2. CASE offset + width <= Len(r.data)
  <2> DEFINE bytes == BytesAt(r.data, offset, width, order)
  <2>1. bytes \in [1 .. width -> 0 .. ByteSize - 1]
    <3>1. ASSUME NEW k \in 1 .. width
          PROVE  r.data[offset + (IF order = "be" THEN width + 1 - k ELSE k)] \in 0 .. ByteSize - 1
      <4> DEFINE m == offset + (IF order = "be" THEN width + 1 - k ELSE k)
      <4>1. m \in 1 .. Len(r.data)
        BY <1>1, <1>2
      <4> HIDE DEF m
      <4>2. r.data[m] \in 0 .. ByteSize - 1
        BY <1>1, <4>1, ElementOfSeq
      <4> QED BY <4>2 DEF m
    <3> QED BY <3>1 DEF BytesAt
  <2>2. Len(bytes) = width
    BY <1>1, <2>1 DEF BytesAt
  <2> HIDE DEF bytes
  <2>3. Loaded(bytes) \in Words
    BY <1>1, <2>1, <2>2, LoadedTyped
  <2>4. ~(offset + width > Len(r.data))
    BY <1>1, <1>2
  <2> QED BY <2>3, <2>4, ReadIsExact, Zenon DEF bytes
<1>3. CASE ~(offset + width <= Len(r.data))
  <2>1. offset + width > Len(r.data)
    BY <1>1, <1>3
  <2>2. ReadData(r.data, offset, width, order) = Undefined
    BY <2>1, ReadIsExact, Zenon
  <2> QED BY <2>2, SizesAssumption
<1> QED BY <1>2, <1>3

LEMMA OccurrencesTyped ==
  ASSUME NEW r \in Rules, NEW id \in 0 .. StringCount - 1
  PROVE  /\ Occurrences(r, id) \in Seq([offset : Words, length : Words])
         /\ Len(Occurrences(r, id)) \in Words /\ Len(Occurrences(r, id)) < Undefined
         /\ DOMAIN Offsets(r, id) = 1 .. Len(Occurrences(r, id))
         /\ DOMAIN Lengths(r, id) = 1 .. Len(Occurrences(r, id))
         /\ \A k \in 1 .. Len(Occurrences(r, id)) :
              /\ Offsets(r, id)[k] = Occurrences(r, id)[k].offset /\ Offsets(r, id)[k] \in Words
              /\ Lengths(r, id)[k] = Occurrences(r, id)[k].length /\ Lengths(r, id)[k] \in Words
<1> DEFINE found == Occurrences(r, id)
<1>1. r.matches \in Seq(Seq([offset : Words, length : Words])) /\ Len(r.matches) = StringCount
  BY RulesAssumption, ConditionsAssumption DEF FoundType
<1>2. id + 1 \in DOMAIN r.matches
  BY <1>1, ConditionSizes
<1>3. found \in Seq([offset : Words, length : Words]) /\ Len(found) < Undefined
  BY <1>1, <1>2, SizesAssumption DEF Occurrences
<1>4. Len(found) \in Words
  BY <1>3, SizesAssumption, WordAssumption DEF Words
<1>5. DOMAIN found = 1 .. Len(found) /\ \A k \in 1 .. Len(found) : found[k].offset \in Words /\ found[k].length \in Words
  <2> HIDE DEF found
  <2>1. DOMAIN found = 1 .. Len(found) /\ \A k \in 1 .. Len(found) : found[k] \in [offset : Words, length : Words]
    BY <1>3, ElementOfSeq, LenProperties
  <2> QED BY <2>1
<1> QED BY <1>3, <1>4, <1>5 DEF Offsets, Lengths
-----------------------------------------------------------------------------
(***************************************************************************)
(* What the parts of a condition pass on to it.                            *)
(***************************************************************************)
LEMMA PlainParts ==
  ASSUME NEW e \in Exprs, Plain(e)
  PROVE  /\ KeepsGrouping(e) /\ KeepsValue(e)
         /\ \A k \in DOMAIN e.args : Plain(e.args[k])
<1>1. Nodes[e] = {e} \cup UNION {Nodes[e.args[k]] : k \in DOMAIN e.args}
  BY NodesIs DEF NodesBody
<1>2. e \in Nodes[e] /\ \A k \in DOMAIN e.args : Nodes[e.args[k]] \subseteq Nodes[e]
  BY <1>1
<1>3. \A s \in Nodes[e] : KeepsGrouping(s) /\ KeepsValue(s)
  BY DEF Plain
<1> QED BY <1>2, <1>3 DEF Plain

\* An environment that has what is free in e.
Binds(env, e) ==
  /\ env \in Envs
  /\ "$" \in Free[e] => env.id = env.string /\ env.id \in 0 .. StringCount - 1
  /\ \A name \in Free[e] \ {"$"} : \E k \in DOMAIN env.vars : env.vars[k].name = name

LEMMA BindsParts ==
  ASSUME NEW e \in Exprs, NEW env, Binds(env, e), NEW k \in DOMAIN e.args, k = 1 => e.op \notin Loops
  PROVE  Binds(env, e.args[k])
<1>1. k = 1 => Bound(e) = {}
  BY DEF Bound, Loops
<1>2. Free[e.args[k]] \subseteq Free[e]
  BY <1>1, FreeIs DEF FreeBody
<1> QED BY <1>2 DEF Binds

LEMMA EnvTyped ==
  ASSUME NEW env \in Envs
  PROVE  /\ env.rule \in Rules /\ env.id \in Words /\ env.string \in Words
         /\ env.vars \in Seq([name : VariableNames, val : Words])
  BY DEF Envs

LEMMA StringBound ==
  ASSUME NEW e \in Exprs, NEW env, Binds(env, e), e.op \in {"string", "count", "offset", "length", "at", "in"}
  PROVE  StringIn(e, env.id) = StringIn(e, env.string) /\ StringIn(e, env.id) \in 0 .. StringCount - 1
<1>1. CASE e.name = "$"
  <2>1. "$" \in Free[e]
    BY <1>1, FreeIs DEF FreeBody
  <2> QED BY <1>1, <2>1 DEF Binds, StringIn
<1>2. CASE e.name # "$"
  <2>1. e.val \in 0 .. StringCount - 1
    BY <1>2, NodeTyped DEF WellFormed
  <2> QED BY <1>2, <2>1 DEF StringIn
<1> QED BY <1>1, <1>2

LEMMA VariableTyped ==
  ASSUME NEW e \in Exprs, NEW env, Binds(env, e), e.op = "var"
  PROVE  Variable(env, e.name) \in Words
<1>1. e.name \in Free[e]
  BY FreeIs DEF FreeBody
<1>2. e.name # "$"
  <2>1. WellFormed(e) /\ e.op \in {"var"} \cup OverIntegers
    BY NodeTyped
  <2>2. e.name \in VariableNames
    BY <2>1, Zenon DEF WellFormed
  <2> QED BY <2>2, ConditionSizes
<1>3. \E k \in DOMAIN env.vars : env.vars[k].name = e.name
  BY <1>1, <1>2 DEF Binds
<1> DEFINE m == CHOOSE k \in DOMAIN env.vars : env.vars[k].name = e.name
<1>4. m \in DOMAIN env.vars
  BY <1>3
<1>5. env.vars \in Seq([name : VariableNames, val : Words])
  BY EnvTyped DEF Binds
<1> HIDE DEF m
<1>6. env.vars[m] \in [name : VariableNames, val : Words]
  BY <1>4, <1>5, ElementOfSeq, LenProperties
<1>7. env.vars[m].val \in Words
  BY <1>6
<1> QED BY <1>7 DEF Variable, m

\* An expression whose value is known is a word in any operator around it, and
\* what YARA says it is when YARA says something.
Known(e, env) ==
  /\ Text[e] # <<>> /\ Typed(Text[e], env) /\ Value(e, env) \in Words
  /\ Meaning[e][env] # <<>> => Meaning[e][env] = <<Value(e, env)>>

LEMMA MeaningOf ==
  ASSUME NEW e \in Exprs, NEW env \in Envs, e.op \notin Loops
  PROVE  Meaning[e][env] = OperatorMeaning(e, env, [k \in DOMAIN e.args |-> Meaning[e.args[k]][env]])
  BY MeaningIs DEF MeaningBody

\* An operand that is one token.
LEMMA KnownOperand ==
  ASSUME NEW e \in Exprs, NEW env \in Envs, Text[e] = <<Operand(e)>>, OperandValue(e, env, Primary) \in Words,
         Meaning[e][env] # <<>> => Meaning[e][env] = <<OperandValue(e, env, Primary)>>
  PROVE  Known(e, env) /\ Value(e, env) = OperandValue(e, env, Primary)
<1>1. Primary[e][env] = OperandValue(e, env, Primary)
  BY PrimaryIs DEF PrimaryBody
<1>2. Typed(<<Operand(e)>>, env) /\ TextValue(<<Operand(e)>>, env, Primary) = Primary[e][env] /\ <<Operand(e)>> # <<>>
  BY <1>1, TokenTyped
<1> QED BY <1>1, <1>2 DEF Known, Value

LEMMA DefinedArgs ==
  ASSUME NEW e, NEW env, NEW args, e.op \notin {"and", "or"}
  PROVE  /\ (\A k \in DOMAIN args : args[k] # <<>>) => OperatorMeaning(e, env, args) = DefinedMeaning(e, env, args)
         /\ (\E k \in DOMAIN args : args[k] = <<>>) => OperatorMeaning(e, env, args) = <<>>
  BY DEF OperatorMeaning

LEMMA LeafMeanings ==
  ASSUME NEW e, NEW env, NEW args
  PROVE  /\ e.op \in {"int", "id"} => DefinedMeaning(e, env, args) = <<e.val>>
         /\ e.op = "var" => DefinedMeaning(e, env, args) = <<Variable(env, e.name)>>
         /\ e.op = "filesize" => DefinedMeaning(e, env, args) = <<Len(env.rule.data)>>
         /\ e.op = "mutex" => DefinedMeaning(e, env, args) = Defined(env.rule.mutexes[e.val + 1] > 0)
         /\ e.op = "string" => DefinedMeaning(e, env, args) = Defined(Occurrences(env.rule, StringIn(e, env.string)) # <<>>)
         /\ e.op = "count" => DefinedMeaning(e, env, args) = <<Len(Occurrences(env.rule, StringIn(e, env.string)))>>
<1>1. e.op \in {"int", "id"} => DefinedMeaning(e, env, args) = <<e.val>>
  BY DEF DefinedMeaning, Binary, Comparing
<1>2. e.op = "var" => DefinedMeaning(e, env, args) = <<Variable(env, e.name)>>
  BY DEF DefinedMeaning, Binary, Comparing
<1>3. e.op = "filesize" => DefinedMeaning(e, env, args) = <<Len(env.rule.data)>>
  BY DEF DefinedMeaning, Binary, Comparing
<1>4. e.op = "mutex" => DefinedMeaning(e, env, args) = Defined(env.rule.mutexes[e.val + 1] > 0)
  BY DEF DefinedMeaning, Binary, Comparing
<1>5. e.op = "string" => DefinedMeaning(e, env, args) = Defined(Occurrences(env.rule, StringIn(e, env.string)) # <<>>)
  BY DEF DefinedMeaning, Binary, Comparing
<1>6. e.op = "count" => DefinedMeaning(e, env, args) = <<Len(Occurrences(env.rule, StringIn(e, env.string)))>>
  BY DEF DefinedMeaning, Binary, Comparing
<1> QED BY <1>1, <1>2, <1>3, <1>4, <1>5, <1>6

LEMMA LeafValues ==
  ASSUME NEW e, NEW env, NEW f
  PROVE  /\ e.op = "id" => OperandValue(e, env, f) = e.val
         /\ e.op = "var" => OperandValue(e, env, f) = Variable(env, e.name)
         /\ e.op = "filesize" => OperandValue(e, env, f) = Len(env.rule.data)
         /\ e.op = "mutex" => OperandValue(e, env, f) = env.rule.mutexes[e.val + 1]
         /\ e.op = "string" => OperandValue(e, env, f) = Bool(Occurrences(env.rule, StringIn(e, env.id)) # <<>>)
         /\ e.op = "count" => OperandValue(e, env, f) = Len(Occurrences(env.rule, StringIn(e, env.id)))
<1>1. CASE e.op = "id"
  BY <1>1 DEF OperandValue, Loops, OverStrings, OverIntegers
<1>2. CASE e.op = "var"
  BY <1>2 DEF OperandValue, Loops, OverStrings, OverIntegers
<1>3. CASE e.op = "filesize"
  BY <1>3 DEF OperandValue, Loops, OverStrings, OverIntegers
<1>4. CASE e.op = "mutex"
  BY <1>4 DEF OperandValue, Loops, OverStrings, OverIntegers
<1>5. CASE e.op = "string"
  BY <1>5 DEF OperandValue, Loops, OverStrings, OverIntegers
<1>6. CASE e.op = "count"
  BY <1>6 DEF OperandValue, Loops, OverStrings, OverIntegers
<1> QED BY <1>1, <1>2, <1>3, <1>4, <1>5, <1>6
-----------------------------------------------------------------------------
(***************************************************************************)
(* Operands that hold no expression, and the operators on words.           *)
(***************************************************************************)
LEMMA MutexTyped ==
  ASSUME NEW e \in Exprs, e.op = "mutex", NEW r \in Rules
  PROVE  r.mutexes[e.val + 1] \in Words
<1>1. r.mutexes \in Seq(Words) /\ Len(r.mutexes) = MutexCount
  BY RulesAssumption, ConditionsAssumption DEF FoundType
<1>2. e.val \in 0 .. MutexCount - 1
  BY NodeTyped DEF WellFormed
<1>3. e.val + 1 \in 1 .. Len(r.mutexes)
  BY <1>1, <1>2, ConditionSizes
<1> HIDE DEF Words
<1> QED BY <1>1, <1>3, ElementOfSeq

\* get_mutex_match(id) > 0
LEMMA MutexText ==
  ASSUME NEW e \in Exprs, e.op = "mutex", NEW env \in Envs
  PROVE  /\ Text[e] = <<Operand(e)>> \o <<Operator(">")>> \o <<Number(0)>>
         /\ Typed(<<Operand(e)>>, env) /\ Placed(<<Operand(e)>>) = {} /\ <<Operand(e)>> # <<>>
         /\ Typed(<<Number(0)>>, env) /\ Placed(<<Number(0)>>) = {}
         /\ TextValue(<<Number(0)>>, env, Primary) = 0
         /\ TextValue(<<Operand(e)>>, env, Primary) = env.rule.mutexes[e.val + 1]
<1>1. Text[e] = <<Operand(e), Operator(">"), Number(0)>>
  BY TextOfOthers DEF Binary, Comparing
<1>2. Text[e] = <<Operand(e)>> \o <<Operator(">")>> \o <<Number(0)>>
  BY <1>1
<1>3. Primary[e][env] = env.rule.mutexes[e.val + 1]
  <2>1. Primary[e][env] = OperandValue(e, env, Primary)
    BY PrimaryIs DEF PrimaryBody
  <2>2. OperandValue(e, env, Primary) = env.rule.mutexes[e.val + 1]
    BY LeafValues
  <2> QED BY <2>1, <2>2
<1>4. Primary[e][env] \in Words
  BY <1>3, EnvTyped, MutexTyped
<1> QED BY <1>2, <1>3, <1>4, TokenTyped, SmallWords

LEMMA IntValue ==
  ASSUME NEW e \in Exprs, e.op = "int", NEW env
  PROVE  Value(e, env) = e.val /\ e.val \in Words /\ Text[e] # <<>> /\ Typed(Text[e], env)
<1>1. Text[e] = <<Number(e.val)>>
  BY TextOfOthers DEF Binary, Comparing
<1>2. e.val \in Words
  BY NodeTyped DEF WellFormed
<1> QED BY <1>1, <1>2, TokenTyped DEF Value

LEMMA LeavesKept ==
  ASSUME NEW e \in Exprs, e.op \in Leaves, NEW env, Binds(env, e)
  PROVE  Known(e, env)
<1> DEFINE args == [k \in DOMAIN e.args |-> Meaning[e.args[k]][env]]
<1>1. env \in Envs /\ env.rule \in Rules
  BY EnvTyped DEF Binds
<1>2. e.op \notin Loops /\ e.op \notin {"and", "or"} /\ e.op \notin Binary
  BY DEF Leaves, Loops, OverStrings, OverIntegers, Binary, Comparing
<1>3. DOMAIN args = {}
  BY Operands
<1>4. Meaning[e][env] = DefinedMeaning(e, env, args)
  <2>1. Meaning[e][env] = OperatorMeaning(e, env, args)
    BY <1>1, <1>2, MeaningOf
  <2> HIDE DEF args
  <2> QED BY <2>1, <1>2, <1>3, DefinedArgs
<1> HIDE DEF args
<1>5. e.op \notin {"int", "mutex"} => Text[e] = <<Operand(e)>>
  BY <1>2, TextOfOthers DEF Leaves
<1>6. CASE e.op = "int"
  BY <1>4, <1>6, IntValue, LeafMeanings DEF Known
<1>7. CASE e.op = "mutex"
  <2> DEFINE m == env.rule.mutexes[e.val + 1]
  <2>1. m \in Words
    BY <1>1, <1>7, MutexTyped
  <2>2. \A op \in Placed(<<Operand(e)>>) \cup Placed(<<Number(0)>>) : FALSE
    BY <1>1, <1>7, MutexText
  <2>3. Typed(Text[e], env) /\ TextValue(Text[e], env, Primary) = Apply(">", m, 0)
    <3>1. ">" \in Binary /\ ">" # "!="
      BY DEF Binary, Comparing
    <3>2. /\ Typed(<<Operand(e)>> \o <<Operator(">")>> \o <<Number(0)>>, env)
          /\ TextValue(<<Operand(e)>> \o <<Operator(">")>> \o <<Number(0)>>, env, Primary)
               = Apply(">", TextValue(<<Operand(e)>>, env, Primary), TextValue(<<Number(0)>>, env, Primary))
      BY <1>1, <1>7, <2>2, <3>1, MutexText, OperatorText
    <3> QED BY <1>1, <1>7, <3>2, MutexText
  <2>4. Apply(">", m, 0) = Bool(m > 0)
    BY DEF Apply, Comparisons, Compare
  <2>5. Text[e] # <<>>
    BY <1>7, TextOfOthers, <1>2
  <2>6. Meaning[e][env] = Defined(m > 0)
    BY <1>4, <1>7, LeafMeanings
  <2> HIDE DEF m
  <2> QED BY <2>3, <2>4, <2>5, <2>6, BoolTyped DEF Known, Value, Defined
<1>8. CASE e.op \in {"string", "count"}
  <2>1. StringIn(e, env.id) = StringIn(e, env.string) /\ StringIn(e, env.id) \in 0 .. StringCount - 1
    BY <1>8, StringBound
  <2>2. Len(Occurrences(env.rule, StringIn(e, env.id))) \in Words
    BY <1>1, <2>1, OccurrencesTyped
  <2>3. OperandValue(e, env, Primary) \in Words /\ Meaning[e][env] = <<OperandValue(e, env, Primary)>>
    BY <1>4, <1>8, <2>1, <2>2, LeafMeanings, LeafValues, BoolTyped DEF Defined
  <2> QED BY <1>1, <1>5, <1>8, <2>3, KnownOperand
<1>9. CASE e.op = "var"
  <2>1. OperandValue(e, env, Primary) \in Words /\ Meaning[e][env] = <<OperandValue(e, env, Primary)>>
    BY <1>4, <1>9, VariableTyped, LeafMeanings, LeafValues
  <2> QED BY <1>1, <1>5, <1>9, <2>1, KnownOperand
<1>10. CASE e.op = "id"
  <2>1. e.val \in 0 .. StringCount - 1
    BY <1>10, NodeTyped DEF WellFormed
  <2>2. e.val \in Words
    BY <2>1, ConditionSizes, WordAssumption DEF Words
  <2>3. OperandValue(e, env, Primary) \in Words /\ Meaning[e][env] = <<OperandValue(e, env, Primary)>>
    BY <1>4, <1>10, <2>2, LeafMeanings, LeafValues
  <2> QED BY <1>1, <1>5, <1>10, <2>3, KnownOperand
<1>11. CASE e.op = "filesize"
  <2>1. Len(env.rule.data) \in Words
    BY <1>1, Sizes, WordAssumption, LenProperties DEF Words
  <2>2. OperandValue(e, env, Primary) \in Words /\ Meaning[e][env] = <<OperandValue(e, env, Primary)>>
    BY <1>4, <1>11, <2>1, LeafMeanings, LeafValues
  <2> QED BY <1>1, <1>5, <1>11, <2>2, KnownOperand
<1> QED BY <1>6, <1>7, <1>8, <1>9, <1>10, <1>11 DEF Leaves

\* || && ^ & < == + - * % between operands that bind more tightly.
LEMMA BinaryValue ==
  ASSUME NEW e \in Exprs, e.op \in Binary, KeepsGrouping(e), KeepsValue(e), NEW env \in Envs,
         Known(e.args[1], env), Known(e.args[2], env)
  PROVE  /\ Text[e] # <<>> /\ Typed(Text[e], env)
         /\ Value(e, env) = Apply(e.op, Value(e.args[1], env), Value(e.args[2], env))
         /\ Value(e, env) \in Words
         /\ e.op = "%" => Value(e.args[2], env) # 0
<1> DEFINE a == e.args[1]
           b == e.args[2]
<1>1. /\ e.op # "!="
      /\ \A o \in Placed(Text[a]) : CxxLevel(o) >= CxxLevel(e.op)
      /\ \A o \in Placed(Text[b]) : CxxLevel(o) > CxxLevel(e.op)
  BY DEF KeepsGrouping, KeepsValue
<1>2. Text[e] = Text[a] \o <<Operator(e.op)>> \o Text[b]
  BY <1>1, TextOfBinary
<1>3. a \in Exprs /\ b \in Exprs
  BY Operands
<1>4. Typed(Text[a], env) /\ Typed(Text[b], env) /\ Value(a, env) \in Words /\ Value(b, env) \in Words
  BY DEF Known
<1>5. e.op = "%" => Value(b, env) # 0
  <2>1. e.op = "%" => b.op = "int" /\ b.val # 0
    BY DEF KeepsValue
  <2> HIDE DEF b
  <2> QED BY <1>3, <2>1, IntValue
<1> HIDE DEF a, b
<1>6. Typed(Text[e], env) /\ Value(e, env) = Apply(e.op, Value(a, env), Value(b, env))
  BY <1>1, <1>2, <1>4, OperatorText DEF Value
<1>7. Text[e] # <<>>
  <2>1. Text[a] \in Seq(TokensUpto(MaxDepth)) /\ Text[b] \in Seq(TokensUpto(MaxDepth))
    BY <1>4 DEF Typed
  <2>2. Operator(e.op) \in TokensUpto(MaxDepth)
    BY <1>1 DEF TokensUpto, Signs
  <2> DEFINE s == Text[a] \o <<Operator(e.op)>>
  <2>3. s \in Seq(TokensUpto(MaxDepth)) /\ Len(s) = Len(Text[a]) + 1
    BY <2>1, <2>2
  <2> HIDE DEF s
  <2>4. Len(s \o Text[b]) = Len(s) + Len(Text[b]) /\ Len(Text[b]) \in Nat /\ Len(Text[a]) \in Nat
    BY <2>1, <2>3, ConcatProperties, LenProperties
  <2>5. s \o Text[b] # <<>>
    BY <2>3, <2>4
  <2> QED BY <1>2, <2>5 DEF s
<1>8. Value(e, env) \in Words
  BY <1>1, <1>4, <1>5, <1>6, ApplyIs
<1> QED BY <1>5, <1>6, <1>7, <1>8 DEF a, b

LEMMA BinaryMeanings ==
  ASSUME NEW e, NEW env, NEW args, DOMAIN args = {1, 2}, e.op \in Binary
  PROVE  /\ e.op = "and" => OperatorMeaning(e, env, args) =
              IF args[1] = <<0>> \/ args[2] = <<0>> THEN <<0>>
              ELSE IF args[1] = <<>> \/ args[2] = <<>> THEN <<>> ELSE BinaryMeaning(e.op, args[1][1], args[2][1])
         /\ e.op = "or" => OperatorMeaning(e, env, args) =
              IF args[1] = <<1>> \/ args[2] = <<1>> THEN <<1>>
              ELSE IF args[1] = <<>> \/ args[2] = <<>> THEN <<>> ELSE BinaryMeaning(e.op, args[1][1], args[2][1])
         /\ e.op \notin {"and", "or"} => OperatorMeaning(e, env, args) =
              IF args[1] = <<>> \/ args[2] = <<>> THEN <<>> ELSE BinaryMeaning(e.op, args[1][1], args[2][1])
<1>1. DefinedMeaning(e, env, args) = BinaryMeaning(e.op, args[1][1], args[2][1])
  BY DEF DefinedMeaning, Binary, Comparing
<1>2. (\E k \in DOMAIN args : args[k] = <<>>) <=> args[1] = <<>> \/ args[2] = <<>>
  OBVIOUS
<1> QED BY <1>1, <1>2 DEF OperatorMeaning

LEMMA BinaryKept ==
  ASSUME NEW e \in Exprs, e.op \in Binary, KeepsGrouping(e), KeepsValue(e), NEW env \in Envs,
         Known(e.args[1], env), Known(e.args[2], env)
  PROVE  Known(e, env)
<1> DEFINE args == [k \in DOMAIN e.args |-> Meaning[e.args[k]][env]]
           a == Value(e.args[1], env)
           b == Value(e.args[2], env)
<1>1. Meaning[e][env] = OperatorMeaning(e, env, args)
  BY MeaningOf DEF Binary, Comparing, Loops, OverStrings, OverIntegers
<1>2. DOMAIN args = {1, 2} /\ args[1] = Meaning[e.args[1]][env] /\ args[2] = Meaning[e.args[2]][env]
  BY Operands
<1>3. a \in Words /\ b \in Words /\ args[1] \in {<<>>, <<a>>} /\ args[2] \in {<<>>, <<b>>}
  BY <1>2 DEF Known
<1>4. /\ Text[e] # <<>> /\ Typed(Text[e], env) /\ Value(e, env) \in Words
      /\ Value(e, env) = Apply(e.op, a, b) /\ (e.op = "%" => b # 0) /\ e.op # "!="
  BY BinaryValue DEF KeepsValue
<1> HIDE DEF args, a, b
<1>5. /\ args[1] # <<>> /\ args[2] # <<>> /\ BinaryMeaning(e.op, args[1][1], args[2][1]) # <<>>
           => BinaryMeaning(e.op, args[1][1], args[2][1]) = <<Apply(e.op, a, b)>>
      /\ \A v \in Words : <<v>> # <<>>
      /\ args[1] # <<>> => args[1] = <<a>>
      /\ args[2] # <<>> => args[2] = <<b>>
  BY <1>3, <1>4, ApplyIs
<1>6. CASE e.op = "and"
  <2>1. a = 0 \/ b = 0 => Apply(e.op, a, b) = 0
    BY <1>6 DEF Apply, Comparisons, Bool
  <2>2. args[1] = <<0>> => a = 0
    BY <1>3
  <2>3. args[2] = <<0>> => b = 0
    BY <1>3
  <2>4. OperatorMeaning(e, env, args) # <<>> => OperatorMeaning(e, env, args) = <<Apply(e.op, a, b)>>
    BY <1>2, <1>5, <1>6, <2>1, <2>2, <2>3, BinaryMeanings
  <2> QED BY <1>1, <1>4, <2>4 DEF Known
<1>7. CASE e.op = "or"
  <2>1. a = 1 \/ b = 1 => Apply(e.op, a, b) = 1
    BY <1>7 DEF Apply, Comparisons, Bool
  <2>2. args[1] = <<1>> => a = 1
    BY <1>3
  <2>3. args[2] = <<1>> => b = 1
    BY <1>3
  <2>4. OperatorMeaning(e, env, args) # <<>> => OperatorMeaning(e, env, args) = <<Apply(e.op, a, b)>>
    BY <1>2, <1>5, <1>7, <2>1, <2>2, <2>3, BinaryMeanings
  <2> QED BY <1>1, <1>4, <2>4 DEF Known
<1>8. CASE e.op \notin {"and", "or"}
  <2>1. OperatorMeaning(e, env, args) # <<>> => OperatorMeaning(e, env, args) = <<Apply(e.op, a, b)>>
    BY <1>2, <1>5, <1>8, BinaryMeanings
  <2> QED BY <1>1, <1>4, <2>1 DEF Known
<1> QED BY <1>6, <1>7, <1>8
-----------------------------------------------------------------------------
(***************************************************************************)
(* !, parentheses, and the helpers that take an expression.                *)
(***************************************************************************)
LEMMA NotMutexText ==
  ASSUME NEW m \in Exprs, m.op = "mutex", NEW env \in Envs
  PROVE  /\ Typed(<<Operator("not")>> \o Text[m], env)
         /\ TextValue(<<Operator("not")>> \o Text[m], env, Primary) = Bool(env.rule.mutexes[m.val + 1] = 0)
<1> DEFINE s == <<Operator("not")>> \o <<Operand(m)>>
           v == env.rule.mutexes[m.val + 1]
<1>1. Typed(s, env) /\ TextValue(s, env, Primary) = Bool(v = 0)
  BY MutexText, NegatedText
<1>2. Placed(s) = {}
  <2>1. \A k \in DOMAIN s : s[k] \in {Operator("not"), Operand(m)}
    OBVIOUS
  <2> HIDE DEF s
  <2>2. \A op \in Binary : Operator(op) # Operator("not") /\ Operator(op) # Operand(m)
    BY DEF Operator, Operand, Binary, Comparing
  <2> QED BY <2>1, <2>2 DEF Placed
<1>3. Text[m] = <<Operand(m)>> \o <<Operator(">")>> \o <<Number(0)>>
  BY MutexText
<1>4. <<Operator("not")>> \o Text[m] = s \o <<Operator(">")>> \o <<Number(0)>>
  BY <1>3
<1>5. ">" \in Binary /\ ">" # "!="
  BY DEF Binary, Comparing
<1>6. Typed(<<Number(0)>>, env) /\ Placed(<<Number(0)>>) = {} /\ TextValue(<<Number(0)>>, env, Primary) = 0
  BY MutexText
<1> DEFINE t == <<Number(0)>>
<1> HIDE DEF s, t, v
<1>7. /\ Typed(s \o <<Operator(">")>> \o t, env)
      /\ TextValue(s \o <<Operator(">")>> \o t, env, Primary) = Apply(">", TextValue(s, env, Primary), TextValue(t, env, Primary))
  BY <1>1, <1>2, <1>5, <1>6, OperatorText DEF t
<1>8. Apply(">", Bool(v = 0), 0) = Bool(Bool(v = 0) > 0)
  BY DEF Apply, Comparisons, Compare
<1>9. Bool(Bool(v = 0) > 0) = Bool(v = 0)
  BY DEF Bool
<1> QED BY <1>1, <1>4, <1>6, <1>7, <1>8, <1>9 DEF t, v

LEMMA OneArg ==
  ASSUME NEW e \in Exprs, e.op \in {"not", "paren", "at", "read"}, NEW env \in Envs, Known(e.args[1], env)
  PROVE  LET args == [k \in DOMAIN e.args |-> Meaning[e.args[k]][env]]
         IN  /\ Meaning[e][env] = IF Meaning[e.args[1]][env] = <<>> THEN <<>> ELSE DefinedMeaning(e, env, args)
             /\ args[1] = Meaning[e.args[1]][env]
             /\ Meaning[e.args[1]][env] # <<>> => args[1] = <<Value(e.args[1], env)>> /\ args[1][1] = Value(e.args[1], env)
<1> DEFINE args == [k \in DOMAIN e.args |-> Meaning[e.args[k]][env]]
<1>1. e.op \notin Loops /\ e.op \notin {"and", "or"}
  BY DEF Loops, OverStrings, OverIntegers
<1>2. DOMAIN args = {1} /\ args[1] = Meaning[e.args[1]][env]
  BY Operands
<1>3. Meaning[e][env] = OperatorMeaning(e, env, args)
  BY <1>1, MeaningOf
<1> HIDE DEF args
<1>4. Meaning[e][env] = IF Meaning[e.args[1]][env] = <<>> THEN <<>> ELSE DefinedMeaning(e, env, args)
  BY <1>1, <1>2, <1>3, DefinedArgs
<1>5. Meaning[e.args[1]][env] # <<>> => args[1] = <<Value(e.args[1], env)>> /\ args[1][1] = Value(e.args[1], env)
  BY <1>2 DEF Known
<1> QED BY <1>2, <1>4, <1>5, Zenon DEF args

LEMMA NotKept ==
  ASSUME NEW e \in Exprs, e.op = "not", KeepsGrouping(e), NEW env \in Envs, Known(e.args[1], env)
  PROVE  Known(e, env)
<1> DEFINE args == [k \in DOMAIN e.args |-> Meaning[e.args[k]][env]]
           a == e.args[1]
<1>1. Text[e] = <<Operator("not")>> \o Text[a] /\ a \in Exprs
  BY TextOfOthers, Operands DEF Binary, Comparing
<1>2. Typed(Text[a], env) /\ Text[a] # <<>> /\ Value(a, env) \in Words
  BY DEF Known
<1>3. Meaning[e][env] = IF Meaning[a][env] = <<>> THEN <<>> ELSE Defined(Value(a, env) = 0)
  <2>1. DefinedMeaning(e, env, args) = Defined(args[1][1] = 0)
    BY DEF DefinedMeaning, Binary, Comparing
  <2> HIDE DEF args
  <2>2. /\ Meaning[e][env] = IF Meaning[a][env] = <<>> THEN <<>> ELSE DefinedMeaning(e, env, args)
        /\ Meaning[a][env] # <<>> => args[1][1] = Value(a, env)
    BY OneArg DEF args
  <2> HIDE DEF a
  <2> QED BY <2>1, <2>2
<1>4. Text[e] # <<>>
  <2>1. Text[a] \in Seq(TokensUpto(MaxDepth))
    BY <1>2 DEF Typed
  <2> HIDE DEF a
  <2>2. Len(Text[e]) = 1 + Len(Text[a]) /\ Len(Text[a]) \in Nat
    BY <1>1, <2>1
  <2> QED BY <2>2
<1>5. CASE Placed(Text[a]) = {}
  <2> HIDE DEF a
  <2>1. Typed(Text[e], env) /\ Value(e, env) = Bool(Value(a, env) = 0)
    BY <1>1, <1>2, <1>5, NegatedText DEF Value
  <2> QED BY <1>3, <1>4, <2>1, BoolTyped DEF Known, Defined
<1>6. CASE a.op = "mutex"
  <2> DEFINE m == env.rule.mutexes[a.val + 1]
  <2>1. m \in Words /\ m \in Nat
    BY <1>1, <1>6, MutexTyped, EnvTyped, WordAssumption DEF Words
  <2>2. Typed(Text[e], env) /\ Value(e, env) = Bool(m = 0)
    BY <1>1, <1>6, NotMutexText DEF Value
  <2>3. Meaning[a][env] = Defined(m > 0)
    <3> DEFINE none == [k \in DOMAIN a.args |-> Meaning[a.args[k]][env]]
    <3>1. a.op \in Leaves /\ a.op \notin Loops /\ a.op \notin {"and", "or"}
      BY <1>6 DEF Leaves, Loops, OverStrings, OverIntegers
    <3>2. DOMAIN none = {}
      BY <1>1, <3>1, Operands
    <3>3. Meaning[a][env] = OperatorMeaning(a, env, none)
      BY <1>1, <3>1, MeaningOf
    <3> HIDE DEF none
    <3>4. Meaning[a][env] = DefinedMeaning(a, env, none)
      BY <3>1, <3>2, <3>3, DefinedArgs
    <3> QED BY <1>6, <3>4, LeafMeanings
  <2>4. Value(a, env) = Bool(m > 0)
    BY <2>3 DEF Known, Defined
  <2>5. Bool(Value(a, env) = 0) = Bool(m = 0)
    BY <2>1, <2>4 DEF Bool
  <2> HIDE DEF a, m
  <2> QED BY <1>3, <1>4, <2>2, <2>5, BoolTyped DEF Known, Defined
<1> QED BY <1>5, <1>6 DEF KeepsGrouping

LEMMA ParenKept ==
  ASSUME NEW e \in Exprs, e.op = "paren", NEW env \in Envs, Known(e.args[1], env)
  PROVE  Known(e, env)
<1> DEFINE args == [k \in DOMAIN e.args |-> Meaning[e.args[k]][env]]
<1>1. OperandValue(e, env, Primary) = Value(e.args[1], env)
  BY DEF OperandValue, Value, Loops, OverStrings, OverIntegers
<1>2. DefinedMeaning(e, env, args) = args[1]
  BY DEF DefinedMeaning, Binary, Comparing
<1>3. Meaning[e][env] # <<>> => Meaning[e][env] = <<Value(e.args[1], env)>>
  BY <1>2, OneArg
<1>4. Text[e] = <<Operand(e)>>
  BY TextOfOthers DEF Binary, Comparing
<1>5. Value(e.args[1], env) \in Words
  BY DEF Known
<1> QED BY <1>1, <1>3, <1>4, <1>5, KnownOperand

LEMMA AtKept ==
  ASSUME NEW e \in Exprs, e.op = "at", NEW env, Binds(env, e), Known(e.args[1], env)
  PROVE  Known(e, env)
<1> DEFINE args == [k \in DOMAIN e.args |-> Meaning[e.args[k]][env]]
           r == env.rule
           id == StringIn(e, env.id)
           there(v) == \E k \in DOMAIN Offsets(r, id) : Offsets(r, id)[k] = v
<1>1. OperandValue(e, env, Primary) = Bool(there(Value(e.args[1], env)))
  BY DEF OperandValue, Value, Loops, OverStrings, OverIntegers
<1>2. StringIn(e, env.id) = StringIn(e, env.string) /\ env \in Envs
  BY StringBound DEF Binds
<1>3. DefinedMeaning(e, env, args) = Defined(there(args[1][1]))
  BY <1>2 DEF DefinedMeaning, Binary, Comparing
<1> HIDE DEF there
<1>4. Meaning[e][env] # <<>> => Meaning[e][env] = Defined(there(Value(e.args[1], env)))
  BY <1>2, <1>3, OneArg
<1>5. Text[e] = <<Operand(e)>>
  BY TextOfOthers DEF Binary, Comparing
<1> QED BY <1>1, <1>2, <1>4, <1>5, BoolTyped, KnownOperand DEF Defined

LEMMA ReadKept ==
  ASSUME NEW e \in Exprs, e.op = "read", NEW env \in Envs, Known(e.args[1], env)
  PROVE  /\ Known(e, env)
         /\ Meaning[e.args[1]][env] # <<>> /\ ~e.signed /\ Meaning[e][env] = <<>> => Value(e, env) = Undefined
<1> DEFINE args == [k \in DOMAIN e.args |-> Meaning[e.args[k]][env]]
           data == env.rule.data
           a == Value(e.args[1], env)
<1>1. OperandValue(e, env, Primary) = ReadData(data, a, e.val, e.name)
  BY DEF OperandValue, Value, Loops, OverStrings, OverIntegers
<1>2. DefinedMeaning(e, env, args) = ReadMeaning(data, args[1][1], e)
  BY DEF DefinedMeaning, Binary, Comparing
<1>3. e.val \in Widths /\ e.name \in Orders /\ a \in Words /\ env.rule \in Rules
  BY NodeTyped, EnvTyped DEF WellFormed, Widths, Orders, Known
<1>4. ReadData(data, a, e.val, e.name) \in Words
  BY <1>3, ReadTyped
<1>5. IF Meaning[e.args[1]][env] = <<>> THEN Meaning[e][env] = <<>> ELSE Meaning[e][env] = ReadMeaning(data, a, e)
  <2> HIDE DEF a, data
  <2> QED BY <1>2, OneArg DEF a
<1>6. ReadMeaning(data, a, e) # <<>> => ReadMeaning(data, a, e) = <<ReadData(data, a, e.val, e.name)>>
  <2> SUFFICES ASSUME ReadMeaning(data, a, e) # <<>> PROVE ReadMeaning(data, a, e) = <<ReadData(data, a, e.val, e.name)>>
    OBVIOUS
  <2> DEFINE v == Loaded(Converted(SubSeq(data, a + 1, a + e.val), e.name))
  <2>1. ReadMeaning(data, a, e) = <<v>> /\ ~(a + e.val > Len(data))
    BY DEF ReadMeaning, Converted
  <2>2. Len(data) \in Nat /\ Len(data) + 4 <= WordSize /\ a \in Nat /\ e.val \in Nat
    BY <1>3, Sizes, WordAssumption, LenProperties DEF Words, Widths
  <2>3. a + e.val <= Len(data)
    BY <2>1, <2>2
  <2>4. Readable(Len(data), a, e.val)
    BY <1>3, <2>2, <2>3, ReadableIsInside
  <2> QED BY <2>1, <2>4 DEF ReadData
<1>7. Text[e] = <<Operand(e)>>
  BY TextOfOthers DEF Binary, Comparing
<1>8. ASSUME ReadMeaning(data, a, e) = <<>>, ~e.signed PROVE ReadData(data, a, e.val, e.name) = Undefined
  <2>1. a + e.val > Len(data)
    BY <1>8 DEF ReadMeaning
  <2> HIDE DEF a
  <2> QED BY <1>3, <2>1, ReadIsExact
<1> HIDE DEF a, data
<1> QED BY <1>1, <1>4, <1>5, <1>6, <1>7, <1>8, KnownOperand

LEMMA InKept ==
  ASSUME NEW e \in Exprs, e.op = "in", NEW env, Binds(env, e), Known(e.args[1], env), Known(e.args[2], env)
  PROVE  Known(e, env)
<1> DEFINE args == [k \in DOMAIN e.args |-> Meaning[e.args[k]][env]]
           r == env.rule
           id == StringIn(e, env.id)
           a == Value(e.args[1], env)
           b == Value(e.args[2], env)
           within == \E k \in DOMAIN Offsets(r, id) : a <= Offsets(r, id)[k] /\ Offsets(r, id)[k] < b
           inside(v, w) == \E k \in DOMAIN Offsets(r, id) : Offsets(r, id)[k] \in v .. w - 1
<1>1. OperandValue(e, env, Primary) = Bool(within)
  BY DEF OperandValue, Value, Loops, OverStrings, OverIntegers
<1>2. /\ StringIn(e, env.id) = StringIn(e, env.string) /\ env \in Envs /\ r \in Rules
      /\ id \in 0 .. StringCount - 1
  BY StringBound, EnvTyped DEF Binds
<1>3. DefinedMeaning(e, env, args) = Defined(inside(args[1][1], args[2][1]))
  BY <1>2 DEF DefinedMeaning, Binary, Comparing
<1>4. a \in Words /\ b \in Words
  BY DEF Known
<1>5. within <=> inside(a, b)
  <2>1. \A k \in DOMAIN Offsets(r, id) : Offsets(r, id)[k] \in Words
    BY <1>2, OccurrencesTyped
  <2> HIDE DEF a, b, r, id
  <2>2. \A o \in Words : a <= o /\ o < b <=> o \in a .. b - 1
    BY <1>4 DEF Words
  <2> QED BY <2>1, <2>2
<1>6. DOMAIN args = {1, 2} /\ args[1] = Meaning[e.args[1]][env] /\ args[2] = Meaning[e.args[2]][env]
  BY Operands
<1>7. args[1] \in {<<>>, <<a>>} /\ args[2] \in {<<>>, <<b>>}
  BY <1>6 DEF Known
<1>8. Meaning[e][env] = OperatorMeaning(e, env, args) /\ e.op \notin {"and", "or"}
  BY <1>2, MeaningOf DEF Loops, OverStrings, OverIntegers
<1> HIDE DEF args, a, b, r, id, within, inside
<1>9. Meaning[e][env] # <<>> => Meaning[e][env] = Defined(inside(a, b))
  <2> SUFFICES ASSUME Meaning[e][env] # <<>> PROVE Meaning[e][env] = Defined(inside(a, b))
    OBVIOUS
  <2>1. args[1] # <<>> /\ args[2] # <<>>
    BY <1>6, <1>8, DefinedArgs
  <2>2. args[1][1] = a /\ args[2][1] = b
    BY <1>7, <2>1
  <2>3. Meaning[e][env] = DefinedMeaning(e, env, args)
    BY <1>6, <1>8, <2>1, DefinedArgs
  <2> QED BY <1>3, <2>2, <2>3
<1>10. Text[e] = <<Operand(e)>>
  BY TextOfOthers DEF Binary, Comparing
<1>11. Bool(inside(a, b)) = Bool(within)
  BY <1>5 DEF Bool
<1> QED BY <1>1, <1>2, <1>9, <1>10, <1>11, BoolTyped, KnownOperand DEF Defined

\* index - 1ul
LEMMA IndexValue ==
  ASSUME NEW e \in Exprs, NEW env, Known(e, env), \A op \in Placed(Text[e]) : CxxLevel(op) >= CxxLevel("-")
  PROVE  TextValue(IndexText(e), env, Primary) = Minus(Value(e, env), 1)
<1> DEFINE t == <<Number(1)>>
<1>1. Typed(t, env) /\ TextValue(t, env, Primary) = 1 /\ Placed(t) = {}
  BY TokenTyped, SmallWords
<1>2. Typed(Text[e], env) /\ Text[e] \in Seq(TokensUpto(MaxDepth))
  BY DEF Known, Typed
<1>3. IndexText(e) = Text[e] \o <<Operator("-")>> \o t
  BY <1>2 DEF IndexText
<1>4. "-" \in Binary /\ "-" # "!="
  BY DEF Binary
<1> HIDE DEF t
<1>5. TextValue(Text[e] \o <<Operator("-")>> \o t, env, Primary) = Apply("-", TextValue(Text[e], env, Primary), TextValue(t, env, Primary))
  BY <1>1, <1>2, <1>4, OperatorText
<1>6. \A v : Apply("-", v, 1) = Minus(v, 1)
  BY DEF Apply, Comparisons
<1> QED BY <1>1, <1>3, <1>5, <1>6 DEF Value

LEMMA EntryKept ==
  ASSUME NEW e \in Exprs, e.op \in {"offset", "length"}, KeepsGrouping(e), NEW env, Binds(env, e),
         \A k \in DOMAIN e.args : Known(e.args[k], env)
  PROVE  /\ Known(e, env)
         /\ (\A k \in DOMAIN e.args : Meaning[e.args[k]][env] # <<>>) /\ Meaning[e][env] = <<>> => Value(e, env) = Undefined
<1> DEFINE args == [k \in DOMAIN e.args |-> Meaning[e.args[k]][env]]
           r == env.rule
           id == StringIn(e, env.id)
           place == IF e.args = <<>> THEN 1 ELSE Value(e.args[1], env)
           position == IF e.args = <<>> THEN 0 ELSE TextValue(IndexText(e.args[1]), env, Primary)
           entries == IF e.op = "offset" THEN Offsets(r, id) ELSE Lengths(r, id)
<1>1. /\ StringIn(e, env.id) = StringIn(e, env.string) /\ env \in Envs /\ r \in Rules
      /\ id \in 0 .. StringCount - 1
  BY StringBound, EnvTyped DEF Binds
<1>2. OperandValue(e, env, Primary) = Entry(entries, position)
  <2> HIDE DEF position
  <2>1. e.op = "offset" => OperandValue(e, env, Primary) = Entry(Offsets(r, id), position)
    BY DEF OperandValue, Loops, OverStrings, OverIntegers, position
  <2>2. e.op = "length" => OperandValue(e, env, Primary) = Entry(Lengths(r, id), position)
    BY DEF OperandValue, Loops, OverStrings, OverIntegers, position
  <2> QED BY <2>1, <2>2
<1>3. \/ e.args = <<>> /\ DOMAIN args = {}
      \/ e.args # <<>> /\ DOMAIN args = {1} /\ DOMAIN e.args = {1} /\ e.args[1] \in Exprs
  BY Operands
<1>4. place \in Words /\ position = Minus(place, 1)
  <2>1. CASE e.args = <<>>
    <3>1. Minus(1, 1) = 0
      BY DEF Minus
    <3> QED BY <2>1, <3>1, SmallWords
  <2>2. CASE e.args # <<>>
    <3>1. e.args[1] \in Exprs /\ 1 \in DOMAIN e.args /\ Known(e.args[1], env)
      BY <1>3, <2>2
    <3>2. \A op \in Placed(Text[e.args[1]]) : CxxLevel(op) >= CxxLevel("-")
      BY <3>1 DEF KeepsGrouping
    <3>3. TextValue(IndexText(e.args[1]), env, Primary) = Minus(Value(e.args[1], env), 1)
      BY <3>1, <3>2, IndexValue
    <3>4. Value(e.args[1], env) \in Words
      BY <3>1 DEF Known
    <3> QED BY <2>2, <3>3, <3>4
  <2> QED BY <2>1, <2>2
<1>5. Entry(entries, position) = IF place \in DOMAIN entries THEN entries[place] ELSE Undefined
  <2> HIDE DEF position, place, id, r
  <2>1. id \in 0 .. Len(r.matches) - 1
    BY <1>1, ConditionsAssumption
  <2>2. /\ Entry(Offsets(r, id), Minus(place, 1)) = IF place \in 1 .. Len(Occurrences(r, id)) THEN Occurrences(r, id)[place].offset ELSE Undefined
        /\ Entry(Lengths(r, id), Minus(place, 1)) = IF place \in 1 .. Len(Occurrences(r, id)) THEN Occurrences(r, id)[place].length ELSE Undefined
    BY <1>1, <1>4, <2>1, EntryIsExact, Zenon
  <2>3. /\ DOMAIN Offsets(r, id) = 1 .. Len(Occurrences(r, id))
        /\ DOMAIN Lengths(r, id) = 1 .. Len(Occurrences(r, id))
        /\ \A k \in 1 .. Len(Occurrences(r, id)) :
              Offsets(r, id)[k] = Occurrences(r, id)[k].offset /\ Lengths(r, id)[k] = Occurrences(r, id)[k].length
    BY <1>1, OccurrencesTyped
  <2> QED BY <1>4, <2>2, <2>3
<1>6. Entry(entries, position) \in Words
  <2>1. \A k \in DOMAIN entries : entries[k] \in Words
    BY <1>1, OccurrencesTyped
  <2> HIDE DEF entries
  <2> QED BY <1>5, <2>1, SizesAssumption
<1>7. DefinedMeaning(e, env, args) = EntryMeaning(entries, IF args = <<>> THEN 1 ELSE args[1][1])
  <2>1. e.op = "offset" => DefinedMeaning(e, env, args) = EntryMeaning(Offsets(r, id), IF args = <<>> THEN 1 ELSE args[1][1])
    BY <1>1 DEF DefinedMeaning, Binary, Comparing
  <2>2. e.op = "length" => DefinedMeaning(e, env, args) = EntryMeaning(Lengths(r, id), IF args = <<>> THEN 1 ELSE args[1][1])
    BY <1>1 DEF DefinedMeaning, Binary, Comparing
  <2> HIDE DEF args
  <2> QED BY <2>1, <2>2
<1>8. Meaning[e][env] = OperatorMeaning(e, env, args) /\ e.op \notin {"and", "or"}
  BY <1>1, MeaningOf DEF Loops, OverStrings, OverIntegers
<1>9. 1 \in DOMAIN args => args[1] \in {<<>>, <<Value(e.args[1], env)>>}
  BY DEF Known
<1>10. DOMAIN args = {} => args = <<>>
  OBVIOUS
<1> HIDE DEF entries, position
<1>11. ASSUME \A k \in DOMAIN args : args[k] # <<>> PROVE Meaning[e][env] = EntryMeaning(entries, place)
  <2>1. CASE e.args = <<>>
    <3> HIDE DEF args
    <3> QED BY <1>3, <1>7, <1>8, <1>10, <2>1, DefinedArgs
  <2>2. CASE e.args # <<>>
    <3> HIDE DEF args
    <3>1. args # <<>> /\ args[1] # <<>> /\ Meaning[e][env] = DefinedMeaning(e, env, args)
      BY <1>3, <1>8, <1>11, <2>2, DefinedArgs
    <3>2. args[1][1] = Value(e.args[1], env)
      BY <1>3, <1>9, <2>2, <3>1
    <3> QED BY <1>7, <2>2, <3>1, <3>2
  <2> QED BY <2>1, <2>2
<1>12. Meaning[e][env] # <<>> => \A k \in DOMAIN args : args[k] # <<>>
  <2> HIDE DEF args
  <2> QED BY <1>8, DefinedArgs
<1>13. /\ EntryMeaning(entries, place) # <<>> => EntryMeaning(entries, place) = <<Entry(entries, position)>>
       /\ EntryMeaning(entries, place) = <<>> => Entry(entries, position) = Undefined
  <2> HIDE DEF place
  <2> QED BY <1>5 DEF EntryMeaning
<1>14. Text[e] = <<Operand(e)>>
  BY TextOfOthers DEF Binary, Comparing
<1>15. (\A k \in DOMAIN e.args : Meaning[e.args[k]][env] # <<>>) => \A k \in DOMAIN args : args[k] # <<>>
  OBVIOUS
<1> HIDE DEF place, args, r, id
<1> QED BY <1>1, <1>2, <1>6, <1>11, <1>12, <1>13, <1>14, <1>15, KnownOperand
-----------------------------------------------------------------------------
(***************************************************************************)
(* Loops.  Numbers are counted from 0 in the code and from 1 in a rule.    *)
(***************************************************************************)
LEMMA CountsUpto ==
  ASSUME NEW low \in Nat, NEW high \in Nat, NEW S \in SUBSET (low .. high - 1)
  PROVE  /\ IsFiniteSet(S) /\ Cardinality(S) \in Nat
         /\ Cardinality(S) >= 1 <=> S # {}
         /\ low <= high => (Cardinality(S) >= high - low <=> S = low .. high - 1)
<1> DEFINE I == low .. high - 1
<1>1. IsFiniteSet(I) /\ Cardinality(I) = (IF low > high - 1 THEN 0 ELSE high - 1 - low + 1)
  BY FS_Interval
<1>2. low <= high => Cardinality(I) = high - low
  BY <1>1
<1> HIDE DEF I
<1>3. S \in SUBSET I
  BY DEF I
<1>4. IsFiniteSet(S) /\ Cardinality(S) <= Cardinality(I) /\ (Cardinality(I) = Cardinality(S) => I = S)
  BY <1>1, <1>3, FS_Subset
<1>5. Cardinality(S) \in Nat /\ Cardinality(I) \in Nat
  BY <1>1, <1>4, FS_CardinalityType
<1>6. Cardinality(S) = 0 <=> S = {}
  BY <1>4, FS_EmptySet
<1>7. Cardinality(S) >= 1 <=> S # {}
  <2>1. Cardinality(S) >= 1 <=> Cardinality(S) # 0
    BY <1>5
  <2> QED BY <1>6, <2>1
<1>8. low <= high => (Cardinality(S) >= high - low <=> S = I)
  BY <1>2, <1>4, <1>5
<1> QED BY <1>4, <1>5, <1>7, <1>8 DEF I

LEMMA CountedFromOne ==
  ASSUME NEW size \in Nat, NEW S \in SUBSET (0 .. size - 1)
  PROVE  LET T == {p \in 1 .. size : p - 1 \in S}
         IN  /\ Cardinality(T) = Cardinality(S)
             /\ T = {} <=> S = {}
             /\ T = 1 .. size <=> S = 0 .. size - 1
<1> DEFINE T == {p \in 1 .. size : p - 1 \in S}
           f == [p \in S |-> p + 1]
<1>1. \A p \in S : p + 1 \in T
  OBVIOUS
<1>2. f \in [S -> T]
  BY <1>1
<1>3. \A p, q \in S : f[p] = f[q] => p = q
  OBVIOUS
<1>4. \A t \in T : t - 1 \in S /\ f[t - 1] = t
  OBVIOUS
<1>5. f \in Bijection(S, T)
  <2> HIDE DEF f, T
  <2> QED BY <1>2, <1>3, <1>4 DEF Bijection, Injection, Surjection, IsInjective
<1>6. IsFiniteSet(S)
  BY CountsUpto
<1>7. Cardinality(T) = Cardinality(S)
  <2> HIDE DEF f, T
  <2> QED BY <1>5, <1>6, FS_Bijection DEF ExistsBijection
<1>8. T = {} <=> S = {}
  BY <1>1, <1>4
<1>9. T = 1 .. size <=> S = 0 .. size - 1
  <2>1. ASSUME T = 1 .. size, NEW p \in 0 .. size - 1 PROVE p \in S
    <3>1. p + 1 \in 1 .. size /\ (p + 1) - 1 = p
      OBVIOUS
    <3>2. p + 1 \in T
      <4> HIDE DEF T
      <4> QED BY <2>1, <3>1
    <3> QED BY <3>1, <3>2
  <2>2. ASSUME S = 0 .. size - 1, NEW p \in 1 .. size PROVE p \in T
    BY <2>2
  <2> HIDE DEF T
  <2>3. S \subseteq 0 .. size - 1 /\ T \subseteq 1 .. size
    BY DEF T
  <2> QED BY <2>1, <2>2, <2>3
<1> QED BY <1>7, <1>8, <1>9

LEMMA AnswerIs ==
  ASSUME NEW c, c.over \in {"set", "range"}, c.low \in Words, c.high \in Words, c.value \in Words,
         c.holds \subseteq c.low .. c.high - 1, c.over = "set" => c.low = 0
  PROVE  /\ c.quantifier = "any" => (Answer(c) <=> c.holds # {})
         /\ c.over = "set" /\ c.quantifier = "all" /\ c.high > 0 => (Answer(c) <=> c.holds = 0 .. c.high - 1)
         /\ c.over = "set" /\ c.quantifier = "literal" /\ c.value \in 1 .. c.high => (Answer(c) <=> Cardinality(c.holds) >= c.value)
<1> DEFINE H == c.holds
<1>1. c.low \in Nat /\ c.high \in Nat /\ c.value \in Nat /\ c.high < WordSize /\ WordSize \in Nat
  BY WordAssumption DEF Words
<1>2. Items(c) \cap H = H
  BY <1>1 DEF Items, Words
<1>3. Answer(c) <=> CutToRange(c, Count(c)) # 0 /\ Cardinality(H) >= CutToRange(c, Count(c))
  BY <1>2 DEF Answer
<1>4. /\ Cardinality(H) \in Nat /\ (Cardinality(H) >= 1 <=> H # {})
      /\ c.low <= c.high => (Cardinality(H) >= c.high - c.low <=> H = c.low .. c.high - 1)
  BY <1>1, CountsUpto
<1>5. ASSUME c.quantifier = "any" PROVE Answer(c) <=> H # {}
  <2>1. Count(c) = 1
    BY <1>5 DEF Count
  <2>2. CASE c.over = "set"
    BY <1>3, <1>4, <2>1, <2>2 DEF CutToRange
  <2>3. CASE c.over = "range" /\ c.high # 0
    <3>1. CutToRange(c, Count(c)) = 1
      BY <1>1, <2>1, <2>3 DEF CutToRange, Least
    <3> QED BY <1>3, <1>4, <3>1
  <2>4. CASE c.over = "range" /\ c.high = 0
    <3>1. CutToRange(c, Count(c)) = 0
      BY <1>1, <2>1, <2>4 DEF CutToRange, Least
    <3>2. H = {}
      BY <1>1, <2>4
    <3> QED BY <1>3, <3>1, <3>2
  <2> QED BY <2>2, <2>3, <2>4
<1>6. ASSUME c.over = "set", c.quantifier = "all", c.high > 0 PROVE Answer(c) <=> H = 0 .. c.high - 1
  <2>1. CutToRange(c, Count(c)) = c.high /\ c.low = 0
    BY <1>6 DEF Count, TotalCount, CutToRange
  <2> QED BY <1>1, <1>3, <1>4, <1>6, <2>1
<1>7. ASSUME c.over = "set", c.quantifier = "literal", c.value \in 1 .. c.high PROVE Answer(c) <=> Cardinality(H) >= c.value
  <2>1. Count(c) = Greatest(1, Least(c.high, c.value))
    BY <1>7 DEF Count, TotalCount
  <2>2. CutToRange(c, Count(c)) = c.value /\ c.value # 0
    BY <1>1, <1>7, <2>1 DEF CutToRange, Greatest, Least
  <2> QED BY <1>3, <2>2
<1> QED BY <1>5, <1>6, <1>7

\* The environment of a body has what is free in it.
LEMMA BodyBinds ==
  ASSUME NEW e \in Exprs, e.op \in Loops, KeepsValue(e), NEW env, Binds(env, e),
         NEW item \in Words, e.op \in OverStrings => item \in 0 .. StringCount - 1
  PROVE  Binds(ItemEnv(e, env, item), e.args[1])
<1> DEFINE new == ItemEnv(e, env, item)
           a == e.args[1]
<1>1. 1 \in DOMAIN e.args /\ a \in Exprs
  BY Operands
<1>2. Free[a] \subseteq Free[e] \cup Bound(e)
  <2>1. Free[e] = FreeBody(e, Free)
    BY FreeIs
  <2>2. \A k \in DOMAIN e.args : Free[e.args[k]] \ (IF k = 1 THEN Bound(e) ELSE {}) \subseteq FreeBody(e, Free)
    BY DEF FreeBody
  <2>3. Free[a] \ Bound(e) \subseteq Free[e]
    BY <1>1, <2>1, <2>2
  <2> QED BY <2>3
<1>3. env \in Envs /\ env.vars \in Seq([name : VariableNames, val : Words])
  BY EnvTyped DEF Binds
<1>4. CASE e.op \in OverStrings
  <2>1. Bound(e) = {"$"}
    BY <1>4 DEF Bound
  <2>2. new = [env EXCEPT !.id = item, !.string = item]
    BY <1>4 DEF ItemEnv
  <2>3. new \in Envs /\ new.id = item /\ new.string = item /\ new.vars = env.vars
    BY <1>3, <2>2 DEF Envs
  <2> HIDE DEF new, a
  <2> QED BY <1>2, <1>4, <2>1, <2>3 DEF Binds, new, a
<1>5. CASE e.op \in OverIntegers
  <2>1. Bound(e) = {e.name} /\ e.op \notin OverStrings
    BY <1>5 DEF Bound, OverIntegers, OverStrings
  <2>2. e.name \in VariableNames
    <3>1. WellFormed(e) /\ e.op \in {"var"} \cup OverIntegers
      BY <1>5, NodeTyped
    <3> QED BY <3>1, Zenon DEF WellFormed
  <2> DEFINE entry == [name |-> e.name, val |-> item]
  <2>3. new = [env EXCEPT !.id = item, !.vars = Append(@, entry)]
    BY <2>1 DEF ItemEnv
  <2>4. entry \in [name : VariableNames, val : Words] /\ entry.name = e.name
    BY <2>2
  <2> HIDE DEF entry
  <2>5. Append(env.vars, entry) \in Seq([name : VariableNames, val : Words])
    BY <1>3, <2>4
  <2>6. new \in Envs /\ new.vars = Append(env.vars, entry)
    BY <1>3, <2>3, <2>5 DEF Envs
  <2>7. "$" \notin Free[a]
    BY <1>5 DEF KeepsValue
  <2>8. ASSUME NEW name \in Free[a] \ {"$"} PROVE \E k \in DOMAIN new.vars : new.vars[k].name = name
    <3>1. CASE name = e.name
      <4>1. Len(env.vars) + 1 \in DOMAIN Append(env.vars, entry) /\ Append(env.vars, entry)[Len(env.vars) + 1] = entry
        BY <1>3, <2>4
      <4> HIDE DEF new
      <4> QED BY <2>4, <2>6, <3>1, <4>1
    <3>2. CASE name # e.name
      <4>1. name \in Free[e] \ {"$"}
        BY <1>2, <2>1, <3>2
      <4>2. PICK k \in DOMAIN env.vars : env.vars[k].name = name
        BY <4>1 DEF Binds
      <4>3. k \in DOMAIN Append(env.vars, entry) /\ Append(env.vars, entry)[k] = env.vars[k]
        BY <1>3, <2>4, <4>2
      <4> HIDE DEF new
      <4> QED BY <2>6, <4>2, <4>3
    <3> QED BY <3>1, <3>2
  <2> HIDE DEF new, a
  <2> QED BY <2>6, <2>7, <2>8 DEF Binds, new, a
<1> QED BY <1>4, <1>5 DEF Loops

Positions(e, items) == IF e.op = "for range" THEN items[1][1] .. items[2][1] - 1 ELSE DOMAIN items
BodyAt(e, env, items, bodies, p) == bodies[ItemEnv(e, env, IF e.op = "for range" THEN p ELSE items[p][1])]
HeldAt(e, env, items, bodies) == {p \in Positions(e, items) : BodyAt(e, env, items, bodies, p) # <<0>>}

LEMMA QuantifierArms ==
  ASSUME NEW e, NEW env, NEW items, NEW bodies, QuantifierOf(e, env, items, bodies) # <<>>
  PROVE  /\ \A k \in DOMAIN items : items[k] # <<>>
         /\ \A p \in Positions(e, items) : BodyAt(e, env, items, bodies, p) # <<>>
         /\ e.quantifier = "any" => QuantifierOf(e, env, items, bodies) = Defined(HeldAt(e, env, items, bodies) # {})
         /\ e.quantifier = "all" => QuantifierOf(e, env, items, bodies) = Defined(HeldAt(e, env, items, bodies) = Positions(e, items))
         /\ e.quantifier = "literal" => QuantifierOf(e, env, items, bodies) = Defined(Cardinality(HeldAt(e, env, items, bodies)) >= e.val)
<1> DEFINE q == QuantifierOf(e, env, items, bodies)
           positions == Positions(e, items)
           body(p) == BodyAt(e, env, items, bodies, p)
           held == HeldAt(e, env, items, bodies)
<1>1. q = IF \E k \in DOMAIN items : items[k] = <<>> THEN <<>>
          ELSE IF \E p \in positions : body(p) = <<>> THEN <<>>
          ELSE CASE e.quantifier = "any" -> Defined(held # {})
                 [] e.quantifier = "all" -> Defined(held = positions)
                 [] e.quantifier = "literal" -> Defined(Cardinality(held) >= e.val)
                 [] e.quantifier = "other" -> <<>>
  BY DEF QuantifierOf, Positions, BodyAt, HeldAt
<1> HIDE DEF q, positions, body, held
<1>2. (\A k \in DOMAIN items : items[k] # <<>>) /\ \A p \in positions : body(p) # <<>>
  BY <1>1 DEF q
<1>3. e.quantifier = "any" => q = Defined(held # {})
  BY <1>1, <1>2
<1>4. e.quantifier = "all" => q = Defined(held = positions)
  BY <1>1, <1>2
<1>5. e.quantifier = "literal" => q = Defined(Cardinality(held) >= e.val)
  BY <1>1, <1>2
<1> QED BY <1>2, <1>3, <1>4, <1>5 DEF q, positions, body, held

LEMMA IdValue ==
  ASSUME NEW e \in Exprs, e.op = "id", NEW env \in Envs
  PROVE  Value(e, env) \in 0 .. StringCount - 1
<1>1. e.val \in 0 .. StringCount - 1
  BY NodeTyped DEF WellFormed
<1>2. e.val \in Words
  BY <1>1, ConditionSizes, WordAssumption DEF Words
<1>3. Primary[e][env] = e.val
  <2>1. Primary[e][env] = OperandValue(e, env, Primary)
    BY PrimaryIs DEF PrimaryBody
  <2> QED BY <2>1, LeafValues
<1>4. Text[e] = <<Operand(e)>>
  BY TextOfOthers DEF Binary, Comparing
<1>5. Value(e, env) = e.val
  BY <1>2, <1>3, <1>4, TokenTyped DEF Value
<1> QED BY <1>1, <1>5

LEMMA LoopKept ==
  ASSUME NEW e \in Exprs, e.op \in Loops, KeepsValue(e), NEW env, Binds(env, e),
         \A k \in DOMAIN e.args : k # 1 => Known(e.args[k], env),
         \A inner : Binds(inner, e.args[1]) => Known(e.args[1], inner)
  PROVE  Known(e, env)
<1> DEFINE size == Len(e.args) - 1
           items == [k \in 1 .. size |-> Value(e.args[k + 1], env)]
           means == [k \in 1 .. size |-> Meaning[e.args[k + 1]][env]]
           bodies == Meaning[e.args[1]]
           c == LoopCall(e, env, Primary)
           val(p) == Value(e.args[1], ItemEnv(e, env, ItemOf(e, items, p)))
           held == HeldAt(e, env, means, bodies)
<1>1. /\ env \in Envs /\ size \in Nat /\ size < WordSize /\ WordSize \in Nat /\ size \in Words
      /\ \A k \in 1 .. size : k + 1 \in DOMAIN e.args /\ k + 1 # 1
  BY Operands, NodeTyped, SmallWords DEF Binds, Words
<1>2. \A k \in 1 .. size : items[k] \in Words /\ (means[k] # <<>> => means[k] = <<items[k]>>)
  BY <1>1 DEF Known
<1>3. /\ c.over = IF e.op = "for range" THEN "range" ELSE "set"
      /\ c.low = IF e.op = "for range" THEN items[1] ELSE 0
      /\ c.high = IF e.op = "for range" THEN items[2] ELSE size
      /\ c.quantifier = e.quantifier /\ c.value = e.val
      /\ c.holds = {p \in c.low .. c.high - 1 : val(p) # 0}
  <2>1. Len(items) = size
    BY <1>1
  <2>2. c = [over |-> IF e.op = "for range" THEN "range" ELSE "set",
             low |-> IF e.op = "for range" THEN items[1] ELSE 0,
             high |-> IF e.op = "for range" THEN items[2] ELSE Len(items),
             holds |-> {p \in (IF e.op = "for range" THEN items[1] ELSE 0)
                               .. (IF e.op = "for range" THEN items[2] ELSE Len(items)) - 1 : val(p) # 0},
             quantifier |-> e.quantifier, value |-> e.val]
    BY DEF LoopCall, Value
  <2> HIDE DEF c, items, val
  <2> QED BY <2>1, <2>2
<1>4. OperandValue(e, env, Primary) = Bool(Answer(c))
  BY DEF OperandValue, Loops, OverStrings, OverIntegers
<1>5. Text[e] = <<Operand(e)>>
  BY TextOfOthers DEF Binary, Comparing, Loops, OverStrings, OverIntegers
<1>6. Meaning[e][env] = QuantifierOf(e, env, means, bodies)
  <2>1. Meaning[e][env] = QuantifierMeaning(e, env, Meaning)
    BY <1>1, MeaningIs DEF MeaningBody
  <2> QED BY <2>1, QuantifierIs
<1>7. ASSUME NEW item \in Words, e.op \in OverStrings => item \in 0 .. StringCount - 1
      PROVE  LET inner == ItemEnv(e, env, item)
             IN  /\ Value(e.args[1], inner) \in Words
                 /\ bodies[inner] # <<>> => bodies[inner] = <<Value(e.args[1], inner)>>
  BY <1>7, BodyBinds DEF Known
<1>8. e.val \in Words
  BY NodeTyped DEF WellFormed
<1> DEFINE kept == Meaning[e][env] # <<>> => Meaning[e][env] = Defined(Answer(c))
<1>9. CASE e.op = "for range"
  <2>1. size = 2 /\ e.quantifier = "any" /\ e.op \notin OverStrings
    <3>1. WellFormed(e)
      BY NodeTyped
    <3>2. Len(e.args) = 3
      BY <1>9, <3>1, Zenon DEF WellFormed
    <3>3. size = 2
      BY <3>2
    <3>4. e.quantifier = "any"
      BY <1>9 DEF KeepsValue
    <3>5. e.op \notin OverStrings
      BY <1>9 DEF OverStrings
    <3> QED BY <3>3, <3>4, <3>5
  <2>2. /\ c.over = "range" /\ c.low = items[1] /\ c.high = items[2] /\ c.low \in Words /\ c.high \in Words
        /\ c.quantifier = "any" /\ c.value \in Words /\ c.holds = {p \in c.low .. c.high - 1 : val(p) # 0}
    <3>1. items[1] \in Words /\ items[2] \in Words
      <4> HIDE DEF items, means, size
      <4>1. 1 \in 1 .. size /\ 2 \in 1 .. size
        BY <2>1
      <4> QED BY <1>2, <4>1
    <3> HIDE DEF c, items, size, val
    <3> QED BY <1>3, <1>8, <1>9, <2>1, <3>1
  <2>3. Answer(c) <=> c.holds # {}
    <3> HIDE DEF c, val
    <3>1. c.over \in {"set", "range"} /\ c.over # "set" /\ c.holds \subseteq c.low .. c.high - 1
      BY <2>2
    <3> QED BY <2>2, <3>1, AnswerIs
  <2>4. ASSUME Meaning[e][env] # <<>> PROVE Meaning[e][env] = Defined(Answer(c))
    <3>1. /\ \A k \in DOMAIN means : means[k] # <<>>
          /\ \A p \in Positions(e, means) : BodyAt(e, env, means, bodies, p) # <<>>
          /\ Meaning[e][env] = Defined(held # {})
      <4> HIDE DEF means, bodies
      <4> QED BY <1>6, <2>1, <2>4, QuantifierArms
    <3>2. means[1][1] = items[1] /\ means[2][1] = items[2]
      <4>1. DOMAIN means = 1 .. size
        OBVIOUS
      <4> HIDE DEF means, items, size
      <4>2. 1 \in 1 .. size /\ 2 \in 1 .. size
        BY <2>1
      <4>3. means[1] # <<>> /\ means[2] # <<>>
        BY <3>1, <4>1, <4>2
      <4> QED BY <1>2, <4>2, <4>3
    <3>3. Positions(e, means) = c.low .. c.high - 1
      <4> HIDE DEF means, items, c
      <4> QED BY <1>9, <2>2, <3>2 DEF Positions
    <3>4. ASSUME NEW p \in c.low .. c.high - 1
          PROVE  BodyAt(e, env, means, bodies, p) = <<val(p)>> /\ val(p) \in Words
      <4>1. p \in Words
        <5> HIDE DEF c
        <5> QED BY <2>2, WordAssumption DEF Words
      <4>2. val(p) = Value(e.args[1], ItemEnv(e, env, p)) /\ BodyAt(e, env, means, bodies, p) = bodies[ItemEnv(e, env, p)]
        BY <1>9 DEF ItemOf, BodyAt
      <4>3. BodyAt(e, env, means, bodies, p) # <<>>
        BY <3>1, <3>3
      <4> HIDE DEF val, bodies
      <4> QED BY <1>7, <2>1, <4>1, <4>2, <4>3
    <3>5. held = c.holds
      <4> HIDE DEF val, bodies, means, c, items
      <4>1. \A p \in c.low .. c.high - 1 : BodyAt(e, env, means, bodies, p) # <<0>> <=> val(p) # 0
        BY <3>4
      <4> QED BY <2>2, <3>3, <4>1 DEF HeldAt
    <3> HIDE DEF held, c
    <3> QED BY <2>3, <3>1, <3>5 DEF Defined, Bool
  <2> HIDE DEF c
  <2> QED BY <1>1, <1>4, <1>5, <2>4, BoolTyped, KnownOperand DEF Defined
<1>10. CASE e.op # "for range"
  <2>1. /\ c.over = "set" /\ c.low = 0 /\ c.high = size /\ c.value \in Words /\ c.quantifier = e.quantifier /\ c.value = e.val
        /\ c.holds = {p \in 0 .. size - 1 : val(p) # 0}
    BY <1>3, <1>8, <1>10
  <2>2. \/ e.quantifier = "any"
        \/ e.quantifier = "all" /\ size > 0
        \/ e.quantifier = "literal" /\ e.val \in 1 .. size
    <3>1. e.op \in Loops \ {"for range"}
      BY <1>10
    <3>2. \/ e.quantifier = "any"
          \/ e.quantifier = "all" /\ Len(e.args) > 1
          \/ e.quantifier = "literal" /\ e.val \in 1 .. size
      BY <3>1 DEF KeepsValue
    <3>3. Len(e.args) > 1 => size > 0
      BY NodeTyped
    <3> QED BY <3>2, <3>3
  <2> DEFINE H == c.holds
             T == {p \in 1 .. size : p - 1 \in H}
  <2>3. /\ e.quantifier = "any" => (Answer(c) <=> H # {})
        /\ e.quantifier = "all" => (Answer(c) <=> H = 0 .. size - 1)
        /\ e.quantifier = "literal" => (Answer(c) <=> Cardinality(H) >= e.val)
    <3> HIDE DEF c, size, val
    <3>1. c.over \in {"set", "range"} /\ (c.over = "set" => c.low = 0)
      BY <2>1
    <3>2. c.low \in Words /\ c.high \in Words /\ c.value \in Words /\ c.holds \subseteq c.low .. c.high - 1
      BY <1>1, <2>1, SmallWords
    <3>3. /\ c.quantifier = "any" => (Answer(c) <=> c.holds # {})
          /\ c.quantifier = "all" /\ c.high > 0 => (Answer(c) <=> c.holds = 0 .. c.high - 1)
          /\ c.quantifier = "literal" /\ c.value \in 1 .. c.high => (Answer(c) <=> Cardinality(c.holds) >= c.value)
      <4>1. /\ c.quantifier = "any" => (Answer(c) <=> c.holds # {})
            /\ c.over = "set" /\ c.quantifier = "all" /\ c.high > 0 => (Answer(c) <=> c.holds = 0 .. c.high - 1)
            /\ c.over = "set" /\ c.quantifier = "literal" /\ c.value \in 1 .. c.high => (Answer(c) <=> Cardinality(c.holds) >= c.value)
        BY <3>1, <3>2, AnswerIs
      <4> QED BY <2>1, <4>1
    <3> QED BY <2>1, <2>2, <3>3
  <2>4. Cardinality(T) = Cardinality(H) /\ (T = {} <=> H = {}) /\ (T = 1 .. size <=> H = 0 .. size - 1)
    <3>1. H \in SUBSET (0 .. size - 1)
      BY <2>1
    <3> HIDE DEF H, size
    <3> QED BY <1>1, <3>1, CountedFromOne
  <2>5. ASSUME Meaning[e][env] # <<>> PROVE Meaning[e][env] = Defined(Answer(c))
    <3>1. /\ \A k \in DOMAIN means : means[k] # <<>>
          /\ \A p \in Positions(e, means) : BodyAt(e, env, means, bodies, p) # <<>>
          /\ e.quantifier = "any" => Meaning[e][env] = Defined(held # {})
          /\ e.quantifier = "all" => Meaning[e][env] = Defined(held = Positions(e, means))
          /\ e.quantifier = "literal" => Meaning[e][env] = Defined(Cardinality(held) >= e.val)
      <4> HIDE DEF means, bodies
      <4> QED BY <1>6, <2>5, QuantifierArms
    <3>2. Positions(e, means) = 1 .. size
      BY <1>10 DEF Positions
    <3>3. ASSUME NEW p \in 1 .. size
          PROVE  BodyAt(e, env, means, bodies, p) = <<val(p - 1)>> /\ val(p - 1) \in Words
      <4>1. means[p][1] = items[p] /\ items[p] \in Words
        <5>1. DOMAIN means = 1 .. size
          OBVIOUS
        <5> HIDE DEF means, items, size
        <5> QED BY <1>2, <3>1, <5>1
      <4>2. p - 1 + 1 = p
        BY <1>1
      <4>3. val(p - 1) = Value(e.args[1], ItemEnv(e, env, items[p])) /\ BodyAt(e, env, means, bodies, p) = bodies[ItemEnv(e, env, items[p])]
        <5> HIDE DEF items, means, size
        <5> QED BY <1>10, <4>1, <4>2 DEF ItemOf, BodyAt
      <4>4. BodyAt(e, env, means, bodies, p) # <<>>
        BY <3>1, <3>2
      <4>5. e.op \in OverStrings => items[p] \in 0 .. StringCount - 1
        <5> SUFFICES ASSUME e.op \in OverStrings PROVE items[p] \in 0 .. StringCount - 1
          OBVIOUS
        <5>1. p + 1 \in 2 .. Len(e.args) /\ p + 1 \in DOMAIN e.args /\ e.args[p + 1] \in Exprs
          BY <1>1, NodeTyped
        <5>2. e.args[p + 1].op = "id"
          <6>1. WellFormed(e)
            BY NodeTyped
          <6> QED BY <5>1, <6>1, Zenon DEF WellFormed
        <5> QED BY <1>1, <5>1, <5>2, IdValue
      <4> HIDE DEF val, bodies, items
      <4> QED BY <1>7, <4>1, <4>3, <4>4, <4>5
    <3>4. held = T
      <4>1. \A p \in 1 .. size : p - 1 \in 0 .. size - 1
        BY <1>1
      <4> HIDE DEF val, bodies, means, c, items, size
      <4>2. \A p \in 1 .. size : BodyAt(e, env, means, bodies, p) # <<0>> <=> val(p - 1) # 0
        BY <3>3
      <4>3. \A p \in 1 .. size : val(p - 1) # 0 <=> p - 1 \in H
        BY <2>1, <4>1
      <4> QED BY <3>2, <4>2, <4>3 DEF HeldAt
    <3> HIDE DEF held, c, T, H, size
    <3> QED BY <2>2, <2>3, <2>4, <3>1, <3>2, <3>4 DEF Defined, Bool
  <2> HIDE DEF c
  <2> QED BY <1>1, <1>4, <1>5, <2>5, BoolTyped, KnownOperand DEF Defined
<1> QED BY <1>9, <1>10
-----------------------------------------------------------------------------
(***************************************************************************)
(* What the text of a plain expression is worth is what it means, in every *)
(* environment that has its variables.                                     *)
(***************************************************************************)
LEMMA PlainKept ==
  ASSUME NEW e \in Exprs, Plain(e), NEW env, Binds(env, e)
  PROVE  Known(e, env)
<1> DEFINE P == {d \in Exprs : Plain(d) => \A around : Binds(around, d) => Known(d, around)}
<1>1. ASSUME NEW d \in Exprs, \A k \in DOMAIN d.args : d.args[k] \in P PROVE d \in P
  <2> SUFFICES ASSUME Plain(d), NEW around, Binds(around, d) PROVE Known(d, around)
    OBVIOUS
  <2>1. KeepsGrouping(d) /\ KeepsValue(d) /\ \A k \in DOMAIN d.args : Plain(d.args[k])
    BY PlainParts
  <2>2. \A k \in DOMAIN d.args : \A inner : Binds(inner, d.args[k]) => Known(d.args[k], inner)
    BY <1>1, <2>1
  <2>3. \A k \in DOMAIN d.args : (k = 1 => d.op \notin Loops) => Known(d.args[k], around)
    BY <2>2, BindsParts
  <2>4. around \in Envs
    BY DEF Binds
  <2>5. d.op \in Binary \cup Leaves \cup Loops \cup {"not", "paren", "offset", "length", "at", "in", "read"}
    BY NodeTyped, Zenon DEF WellFormed
  <2> HIDE DEF P
  <2>6. CASE d.op \in Leaves
    BY <2>6, LeavesKept
  <2>7. CASE d.op \in Loops
    <3>1. 1 \in DOMAIN d.args
      BY <2>7, Operands
    <3> QED BY <2>1, <2>2, <2>3, <2>7, <3>1, LoopKept
  <2>8. d.op \in Binary \cup {"not", "paren", "offset", "length", "at", "in", "read"} => d.op \notin Loops
    BY DEF Binary, Comparing, Loops, OverStrings, OverIntegers
  <2>9. ASSUME d.op \notin Loops PROVE \A k \in DOMAIN d.args : Known(d.args[k], around)
    BY <2>3, <2>9
  <2>10. CASE d.op \in Binary
    <3>1. DOMAIN d.args = {1, 2}
      BY <2>10, Operands
    <3> QED BY <2>1, <2>4, <2>8, <2>9, <2>10, <3>1, BinaryKept
  <2>11. CASE d.op = "in"
    <3>1. DOMAIN d.args = {1, 2}
      BY <2>11, Operands
    <3> QED BY <2>8, <2>9, <2>11, <3>1, InKept
  <2>12. CASE d.op \in {"not", "paren", "at", "read"}
    <3>1. DOMAIN d.args = {1}
      BY <2>12, Operands
    <3>2. Known(d.args[1], around)
      BY <2>8, <2>9, <2>12, <3>1
    <3> QED BY <2>1, <2>4, <2>12, <3>2, NotKept, ParenKept, AtKept, ReadKept
  <2>13. CASE d.op \in {"offset", "length"}
    BY <2>1, <2>8, <2>9, <2>13, EntryKept
  <2> QED BY <2>5, <2>6, <2>7, <2>10, <2>11, <2>12, <2>13
<1> HIDE DEF P
<1>2. Exprs \subseteq P
  BY <1>1, ByOperands
<1> QED BY <1>2 DEF P

\* The top of a condition binds nothing, and nothing is free there.
LEMMA TopBinds ==
  ASSUME NEW r \in Rules
  PROVE  r.condition \in Exprs /\ Top(r) \in Envs /\ Binds(Top(r), r.condition) /\ Top(r).rule = r
<1>1. r.condition \in Exprs /\ Free[r.condition] = {}
  BY ConditionsAssumption
<1>2. Top(r) \in Envs /\ Top(r).rule = r
  <2>1. <<>> \in Seq([name : VariableNames, val : Words])
    OBVIOUS
  <2> QED BY <2>1, SmallWords DEF Top, Envs
<1> QED BY <1>1, <1>2 DEF Binds

-----------------------------------------------------------------------------
(***************************************************************************)
(* The loop of a quantified condition, which runs in steps.                *)
(***************************************************************************)
RunInv ==
  /\ LoopInv
  /\ rule \in Rules \cup {NoRule}
  /\ IsQuantified(rule) => call = CallOf(rule.condition, Top(rule))

LEMMA InitRun == RuleInit => RunInv
<1> SUFFICES ASSUME RuleInit PROVE RunInv
  OBVIOUS
<1>1. Init
  BY DEF RuleInit
<1>2. rule \in Rules \cup {NoRule} /\ (IsQuantified(rule) => call = CallOf(rule.condition, Top(rule)))
  BY DEF RuleInit, IsQuantified
<1> QED BY <1>1, <1>2, InitLoop DEF RunInv

LEMMA NextRun == RunInv /\ [RuleNext]_conditionVars => RunInv'
<1> SUFFICES ASSUME RunInv, [RuleNext]_conditionVars PROVE RunInv'
  OBVIOUS
<1>1. [Next]_vars /\ rule' = rule /\ call' = call
  BY DEF RuleNext, conditionVars, vars, Next, Enter, GiveUp, Hit, Miss, RunOut
<1>2. LoopInv'
  BY <1>1, NextLoop DEF RunInv
<1> QED BY <1>1, <1>2 DEF RunInv, IsQuantified

LEMMA ReturnedIs ==
  ASSUME RunInv, pc = "done", rule # NoRule
  PROVE  Returned = (Value(rule.condition, Top(rule)) # 0)
<1> DEFINE e == rule.condition
           c == CallOf(e, Top(rule))
<1>1. rule \in Rules
  BY DEF RunInv
<1>2. CASE IsQuantified(rule)
  <2>1. e \in Exprs /\ Top(rule) \in Envs /\ e.op \in Loops
    BY <1>1, <1>2, TopBinds DEF IsQuantified
  <2>2. OperandValue(e, Top(rule), Primary) = Bool(Answer(c))
    BY <2>1 DEF OperandValue, Loops, OverStrings, OverIntegers, CallOf
  <2>3. Text[e] = <<Operand(e)>>
    BY <2>1, TextOfOthers DEF Binary, Comparing, Loops, OverStrings, OverIntegers
  <2>4. Primary[e][Top(rule)] = Bool(Answer(c))
    BY <2>1, <2>2, PrimaryIs DEF PrimaryBody
  <2>5. Value(e, Top(rule)) = Bool(Answer(c))
    <3>1. Bool(Answer(c)) \in Words
      BY BoolTyped
    <3> HIDE DEF c
    <3> QED BY <2>1, <2>3, <2>4, <3>1, TokenTyped DEF Value
  <2>6. result = Answer(call)
    <3>1. ResultExact
      BY DEF RunInv, LoopInv
    <3> QED BY <3>1 DEF ResultExact, Answer
  <2>7. call = c
    BY <1>2 DEF RunInv
  <2>8. Returned = result /\ result \in BOOLEAN
    BY <1>2 DEF Returned, RunInv, LoopInv
  <2> HIDE DEF c, e
  <2> QED BY <2>5, <2>6, <2>7, <2>8, BoolTyped DEF e
<1>3. CASE ~IsQuantified(rule)
  BY <1>3 DEF Returned
<1> QED BY <1>2, <1>3

-----------------------------------------------------------------------------
(***************************************************************************)
(* Conditions that compare what may be undefined with numbers, and their   *)
(* connectives: each of them is plain, and false when it is undefined.     *)
(***************************************************************************)
Connectives == {"and", "or"}

LEMMA PlacedOfBinary ==
  ASSUME NEW e \in Exprs, e.op \in Binary, e.op # "!="
  PROVE  Placed(Text[e]) \subseteq Placed(Text[e.args[1]]) \cup {e.op} \cup Placed(Text[e.args[2]])
<1> DEFINE s == Text[e.args[1]]
           t == Text[e.args[2]]
           o == Operator(e.op)
           S == TokensUpto(Depth[e.args[1]]) \cup TokensUpto(Depth[e.args[2]]) \cup {o}
<1>1. e.args[1] \in Exprs /\ e.args[2] \in Exprs
  BY Operands
<1>2. s \in Seq(S) /\ t \in Seq(S) /\ o \in S
  <2>1. s \in Seq(TokensUpto(Depth[e.args[1]])) /\ t \in Seq(TokensUpto(Depth[e.args[2]]))
    BY <1>1, TextTyped
  <2> HIDE DEF s, t, o
  <2> QED BY <2>1, SeqMonotonic
<1>3. Text[e] = s \o <<o>> \o t
  BY TextOfBinary
<1>4. o.op = e.op
  BY DEF Operator
<1>5. \A k \in DOMAIN Text[e] : \/ \E j \in DOMAIN s : Text[e][k] = s[j]
                                \/ Text[e][k] = o
                                \/ \E j \in DOMAIN t : Text[e][k] = t[j]
  <2> HIDE DEF s, t, o, S
  <2> DEFINE u == s \o <<o>> \o t
  <2>1. /\ u \in Seq(S) /\ Len(u) = Len(s) + 1 + Len(t) /\ Len(s) \in Nat /\ Len(t) \in Nat
        /\ DOMAIN u = 1 .. Len(u) /\ DOMAIN s = 1 .. Len(s) /\ DOMAIN t = 1 .. Len(t)
        /\ \A k \in DOMAIN u : u[k] = IF k <= Len(s) THEN s[k] ELSE IF k = Len(s) + 1 THEN o ELSE t[k - Len(s) - 1]
    BY <1>2
  <2>2. ASSUME NEW k \in DOMAIN u
        PROVE  \/ k \in DOMAIN s /\ u[k] = s[k]
               \/ u[k] = o
               \/ k - Len(s) - 1 \in DOMAIN t /\ u[k] = t[k - Len(s) - 1]
    <3> HIDE DEF u
    <3> QED BY <2>1
  <2> HIDE DEF u
  <2>3. Text[e] = u
    BY <1>3 DEF u
  <2> QED BY <2>2, <2>3
<1> SUFFICES ASSUME NEW op \in Placed(Text[e]) PROVE op \in Placed(s) \cup {e.op} \cup Placed(t)
  OBVIOUS
<1>6. op \in Binary /\ \E k \in DOMAIN Text[e] : Text[e][k] = Operator(op)
  BY DEF Placed
<1>7. Operator(op).op = op
  BY DEF Operator
<1> HIDE DEF s, t, o
<1> QED BY <1>4, <1>5, <1>6, <1>7 DEF Placed

LEMMA SingleToken ==
  ASSUME NEW e \in Exprs, e.op \notin Binary \cup {"not", "mutex"}
  PROVE  Placed(Text[e]) = {}
<1>1. Text[e] = <<Number(e.val)>> \/ Text[e] = <<Operand(e)>>
  BY TextOfOthers
<1>2. \A k \in DOMAIN Text[e] : Text[e][k].token # "operator"
  BY <1>1 DEF Number, Operand
<1>3. \A op \in Binary : Operator(op).token = "operator"
  BY DEF Operator
<1> QED BY <1>2, <1>3 DEF Placed

LEMMA PlainWhole ==
  ASSUME NEW e \in Exprs, KeepsGrouping(e), KeepsValue(e), \A k \in DOMAIN e.args : Plain(e.args[k])
  PROVE  Plain(e)
<1>1. Nodes[e] = {e} \cup UNION {Nodes[e.args[k]] : k \in DOMAIN e.args}
  BY NodesIs DEF NodesBody
<1> QED BY <1>1 DEF Plain

LEMMA LeafPlain == ASSUME NEW e \in Exprs, e.op \in Leaves PROVE Plain(e)
<1>1. KeepsGrouping(e) /\ KeepsValue(e)
  BY DEF KeepsGrouping, KeepsValue, Leaves, Binary, Comparing, Loops, OverStrings, OverIntegers
<1>2. DOMAIN e.args = {}
  BY Operands
<1> QED BY <1>1, <1>2, PlainWhole

LEMMA AbsentPlain ==
  ASSUME NEW e \in Exprs, e.op \in {"offset", "length", "read"}, \A k \in DOMAIN e.args : e.args[k].op = "int"
  PROVE  Plain(e) /\ Placed(Text[e]) = {}
<1>1. \A k \in DOMAIN e.args : e.args[k] \in Exprs /\ e.args[k].op \in Leaves /\ Placed(Text[e.args[k]]) = {}
  BY NodeTyped, SingleToken DEF Leaves, Binary, Comparing
<1>2. KeepsGrouping(e) /\ KeepsValue(e)
  BY <1>1 DEF KeepsGrouping, KeepsValue, Binary, Comparing, Loops, OverStrings, OverIntegers
<1>3. Placed(Text[e]) = {}
  BY SingleToken DEF Binary, Comparing
<1> QED BY <1>1, <1>2, <1>3, LeafPlain, PlainWhole

LEMMA TestParts ==
  ASSUME NEW e \in Exprs, e.op \in BoundedTests, AbsentTest(e)
  PROVE  /\ e.op \in Binary \ {"!=", "%", "and", "or"} /\ DOMAIN e.args = {1, 2}
         /\ e.args[1] \in Exprs /\ e.args[1].op \in {"offset", "length", "read"}
         /\ \A k \in DOMAIN e.args[1].args : e.args[1].args[k].op = "int"
         /\ e.args[2] \in Exprs /\ e.args[2].op \in {"filesize", "count", "int"}
<1>1. e.op \in Binary \ {"!=", "%", "and", "or"}
  BY DEF BoundedTests, Binary, Comparing
<1>2. DOMAIN e.args = {1, 2} /\ e.args[1] \in Exprs /\ e.args[2] \in Exprs
  BY <1>1, Operands
<1> QED BY <1>1, <1>2 DEF AbsentTest

LEMMA TestPlain ==
  ASSUME NEW e \in Exprs, e.op \in BoundedTests, AbsentTest(e)
  PROVE  Plain(e) /\ Placed(Text[e]) \subseteq {e.op}
<1> DEFINE a == e.args[1]
           b == e.args[2]
<1>1. /\ e.op \in Binary \ {"!=", "%", "and", "or"} /\ DOMAIN e.args = {1, 2} /\ a \in Exprs /\ b \in Exprs
      /\ a.op \in {"offset", "length", "read"} /\ b.op \in Leaves
      /\ \A k \in DOMAIN a.args : a.args[k].op = "int"
  BY TestParts DEF Leaves
<1>2. Plain(a) /\ Placed(Text[a]) = {} /\ Plain(b)
  BY <1>1, AbsentPlain, LeafPlain
<1>3. Placed(Text[b]) = {}
  BY TestParts, SingleToken DEF Binary, Comparing
<1>4. KeepsGrouping(e)
  BY <1>1, <1>2, <1>3 DEF KeepsGrouping, BoundedTests
<1>5. KeepsValue(e)
  BY <1>1 DEF KeepsValue, BoundedTests, Loops, OverStrings, OverIntegers
<1>6. Placed(Text[e]) \subseteq {e.op}
  <2> HIDE DEF a, b
  <2> QED BY <1>1, <1>2, <1>3, PlacedOfBinary DEF a, b
<1> QED BY <1>1, <1>2, <1>4, <1>5, <1>6, PlainWhole

LEMMA GuardedParts ==
  ASSUME NEW e \in Exprs, Guarded(e), GroupedByYara(e)
  PROVE  /\ e.op \in BoundedTests \cup Connectives
         /\ e.op \in BoundedTests => AbsentTest(e)
         /\ e.op \in Connectives =>
              /\ DOMAIN e.args = {1, 2}
              /\ \A k \in {1, 2} : e.args[k] \in Exprs /\ Guarded(e.args[k]) /\ GroupedByYara(e.args[k])
                                   /\ e.args[k].op \in BoundedTests \cup Connectives
         /\ e.op = "and" => e.args[1].op # "or" /\ e.args[2].op \notin Connectives
         /\ e.op = "or" => e.args[2].op # "or"
<1>1. Nodes[e] = {e} \cup UNION {Nodes[e.args[k]] : k \in DOMAIN e.args}
  BY NodesIs DEF NodesBody
<1>2. e \in Nodes[e] /\ \A k \in DOMAIN e.args : Nodes[e.args[k]] \subseteq Nodes[e]
  BY <1>1
<1>3. e.op \in BoundedTests \cup Connectives /\ (e.op \in BoundedTests => AbsentTest(e))
  BY <1>2 DEF Guarded, Connectives
<1>4. ASSUME e.op \in Connectives
      PROVE  /\ DOMAIN e.args = {1, 2}
             /\ \A k \in {1, 2} : e.args[k] \in Exprs /\ Guarded(e.args[k]) /\ GroupedByYara(e.args[k])
                                  /\ e.args[k].op \in BoundedTests \cup Connectives
  <2>1. DOMAIN e.args = {1, 2} /\ e.args[1] \in Exprs /\ e.args[2] \in Exprs
    BY <1>4, Operands DEF Connectives, Binary
  <2>2. \A k \in {1, 2} : e.args[k].op \in BoundedTests \cup Connectives
    BY <1>2, <1>4 DEF Guarded, Connectives
  <2>3. \A k \in {1, 2} : Nodes[e.args[k]] \subseteq Nodes[e]
    BY <1>2, <2>1
  <2>4. \A k \in {1, 2} : Guarded(e.args[k])
    BY <2>2, <2>3 DEF Guarded, Connectives
  <2>5. \A k \in {1, 2} : GroupedByYara(e.args[k])
    BY <2>3 DEF GroupedByYara
  <2> QED BY <2>1, <2>2, <2>4, <2>5
<1>5. e.op \in Connectives => YaraLevel(e.args[1].op) >= YaraLevel(e.op) /\ YaraLevel(e.args[2].op) > YaraLevel(e.op)
  BY <1>2 DEF GroupedByYara, Connectives, Binary
<1>6. YaraLevel("or") = 1 /\ YaraLevel("and") = 2
  BY DEF YaraLevel
<1>7. e.op = "and" => e.args[1].op # "or" /\ e.args[2].op \notin Connectives
  BY <1>5, <1>6 DEF Connectives
<1>8. e.op = "or" => e.args[2].op # "or"
  BY <1>5, <1>6 DEF Connectives
<1> QED BY <1>3, <1>4, <1>7, <1>8

\* C++ places the connectives of such a condition as YARA does.
LEMMA GuardedPlain ==
  ASSUME NEW e \in Exprs, Guarded(e), GroupedByYara(e)
  PROVE  Plain(e) /\ \A op \in Placed(Text[e]) : CxxLevel(op) >= CxxLevel(e.op)
<1> DEFINE P == {d \in Exprs : Guarded(d) /\ GroupedByYara(d) =>
                   Plain(d) /\ \A op \in Placed(Text[d]) : CxxLevel(op) >= CxxLevel(d.op)}
<1>0. /\ CxxLevel("or") = 1 /\ CxxLevel("and") = 2
      /\ \A op \in BoundedTests : CxxLevel(op) \in {5, 6}
  BY DEF CxxLevel, BoundedTests
<1>1. ASSUME NEW d \in Exprs, \A k \in DOMAIN d.args : d.args[k] \in P PROVE d \in P
  <2> SUFFICES ASSUME Guarded(d), GroupedByYara(d)
               PROVE  Plain(d) /\ \A op \in Placed(Text[d]) : CxxLevel(op) >= CxxLevel(d.op)
    OBVIOUS
  <2>1. CASE d.op \in BoundedTests
    <3>1. Plain(d) /\ Placed(Text[d]) \subseteq {d.op}
      BY <2>1, GuardedParts, TestPlain
    <3> QED BY <1>0, <2>1, <3>1
  <2>2. CASE d.op \in Connectives
    <3> DEFINE a == d.args[1]
               b == d.args[2]
    <3>1. /\ a \in Exprs /\ b \in Exprs /\ DOMAIN d.args = {1, 2}
          /\ a.op \in BoundedTests \cup Connectives /\ b.op \in BoundedTests \cup Connectives
          /\ Guarded(a) /\ GroupedByYara(a) /\ Guarded(b) /\ GroupedByYara(b)
          /\ d.op = "and" => a.op # "or" /\ b.op \notin Connectives
          /\ d.op = "or" => b.op # "or"
      BY <2>2, GuardedParts
    <3>2. /\ Plain(a) /\ \A op \in Placed(Text[a]) : CxxLevel(op) >= CxxLevel(a.op)
          /\ Plain(b) /\ \A op \in Placed(Text[b]) : CxxLevel(op) >= CxxLevel(b.op)
      BY <1>1, <3>1
    <3>3. CxxLevel(a.op) >= CxxLevel(d.op) /\ CxxLevel(b.op) > CxxLevel(d.op)
      <4> HIDE DEF a, b
      <4> QED BY <1>0, <2>2, <3>1 DEF Connectives
    <3>4. /\ \A op \in Placed(Text[a]) \cup Placed(Text[b]) : CxxLevel(op) \in Nat
          /\ CxxLevel(a.op) \in Nat /\ CxxLevel(b.op) \in Nat /\ CxxLevel(d.op) \in Nat
      <4>1. \A op \in Placed(Text[a]) \cup Placed(Text[b]) : op \in Binary
        BY DEF Placed
      <4>2. a.op \in Binary /\ b.op \in Binary /\ d.op \in Binary
        BY <2>2, <3>1 DEF Connectives, BoundedTests, Binary, Comparing
      <4> HIDE DEF a, b
      <4> QED BY <4>1, <4>2, LevelTyped
    <3>5. /\ \A op \in Placed(Text[a]) : CxxLevel(op) >= CxxLevel(d.op)
          /\ \A op \in Placed(Text[b]) : CxxLevel(op) > CxxLevel(d.op)
      <4> HIDE DEF a, b
      <4> QED BY <3>2, <3>3, <3>4
    <3>6. KeepsGrouping(d)
      BY <2>2, <3>5 DEF KeepsGrouping, Connectives
    <3>7. KeepsValue(d)
      BY <2>2 DEF KeepsValue, Connectives, Loops, OverStrings, OverIntegers
    <3>8. Placed(Text[d]) \subseteq Placed(Text[a]) \cup {d.op} \cup Placed(Text[b])
      <4>1. d.op \in Binary /\ d.op # "!="
        BY <2>2 DEF Connectives, Binary
      <4> QED BY <4>1, PlacedOfBinary
    <3>9. Plain(d)
      BY <3>1, <3>2, <3>6, <3>7, PlainWhole
    <3> HIDE DEF a, b
    <3> QED BY <3>4, <3>5, <3>8, <3>9
  <2> QED BY <2>1, <2>2, GuardedParts
<1> HIDE DEF P
<1>2. Exprs \subseteq P
  BY <1>1, ByOperands
<1> QED BY <1>2 DEF P

LEMMA LeafDefined ==
  ASSUME NEW e \in Exprs, e.op \in {"int", "filesize", "count"}, NEW env \in Envs
  PROVE  Meaning[e][env] # <<>>
<1> DEFINE args == [k \in DOMAIN e.args |-> Meaning[e.args[k]][env]]
<1>1. e.op \in Leaves /\ e.op \notin Loops /\ e.op \notin {"and", "or"}
  BY DEF Leaves, Loops, OverStrings, OverIntegers
<1>2. DOMAIN args = {}
  BY <1>1, Operands
<1>3. Meaning[e][env] = OperatorMeaning(e, env, args)
  BY <1>1, MeaningOf
<1> HIDE DEF args
<1>4. Meaning[e][env] = DefinedMeaning(e, env, args)
  BY <1>1, <1>2, <1>3, DefinedArgs
<1> QED BY <1>4, LeafMeanings

\* What is compared with the number is UNDEFINED when it is undefined.
LEMMA AbsentIsUndefined ==
  ASSUME NEW e \in Exprs, e.op \in {"offset", "length", "read"}, \A k \in DOMAIN e.args : e.args[k].op = "int",
         e.op = "read" => ~e.signed, NEW env, Binds(env, e), Meaning[e][env] = <<>>
  PROVE  Value(e, env) = Undefined
<1>1. KeepsGrouping(e)
  BY AbsentPlain, PlainParts
<1>2. env \in Envs /\ e.op \notin Loops
  BY DEF Binds, Loops, OverStrings, OverIntegers
<1>3. ASSUME NEW k \in DOMAIN e.args
      PROVE  Known(e.args[k], env) /\ Meaning[e.args[k]][env] # <<>>
  <2>1. e.args[k] \in Exprs /\ e.args[k].op = "int" /\ e.args[k].op \in Leaves
    BY NodeTyped DEF Leaves
  <2>2. Binds(env, e.args[k])
    BY <1>2, BindsParts
  <2>3. Known(e.args[k], env)
    BY <2>1, <2>2, LeavesKept
  <2>4. Meaning[e.args[k]][env] # <<>>
    BY <1>2, <2>1, LeafDefined
  <2> QED BY <2>3, <2>4
<1>4. CASE e.op \in {"offset", "length"}
  BY <1>1, <1>3, <1>4, EntryKept
<1>5. CASE e.op = "read"
  <2>1. 1 \in DOMAIN e.args
    BY <1>5, Operands
  <2> QED BY <1>2, <1>3, <1>5, <2>1, ReadKept
<1> QED BY <1>4, <1>5

LEMMA SmallNumber ==
  ASSUME NEW e \in Exprs, e.op \in {"filesize", "count"} \/ (e.op = "int" /\ e.val < Undefined), NEW env, Binds(env, e)
  PROVE  Value(e, env) \in Nat /\ Value(e, env) < Undefined
<1>1. env \in Envs /\ env.rule \in Rules
  BY EnvTyped DEF Binds
<1>2. CASE e.op = "int"
  BY <1>2, IntValue, SmallWords
<1>3. ASSUME e.op \in {"filesize", "count"} PROVE Value(e, env) = OperandValue(e, env, Primary)
  <2>1. Known(e, env)
    BY <1>3, LeavesKept DEF Leaves
  <2>2. Text[e] = <<Operand(e)>>
    BY <1>3, TextOfOthers DEF Binary, Comparing
  <2>3. Primary[e][env] = OperandValue(e, env, Primary)
    BY <1>1, PrimaryIs DEF PrimaryBody
  <2>4. OperandValue(e, env, Primary) \in Words
    <3>1. CASE e.op = "filesize"
      BY <1>1, <3>1, LeafValues, Sizes, WordAssumption DEF Words
    <3>2. CASE e.op = "count"
      <4>1. StringIn(e, env.id) \in 0 .. StringCount - 1
        BY <3>2, StringBound
      <4> QED BY <1>1, <3>2, <4>1, LeafValues, OccurrencesTyped
    <3> QED BY <1>3, <3>1, <3>2
  <2> QED BY <2>2, <2>3, <2>4, TokenTyped DEF Value
<1>4. CASE e.op = "filesize"
  BY <1>1, <1>3, <1>4, LeafValues, Sizes
<1>5. CASE e.op = "count"
  <2>1. StringIn(e, env.id) \in 0 .. StringCount - 1
    BY <1>5, StringBound
  <2>2. Len(Occurrences(env.rule, StringIn(e, env.id))) \in Words /\ Len(Occurrences(env.rule, StringIn(e, env.id))) < Undefined
    BY <1>1, <2>1, OccurrencesTyped
  <2> QED BY <1>3, <1>5, <2>2, LeafValues, SmallWords
<1> QED BY <1>2, <1>4, <1>5

LEMMA TestFalse ==
  ASSUME NEW e \in Exprs, e.op \in BoundedTests, AbsentTest(e), NEW env, Binds(env, e)
  PROVE  Value(e, env) \in {0, 1} /\ (Meaning[e][env] = <<>> => Value(e, env) = 0)
<1> DEFINE a == e.args[1]
           b == e.args[2]
           args == [k \in DOMAIN e.args |-> Meaning[e.args[k]][env]]
<1>1. /\ e.op \in Binary \ {"!=", "%", "and", "or"} /\ DOMAIN e.args = {1, 2} /\ a \in Exprs /\ b \in Exprs
      /\ a.op \in {"offset", "length", "read"} /\ b.op \in {"filesize", "count", "int"} /\ b.op \in Leaves
      /\ \A k \in DOMAIN a.args : a.args[k].op = "int"
  BY TestParts DEF Leaves
<1>2. env \in Envs /\ Binds(env, a) /\ Binds(env, b)
  <2>1. e.op \notin Loops
    BY DEF BoundedTests, Loops, OverStrings, OverIntegers
  <2>2. env \in Envs
    BY DEF Binds
  <2> QED BY <1>1, <2>1, <2>2, BindsParts
<1>3. Known(a, env) /\ Known(b, env) /\ Plain(e)
  <2>1. Plain(a) /\ Plain(b)
    BY <1>1, AbsentPlain, LeafPlain
  <2>2. Plain(e)
    BY TestPlain
  <2> HIDE DEF a, b
  <2> QED BY <1>1, <1>2, <2>1, <2>2, PlainKept
<1>4. Value(a, env) \in Words /\ Value(b, env) \in Words
  BY <1>3 DEF Known
<1>5. Value(e, env) = Apply(e.op, Value(a, env), Value(b, env))
  BY <1>1, <1>2, <1>3, PlainParts, BinaryValue
<1>6. /\ Apply(e.op, Value(a, env), Value(b, env)) \in {0, 1}
      /\ BinaryMeaning(e.op, Value(a, env), Value(b, env)) = <<Apply(e.op, Value(a, env), Value(b, env))>>
  <2>1. e.op \in Comparing
    BY DEF BoundedTests, Comparing
  <2> HIDE DEF a, b
  <2> QED BY <1>1, <1>4, <2>1, ApplyIs
<1>7. Meaning[b][env] # <<>>
  BY <1>1, <1>2, LeafDefined
<1>8. ASSUME Meaning[e][env] = <<>> PROVE Meaning[a][env] = <<>>
  <2>1. Meaning[e][env] = OperatorMeaning(e, env, args)
    BY <1>2, MeaningOf DEF BoundedTests, Loops, OverStrings, OverIntegers
  <2>2. DOMAIN args = {1, 2} /\ args[1] = Meaning[a][env] /\ args[2] = Meaning[b][env]
    BY <1>1
  <2> HIDE DEF args, a, b
  <2>3. Meaning[e][env] = IF args[1] = <<>> \/ args[2] = <<>> THEN <<>> ELSE BinaryMeaning(e.op, args[1][1], args[2][1])
    BY <1>1, <2>1, <2>2, BinaryMeanings
  <2> SUFFICES ASSUME args[1] # <<>> PROVE FALSE
    BY <2>2
  <2>4. args[1] = <<Value(a, env)>> /\ args[2] = <<Value(b, env)>>
    BY <1>3, <1>7, <2>2 DEF Known
  <2>5. args[1][1] = Value(a, env) /\ args[2][1] = Value(b, env) /\ args[1] # <<>> /\ args[2] # <<>>
    BY <2>4
  <2>6. Meaning[e][env] = BinaryMeaning(e.op, Value(a, env), Value(b, env))
    BY <2>3, <2>5
  <2>7. \A v : <<v>> # <<>>
    OBVIOUS
  <2>8. BinaryMeaning(e.op, Value(a, env), Value(b, env)) # <<>>
    BY <1>6, <2>7 DEF a, b
  <2> QED BY <1>8, <2>6, <2>8
<1>9. ASSUME Meaning[e][env] = <<>> PROVE Value(e, env) = 0
  <2>1. a.op = "read" => ~a.signed
    BY DEF AbsentTest
  <2>2. Value(a, env) = Undefined
    <3> HIDE DEF a
    <3> QED BY <1>1, <1>2, <1>8, <1>9, <2>1, AbsentIsUndefined
  <2>3. Value(b, env) \in Nat /\ Value(b, env) < Undefined
    <3>1. b.op \in {"filesize", "count"} \/ (b.op = "int" /\ b.val < Undefined)
      BY DEF AbsentTest
    <3> HIDE DEF b
    <3> QED BY <1>1, <1>2, <3>1, SmallNumber
  <2>4. Compare(e.op, Undefined, Value(b, env)) = 0
    BY <2>3, UndefinedIsLarge DEF BoundedTests
  <2>5. Apply(e.op, Undefined, Value(b, env)) = Compare(e.op, Undefined, Value(b, env))
    BY DEF Apply, BoundedTests, Comparisons
  <2> QED BY <1>5, <2>2, <2>4, <2>5
<1> QED BY <1>5, <1>6, <1>9

\* An undefined connective is false: of `and` an undefined operand is, and of
\* `or` no operand is true.
LEMMA GuardedFalse ==
  ASSUME NEW e \in Exprs, Guarded(e), GroupedByYara(e), NEW env, Binds(env, e)
  PROVE  Value(e, env) \in {0, 1} /\ (Meaning[e][env] = <<>> => Value(e, env) = 0)
<1> DEFINE P == {d \in Exprs : Guarded(d) /\ GroupedByYara(d) /\ Binds(env, d) =>
                   Value(d, env) \in {0, 1} /\ (Meaning[d][env] = <<>> => Value(d, env) = 0)}
<1>1. ASSUME NEW d \in Exprs, \A k \in DOMAIN d.args : d.args[k] \in P PROVE d \in P
  <2> SUFFICES ASSUME Guarded(d), GroupedByYara(d), Binds(env, d)
               PROVE  Value(d, env) \in {0, 1} /\ (Meaning[d][env] = <<>> => Value(d, env) = 0)
    OBVIOUS
  <2>1. CASE d.op \in BoundedTests
    BY <2>1, GuardedParts, TestFalse
  <2>2. CASE d.op \in Connectives
    <3> DEFINE a == d.args[1]
               b == d.args[2]
               args == [k \in DOMAIN d.args |-> Meaning[d.args[k]][env]]
               x == Value(a, env)
               y == Value(b, env)
    <3>1. /\ a \in Exprs /\ b \in Exprs /\ DOMAIN d.args = {1, 2} /\ d.op \in Binary \ {"!=", "%"}
          /\ Guarded(a) /\ GroupedByYara(a) /\ Guarded(b) /\ GroupedByYara(b)
      BY <2>2, GuardedParts DEF Connectives, Binary
    <3>2. d.op \notin Loops
      BY <2>2 DEF Connectives, Loops, OverStrings, OverIntegers
    <3>3. env \in Envs /\ Binds(env, a) /\ Binds(env, b)
      BY <3>1, <3>2, BindsParts DEF Binds
    <3>4. /\ x \in {0, 1} /\ (Meaning[a][env] = <<>> => x = 0)
          /\ y \in {0, 1} /\ (Meaning[b][env] = <<>> => y = 0)
      BY <1>1, <3>1, <3>3
    <3>5. Known(a, env) /\ Known(b, env) /\ Plain(d)
      <4> HIDE DEF P, a, b
      <4> QED BY <3>1, <3>3, GuardedPlain, PlainKept
    <3>6. Value(d, env) = Apply(d.op, x, y)
      BY <3>1, <3>3, <3>5, PlainParts, BinaryValue
    <3>7. Meaning[d][env] = OperatorMeaning(d, env, args)
      BY <3>2, <3>3, MeaningOf
    <3>8. /\ DOMAIN args = {1, 2} /\ args[1] = Meaning[a][env] /\ args[2] = Meaning[b][env]
          /\ args[1] # <<>> => args[1] = <<x>>
          /\ args[2] # <<>> => args[2] = <<y>>
      BY <3>1, <3>5 DEF Known
    <3> HIDE DEF args, a, b, x, y, P
    <3>9. /\ Apply("and", x, y) = Bool(x # 0 /\ y # 0) /\ Apply("or", x, y) = Bool(x # 0 \/ y # 0)
          /\ \A op \in Connectives : BinaryMeaning(op, x, y) # <<>>
      <4>1. \A op \in Connectives : BinaryMeaning(op, x, y) = <<Apply(op, x, y)>>
        BY DEF BinaryMeaning, Connectives
      <4>2. Apply("and", x, y) = Bool(x # 0 /\ y # 0)
        BY DEF Apply, Comparisons
      <4>3. Apply("or", x, y) = Bool(x # 0 \/ y # 0)
        BY DEF Apply, Comparisons
      <4>4. \A v : <<v>> # <<>>
        OBVIOUS
      <4> QED BY <4>1, <4>2, <4>3, <4>4, Zenon
    <3>10. Value(d, env) \in {0, 1}
      BY <2>2, <3>6, <3>9, BoolTyped DEF Connectives
    <3>11. ASSUME d.op = "and", Meaning[d][env] = <<>> PROVE Value(d, env) = 0
      <4>1. Meaning[d][env] = IF args[1] = <<0>> \/ args[2] = <<0>> THEN <<0>>
              ELSE IF args[1] = <<>> \/ args[2] = <<>> THEN <<>> ELSE BinaryMeaning(d.op, args[1][1], args[2][1])
        BY <3>1, <3>7, <3>8, <3>11, BinaryMeanings
      <4>2. args[1] = <<>> \/ args[2] = <<>>
        <5> SUFFICES ASSUME args[1] # <<>>, args[2] # <<>> PROVE FALSE
          OBVIOUS
        <5>1. args[1] = <<x>> /\ args[2] = <<y>> /\ args[1][1] = x /\ args[2][1] = y
          BY <3>8
        <5>2. <<0>> # <<>>
          OBVIOUS
        <5> QED BY <2>2, <3>9, <3>11, <4>1, <5>1, <5>2
      <4>3. x = 0 \/ y = 0
        BY <3>4, <3>8, <4>2
      <4> QED BY <3>6, <3>9, <3>11, <4>3 DEF Bool
    <3>12. ASSUME d.op = "or", Meaning[d][env] = <<>> PROVE Value(d, env) = 0
      <4>1. Meaning[d][env] = IF args[1] = <<1>> \/ args[2] = <<1>> THEN <<1>>
              ELSE IF args[1] = <<>> \/ args[2] = <<>> THEN <<>> ELSE BinaryMeaning(d.op, args[1][1], args[2][1])
        BY <3>1, <3>7, <3>8, <3>12, BinaryMeanings
      <4>2. args[1] # <<1>> /\ args[2] # <<1>>
        <5>1. <<1>> # <<>>
          OBVIOUS
        <5> QED BY <3>12, <4>1, <5>1
      <4>3. x = 0 /\ y = 0
        BY <3>4, <3>8, <4>2
      <4> QED BY <3>6, <3>9, <3>12, <4>3 DEF Bool
    <3> QED BY <2>2, <3>10, <3>11, <3>12 DEF Connectives
  <2> QED BY <2>1, <2>2, GuardedParts
<1> HIDE DEF P
<1>2. Exprs \subseteq P
  BY <1>1, ByOperands
<1> QED BY <1>2 DEF P
-----------------------------------------------------------------------------
\* A generated function returns what its condition means in YARA, whatever
\* operators, loops and helpers it combines, for every condition whose text
\* keeps their grouping and whose meaning is defined (codegen.hpp:97-493,
\* ruleset.yar.cpp:90-229).
THEOREM ConditionsKept == RuleSpec => []ConditionKept
<1>1. RunInv => ConditionKept
  <2> SUFFICES ASSUME RunInv, pc = "done", rule # NoRule, Plain(rule.condition),
                      Meaning[rule.condition][Top(rule)] # <<>>
               PROVE  Returned = (Meaning[rule.condition][Top(rule)][1] # 0)
    BY DEF ConditionKept
  <2>1. rule \in Rules
    BY DEF RunInv
  <2>2. Known(rule.condition, Top(rule))
    BY <2>1, TopBinds, PlainKept
  <2>3. Meaning[rule.condition][Top(rule)] = <<Value(rule.condition, Top(rule))>>
    BY <2>2 DEF Known
  <2>4. Meaning[rule.condition][Top(rule)][1] = Value(rule.condition, Top(rule))
    BY <2>3
  <2> QED BY <2>4, ReturnedIs
<1> QED BY <1>1, InitRun, NextRun, PTL DEF RuleSpec

\* A condition that is undefined because an occurrence or the data it asks for
\* is not there is false, as in YARA, however many such tests `and` and `or`
\* join (codegen.hpp:391 and 409, ruleset.yar.cpp:100-110 and 224).
THEOREM UndefinedConditionsFalse == RuleSpec => []UndefinedIsFalse
<1>1. RunInv => UndefinedIsFalse
  <2> SUFFICES ASSUME RunInv, pc = "done", rule # NoRule, Guarded(rule.condition),
                      Meaning[rule.condition][Top(rule)] = <<>>
               PROVE  ~Returned
    BY DEF UndefinedIsFalse
  <2>1. rule \in Rules
    BY DEF RunInv
  <2>2. GroupedByYara(rule.condition)
    BY <2>1, ConditionsAssumption
  <2>3. Value(rule.condition, Top(rule)) = 0
    BY <2>1, <2>2, TopBinds, GuardedFalse
  <2> QED BY <2>3, ReturnedIs
<1> QED BY <1>1, InitRun, NextRun, PTL DEF RuleSpec
=============================================================================
