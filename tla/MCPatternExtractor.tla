-------------------------- MODULE MCPatternExtractor --------------------------
(***************************************************************************)
(* Small files of rules for PatternExtractor: every combination of kinds,  *)
(* of texts shared within and between rules, and of mutexes.               *)
(***************************************************************************)
EXTENDS PatternExtractor

CONSTANTS n1, n2, n3, x, y, z

Str(name, kind, text) == [name |-> name, kind |-> kind, text |-> text]
Kinds == {"literal", "regex"}

\* The strings of a rule: at most two, named in order, over two texts.
StringsOfTwo ==
  {<<>>} \cup {<<Str(n1, k, t)>> : k \in Kinds, t \in {x, y}}
  \cup {<<Str(n1, k, t), Str(n2, l, u)>> : k, l \in Kinds, t, u \in {x, y}}
MutexesOfTwo == {<<>>} \cup {<<t>> : t \in {x, y}} \cup {<<t, u>> : t, u \in {x, y}}
Rules(strings, mtxs) == [strings : strings, mutexes : mtxs]

\* Any two rules.
TwoRules == Rules(StringsOfTwo, MutexesOfTwo) \X Rules(StringsOfTwo, MutexesOfTwo)

\* Two rules of one literal each.
LiteralRules ==
  Rules({<<Str(n1, "literal", t)>> : t \in {x, y}}, {<<>>})
  \X Rules({<<Str(n1, "literal", t)>> : t \in {x, y}}, {<<>>})

\* One rule of three strings, which may repeat a text.
StringsOfThree ==
  {<<Str(n1, k, t), Str(n2, l, u), Str(n3, m, v)>> : k, l, m \in Kinds, t, u, v \in {x, y, z}}
OneRule == {<<r>> : r \in Rules(StringsOfThree, {<<>>, <<x, y>>})}

\* One rule of three strings, then one without strings.
OneStringRule == Rules(StringsOfThree, {<<x, y>>}) \X Rules({<<>>}, {<<y, z>>})

AnyFile == TwoRules \cup OneStringRule
=============================================================================
