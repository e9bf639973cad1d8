------------------------- MODULE StringPatternsProofs -------------------------
(***************************************************************************)
(* That the strings of a ruleset are found where they are, for every hex   *)
(* string, however long and deeply nested, and every buffer.  Hex strings  *)
(* and regular expressions are trees, their text and their matches         *)
(* recursive functions; the proofs are by induction on the nesting.        *)
(***************************************************************************)
EXTENDS StringPatterns, PatternExtractorProofs, WellFoundedInduction

\* A set of numbers has a least one, so numbers can be reached one by one.
LEMMA LeastNumber ==
  ASSUME NEW S \in SUBSET Nat, S # {}
  PROVE  \E m \in S : \A k \in S : m <= k
<1> DEFINE Less == {p \in Nat \X Nat : p[1] < p[2]}
<1>1. IsWellFoundedOn(Less, Nat)
  <2>1. OpToRel(<, Nat) = Less
    BY DEF OpToRel
  <2> QED BY <2>1, NatLessThanWellFounded
<1>2. PICK m \in S : \A k \in S : <<k, m>> \notin Less
  <2> HIDE DEF Less
  <2> QED BY <1>1, WFMin
<1>3. \A k \in S : ~(k < m)
  BY <1>2
<1> QED BY <1>3

LEMMA NumbersFromZero ==
  ASSUME NEW S, 0 \in S, \A n \in Nat : n \in S => n + 1 \in S
  PROVE  Nat \subseteq S
<1> SUFFICES ASSUME Nat \ S # {} PROVE FALSE
  OBVIOUS
<1>1. PICK m \in Nat \ S : \A k \in Nat \ S : m <= k
  BY LeastNumber
<1>2. m - 1 \in Nat
  BY <1>1
<1> QED BY <1>1, <1>2
-----------------------------------------------------------------------------
\* What a unit and an element consist of.
LEMMA UnitTyped ==
  ASSUME NEW units \in HexStrings, NEW k \in DOMAIN units
  PROVE  /\ units[k].unit \in {"byte", "jump", "or"}
         /\ units[k].unit = "byte" => units[k].first \in Halves /\ units[k].second \in Halves
         /\ units[k].unit = "or" =>
              \A j \in DOMAIN units[k].substrings :
                /\ units[k].substrings[j] \in HexStrings
                /\ Nesting[units[k].substrings[j]] < Nesting[units]
<1>1. units[k] \in Units
  BY HexStringsAssumption
<1>2. units[k].unit = "or" => units[k].substrings \in Seq(HexStrings)
  BY <1>1 DEF Units
<1>3. units[k].unit = "or" => \A j \in DOMAIN units[k].substrings : units[k].substrings[j] \in HexStrings
  BY <1>2
<1>4. /\ units[k].unit \in {"byte", "jump", "or"}
      /\ units[k].unit = "byte" => units[k].first \in Halves /\ units[k].second \in Halves
  BY <1>1 DEF Units
<1> QED BY <1>3, <1>4, HexStringsAssumption

LEMMA ElementTyped ==
  ASSUME NEW text \in Regexes, NEW k \in DOMAIN text
  PROVE  /\ text[k].element \in {"char", "escape", "dots", "group"}
         /\ text[k].element = "group" =>
              \A j \in DOMAIN text[k].alternatives :
                /\ text[k].alternatives[j] \in Regexes
                /\ Nesting[text[k].alternatives[j]] < Nesting[text]
<1>1. text[k] \in Elements
  BY RegexesAssumption
<1>2. text[k].element = "group" => text[k].alternatives \in Seq(Regexes)
  BY <1>1 DEF Elements
<1>3. text[k].element = "group" => \A j \in DOMAIN text[k].alternatives : text[k].alternatives[j] \in Regexes
  BY <1>2
<1>4. text[k].element \in {"char", "escape", "dots", "group"}
  BY <1>1 DEF Elements
<1> QED BY <1>3, <1>4, RegexesAssumption

LEMMA NestingTyped ==
  /\ MaxNesting + 1 \in Nat
  /\ \A t \in HexStrings \cup Regexes : Nesting[t] \in Nat /\ Nesting[t] < MaxNesting + 1
  BY NestingAssumption
-----------------------------------------------------------------------------
(***************************************************************************)
(* The recursive functions exist: a function that agrees with the          *)
(* definition on trees of nesting below n is extended to those below       *)
(* n + 1 by evaluating the body once more.                                 *)
(***************************************************************************)
ConvertsBelow(n, f) ==
  \A units \in HexStrings : Nesting[units] < n => f[units] = [k \in DOMAIN units |-> UnitText(units[k], f)]

LEMMA UnitTextLocal ==
  ASSUME NEW f, NEW g, NEW units \in HexStrings, NEW k \in DOMAIN units,
         \A h \in HexStrings : Nesting[h] < Nesting[units] => f[h] = g[h]
  PROVE  UnitText(units[k], f) = UnitText(units[k], g)
<1>1. ASSUME units[k].unit = "or"
      PROVE  [j \in DOMAIN units[k].substrings |-> f[units[k].substrings[j]]]
               = [j \in DOMAIN units[k].substrings |-> g[units[k].substrings[j]]]
  BY <1>1, UnitTyped
<1>2. ASSUME units[k].unit # "or" PROVE UnitText(units[k], f) = UnitText(units[k], g)
  BY <1>2, UnitTyped DEF UnitText
<1>3. ASSUME units[k].unit = "or" PROVE UnitText(units[k], f) = UnitText(units[k], g)
  BY <1>3, <1>1 DEF UnitText
<1> QED BY <1>2, <1>3

LEMMA ConversionStep ==
  ASSUME NEW n \in Nat, \E f : ConvertsBelow(n, f)
  PROVE  \E g : g = [units \in HexStrings |-> g[units]] /\ ConvertsBelow(n + 1, g)
<1>1. PICK f : ConvertsBelow(n, f)
  OBVIOUS
<1> DEFINE g == [units \in HexStrings |-> [k \in DOMAIN units |-> UnitText(units[k], f)]]
<1>2. \A units \in HexStrings : Nesting[units] < n => g[units] = f[units]
  BY <1>1 DEF ConvertsBelow
<1>3. ASSUME NEW units \in HexStrings, Nesting[units] < n + 1
      PROVE  [k \in DOMAIN units |-> UnitText(units[k], f)] = [k \in DOMAIN units |-> UnitText(units[k], g)]
  <2>1. \A h \in HexStrings : Nesting[h] < Nesting[units] => Nesting[h] < n
    BY <1>3, NestingTyped
  <2>2. \A h \in HexStrings : Nesting[h] < Nesting[units] => f[h] = g[h]
    BY <2>1, <1>2
  <2> HIDE DEF g
  <2> QED BY <2>2, UnitTextLocal
<1>4. ConvertsBelow(n + 1, g)
  BY <1>3 DEF ConvertsBelow
<1> QED BY <1>4

LEMMA ConversionIs ==
  ASSUME NEW units \in HexStrings
  PROVE  HexStringToPattern[units] = [k \in DOMAIN units |-> UnitText(units[k], HexStringToPattern)]
<1> DEFINE S == {n \in Nat : \E f : ConvertsBelow(n, f)}
<1>1. 0 \in S
  <2>1. ConvertsBelow(0, Nesting)
    BY NestingTyped DEF ConvertsBelow
  <2> QED BY <2>1
<1>2. \A n \in Nat : n \in S => n + 1 \in S
  BY ConversionStep
<1>3. Nat \subseteq S
  <2> HIDE DEF S
  <2> QED BY <1>1, <1>2, NumbersFromZero
<1>4. PICK g : g = [h \in HexStrings |-> g[h]] /\ ConvertsBelow(MaxNesting + 1, g)
  BY <1>3, ConversionStep, NestingAssumption
<1>5. \A h \in HexStrings : g[h] = [k \in DOMAIN h |-> UnitText(h[k], g)]
  BY <1>4, NestingTyped DEF ConvertsBelow
<1>6. g = [h \in HexStrings |-> [k \in DOMAIN h |-> UnitText(h[k], g)]]
  BY <1>4, <1>5
<1>7. HexStringToPattern = [h \in HexStrings |-> [k \in DOMAIN h |-> UnitText(h[k], HexStringToPattern)]]
  BY <1>6 DEF HexStringToPattern
<1> QED BY <1>7
-----------------------------------------------------------------------------
RegexBody(t, f) ==
  [data \in Buffers |-> [at \in 0 .. Len(data) |->
     Through([k \in DOMAIN t |-> [o \in 0 .. Len(data) |-> ElementEnds(t[k], data, o, f)]], at)]]
RegexBelow(n, f) == \A t \in Regexes : Nesting[t] < n => f[t] = RegexBody(t, f)

LEMMA RegexLocal ==
  ASSUME NEW f, NEW g, NEW t \in Regexes, \A s \in Regexes : Nesting[s] < Nesting[t] => f[s] = g[s]
  PROVE  RegexBody(t, f) = RegexBody(t, g)
<1>1. ASSUME NEW k \in DOMAIN t, NEW data, NEW o
      PROVE  ElementEnds(t[k], data, o, f) = ElementEnds(t[k], data, o, g)
  <2>1. CASE t[k].element = "group"
    <3>1. {f[t[k].alternatives[j]][data][o] : j \in DOMAIN t[k].alternatives}
            = {g[t[k].alternatives[j]][data][o] : j \in DOMAIN t[k].alternatives}
      BY <2>1, ElementTyped
    <3> QED BY <2>1, <3>1 DEF ElementEnds
  <2>2. CASE t[k].element # "group"
    BY <2>2, ElementTyped DEF ElementEnds
  <2> QED BY <2>1, <2>2
<1>2. ASSUME NEW data
      PROVE  [k \in DOMAIN t |-> [o \in 0 .. Len(data) |-> ElementEnds(t[k], data, o, f)]]
               = [k \in DOMAIN t |-> [o \in 0 .. Len(data) |-> ElementEnds(t[k], data, o, g)]]
  BY <1>1
<1> QED BY <1>2 DEF RegexBody

LEMMA RegexStep ==
  ASSUME NEW n \in Nat, \E f : RegexBelow(n, f)
  PROVE  \E g : g = [t \in Regexes |-> g[t]] /\ RegexBelow(n + 1, g)
<1>1. PICK f : RegexBelow(n, f)
  OBVIOUS
<1> DEFINE g == [t \in Regexes |-> RegexBody(t, f)]
<1>2. \A t \in Regexes : Nesting[t] < n => g[t] = f[t]
  BY <1>1 DEF RegexBelow
<1>3. ASSUME NEW t \in Regexes, Nesting[t] < n + 1
      PROVE  RegexBody(t, f) = RegexBody(t, g)
  <2>1. \A s \in Regexes : Nesting[s] < Nesting[t] => Nesting[s] < n
    BY <1>3, NestingTyped
  <2>2. \A s \in Regexes : Nesting[s] < Nesting[t] => f[s] = g[s]
    BY <2>1, <1>2
  <2> HIDE DEF g
  <2> QED BY <2>2, RegexLocal
<1>4. RegexBelow(n + 1, g)
  BY <1>3 DEF RegexBelow
<1> QED BY <1>4

LEMMA RegexEndsIs == ASSUME NEW t \in Regexes PROVE RegexEnds[t] = RegexBody(t, RegexEnds)
<1> DEFINE S == {n \in Nat : \E f : RegexBelow(n, f)}
<1>1. 0 \in S
  <2>1. RegexBelow(0, Nesting)
    BY NestingTyped DEF RegexBelow
  <2> QED BY <2>1
<1>2. \A n \in Nat : n \in S => n + 1 \in S
  BY RegexStep
<1>3. Nat \subseteq S
  <2> HIDE DEF S
  <2> QED BY <1>1, <1>2, NumbersFromZero
<1>4. PICK g : g = [s \in Regexes |-> g[s]] /\ RegexBelow(MaxNesting + 1, g)
  BY <1>3, RegexStep, NestingAssumption
<1>5. \A s \in Regexes : g[s] = RegexBody(s, g)
  BY <1>4, NestingTyped DEF RegexBelow
<1>6. g = [s \in Regexes |-> RegexBody(s, g)]
  BY <1>4, <1>5
<1>7. RegexEnds = [s \in Regexes |-> RegexBody(s, RegexEnds)]
  BY <1>6 DEF RegexEnds, RegexBody
<1> QED BY <1>7

-----------------------------------------------------------------------------
HexBody(t, f) ==
  [data \in Buffers |-> [at \in 0 .. Len(data) |->
     Through([k \in DOMAIN t |-> [o \in 0 .. Len(data) |-> UnitEnds(t[k], data, o, f)]], at)]]
HexBelow(n, f) == \A t \in HexStrings : Nesting[t] < n => f[t] = HexBody(t, f)

LEMMA HexLocal ==
  ASSUME NEW f, NEW g, NEW t \in HexStrings, \A s \in HexStrings : Nesting[s] < Nesting[t] => f[s] = g[s]
  PROVE  HexBody(t, f) = HexBody(t, g)
<1>1. ASSUME NEW k \in DOMAIN t, NEW data, NEW o
      PROVE  UnitEnds(t[k], data, o, f) = UnitEnds(t[k], data, o, g)
  <2>1. CASE t[k].unit = "or"
    <3>1. {f[t[k].substrings[j]][data][o] : j \in DOMAIN t[k].substrings}
            = {g[t[k].substrings[j]][data][o] : j \in DOMAIN t[k].substrings}
      BY <2>1, UnitTyped
    <3> QED BY <2>1, <3>1 DEF UnitEnds
  <2>2. CASE t[k].unit # "or"
    BY <2>2, UnitTyped DEF UnitEnds
  <2> QED BY <2>1, <2>2
<1>2. ASSUME NEW data
      PROVE  [k \in DOMAIN t |-> [o \in 0 .. Len(data) |-> UnitEnds(t[k], data, o, f)]]
               = [k \in DOMAIN t |-> [o \in 0 .. Len(data) |-> UnitEnds(t[k], data, o, g)]]
  BY <1>1
<1> QED BY <1>2 DEF HexBody

LEMMA HexStep ==
  ASSUME NEW n \in Nat, \E f : HexBelow(n, f)
  PROVE  \E g : g = [t \in HexStrings |-> g[t]] /\ HexBelow(n + 1, g)
<1>1. PICK f : HexBelow(n, f)
  OBVIOUS
<1> DEFINE g == [t \in HexStrings |-> HexBody(t, f)]
<1>2. \A t \in HexStrings : Nesting[t] < n => g[t] = f[t]
  BY <1>1 DEF HexBelow
<1>3. ASSUME NEW t \in HexStrings, Nesting[t] < n + 1
      PROVE  HexBody(t, f) = HexBody(t, g)
  <2>1. \A s \in HexStrings : Nesting[s] < Nesting[t] => Nesting[s] < n
    BY <1>3, NestingTyped
  <2>2. \A s \in HexStrings : Nesting[s] < Nesting[t] => f[s] = g[s]
    BY <2>1, <1>2
  <2> HIDE DEF g
  <2> QED BY <2>2, HexLocal
<1>4. HexBelow(n + 1, g)
  BY <1>3 DEF HexBelow
<1> QED BY <1>4

LEMMA HexEndsIs == ASSUME NEW t \in HexStrings PROVE HexEnds[t] = HexBody(t, HexEnds)
<1> DEFINE S == {n \in Nat : \E f : HexBelow(n, f)}
<1>1. 0 \in S
  <2>1. HexBelow(0, Nesting)
    BY NestingTyped DEF HexBelow
  <2> QED BY <2>1
<1>2. \A n \in Nat : n \in S => n + 1 \in S
  BY HexStep
<1>3. Nat \subseteq S
  <2> HIDE DEF S
  <2> QED BY <1>1, <1>2, NumbersFromZero
<1>4. PICK g : g = [s \in HexStrings |-> g[s]] /\ HexBelow(MaxNesting + 1, g)
  BY <1>3, HexStep, NestingAssumption
<1>5. \A s \in HexStrings : g[s] = HexBody(s, g)
  BY <1>4, NestingTyped DEF HexBelow
<1>6. g = [s \in HexStrings |-> HexBody(s, g)]
  BY <1>4, <1>5
<1>7. HexEnds = [s \in HexStrings |-> HexBody(s, HexEnds)]
  BY <1>6 DEF HexEnds, HexBody
<1> QED BY <1>7

-----------------------------------------------------------------------------
\* The offsets reached after each member of a sequence.
AreReached(r, moves, at) ==
  /\ r[0] = {at}
  /\ \A k \in 1 .. Len(moves) : \A e : e \in r[k] <=> \E o \in r[k - 1] : e \in moves[k][o]

LEMMA ThroughIs ==
  ASSUME NEW moves, Len(moves) \in Nat, NEW at
  PROVE  \E r : Through(moves, at) = r[Len(moves)] /\ AreReached(r, moves, at)
<1> DEFINE Body(f, k) == IF k = 0 THEN {at} ELSE UNION {moves[k][o] : o \in f[k - 1]}
           Upto(n, f) == \A k \in 0 .. n : f[k] = Body(f, k)
           S == {n \in Nat : \E f : Upto(n, f)}
<1>1. 0 \in S
  <2>1. Upto(0, [k \in {0} |-> {at}])
    OBVIOUS
  <2> QED BY <2>1
<1>2. ASSUME NEW n \in Nat, NEW f, Upto(n, f)
      PROVE  \E g : g = [k \in 0 .. n + 1 |-> g[k]] /\ Upto(n + 1, g)
  <2> DEFINE g == [k \in 0 .. n + 1 |-> Body(f, k)]
  <2>1. \A k \in 0 .. n : g[k] = f[k]
    <3> HIDE DEF Body
    <3> QED BY <1>2
  <2>2. \A k \in 0 .. n + 1 : Body(g, k) = Body(f, k)
    <3>1. \A k \in 0 .. n + 1 : k = 0 \/ k - 1 \in 0 .. n
      OBVIOUS
    <3> HIDE DEF g
    <3> QED BY <2>1, <3>1
  <2>3. Upto(n + 1, g)
    <3> HIDE DEF Body
    <3> QED BY <2>2
  <2> QED BY <2>3
<1>3. \A n \in Nat : n \in S => n + 1 \in S
  <2> HIDE DEF Upto
  <2> QED BY <1>2
<1>4. Nat \subseteq S
  <2> HIDE DEF S
  <2> QED BY <1>1, <1>3, NumbersFromZero
<1>5. \E g : g = [k \in 0 .. Len(moves) |-> g[k]] /\ Upto(Len(moves), g)
  <2>1. CASE Len(moves) = 0
    <3>1. Upto(0, [k \in 0 .. 0 |-> {at}])
      OBVIOUS
    <3> HIDE DEF Upto
    <3> QED BY <2>1, <3>1
  <2>2. CASE Len(moves) # 0
    <3>1. Len(moves) - 1 \in Nat /\ Len(moves) - 1 + 1 = Len(moves)
      BY <2>2
    <3> HIDE DEF Upto
    <3> QED BY <3>1, <1>2, <1>4
  <2> QED BY <2>1, <2>2
<1>6. PICK g : g = [k \in 0 .. Len(moves) |-> g[k]] /\ Upto(Len(moves), g)
  BY <1>5
<1>7. g = [k \in 0 .. Len(moves) |-> Body(g, k)]
  BY <1>6
<1> DEFINE reached == CHOOSE f : f = [k \in 0 .. Len(moves) |-> Body(f, k)]
<1>8. reached = [k \in 0 .. Len(moves) |-> Body(reached, k)]
  <2> HIDE DEF Body
  <2> QED BY <1>7
<1>9. Through(moves, at) = reached[Len(moves)]
  BY DEF Through
<1>10. reached[0] = {at} /\ \A k \in 1 .. Len(moves) : reached[k] = UNION {moves[k][o] : o \in reached[k - 1]}
  <2>1. \A k \in 0 .. Len(moves) : reached[k] = Body(reached, k)
    <3> HIDE DEF Body, reached
    <3> QED BY <1>8
  <2>2. 0 \in 0 .. Len(moves) /\ \A k \in 1 .. Len(moves) : k # 0 /\ k \in 0 .. Len(moves)
    OBVIOUS
  <2> HIDE DEF reached
  <2> QED BY <2>1, <2>2
<1>11. \A k \in 1 .. Len(moves) : \A e : e \in reached[k] <=> \E o \in reached[k - 1] : e \in moves[k][o]
  <2> HIDE DEF reached
  <2> QED BY <1>10
<1>12. AreReached(reached, moves, at)
  <2> HIDE DEF reached
  <2> QED BY <1>10, <1>11 DEF AreReached
<1> QED BY <1>9, <1>12

LEMMA ThroughOne ==
  ASSUME NEW moves, Len(moves) = 1, NEW at
  PROVE  Through(moves, at) = moves[1][at]
<1>1. Len(moves) \in Nat
  OBVIOUS
<1>2. PICK r : Through(moves, at) = r[Len(moves)] /\ AreReached(r, moves, at)
  BY <1>1, ThroughIs
<1>3. \A e : e \in r[1] <=> e \in moves[1][at]
  BY <1>2 DEF AreReached
<1>4. r[1] = moves[1][at]
  BY <1>3, SetExtensionality
<1> QED BY <1>2, <1>4

\* A sequence of characters ends where the literal does.
LEMMA ThroughCharacters ==
  ASSUME NEW c, Len(c) \in Nat, DOMAIN c = 1 .. Len(c), NEW data, Len(data) \in Nat, NEW at \in 0 .. Len(data),
         NEW moves, Len(moves) = Len(c),
         \A k \in 1 .. Len(c) : \A o \in 0 .. Len(data) :
           moves[k][o] = IF o < Len(data) /\ data[o + 1] = c[k].byte THEN {o + 1} ELSE {}
  PROVE  Through(moves, at) = LiteralEnds(c, data, at)
<1>1. PICK r : Through(moves, at) = r[Len(moves)] /\ AreReached(r, moves, at)
  <2>1. Len(moves) \in Nat
    OBVIOUS
  <2> QED BY <2>1, ThroughIs
<1> DEFINE Same(n) == at + n <= Len(data) /\ \A j \in 1 .. n : data[at + j] = c[j].byte
           S == {n \in Nat : n <= Len(c) => r[n] = IF Same(n) THEN {at + n} ELSE {}}
<1>2. 0 \in S
  <2>1. Same(0) /\ at + 0 = at
    OBVIOUS
  <2> HIDE DEF Same
  <2> QED BY <1>1, <2>1 DEF AreReached
<1>3. ASSUME NEW n \in Nat, n \in S, n + 1 <= Len(c)
      PROVE  r[n + 1] = IF Same(n + 1) THEN {at + (n + 1)} ELSE {}
  <2>1. \A e : e \in r[n + 1] <=> \E o \in r[n] : e \in moves[n + 1][o]
    <3>1. n + 1 \in 1 .. Len(moves) /\ (n + 1) - 1 = n
      BY <1>3
    <3> QED BY <1>1, <3>1 DEF AreReached
  <2>2. CASE Same(n)
    <3>1. r[n] = {at + n} /\ at + n \in 0 .. Len(data)
      BY <1>3, <2>2
    <3>2. r[n + 1] = moves[n + 1][at + n]
      <4>1. \A e : e \in r[n + 1] <=> e \in moves[n + 1][at + n]
        BY <2>1, <3>1
      <4> QED BY <4>1, SetExtensionality
    <3>3. n + 1 \in 1 .. Len(c)
      BY <1>3
    <3>4. r[n + 1] = IF at + n < Len(data) /\ data[at + n + 1] = c[n + 1].byte THEN {at + n + 1} ELSE {}
      BY <3>1, <3>2, <3>3
    <3>5. Same(n + 1) <=> at + n < Len(data) /\ data[at + n + 1] = c[n + 1].byte
      <4>1. \A j \in 1 .. n + 1 : j \in 1 .. n \/ j = n + 1
        OBVIOUS
      <4>2. at + (n + 1) = at + n + 1
        OBVIOUS
      <4>3. at + (n + 1) <= Len(data) <=> at + n < Len(data)
        OBVIOUS
      <4>4. n + 1 \in 1 .. n + 1 /\ \A j \in 1 .. n : j \in 1 .. n + 1
        OBVIOUS
      <4> QED BY <2>2, <4>1, <4>2, <4>3, <4>4
    <3>6. at + (n + 1) = at + n + 1
      OBVIOUS
    <3> HIDE DEF Same
    <3> QED BY <3>4, <3>5, <3>6
  <2>3. CASE ~Same(n)
    <3>1. r[n] = {}
      BY <1>3, <2>3
    <3>2. ~Same(n + 1)
      BY <2>3
    <3> QED BY <2>1, <3>1, <3>2
  <2> QED BY <2>2, <2>3
<1>4. \A n \in Nat : n \in S => n + 1 \in S
  <2>1. \A n \in Nat : n + 1 \in Nat
    OBVIOUS
  <2> HIDE DEF Same
  <2> QED BY <1>3, <2>1, Zenon
<1>5. Nat \subseteq S
  <2> HIDE DEF S
  <2> QED BY <1>2, <1>4, NumbersFromZero
<1>6. r[Len(c)] = IF Same(Len(c)) THEN {at + Len(c)} ELSE {}
  <2>1. Len(c) \in S
    <3> HIDE DEF S
    <3> QED BY <1>5
  <2>2. Len(c) <= Len(c)
    OBVIOUS
  <2> HIDE DEF Same
  <2> QED BY <2>1, <2>2, Zenon
<1> QED BY <1>1, <1>6 DEF LiteralEnds
-----------------------------------------------------------------------------
(***************************************************************************)
(* The text of a unit ends where the unit does.                            *)
(***************************************************************************)
\* A step over one byte that is in bytes.
Step(data, at, bytes) == IF at < Len(data) /\ data[at + 1] \in bytes THEN {at + 1} ELSE {}
AgreeingBytes(first, second) == {b \in 0 .. 127 : Agrees(first, second, b)}

LEMMA DataTyped ==
  ASSUME NEW data \in Buffers
  PROVE  /\ Len(data) \in Nat
         /\ \A at \in 0 .. Len(data) : at < Len(data) => data[at + 1] \in 0 .. 127
<1>1. data \in Seq(0 .. 127)
  BY BuffersAssumption
<1>2. Len(data) \in Nat /\ \A k \in 1 .. Len(data) : data[k] \in 0 .. 127
  BY <1>1, ElementOfSeq, LenProperties
<1>3. \A at \in 0 .. Len(data) : at < Len(data) => at + 1 \in 1 .. Len(data)
  BY <1>2
<1> QED BY <1>2, <1>3

LEMMA ByteOfDigits ==
  ASSUME NEW b \in 0 .. 127, NEW h \in 0 .. 15, NEW l \in 0 .. 15
  PROVE  /\ b = 16 * h + l <=> b \div 16 = h /\ b % 16 = l
         /\ b \div 16 \in 0 .. 15 /\ b % 16 \in 0 .. 15
<1>1. b = 16 * (b \div 16) + (b % 16) /\ b \div 16 \in 0 .. 15 /\ b % 16 \in 0 .. 15
  OBVIOUS
<1>2. b = 16 * h + l => b \div 16 = h /\ b % 16 = l
  OBVIOUS
<1> QED BY <1>1, <1>2

LEMMA NibblesAre ==
  ASSUME NEW high \in 0 .. 15, NEW low \in 0 .. 15
  PROVE  /\ NibblesToString(high, low).element \in {"char", "escape"}
         /\ NibblesToString(high, low).byte = 16 * high + low
  BY DEF NibblesToString, Char, Escape

LEMMA CharacterEnds ==
  ASSUME NEW text \in Regexes, Len(text) = 1, text[1].element \in {"char", "escape"},
         NEW data \in Buffers, NEW at \in 0 .. Len(data)
  PROVE  RegexEnds[text][data][at] = Step(data, at, {text[1].byte})
<1> DEFINE moves == [k \in DOMAIN text |-> [o \in 0 .. Len(data) |-> ElementEnds(text[k], data, o, RegexEnds)]]
<1>1. RegexEnds[text][data][at] = Through(moves, at)
  <2>1. RegexEnds[text] = RegexBody(text, RegexEnds)
    BY RegexEndsIs
  <2>2. RegexBody(text, RegexEnds)[data][at] = Through(moves, at)
    BY Zenon DEF RegexBody
  <2> HIDE DEF moves
  <2> QED BY <2>1, <2>2
<1>2. DOMAIN text = 1 .. 1
  BY RegexesAssumption
<1>3. Len(moves) = 1 /\ moves[1] = [o \in 0 .. Len(data) |-> ElementEnds(text[1], data, o, RegexEnds)]
  BY <1>2
<1>4. moves[1][at] = ElementEnds(text[1], data, at, RegexEnds)
  BY <1>3
<1>5. ElementEnds(text[1], data, at, RegexEnds) = Step(data, at, {text[1].byte})
  BY DEF ElementEnds, Step
<1> HIDE DEF moves
<1> QED BY <1>1, <1>3, <1>4, <1>5, ThroughOne

\* A group of the sixteen bytes that agree with half a byte.
LEMMA GroupEnds ==
  ASSUME NEW a, \A k \in 1 .. 16 : <<a[k]>> \in Regexes /\ a[k].element \in {"char", "escape"},
         NEW data \in Buffers, NEW at \in 0 .. Len(data)
  PROVE  ElementEnds(Group([k \in 1 .. 16 |-> <<a[k]>>]), data, at, RegexEnds)
           = Step(data, at, {a[k].byte : k \in 1 .. 16})
<1> DEFINE e == Group([k \in 1 .. 16 |-> <<a[k]>>])
<1>1. /\ e.element = "group" /\ DOMAIN e.alternatives = 1 .. 16
      /\ \A k \in 1 .. 16 : e.alternatives[k] = <<a[k]>>
  BY DEF Group
<1>2. ElementEnds(e, data, at, RegexEnds) = UNION {RegexEnds[e.alternatives[j]][data][at] : j \in DOMAIN e.alternatives}
  <2> HIDE DEF e
  <2> QED BY <1>1 DEF ElementEnds
<1>3. ASSUME NEW k \in 1 .. 16
      PROVE  RegexEnds[e.alternatives[k]][data][at] = Step(data, at, {a[k].byte})
  <2>1. RegexEnds[<<a[k]>>][data][at] = Step(data, at, {a[k].byte})
    <3> DEFINE text == <<a[k]>>
    <3>1. text \in Regexes /\ Len(text) = 1 /\ text[1] = a[k] /\ a[k].element \in {"char", "escape"}
      OBVIOUS
    <3>2. RegexEnds[text][data][at] = Step(data, at, {a[k].byte})
      <4> HIDE DEF text
      <4> QED BY <3>1, CharacterEnds
    <3> QED BY <3>2
  <2>2. e.alternatives[k] = <<a[k]>>
    BY <1>1
  <2> HIDE DEF e
  <2> QED BY <2>1, <2>2
<1>4. UNION {RegexEnds[e.alternatives[j]][data][at] : j \in DOMAIN e.alternatives}
        = UNION {Step(data, at, {a[k].byte}) : k \in 1 .. 16}
  <2> DEFINE D == DOMAIN e.alternatives
  <2>1. D = 1 .. 16
    BY <1>1
  <2>2. \A k \in D : RegexEnds[e.alternatives[k]][data][at] = Step(data, at, {a[k].byte})
    BY <2>1, <1>3
  <2>3. {RegexEnds[e.alternatives[j]][data][at] : j \in D} = {Step(data, at, {a[k].byte}) : k \in D}
    <3> HIDE DEF e, D
    <3> QED BY <2>2
  <2> HIDE DEF e
  <2> QED BY <2>1, <2>3
<1>5. UNION {Step(data, at, {a[k].byte}) : k \in 1 .. 16}
        = Step(data, at, {a[k].byte : k \in 1 .. 16})
  BY DEF Step
<1>6. ElementEnds(e, data, at, RegexEnds) = Step(data, at, {a[k].byte : k \in 1 .. 16})
  <2> HIDE DEF e
  <2> QED BY <1>2, <1>4, <1>5
<1> QED BY <1>6, Zenon

LEMMA PairEnds ==
  ASSUME NEW first \in Halves, NEW second \in Halves,
         Pair(first, second).element = "group" =>
           \A k \in DOMAIN Pair(first, second).alternatives : Pair(first, second).alternatives[k] \in Regexes,
         NEW data \in Buffers, NEW at \in 0 .. Len(data)
  PROVE  ElementEnds(Pair(first, second), data, at, RegexEnds)
           = Step(data, at, AgreeingBytes(first, second))
<1>1. Wildcard \notin 0 .. 15 /\ \A half \in Halves : half = Wildcard \/ half \in 0 .. 15
  BY DEF Wildcard, Halves
<1>2. CASE first = Wildcard /\ second = Wildcard
  <2>1. Pair(first, second) = Dots(1, 1)
    BY <1>2 DEF Pair
  <2>2. ElementEnds(Dots(1, 1), data, at, RegexEnds) = Steps(data, at, 1, 1)
    BY DEF ElementEnds, Dots
  <2>3. Steps(data, at, 1, 1) = IF at < Len(data) THEN {at + 1} ELSE {}
    BY DataTyped DEF Steps, Unbounded
  <2> QED BY <1>2, <2>1, <2>2, <2>3, DataTyped DEF Step, AgreeingBytes, Agrees
<1>3. CASE first = Wildcard /\ second \in 0 .. 15
  <2> DEFINE a == [k \in 1 .. 16 |-> NibblesToString(k - 1, second)]
  <2>1. Pair(first, second) = Group([k \in 1 .. 16 |-> <<a[k]>>])
    BY <1>1, <1>3 DEF Pair
  <2>2. \A k \in 1 .. 16 : a[k].element \in {"char", "escape"} /\ a[k].byte = 16 * (k - 1) + second
    <3>1. \A k \in 1 .. 16 : k - 1 \in 0 .. 15
      OBVIOUS
    <3> QED BY <1>3, <3>1, NibblesAre
  <2>3. \A k \in 1 .. 16 : <<a[k]>> \in Regexes
    <3> DEFINE alternatives == [k \in 1 .. 16 |-> <<a[k]>>]
    <3>1. Group(alternatives).element = "group" /\ Group(alternatives).alternatives = alternatives
      BY DEF Group
    <3>2. \A k \in DOMAIN alternatives : alternatives[k] \in Regexes
      <4>1. Pair(first, second) = Group(alternatives)
        BY <2>1
      <4> HIDE DEF alternatives
      <4> QED BY <4>1, <3>1
    <3>3. DOMAIN alternatives = 1 .. 16 /\ \A k \in 1 .. 16 : alternatives[k] = <<a[k]>>
      BY Zenon
    <3> HIDE DEF alternatives, a
    <3> QED BY <3>2, <3>3
  <2>4. at < Len(data) => (Agrees(first, second, data[at + 1]) <=> \E k \in 1 .. 16 : data[at + 1] = a[k].byte)
    <3> SUFFICES ASSUME at < Len(data)
                 PROVE  Agrees(first, second, data[at + 1]) <=> \E k \in 1 .. 16 : data[at + 1] = a[k].byte
      OBVIOUS
    <3>1. data[at + 1] \in 0 .. 127
      BY DataTyped
    <3>2. \A k \in 1 .. 16 : k - 1 \in 0 .. 15
      OBVIOUS
    <3>3. Agrees(first, second, data[at + 1]) <=> data[at + 1] % 16 = second
      BY <1>1, <1>3 DEF Agrees
    <3>4. ASSUME data[at + 1] % 16 = second PROVE \E k \in 1 .. 16 : data[at + 1] = a[k].byte
      <4>1. data[at + 1] \div 16 \in 0 .. 15
        BY <3>1, <1>3, ByteOfDigits
      <4>2. data[at + 1] = 16 * (data[at + 1] \div 16) + second
        BY <3>1, <1>3, <3>4, <4>1, ByteOfDigits
      <4>3. data[at + 1] \div 16 + 1 \in 1 .. 16 /\ (data[at + 1] \div 16 + 1) - 1 = data[at + 1] \div 16
        BY <4>1
      <4> HIDE DEF a
      <4> QED BY <4>2, <4>3, <2>2
    <3>5. ASSUME NEW k \in 1 .. 16, data[at + 1] = a[k].byte PROVE data[at + 1] % 16 = second
      <4>1. data[at + 1] = 16 * (k - 1) + second
        <5> HIDE DEF a
        <5> QED BY <3>5, <2>2
      <4> QED BY <3>1, <3>2, <4>1, <1>3, ByteOfDigits
    <3> HIDE DEF a
    <3> QED BY <3>3, <3>4, <3>5
  <2>5. Step(data, at, {a[k].byte : k \in 1 .. 16}) = Step(data, at, AgreeingBytes(first, second))
    <3> HIDE DEF a
    <3> QED BY <2>4, DataTyped DEF Step, AgreeingBytes
  <2> HIDE DEF a
  <2> QED BY <2>1, <2>2, <2>3, <2>5, GroupEnds
<1>4. CASE first \in 0 .. 15 /\ second = Wildcard
  <2> DEFINE a == [k \in 1 .. 16 |-> NibblesToString(first, k - 1)]
  <2>1. Pair(first, second) = Group([k \in 1 .. 16 |-> <<a[k]>>])
    BY <1>1, <1>4 DEF Pair
  <2>2. \A k \in 1 .. 16 : a[k].element \in {"char", "escape"} /\ a[k].byte = 16 * first + (k - 1)
    <3>1. \A k \in 1 .. 16 : k - 1 \in 0 .. 15
      OBVIOUS
    <3> QED BY <1>4, <3>1, NibblesAre
  <2>3. \A k \in 1 .. 16 : <<a[k]>> \in Regexes
    <3> DEFINE alternatives == [k \in 1 .. 16 |-> <<a[k]>>]
    <3>1. Group(alternatives).element = "group" /\ Group(alternatives).alternatives = alternatives
      BY DEF Group
    <3>2. \A k \in DOMAIN alternatives : alternatives[k] \in Regexes
      <4>1. Pair(first, second) = Group(alternatives)
        BY <2>1
      <4> HIDE DEF alternatives
      <4> QED BY <4>1, <3>1
    <3>3. DOMAIN alternatives = 1 .. 16 /\ \A k \in 1 .. 16 : alternatives[k] = <<a[k]>>
      BY Zenon
    <3> HIDE DEF alternatives, a
    <3> QED BY <3>2, <3>3
  <2>4. at < Len(data) => (Agrees(first, second, data[at + 1]) <=> \E k \in 1 .. 16 : data[at + 1] = a[k].byte)
    <3> SUFFICES ASSUME at < Len(data)
                 PROVE  Agrees(first, second, data[at + 1]) <=> \E k \in 1 .. 16 : data[at + 1] = a[k].byte
      OBVIOUS
    <3>1. data[at + 1] \in 0 .. 127
      BY DataTyped
    <3>2. \A k \in 1 .. 16 : k - 1 \in 0 .. 15
      OBVIOUS
    <3>3. Agrees(first, second, data[at + 1]) <=> data[at + 1] \div 16 = first
      BY <1>1, <1>4 DEF Agrees
    <3>4. ASSUME data[at + 1] \div 16 = first PROVE \E k \in 1 .. 16 : data[at + 1] = a[k].byte
      <4>1. data[at + 1] % 16 \in 0 .. 15
        BY <3>1, <1>4, ByteOfDigits
      <4>2. data[at + 1] = 16 * first + (data[at + 1] % 16)
        BY <3>1, <1>4, <3>4, <4>1, ByteOfDigits
      <4>3. (data[at + 1] % 16) + 1 \in 1 .. 16 /\ ((data[at + 1] % 16) + 1) - 1 = data[at + 1] % 16
        BY <4>1
      <4> HIDE DEF a
      <4> QED BY <4>2, <4>3, <2>2
    <3>5. ASSUME NEW k \in 1 .. 16, data[at + 1] = a[k].byte PROVE data[at + 1] \div 16 = first
      <4>1. data[at + 1] = 16 * first + (k - 1)
        <5> HIDE DEF a
        <5> QED BY <3>5, <2>2
      <4> QED BY <3>1, <3>2, <4>1, <1>4, ByteOfDigits
    <3> HIDE DEF a
    <3> QED BY <3>3, <3>4, <3>5
  <2>5. Step(data, at, {a[k].byte : k \in 1 .. 16}) = Step(data, at, AgreeingBytes(first, second))
    <3> HIDE DEF a
    <3> QED BY <2>4, DataTyped DEF Step, AgreeingBytes
  <2> HIDE DEF a
  <2> QED BY <2>1, <2>2, <2>3, <2>5, GroupEnds
<1>5. CASE first \in 0 .. 15 /\ second \in 0 .. 15
  <2>1. Pair(first, second) = NibblesToString(first, second)
    BY <1>1, <1>5 DEF Pair
  <2>2. ElementEnds(NibblesToString(first, second), data, at, RegexEnds)
          = Step(data, at, {NibblesToString(first, second).byte})
    BY <1>5, NibblesAre DEF ElementEnds, Step
  <2>3. ASSUME at < Len(data)
        PROVE  Agrees(first, second, data[at + 1]) <=> data[at + 1] = 16 * first + second
    <3>1. data[at + 1] \in 0 .. 127
      BY <2>3, DataTyped
    <3>2. data[at + 1] = 16 * first + second <=> data[at + 1] \div 16 = first /\ data[at + 1] % 16 = second
      BY <3>1, <1>5, ByteOfDigits
    <3> QED BY <1>1, <1>5, <3>2 DEF Agrees
  <2> QED BY <1>5, <2>1, <2>2, <2>3, NibblesAre, DataTyped DEF Step, AgreeingBytes
<1> QED BY <1>1, <1>2, <1>3, <1>4, <1>5

LEMMA UnitTextEnds ==
  ASSUME NEW units \in HexStrings, HexStringToPattern[units] \in Regexes, NEW k \in DOMAIN units,
         \A h \in HexStrings : Nesting[h] < Nesting[units] => RegexEnds[HexStringToPattern[h]] = HexEnds[h],
         NEW data \in Buffers, NEW at \in 0 .. Len(data)
  PROVE  ElementEnds(HexStringToPattern[units][k], data, at, RegexEnds) = UnitEnds(units[k], data, at, HexEnds)
<1> DEFINE u == units[k]
           e == HexStringToPattern[units][k]
<1> SUFFICES ElementEnds(e, data, at, RegexEnds) = UnitEnds(u, data, at, HexEnds)
  OBVIOUS
<1>1. e = UnitText(u, HexStringToPattern) /\ k \in DOMAIN HexStringToPattern[units]
  BY ConversionIs
<1>2. e.element = "group" => \A j \in DOMAIN e.alternatives : e.alternatives[j] \in Regexes
  BY <1>1, ElementTyped
<1>3. CASE u.unit = "byte"
  <2>1. u.first \in Halves /\ u.second \in Halves
    BY <1>3, UnitTyped
  <2>2. e = Pair(u.first, u.second)
    <3> HIDE DEF u, e
    <3> QED BY <1>1, <1>3 DEF UnitText
  <2>3. ElementEnds(e, data, at, RegexEnds) = Step(data, at, AgreeingBytes(u.first, u.second))
    <3> HIDE DEF u, e
    <3> QED BY <1>2, <2>1, <2>2, PairEnds
  <2>4. UnitEnds(u, data, at, HexEnds)
          = IF at < Len(data) /\ Agrees(u.first, u.second, data[at + 1]) THEN {at + 1} ELSE {}
    <3> HIDE DEF u
    <3> QED BY <1>3 DEF UnitEnds
  <2>5. Step(data, at, AgreeingBytes(u.first, u.second)) = UnitEnds(u, data, at, HexEnds)
    <3> HIDE DEF u
    <3> QED BY <2>4, DataTyped DEF Step, AgreeingBytes
  <2> QED BY <2>3, <2>5
<1>4. CASE u.unit = "jump"
  <2>1. e = Dots(u.low, u.high)
    <3> HIDE DEF u, e
    <3> QED BY <1>1, <1>4 DEF UnitText
  <2>2. ElementEnds(Dots(u.low, u.high), data, at, RegexEnds) = Steps(data, at, u.low, u.high)
    BY DEF ElementEnds, Dots
  <2>3. UnitEnds(u, data, at, HexEnds) = Steps(data, at, u.low, u.high)
    <3> HIDE DEF u
    <3> QED BY <1>4 DEF UnitEnds
  <2> HIDE DEF u, e
  <2> QED BY <2>1, <2>2, <2>3
<1>5. CASE u.unit = "or"
  <2> DEFINE D == DOMAIN u.substrings
             texts == [j \in D |-> HexStringToPattern[u.substrings[j]]]
  <2>1. e = Group(texts)
    <3> HIDE DEF u, e
    <3> QED BY <1>1, <1>5 DEF UnitText
  <2>2. \A j \in D : u.substrings[j] \in HexStrings /\ Nesting[u.substrings[j]] < Nesting[units]
    BY <1>5, UnitTyped
  <2>3. \A j \in D : RegexEnds[texts[j]] = HexEnds[u.substrings[j]]
    <3> HIDE DEF u
    <3> QED BY <2>2
  <2>4. {RegexEnds[texts[j]][data][at] : j \in D} = {HexEnds[u.substrings[j]][data][at] : j \in D}
    <3> HIDE DEF u, D, texts
    <3> QED BY <2>3
  <2>5. ElementEnds(Group(texts), data, at, RegexEnds) = UNION {RegexEnds[texts[j]][data][at] : j \in DOMAIN texts}
    <3> HIDE DEF texts
    <3> QED BY DEF ElementEnds, Group
  <2>6. UnitEnds(u, data, at, HexEnds) = UNION {HexEnds[u.substrings[j]][data][at] : j \in D}
    <3> HIDE DEF u
    <3> QED BY <1>5 DEF UnitEnds
  <2>7. DOMAIN texts = D
    OBVIOUS
  <2> HIDE DEF u, e, D, texts
  <2> QED BY <2>1, <2>4, <2>5, <2>6, <2>7
<1>6. u.unit \in {"byte", "jump", "or"}
  BY UnitTyped
<1> QED BY <1>3, <1>4, <1>5, <1>6

\* The text of a hex string, as a regular expression, ends where the hex string
\* does, from every offset of every buffer: whatever bytes, half bytes, jumps
\* and alternatives it has, however they are nested (conversion.cpp:36-119).
THEOREM HexTextExact ==
  ASSUME \A h \in HexStrings : HexStringToPattern[h] \in Regexes
  PROVE  \A h \in HexStrings : RegexEnds[HexStringToPattern[h]] = HexEnds[h]
<1> DEFINE Same(n) == \A h \in HexStrings : Nesting[h] < n => RegexEnds[HexStringToPattern[h]] = HexEnds[h]
           S == {n \in Nat : Same(n)}
<1>1. 0 \in S
  BY NestingTyped
<1>2. ASSUME NEW n \in Nat, Same(n), NEW h \in HexStrings, Nesting[h] < n + 1
      PROVE  RegexEnds[HexStringToPattern[h]] = HexEnds[h]
  <2> DEFINE text == HexStringToPattern[h]
  <2>1. \A s \in HexStrings : Nesting[s] < Nesting[h] => Nesting[s] < n
    BY <1>2, NestingTyped
  <2>2. \A s \in HexStrings : Nesting[s] < Nesting[h] => RegexEnds[HexStringToPattern[s]] = HexEnds[s]
    BY <1>2, <2>1
  <2>3. DOMAIN text = DOMAIN h
    BY ConversionIs
  <2>4. ASSUME NEW k \in DOMAIN h, NEW data \in Buffers, NEW o \in 0 .. Len(data)
        PROVE  ElementEnds(text[k], data, o, RegexEnds) = UnitEnds(h[k], data, o, HexEnds)
    BY <2>2, UnitTextEnds
  <2>5. ASSUME NEW data \in Buffers
        PROVE  [k \in DOMAIN text |-> [o \in 0 .. Len(data) |-> ElementEnds(text[k], data, o, RegexEnds)]]
                 = [k \in DOMAIN h |-> [o \in 0 .. Len(data) |-> UnitEnds(h[k], data, o, HexEnds)]]
    <3> HIDE DEF text
    <3> QED BY <2>3, <2>4
  <2>6. RegexBody(text, RegexEnds) = HexBody(h, HexEnds)
    <3> HIDE DEF text
    <3> QED BY <2>5 DEF RegexBody, HexBody
  <2> QED BY <2>6, RegexEndsIs, HexEndsIs
<1>3. \A n \in Nat : n \in S => n + 1 \in S
  BY <1>2
<1>4. Nat \subseteq S
  <2> HIDE DEF S
  <2> QED BY <1>1, <1>3, NumbersFromZero
<1>5. Same(MaxNesting + 1)
  BY <1>4, NestingTyped
<1> QED BY <1>5, NestingTyped
-----------------------------------------------------------------------------
(***************************************************************************)
(* Literals: the characters of a text without escapes are the text.        *)
(***************************************************************************)
LEMMA FlattenOnes ==
  ASSUME NEW S, NEW text \in Seq(S)
  PROVE  FlattenSeq([k \in DOMAIN text |-> <<text[k]>>]) = text
<1> DEFINE ones == [k \in DOMAIN text |-> <<text[k]>>]
           Body(f, i) == IF i = 1 THEN ones[i] ELSE f[i - 1] \o ones[i]
           Prefix(i) == [j \in 1 .. i |-> text[j]]
           flatten == CHOOSE f : f = [i \in 1 .. Len(ones) |-> Body(f, i)]
<1> SUFFICES FlattenSeq(ones) = text
  OBVIOUS
<1>1. /\ Len(text) \in Nat /\ DOMAIN text = 1 .. Len(text) /\ Len(ones) = Len(text)
      /\ \A k \in 1 .. Len(text) : text[k] \in S /\ ones[k] = <<text[k]>>
  BY ElementOfSeq, LenProperties
<1>2. ASSUME NEW i \in Nat, i + 1 \in 1 .. Len(text)
      PROVE  Prefix(i) \o ones[i + 1] = Prefix(i + 1)
  <2>1. Prefix(i) \in Seq(S) /\ <<text[i + 1]>> \in Seq(S) /\ Prefix(i + 1) \in Seq(S)
    BY <1>1, <1>2
  <2>2. Len(Prefix(i)) = i /\ Len(Prefix(i + 1)) = i + 1
    BY <1>1, <1>2
  <2>3. \A j \in 1 .. i + 1 : (Prefix(i) \o <<text[i + 1]>>)[j] = Prefix(i + 1)[j]
    BY <2>1, <2>2
  <2>4. Prefix(i) \o <<text[i + 1]>> \in Seq(S) /\ Len(Prefix(i) \o <<text[i + 1]>>) = i + 1
    BY <2>1, <2>2
  <2>5. Prefix(i) \o <<text[i + 1]>> = Prefix(i + 1)
    <3> HIDE DEF Prefix
    <3> QED BY <2>1, <2>2, <2>3, <2>4, SeqEqual
  <2> QED BY <2>5, <1>1, <1>2
<1>3. Prefix(Len(text)) = text
  BY <1>1
<1>4. CASE Len(text) = 0
  BY <1>1, <1>4 DEF FlattenSeq
<1>5. CASE Len(text) # 0
  <2> DEFINE g == [i \in 1 .. Len(ones) |-> Prefix(i)]
  <2>1. ASSUME NEW i \in 1 .. Len(ones) PROVE Prefix(i) = Body(g, i)
    <3>1. CASE i = 1
      BY <3>1, <1>1
    <3>2. CASE i # 1
      <4>1. i - 1 \in Nat /\ i - 1 \in 1 .. Len(ones) /\ (i - 1) + 1 = i
        BY <3>2, <1>1
      <4>2. Prefix(i - 1) \o ones[i] = Prefix(i)
        <5> HIDE DEF Prefix, ones
        <5> QED BY <4>1, <1>1, <1>2
      <4>3. g[i - 1] = Prefix(i - 1)
        <5> HIDE DEF Prefix
        <5> QED BY <4>1
      <4> HIDE DEF g, ones, Prefix
      <4> QED BY <3>2, <4>2, <4>3
    <3> QED BY <3>1, <3>2
  <2>2. g = [i \in 1 .. Len(ones) |-> Body(g, i)]
    <3> HIDE DEF Body, Prefix
    <3> QED BY <2>1
  <2>3. flatten = [i \in 1 .. Len(ones) |-> Body(flatten, i)]
    <3> HIDE DEF Body, g
    <3> QED BY <2>2
  <2> DEFINE T == {i \in Nat : i + 1 <= Len(text) => flatten[i + 1] = Prefix(i + 1)}
  <2>4. \A i \in 1 .. Len(text) : flatten[i] = Body(flatten, i)
    <3> HIDE DEF Body, flatten, ones
    <3> QED BY <2>3, <1>1
  <2>5. 0 \in T
    <3>1. 1 \in 1 .. Len(text)
      BY <1>1, <1>5
    <3>2. flatten[1] = ones[1]
      <4> HIDE DEF flatten, ones
      <4> QED BY <2>4, <3>1
    <3>3. ones[1] = Prefix(1)
      BY <3>1, <1>1
    <3> HIDE DEF flatten, ones, Prefix
    <3> QED BY <3>2, <3>3
  <2>6. ASSUME NEW i \in Nat, i \in T, i + 1 + 1 <= Len(text)
        PROVE  flatten[i + 1 + 1] = Prefix(i + 1 + 1)
    <3>1. i + 1 + 1 \in 1 .. Len(text) /\ i + 1 + 1 # 1 /\ (i + 1 + 1) - 1 = i + 1 /\ i + 1 \in Nat
      BY <2>6, <1>1
    <3>2. flatten[i + 1] = Prefix(i + 1)
      <4> HIDE DEF flatten, Prefix
      <4> QED BY <2>6, <1>1
    <3>3. flatten[i + 1 + 1] = flatten[i + 1] \o ones[i + 1 + 1]
      <4> HIDE DEF flatten, ones
      <4> QED BY <2>4, <3>1
    <3> HIDE DEF flatten, ones, Prefix
    <3> QED BY <3>1, <3>2, <3>3, <1>2
  <2>7. \A i \in Nat : i \in T => i + 1 \in T
    <3> HIDE DEF flatten, Prefix
    <3> QED BY <2>6
  <2>8. Nat \subseteq T
    <3> HIDE DEF T
    <3> QED BY <2>5, <2>7, NumbersFromZero
  <2>9. flatten[Len(text)] = text
    <3>1. Len(text) - 1 \in T /\ (Len(text) - 1) + 1 = Len(text)
      <4> HIDE DEF T
      <4> QED BY <2>8, <1>1, <1>5
    <3> HIDE DEF flatten, Prefix
    <3> QED BY <3>1, <1>1, <1>3
  <2>10. FlattenSeq(ones) = flatten[Len(ones)]
    <3> HIDE DEF ones
    <3> QED BY <1>1, <1>5 DEF FlattenSeq
  <2> HIDE DEF flatten, ones
  <2> QED BY <2>9, <2>10, <1>1
<1> QED BY <1>4, <1>5

\* A text of characters alone ends where the literal of these characters does.
LEMMA LiteralTextEnds ==
  ASSUME NEW text \in Regexes, \A k \in DOMAIN text : text[k].element = "char",
         NEW data \in Buffers, NEW at \in 0 .. Len(data)
  PROVE  Characters(text) = text /\ LiteralEnds(text, data, at) = RegexEnds[text][data][at]
<1>1. text \in Seq(Elements) /\ Len(text) \in Nat /\ DOMAIN text = 1 .. Len(text)
  BY RegexesAssumption, LenProperties
<1>2. Characters(text) = text
  <2>1. \A k \in DOMAIN text : ElementCharacters(text[k]) = <<text[k]>>
    BY DEF ElementCharacters
  <2>2. [k \in DOMAIN text |-> ElementCharacters(text[k])] = [k \in DOMAIN text |-> <<text[k]>>]
    BY <2>1
  <2> QED BY <1>1, <2>2, FlattenOnes DEF Characters
<1> DEFINE moves == [k \in DOMAIN text |-> [o \in 0 .. Len(data) |-> ElementEnds(text[k], data, o, RegexEnds)]]
<1>3. RegexEnds[text][data][at] = Through(moves, at)
  <2>1. RegexEnds[text] = RegexBody(text, RegexEnds)
    BY RegexEndsIs
  <2>2. RegexBody(text, RegexEnds)[data][at] = Through(moves, at)
    BY Zenon DEF RegexBody
  <2> HIDE DEF moves
  <2> QED BY <2>1, <2>2
<1>4. Len(moves) = Len(text)
  BY <1>1
<1>5. ASSUME NEW k \in 1 .. Len(text), NEW o \in 0 .. Len(data)
      PROVE  moves[k][o] = IF o < Len(data) /\ data[o + 1] = text[k].byte THEN {o + 1} ELSE {}
  <2>1. moves[k][o] = ElementEnds(text[k], data, o, RegexEnds)
    BY <1>1
  <2>2. text[k].element = "char"
    BY <1>1
  <2> HIDE DEF moves
  <2> QED BY <2>1, <2>2 DEF ElementEnds
<1>6. Through(moves, at) = LiteralEnds(text, data, at)
  <2>1. Len(data) \in Nat
    BY DataTyped
  <2>2. \A k \in 1 .. Len(text) : \A o \in 0 .. Len(data) :
          moves[k][o] = IF o < Len(data) /\ data[o + 1] = text[k].byte THEN {o + 1} ELSE {}
    BY <1>5
  <2>3. Len(text) \in Nat /\ DOMAIN text = 1 .. Len(text)
    BY <1>1
  <2> HIDE DEF moves
  <2> QED BY <1>4, <2>1, <2>2, <2>3, ThroughCharacters
<1> HIDE DEF moves
<1> QED BY <1>2, <1>3, <1>6
-----------------------------------------------------------------------------
(***************************************************************************)
(* The strings of a file.                                                  *)
(***************************************************************************)
\* The offsets at which a compiled pattern is reported.
PatternEnds(kind, text, data) ==
  UNION {IF kind = "regex" THEN RegexEnds[text][data][at] ELSE LiteralEnds(text, data, at) : at \in Offsets(data)}

LEMMA WrittenTyped ==
  ASSUME NEW s \in WrittenStrings
  PROVE  /\ s.name \in Names /\ s.form \in {"plain", "regex", "hex"}
         /\ s.form = "hex" => s.content \in HexStrings
  BY DEF WrittenStrings

\* What is reported for the pattern of a string is where the string ends.
LEMMA ConvertedEnds ==
  ASSUME NEW s \in WrittenStrings, ~HasEscapes(s), NEW data \in Buffers
  PROVE  PatternEnds(ConvertedString(s).kind, ConvertedString(s).text, data) = StringEnds(s, data)
<1> DEFINE kind == IF IsLiteral(s) THEN "literal" ELSE "regex"
           reported(at) ==
             IF kind = "regex" THEN RegexEnds[TextOf(s)][data][at] ELSE LiteralEnds(TextOf(s), data, at)
           written(at) ==
             CASE s.form = "plain" -> LiteralEnds(s.content, data, at)
               [] s.form = "regex" -> RegexEnds[s.content][data][at]
               [] s.form = "hex" -> HexEnds[s.content][data][at]
<1>1. ConvertedString(s).kind = kind /\ ConvertedString(s).text = TextOf(s)
  BY DEF ConvertedString
<1>2. ASSUME NEW at \in 0 .. Len(data) PROVE reported(at) = written(at)
  <2>1. CASE s.form = "plain"
    BY <2>1 DEF IsLiteral, TextOf
  <2>2. CASE s.form = "regex"
    BY <2>2 DEF IsLiteral, TextOf
  <2>3. CASE s.form = "hex"
    <3> DEFINE text == HexStringToPattern[s.content]
    <3>1. s.content \in HexStrings /\ text \in Regexes
      BY <2>3, WrittenTyped, SourcesAssumption
    <3>2. RegexEnds[text] = HexEnds[s.content]
      BY <3>1, HexTextExact, SourcesAssumption
    <3>3. written(at) = HexEnds[s.content][data][at]
      BY <2>3
    <3>4. CASE LiteralOnly(s.content)
      <4>1. ASSUME NEW k \in DOMAIN text PROVE text[k].element = "char"
        <5> DEFINE u == s.content[k]
        <5>1. k \in DOMAIN s.content /\ text[k] = UnitText(u, HexStringToPattern)
          BY <3>1, <4>1, ConversionIs
        <5>2. u.unit = "byte" /\ u.first # Wildcard /\ u.second # Wildcard
          BY <3>4, <5>1 DEF LiteralOnly
        <5>3. text[k] = NibblesToString(u.first, u.second)
          <6> HIDE DEF text, u
          <6> QED BY <5>1, <5>2 DEF UnitText, Pair
        <5>4. text[k].element \in {"char", "escape"}
          <6> HIDE DEF text, u
          <6> QED BY <5>3 DEF NibblesToString, Char, Escape
        <5>5. text[k].element # "escape"
          BY <2>3, <3>4, <5>1 DEF HasEscapes
        <5> HIDE DEF text
        <5> QED BY <5>4, <5>5
      <4>2. Characters(text) = text /\ LiteralEnds(text, data, at) = RegexEnds[text][data][at]
        <5> HIDE DEF text
        <5> QED BY <3>1, <4>1, LiteralTextEnds
      <4>3. IsLiteral(s) /\ TextOf(s) = Characters(text)
        BY <2>3, <3>4 DEF IsLiteral, TextOf
      <4>4. kind = "literal"
        BY <4>3
      <4>5. reported(at) = LiteralEnds(text, data, at)
        <5> HIDE DEF text, kind
        <5> QED BY <4>2, <4>3, <4>4
      <4> HIDE DEF text, reported, written
      <4> QED BY <3>2, <3>3, <4>2, <4>5
    <3>5. CASE ~LiteralOnly(s.content)
      <4>1. ~IsLiteral(s) /\ TextOf(s) = text
        BY <2>3, <3>5 DEF IsLiteral, TextOf
      <4>2. reported(at) = RegexEnds[text][data][at]
        BY <4>1
      <4> HIDE DEF text, reported, written
      <4> QED BY <3>2, <3>3, <4>2
    <3> QED BY <3>4, <3>5
  <2> QED BY <2>1, <2>2, <2>3, WrittenTyped
<1>3. StringEnds(s, data) = UNION {written(at) : at \in Offsets(data)}
  BY DEF StringEnds
<1>4. PatternEnds(kind, TextOf(s), data) = UNION {reported(at) : at \in Offsets(data)}
  BY DEF PatternEnds
<1>5. {reported(at) : at \in Offsets(data)} = {written(at) : at \in Offsets(data)}
  <2> HIDE DEF reported, written
  <2> QED BY <1>2 DEF Offsets
<1> HIDE DEF reported, written, kind
<1> QED BY <1>1, <1>3, <1>4, <1>5

SourceInv ==
  /\ file \in Rulesets
  /\ source # NoSource => source \in Sources /\ file = ConvertedFile(source)

LEMMA InitSource == StringInit => SourceInv /\ Init
  BY SourcesAssumption DEF StringInit, SourceInv, Init

LEMMA NextSource == SourceInv /\ [StringNext]_stringVars => SourceInv' /\ [Next]_vars
<1> SUFFICES ASSUME SourceInv, [StringNext]_stringVars PROVE SourceInv' /\ [Next]_vars
  OBVIOUS
<1>1. source' = source /\ [Next]_vars
  BY DEF StringNext, stringVars
<1>2. file' = file
  BY <1>1 DEF vars, Next, StartRule, AddLiteral, AddRegex, ObserveCondition, VisitMutex, EndRule, FixLiterals
<1> QED BY <1>1, <1>2 DEF SourceInv

\* A string of the file is the conversion of a string of the source.
LEMMA StringOfSource ==
  ASSUME SourceInv, source # NoSource, NEW x \in AllStrings
  PROVE  SourceString(x) \in WrittenStrings /\ x.string = ConvertedString(SourceString(x))
<1>1. PICK r \in 1 .. Len(file) : \E i \in 1 .. Len(file[r].strings) : x = [rule |-> r, string |-> file[r].strings[i]]
  BY DEF AllStrings
<1>2. PICK i \in 1 .. Len(file[r].strings) : x = [rule |-> r, string |-> file[r].strings[i]]
  BY <1>1
<1>3. x.rule = r /\ x.string = file[r].strings[i]
  BY <1>2
<1> DEFINE strings == source[r].strings
<1>4. source \in Seq([strings : Seq(WrittenStrings), mutexes : Seq(Texts)])
  BY SourcesAssumption DEF SourceInv
<1>5. file = [k \in DOMAIN source |-> ConvertedRule(source[k])]
  BY DEF SourceInv, ConvertedFile
<1>6. Len(file) = Len(source) /\ r \in DOMAIN source
  BY <1>4, <1>5
<1>7. source[r] \in [strings : Seq(WrittenStrings), mutexes : Seq(Texts)]
  <2>1. r \in 1 .. Len(source)
    BY <1>4, <1>6, LenProperties
  <2> QED BY <1>4, <2>1, ElementOfSeq
<1>8. strings \in Seq(WrittenStrings)
  BY <1>7
<1>9. file[r] = ConvertedRule(source[r])
  BY <1>5, <1>6
<1>10. file[r].strings = [k \in DOMAIN strings |-> ConvertedString(strings[k])]
  BY <1>9 DEF ConvertedRule
<1>11. Len(file[r].strings) = Len(strings) /\ DOMAIN strings = 1 .. Len(strings)
  <2> HIDE DEF strings
  <2> QED BY <1>8, <1>10
<1>12. \A k \in DOMAIN strings : file[r].strings[k] = ConvertedString(strings[k])
  <2> HIDE DEF strings
  <2> QED BY <1>10
<1>13. \A k \in DOMAIN strings : file[r].strings[k].name = strings[k].name
  <2>1. \A s : ConvertedString(s).name = s.name
    BY DEF ConvertedString
  <2> HIDE DEF strings
  <2> QED BY <1>12, <2>1
<1>14. \A k, j \in DOMAIN strings : strings[k].name = strings[j].name => k = j
  <2>1. \A k, j \in 1 .. Len(file[r].strings) : file[r].strings[k].name = file[r].strings[j].name => k = j
    BY FileTyped DEF SourceInv
  <2> HIDE DEF strings
  <2> QED BY <2>1, <1>11, <1>13
<1>15. i \in DOMAIN strings /\ strings[i].name = x.string.name
  <2> HIDE DEF strings
  <2> QED BY <1>3, <1>11, <1>13
<1>16. SourceString(x) = strings[CHOOSE k \in DOMAIN strings : strings[k].name = x.string.name]
  BY <1>3 DEF SourceString
<1>17. (CHOOSE k \in DOMAIN strings : strings[k].name = x.string.name) = i
  <2> HIDE DEF strings
  <2> QED BY <1>14, <1>15
<1>18. SourceString(x) = strings[i]
  BY <1>16, <1>17
<1>19. strings[i] \in WrittenStrings
  <2> HIDE DEF strings
  <2> QED BY <1>8, <1>15, <1>11, ElementOfSeq
<1> HIDE DEF strings
<1> QED BY <1>3, <1>12, <1>15, <1>18, <1>19

LEMMA FoundWhereWritten == SourceInv /\ IdsResolve => StringsFound
<1> SUFFICES ASSUME SourceInv, IdsResolve, phase = "done", source # NoSource, StringsInOneRule, RegexesDiffer,
                    NEW x \in AllStrings, ~HasEscapes(SourceString(x)), NEW data \in Buffers
             PROVE  IdOf(x) \in MatchIds /\ ReportedEnds(IdOf(x), data) = StringEnds(SourceString(x), data)
  BY DEF StringsFound, Found
<1>1. IdOf(x) \in MatchIds /\ CompiledText(IdOf(x)) = [kind |-> x.string.kind, text |-> x.string.text]
  BY DEF IdsResolve
<1>2. SourceString(x) \in WrittenStrings /\ x.string = ConvertedString(SourceString(x))
  BY StringOfSource
<1>3. CompiledText(IdOf(x)).kind = x.string.kind /\ CompiledText(IdOf(x)).text = x.string.text
  BY <1>1
<1>4. ReportedEnds(IdOf(x), data) = PatternEnds(x.string.kind, x.string.text, data)
  BY <1>3 DEF ReportedEnds, PatternEnds
<1>5. PatternEnds(ConvertedString(SourceString(x)).kind, ConvertedString(SourceString(x)).text, data)
        = StringEnds(SourceString(x), data)
  BY <1>2, ConvertedEnds
<1> QED BY <1>1, <1>2, <1>4, <1>5

(***************************************************************************)
(* What is reported under the number a rule has for a string is where this *)
(* string, as it is written, ends in the data: for every file with its     *)
(* strings in one rule and no regular expression twice, every hex string   *)
(* whose literal text has no escapes, and every buffer of ASCII characters *)
(* (conversion.cpp, pattern_extractor.hpp, yarangc.cpp:49-54).             *)
(***************************************************************************)
THEOREM WrittenStringsFound == StringSpec => []StringsFound
<1>1. StringInit => SourceInv /\ Init
  BY InitSource
<1>2. SourceInv /\ [StringNext]_stringVars => SourceInv' /\ [Next]_vars
  BY NextSource
<1>3. StringSpec => []SourceInv /\ Spec
  BY <1>1, <1>2, PTL DEF StringSpec, Spec
<1>4. Spec => []IdsResolve
  BY OneRuleResolves
<1> QED BY <1>3, <1>4, FoundWhereWritten, PTL
=============================================================================
