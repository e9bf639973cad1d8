------------------------ MODULE PatternExtractorProofs ------------------------
(***************************************************************************)
(* What holds of PatternExtractor for every file of rules: the types, that *)
(* no pattern is compiled twice, that a rule's number of a mutex is the    *)
(* position of that mutex, and that equal strings get equal numbers; that  *)
(* numbers stay within the matches when no regex is used twice; and that   *)
(* they are the right ones when, besides, one rule has all the strings.    *)
(***************************************************************************)
EXTENDS PatternExtractor, FiniteSetTheorems, SequenceTheorems, TLAPS

\* The maps of RuleInfo, as sets that a typed sequence can be built from.
Tables(S) == UNION {[keys -> Nat] : keys \in SUBSET S}
InfoType ==
  [literal_strings : Tables(Names), regex_strings : Tables(Names), mutexes : Tables(Texts)]

LEMMA TableTyped ==
  ASSUME NEW S, NEW T
  PROVE  T \in Tables(S) <=> IsTable(T, S)
  BY DEF Tables, IsTable

LEMMA NoEntriesTyped == ASSUME NEW S PROVE NoEntries \in Tables(S) /\ DOMAIN NoEntries = {}
  BY TableTyped DEF IsTable, NoEntries

\* emplace keeps the entries that are there and adds at most the given one.
LEMMA EmplaceIs ==
  ASSUME NEW T, NEW k, NEW v
  PROVE  /\ DOMAIN Emplace(T, k, v) = DOMAIN T \cup {k}
         /\ \A x \in DOMAIN T : Emplace(T, k, v)[x] = T[x]
         /\ k \notin DOMAIN T => Emplace(T, k, v)[k] = v
  BY DEF Emplace

LEMMA EmplaceTyped ==
  ASSUME NEW S, NEW T \in Tables(S), NEW k \in S, NEW v \in Nat
  PROVE  Emplace(T, k, v) \in Tables(S)
<1>1. IsTable(T, S)
  BY TableTyped
<1>2. IsTable(Emplace(T, k, v), S)
  BY <1>1 DEF Emplace, IsTable
<1> QED BY <1>2, TableTyped

\* The id that a rule records is the one the cache holds after emplace.
LEMMA IdForIs ==
  ASSUME NEW S, NEW T \in Tables(S), NEW k \in S, NEW v \in Nat
  PROVE  IdFor(T, k, v) = Emplace(T, k, v)[k] /\ IdFor(T, k, v) \in Nat
<1>1. IsTable(T, S)
  BY TableTyped
<1>2. IdFor(T, k, v) = Emplace(T, k, v)[k]
  BY DEF IdFor, Emplace
<1>3. IdFor(T, k, v) \in Nat
  BY <1>1 DEF IdFor, IsTable
<1> QED BY <1>2, <1>3

LEMMA AdvancedTyped ==
  ASSUME NEW T, NEW k, NEW v \in Nat
  PROVE  Advanced(T, k, v) \in Nat
  BY DEF Advanced

LEMMA AddedTyped ==
  ASSUME NEW P \in Seq(Texts), NEW T, NEW k \in Texts
  PROVE  Added(P, T, k) \in Seq(Texts)
  BY DEF Added

\* What a rule of the file consists of.
LEMMA FileTyped ==
  ASSUME file \in Rulesets
  PROVE  /\ Len(file) \in Nat
         /\ \A r \in 1 .. Len(file) :
              /\ Len(file[r].strings) \in Nat /\ Len(file[r].mutexes) \in Nat
              /\ \A i \in 1 .. Len(file[r].strings) :
                   /\ file[r].strings[i].name \in Names /\ file[r].strings[i].text \in Texts
                   /\ file[r].strings[i].kind \in {"literal", "regex"}
              /\ \A i \in 1 .. Len(file[r].mutexes) : file[r].mutexes[i] \in Texts
              /\ \A i, j \in 1 .. Len(file[r].strings) :
                   file[r].strings[i].name = file[r].strings[j].name => i = j
<1>1. file \in Seq(RuleType)
  BY RulesetsAssumption
<1>2. Len(file) \in Nat /\ \A r \in 1 .. Len(file) : file[r] \in RuleType
  BY <1>1
<1>3. ASSUME NEW r \in 1 .. Len(file)
      PROVE  /\ file[r].strings \in Seq([name : Names, kind : {"literal", "regex"}, text : Texts])
             /\ file[r].mutexes \in Seq(Texts)
  BY <1>2 DEF RuleType
<1>4. ASSUME NEW r \in 1 .. Len(file), NEW i \in 1 .. Len(file[r].strings)
      PROVE  file[r].strings[i] \in [name : Names, kind : {"literal", "regex"}, text : Texts]
  BY <1>3, <1>4, ElementOfSeq
<1>5. ASSUME NEW r \in 1 .. Len(file)
      PROVE  \A i, j \in 1 .. Len(file[r].strings) :
               file[r].strings[i].name = file[r].strings[j].name => i = j
  BY RulesetsAssumption
<1>6. ASSUME NEW r \in 1 .. Len(file)
      PROVE  /\ Len(file[r].strings) \in Nat /\ Len(file[r].mutexes) \in Nat
             /\ \A i \in 1 .. Len(file[r].mutexes) : file[r].mutexes[i] \in Texts
  BY <1>3
<1> QED BY <1>2, <1>4, <1>5, <1>6

TypeInv ==
  /\ file \in Rulesets
  /\ phase \in Phases
  /\ rule \in 1 .. Len(file) + 1 /\ pos \in Nat \ {0}
  /\ phase \in {"strings", "mutexes"} => rule <= Len(file)
  /\ literal_index \in Nat /\ regex_index \in Nat
  /\ literal_patterns \in Seq(Texts) /\ regex_patterns \in Seq(Texts) /\ mutexes \in Seq(Texts)
  /\ literal_cache \in Tables(Texts) /\ regex_cache \in Tables(Texts)
  /\ mutex_cache \in Tables(Texts)
  /\ info \in Seq(InfoType)
  /\ Len(info) = IF phase \in {"strings", "mutexes"} THEN rule ELSE rule - 1

LEMMA TypeInvImplies == TypeInv => TypeOK
<1> SUFFICES ASSUME TypeInv PROVE TypeOK
  OBVIOUS
<1>1. ASSUME NEW r \in 1 .. Len(info)
      PROVE  /\ info[r].literal_strings \in Tables(Names)
             /\ info[r].regex_strings \in Tables(Names) /\ info[r].mutexes \in Tables(Texts)
  <2>1. info[r] \in InfoType
    BY DEF TypeInv
  <2> QED BY <2>1 DEF InfoType
<1> QED BY <1>1, TableTyped, RulesetsAssumption DEF TypeInv, TypeOK

\* Replacing one map of the current rule.
LEMMA InfoUpdated ==
  ASSUME NEW r \in 1 .. Len(info), info \in Seq(InfoType)
  PROVE  /\ \A T \in Tables(Names) :
              /\ [info EXCEPT ![r].literal_strings = T] \in Seq(InfoType)
              /\ [info EXCEPT ![r].regex_strings = T] \in Seq(InfoType)
         /\ \A T \in Tables(Texts) : [info EXCEPT ![r].mutexes = T] \in Seq(InfoType)
         /\ \A T : /\ Len([info EXCEPT ![r].literal_strings = T]) = Len(info)
                  /\ Len([info EXCEPT ![r].regex_strings = T]) = Len(info)
                  /\ Len([info EXCEPT ![r].mutexes = T]) = Len(info)
<1>1. info[r] \in InfoType
  OBVIOUS
<1>2. \A T \in Tables(Names) : /\ [info[r] EXCEPT !.literal_strings = T] \in InfoType
                               /\ [info[r] EXCEPT !.regex_strings = T] \in InfoType
  BY <1>1 DEF InfoType
<1>3. \A T \in Tables(Texts) : [info[r] EXCEPT !.mutexes = T] \in InfoType
  BY <1>1 DEF InfoType
<1>4. \A x \in InfoType : [info EXCEPT ![r] = x] \in Seq(InfoType)
  BY ExceptSeq
<1>5. \A x : Len([info EXCEPT ![r] = x]) = Len(info)
  OBVIOUS
<1> QED BY <1>2, <1>3, <1>4, <1>5

LEMMA RegexSizeTyped == TypeInv => TotalRegexSize \in Nat
<1> SUFFICES ASSUME TypeInv PROVE TotalRegexSize \in Nat
  OBVIOUS
<1> DEFINE Used == UNION {{r} \X DOMAIN info[r].regex_strings : r \in 1 .. Len(info)}
<1>1. \A r \in 1 .. Len(info) : DOMAIN info[r].regex_strings \subseteq Names
  BY TypeInvImplies DEF TypeOK, IsTable
<1>2. Used \subseteq (1 .. Len(info)) \X Names
  BY <1>1
<1>3. IsFiniteSet(1 .. Len(info))
  BY FS_Interval DEF TypeInv
<1>4. IsFiniteSet((1 .. Len(info)) \X Names)
  BY <1>3, FS_Product, NamesAssumption
<1>5. IsFiniteSet(Used)
  BY <1>2, <1>4, FS_Subset
<1> QED BY <1>5, FS_CardinalityType DEF TotalRegexSize

LEMMA FunctionIsSeq ==
  ASSUME NEW S, NEW n \in Nat, NEW f \in [1 .. n -> S]
  PROVE  f \in Seq(S) /\ Len(f) = n
  OBVIOUS

LEMMA InitTyped == Init => TypeInv
<1> SUFFICES ASSUME Init PROVE TypeInv
  OBVIOUS
<1>1. Len(file) \in Nat
  BY FileTyped DEF Init
<1>2. NoEntries \in Tables(Texts)
  BY NoEntriesTyped
<1> QED BY <1>1, <1>2 DEF Init, Start, TypeInv, Phases

LEMMA NextTyped == TypeInv /\ [Next]_vars => TypeInv'
<1> SUFFICES ASSUME TypeInv, [Next]_vars PROVE TypeInv'
  OBVIOUS
<1>1. Len(file) \in Nat /\ file \in Rulesets
  BY FileTyped DEF TypeInv
<1>2. CASE StartRule
  <2>1. [literal_strings |-> NoEntries, regex_strings |-> NoEntries, mutexes |-> NoEntries]
          \in InfoType
    BY NoEntriesTyped DEF InfoType
  <2>2. info' \in Seq(InfoType) /\ Len(info') = Len(info) + 1
    BY <1>2, <2>1 DEF StartRule, TypeInv
  <2> QED BY <1>1, <1>2, <2>2 DEF StartRule, TypeInv, Phases
<1>3. CASE AddLiteral
  <2> DEFINE T == Emplace(info[rule].literal_strings, String.name,
                          IdFor(literal_cache, String.text, literal_index))
  <2>1. /\ rule \in 1 .. Len(info) /\ rule \in 1 .. Len(file)
        /\ pos \in 1 .. Len(file[rule].strings)
    BY <1>1, <1>3, FileTyped DEF AddLiteral, TypeInv
  <2>2. String.name \in Names /\ String.text \in Texts
    BY <1>1, <2>1, FileTyped DEF String
  <2>3. info[rule] \in InfoType
    BY <2>1 DEF TypeInv
  <2>4. T \in Tables(Names)
    BY <2>2, <2>3, EmplaceTyped, IdForIs DEF InfoType, TypeInv
  <2>5. info' = [info EXCEPT ![rule].literal_strings = T]
    BY <1>3 DEF AddLiteral
  <2>6. info' \in Seq(InfoType) /\ Len(info') = Len(info)
    <3> HIDE DEF T
    <3> QED BY <2>1, <2>4, <2>5, InfoUpdated DEF TypeInv
  <2>7. literal_patterns' \in Seq(Texts) /\ literal_cache' \in Tables(Texts)
        /\ literal_index' \in Nat
    BY <1>3, <2>2, AddedTyped, EmplaceTyped, AdvancedTyped DEF AddLiteral, TypeInv
  <2> QED BY <1>3, <2>6, <2>7 DEF AddLiteral, TypeInv
<1>4. CASE AddRegex
  <2> DEFINE T == Emplace(info[rule].regex_strings, String.name,
                          IdFor(regex_cache, String.text, regex_index))
  <2>1. /\ rule \in 1 .. Len(info) /\ rule \in 1 .. Len(file)
        /\ pos \in 1 .. Len(file[rule].strings)
    BY <1>1, <1>4, FileTyped DEF AddRegex, TypeInv
  <2>2. String.name \in Names /\ String.text \in Texts
    BY <1>1, <2>1, FileTyped DEF String
  <2>3. info[rule] \in InfoType
    BY <2>1 DEF TypeInv
  <2>4. T \in Tables(Names)
    BY <2>2, <2>3, EmplaceTyped, IdForIs DEF InfoType, TypeInv
  <2>5. info' = [info EXCEPT ![rule].regex_strings = T]
    BY <1>4 DEF AddRegex
  <2>6. info' \in Seq(InfoType) /\ Len(info') = Len(info)
    <3> HIDE DEF T
    <3> QED BY <2>1, <2>4, <2>5, InfoUpdated DEF TypeInv
  <2>7. regex_patterns' \in Seq(Texts) /\ regex_cache' \in Tables(Texts) /\ regex_index' \in Nat
    BY <1>4, <2>2, AddedTyped, EmplaceTyped, AdvancedTyped DEF AddRegex, TypeInv
  <2> QED BY <1>4, <2>6, <2>7 DEF AddRegex, TypeInv
<1>5. CASE ObserveCondition
  BY <1>5 DEF ObserveCondition, TypeInv, Phases
<1>6. CASE VisitMutex
  <2> DEFINE text == file[rule].mutexes[pos]
             T == Emplace(info[rule].mutexes, text, IdFor(mutex_cache, text, MutexIndex))
  <2>1. /\ rule \in 1 .. Len(info) /\ rule \in 1 .. Len(file)
        /\ pos \in 1 .. Len(file[rule].mutexes)
    BY <1>1, <1>6, FileTyped DEF VisitMutex, TypeInv
  <2>2. text \in Texts /\ MutexIndex \in Nat
    BY <1>1, <2>1, FileTyped DEF MutexIndex, TypeInv
  <2>3. info[rule] \in InfoType
    BY <2>1 DEF TypeInv
  <2>4. T \in Tables(Texts)
    BY <2>2, <2>3, EmplaceTyped, IdForIs DEF InfoType, TypeInv
  <2>5. info' = [info EXCEPT ![rule].mutexes = T]
    BY <1>6 DEF VisitMutex
  <2>6. info' \in Seq(InfoType) /\ Len(info') = Len(info)
    <3> HIDE DEF T
    <3> QED BY <2>1, <2>4, <2>5, InfoUpdated DEF TypeInv
  <2>7. mutexes' \in Seq(Texts) /\ mutex_cache' \in Tables(Texts)
    BY <1>6, <2>2, AddedTyped, EmplaceTyped DEF VisitMutex, TypeInv
  <2> QED BY <1>6, <2>6, <2>7 DEF VisitMutex, TypeInv
<1>7. CASE EndRule
  BY <1>1, <1>7 DEF EndRule, TypeInv, Phases
<1>8. CASE FixLiterals
  <2>1. ASSUME NEW r \in 1 .. Len(info)
        PROVE  [info[r] EXCEPT !.literal_strings = [n \in DOMAIN @ |-> @[n] + TotalRegexSize]]
                 \in InfoType
    <3>1. info[r] \in InfoType /\ TotalRegexSize \in Nat
      BY RegexSizeTyped DEF TypeInv
    <3>2. IsTable(info[r].literal_strings, Names)
      BY <3>1, TableTyped DEF InfoType
    <3>3. IsTable([n \in DOMAIN info[r].literal_strings
                     |-> info[r].literal_strings[n] + TotalRegexSize], Names)
      BY <3>1, <3>2 DEF IsTable
    <3> QED BY <3>1, <3>3, TableTyped DEF InfoType
  <2>2. info' \in [1 .. Len(info) -> InfoType] /\ Len(info) \in Nat
    BY <1>8, <2>1 DEF FixLiterals, TypeInv
  <2>3. info' \in Seq(InfoType) /\ Len(info') = Len(info)
    BY <2>2, FunctionIsSeq
  <2> QED BY <1>8, <2>3 DEF FixLiterals, TypeInv, Phases
<1>9. CASE UNCHANGED vars
  BY <1>9 DEF vars, TypeInv
<1> QED BY <1>2, <1>3, <1>4, <1>5, <1>6, <1>7, <1>8, <1>9 DEF Next

\* The types of the extractor's state, for every file.
THEOREM TypeCorrect == Spec => []TypeOK
<1>1. Spec => []TypeInv
  BY InitTyped, NextTyped, PTL DEF Spec
<1> QED BY <1>1, TypeInvImplies, PTL
-----------------------------------------------------------------------------
\* Replacing one map of a rule changes nothing else.
LEMMA OtherFields ==
  ASSUME NEW r \in 1 .. Len(info), info \in Seq(InfoType), NEW T, NEW q \in 1 .. Len(info)
  PROVE  /\ LET new == [info EXCEPT ![r].literal_strings = T]
            IN  /\ new[q].literal_strings = IF q = r THEN T ELSE info[q].literal_strings
                /\ new[q].regex_strings = info[q].regex_strings
                /\ new[q].mutexes = info[q].mutexes
         /\ LET new == [info EXCEPT ![r].regex_strings = T]
            IN  /\ new[q].regex_strings = IF q = r THEN T ELSE info[q].regex_strings
                /\ new[q].literal_strings = info[q].literal_strings
                /\ new[q].mutexes = info[q].mutexes
         /\ LET new == [info EXCEPT ![r].mutexes = T]
            IN  /\ new[q].mutexes = IF q = r THEN T ELSE info[q].mutexes
                /\ new[q].literal_strings = info[q].literal_strings
                /\ new[q].regex_strings = info[q].regex_strings
<1>1. info[r] \in InfoType
  BY ElementOfSeq
<1> QED BY <1>1 DEF InfoType

\* A pattern is added only when its text is not in the cache, and then it is.
Cached(P, T) == \A i \in 1 .. Len(P) : P[i] \in DOMAIN T

LEMMA AddedDistinct ==
  ASSUME NEW P \in Seq(Texts), NEW T \in Tables(Texts), NEW k \in Texts, NEW v \in Nat,
         Distinct(P), Cached(P, T)
  PROVE  Distinct(Added(P, T, k)) /\ Cached(Added(P, T, k), Emplace(T, k, v))
<1>1. DOMAIN Emplace(T, k, v) = DOMAIN T \cup {k}
  BY EmplaceIs
<1>2. CASE k \in DOMAIN T
  BY <1>1, <1>2 DEF Added, Cached
<1>3. CASE k \notin DOMAIN T
  <2>1. \A i \in 1 .. Len(P) : P[i] # k
    BY <1>3 DEF Cached
  <2>2. Added(P, T, k) = Append(P, k)
    BY <1>3 DEF Added
  <2>3. /\ Len(Append(P, k)) = Len(P) + 1 /\ Append(P, k)[Len(P) + 1] = k
        /\ \A i \in 1 .. Len(P) : Append(P, k)[i] = P[i]
    OBVIOUS
  <2>4. \A i \in 1 .. Len(P) + 1 : i \in 1 .. Len(P) \/ i = Len(P) + 1
    OBVIOUS
  <2>5. Distinct(Append(P, k))
    BY <2>1, <2>3, <2>4 DEF Distinct
  <2>6. Cached(Append(P, k), Emplace(T, k, v))
    BY <1>1, <2>3, <2>4 DEF Cached
  <2> QED BY <2>2, <2>5, <2>6
<1> QED BY <1>2, <1>3

PatternsInv ==
  /\ Distinct(literal_patterns) /\ Cached(literal_patterns, literal_cache)
  /\ Distinct(regex_patterns) /\ Cached(regex_patterns, regex_cache)
  /\ Distinct(mutexes) /\ Cached(mutexes, mutex_cache)

LEMMA InitPatterns == Init => PatternsInv
  BY DEF Init, Start, PatternsInv, Distinct, Cached

LEMMA NextPatterns == TypeInv /\ PatternsInv /\ [Next]_vars => PatternsInv'
<1> SUFFICES ASSUME TypeInv, PatternsInv, [Next]_vars PROVE PatternsInv'
  OBVIOUS
<1>1. file \in Rulesets
  BY DEF TypeInv
<1>2. CASE AddLiteral
  <2>1. String.text \in Texts
    BY <1>1, <1>2, FileTyped DEF AddLiteral, String, TypeInv
  <2> QED BY <1>2, <2>1, AddedDistinct DEF AddLiteral, PatternsInv, TypeInv
<1>3. CASE AddRegex
  <2>1. String.text \in Texts
    BY <1>1, <1>3, FileTyped DEF AddRegex, String, TypeInv
  <2> QED BY <1>3, <2>1, AddedDistinct DEF AddRegex, PatternsInv, TypeInv
<1>4. CASE VisitMutex
  <2>1. file[rule].mutexes[pos] \in Texts /\ MutexIndex \in Nat
    BY <1>1, <1>4, FileTyped DEF VisitMutex, MutexIndex, TypeInv
  <2> QED BY <1>4, <2>1, AddedDistinct DEF VisitMutex, PatternsInv, TypeInv
<1>5. CASE StartRule \/ ObserveCondition \/ EndRule \/ FixLiterals \/ UNCHANGED vars
  BY <1>5 DEF StartRule, ObserveCondition, EndRule, FixLiterals, vars, PatternsInv, Distinct, Cached
<1> QED BY <1>2, <1>3, <1>4, <1>5 DEF Next

\* No text is compiled twice into one database (_literal_cache, _regex_cache
\* and _mutex_cache), for every file.
THEOREM NoPatternTwice == Spec => []PatternsDistinct
<1>1. PatternsInv => PatternsDistinct
  BY DEF PatternsInv, PatternsDistinct
<1>2. Spec => [](TypeInv /\ PatternsInv)
  BY InitTyped, NextTyped, InitPatterns, NextPatterns, PTL DEF Spec
<1> QED BY <1>1, <1>2, PTL
-----------------------------------------------------------------------------
\* The cache holds the position of every mutex.
Numbered(P, T) == \A t \in DOMAIN T : T[t] + 1 \in 1 .. Len(P) /\ P[T[t] + 1] = t

LEMMA AddedNumbered ==
  ASSUME NEW P \in Seq(Texts), NEW T \in Tables(Texts), NEW k \in Texts, Numbered(P, T)
  PROVE  Numbered(Added(P, T, k), Emplace(T, k, Len(P)))
<1>1. /\ DOMAIN Emplace(T, k, Len(P)) = DOMAIN T \cup {k}
      /\ \A x \in DOMAIN T : Emplace(T, k, Len(P))[x] = T[x]
      /\ k \notin DOMAIN T => Emplace(T, k, Len(P))[k] = Len(P)
  BY EmplaceIs
<1>2. CASE k \in DOMAIN T
  BY <1>1, <1>2 DEF Added, Numbered
<1>3. CASE k \notin DOMAIN T
  <2>1. Added(P, T, k) = Append(P, k)
    BY <1>3 DEF Added
  <2>2. /\ Len(Append(P, k)) = Len(P) + 1 /\ Append(P, k)[Len(P) + 1] = k
        /\ \A i \in 1 .. Len(P) : Append(P, k)[i] = P[i]
    OBVIOUS
  <2>3. \A i \in 1 .. Len(P) : i \in 1 .. Len(P) + 1
    OBVIOUS
  <2>4. Len(P) + 1 \in 1 .. Len(P) + 1
    OBVIOUS
  <2> QED BY <1>1, <1>3, <2>1, <2>2, <2>3, <2>4 DEF Numbered
<1> QED BY <1>2, <1>3

\* Every number a rule holds is that of the cache, and every mutex the
\* condition observer has passed has one.
MutexInv ==
  /\ Numbered(mutexes, mutex_cache)
  /\ \A r \in 1 .. Len(info) : \A t \in DOMAIN info[r].mutexes :
       t \in DOMAIN mutex_cache /\ info[r].mutexes[t] = mutex_cache[t]
  /\ \A r \in 1 .. Len(info) : \A i \in 1 .. Len(file[r].mutexes) :
       r < rule \/ (phase = "mutexes" /\ i < pos) => file[r].mutexes[i] \in DOMAIN info[r].mutexes

LEMMA InitMutex == Init => MutexInv
  BY DEF Init, Start, MutexInv, Numbered, NoEntries

LEMMA NextMutex == TypeInv /\ MutexInv /\ [Next]_vars => MutexInv'
<1> SUFFICES ASSUME TypeInv, MutexInv, [Next]_vars PROVE MutexInv'
  OBVIOUS
<1>1. file \in Rulesets /\ Len(file) \in Nat /\ info \in Seq(InfoType)
  BY FileTyped DEF TypeInv
<1>2. ASSUME UNCHANGED <<file, mutexes, mutex_cache>>, Len(info') = Len(info),
             \A r \in 1 .. Len(info) : info'[r].mutexes = info[r].mutexes,
             rule' = rule, phase' = phase, phase # "mutexes"
      PROVE  MutexInv'
  BY <1>2 DEF MutexInv, Numbered
<1>3. CASE StartRule
  <2>1. /\ Len(info') = Len(info) + 1 /\ info'[Len(info) + 1].mutexes = NoEntries
        /\ \A r \in 1 .. Len(info) : info'[r] = info[r]
        /\ rule = Len(info) + 1 /\ Len(info) \in Nat
    BY <1>1, <1>3 DEF StartRule, TypeInv
  <2>2. \A r \in 1 .. Len(info') : r \in 1 .. Len(info) \/ r = Len(info) + 1
    BY <2>1
  <2>3. \A r \in 1 .. Len(info') :
          \/ r \in 1 .. Len(info) /\ info'[r] = info[r]
          \/ r = rule /\ DOMAIN info'[r].mutexes = {}
    BY <2>1, <2>2, NoEntriesTyped
  <2>4. Numbered(mutexes', mutex_cache')
    BY <1>3 DEF StartRule, MutexInv
  <2>5. rule' = rule /\ phase' = "strings" /\ phase = "rule" /\ UNCHANGED <<file, mutex_cache>>
    BY <1>3 DEF StartRule
  <2>6. \A r \in 1 .. Len(info) : r < rule
    BY <2>1
  <2>7. \A r \in 1 .. Len(info') : \A t \in DOMAIN info'[r].mutexes :
          t \in DOMAIN mutex_cache /\ info'[r].mutexes[t] = mutex_cache[t]
    BY <2>3 DEF MutexInv
  <2>8. \A r \in 1 .. Len(info') : \A i \in 1 .. Len(file[r].mutexes) :
          r < rule => file[r].mutexes[i] \in DOMAIN info'[r].mutexes
    BY <2>1, <2>3 DEF MutexInv
  <2> QED BY <2>4, <2>5, <2>7, <2>8 DEF MutexInv
<1>4. CASE AddLiteral
  <2>1. rule \in 1 .. Len(info)
    BY <1>1, <1>4 DEF AddLiteral, TypeInv
  <2>2. /\ Len(info') = Len(info)
        /\ \A r \in 1 .. Len(info) : info'[r].mutexes = info[r].mutexes
    BY <1>1, <1>4, <2>1, OtherFields, InfoUpdated DEF AddLiteral
  <2> QED BY <1>2, <1>4, <2>2 DEF AddLiteral
<1>5. CASE AddRegex
  <2>1. rule \in 1 .. Len(info)
    BY <1>1, <1>5 DEF AddRegex, TypeInv
  <2>2. /\ Len(info') = Len(info)
        /\ \A r \in 1 .. Len(info) : info'[r].mutexes = info[r].mutexes
    BY <1>1, <1>5, <2>1, OtherFields, InfoUpdated DEF AddRegex
  <2> QED BY <1>2, <1>5, <2>2 DEF AddRegex
<1>6. CASE ObserveCondition
  BY <1>6 DEF ObserveCondition, MutexInv, Numbered
<1>7. CASE VisitMutex
  <2> DEFINE text == file[rule].mutexes[pos]
             id == IdFor(mutex_cache, text, MutexIndex)
             T == Emplace(info[rule].mutexes, text, id)
  <2>1. /\ rule \in 1 .. Len(info) /\ rule = Len(info) /\ rule \in Nat
        /\ pos \in 1 .. Len(file[rule].mutexes)
        /\ text \in Texts /\ MutexIndex \in Nat
    BY <1>1, <1>7, FileTyped DEF VisitMutex, MutexIndex, TypeInv
  <2>2. info[rule].mutexes \in Tables(Texts) /\ mutex_cache \in Tables(Texts)
    <3>1. info[rule] \in InfoType
      BY <1>1, <2>1, ElementOfSeq
    <3> QED BY <3>1 DEF InfoType, TypeInv
  <2>3. mutex_cache' = Emplace(mutex_cache, text, MutexIndex)
        /\ info' = [info EXCEPT ![rule].mutexes = T]
    BY <1>7 DEF VisitMutex
  <2> HIDE DEF text
  <2>6. id = mutex_cache'[text] /\ id \in Nat
    BY <2>1, <2>2, <2>3, IdForIs
  <2> HIDE DEF id
  <2>4. /\ DOMAIN T = DOMAIN info[rule].mutexes \cup {text}
        /\ \A t \in DOMAIN info[rule].mutexes : T[t] = info[rule].mutexes[t]
        /\ text \notin DOMAIN info[rule].mutexes => T[text] = mutex_cache'[text]
    BY <2>6 DEF T, Emplace
  <2>5. /\ DOMAIN mutex_cache' = DOMAIN mutex_cache \cup {text}
        /\ \A t \in DOMAIN mutex_cache : mutex_cache'[t] = mutex_cache[t]
    BY <2>3 DEF Emplace
  <2> HIDE DEF T
  <2>7. /\ Len(info') = Len(info)
        /\ \A r \in 1 .. Len(info) :
             info'[r].mutexes = IF r = rule THEN T ELSE info[r].mutexes
    BY <1>1, <2>1, <2>3, OtherFields, InfoUpdated
  <2>8. Numbered(mutexes', mutex_cache')
    BY <1>7, <2>1, <2>2, AddedNumbered DEF text, VisitMutex, MutexIndex, MutexInv, TypeInv
  <2>9. ASSUME NEW r \in 1 .. Len(info), NEW t \in DOMAIN info'[r].mutexes
        PROVE  t \in DOMAIN mutex_cache' /\ info'[r].mutexes[t] = mutex_cache'[t]
    BY <2>4, <2>5, <2>7, <2>9 DEF MutexInv
  <2>10. ASSUME NEW r \in 1 .. Len(info), NEW i \in 1 .. Len(file[r].mutexes),
                r < rule \/ i < pos + 1
         PROVE  file[r].mutexes[i] \in DOMAIN info'[r].mutexes
    <3>1. CASE r = rule
      <4>1. i < pos \/ i = pos
        BY <2>1, <2>10, <3>1, FileTyped, <1>1 DEF TypeInv
      <4> QED BY <1>7, <2>4, <2>7, <3>1, <4>1 DEF MutexInv, VisitMutex, text
    <3>2. CASE r # rule
      <4>1. r < rule
        BY <2>1, <3>2
      <4> QED BY <2>7, <3>2, <4>1 DEF MutexInv
    <3> QED BY <3>1, <3>2
  <2> QED BY <1>7, <2>7, <2>8, <2>9, <2>10 DEF VisitMutex, MutexInv
<1>8. CASE EndRule
  <2>1. \A r \in 1 .. Len(info) : \A i \in 1 .. Len(file[r].mutexes) :
          r < rule \/ (phase = "mutexes" /\ i < pos)
    <3>1. Len(info) = rule /\ rule \in 1 .. Len(file) /\ phase = "mutexes"
      BY <1>1, <1>8 DEF EndRule, TypeInv
    <3>2. \A i \in 1 .. Len(file[rule].mutexes) : i < pos
      BY <1>1, <1>8, <3>1, FileTyped DEF EndRule, TypeInv
    <3> QED BY <3>1, <3>2
  <2> QED BY <1>8, <2>1 DEF EndRule, MutexInv, Numbered
<1>9. CASE FixLiterals
  <2>1. \A r \in 1 .. Len(info) : info[r] \in InfoType
    BY <1>1, ElementOfSeq
  <2>2. DOMAIN info' = 1 .. Len(info) /\ Len(info) \in Nat
    BY <1>1, <1>9 DEF FixLiterals
  <2>3. Len(info') = Len(info)
    <3>1. info' \in Seq(InfoType)
      BY NextTyped DEF TypeInv
    <3> QED BY <2>2, <3>1
  <2>4. \A r \in 1 .. Len(info) : info'[r].mutexes = info[r].mutexes
    BY <1>9, <2>1 DEF FixLiterals, InfoType
  <2> QED BY <1>9, <2>3, <2>4 DEF FixLiterals, MutexInv, Numbered
<1>10. CASE UNCHANGED vars
  BY <1>10 DEF vars, MutexInv, Numbered
<1> QED BY <1>3, <1>4, <1>5, <1>6, <1>7, <1>8, <1>9, <1>10 DEF Next

LEMMA MutexInvImplies == TypeInv /\ MutexInv => MutexIdsResolve
<1> SUFFICES ASSUME TypeInv, MutexInv PROVE MutexIdsResolve
  OBVIOUS
<1> QED BY DEF MutexInv, Numbered, MutexIdsResolve

\* The number a rule has for a mutex is the position of that mutex in mutex_db
\* (visit(FunctionCallExpression*)), for every file: mutexes are numbered
\* across rules.
THEOREM MutexNumbersAgree == Spec => []MutexIdsResolve
<1>1. Spec => [](TypeInv /\ MutexInv)
  BY InitTyped, NextTyped, InitMutex, NextMutex, PTL DEF Spec
<1> QED BY <1>1, MutexInvImplies, PTL
-----------------------------------------------------------------------------
\* extract has recorded the number of the i-th string of rule r.
Passed(r, i) == r < rule \/ phase = "mutexes" \/ i < pos

\* The number of a string is the one its cache holds for its text.
Recorded(r, i) ==
  LET s == file[r].strings[i]
  IN  /\ s.kind = "literal" =>
           /\ s.name \in DOMAIN info[r].literal_strings /\ s.text \in DOMAIN literal_cache
           /\ info[r].literal_strings[s.name] = literal_cache[s.text]
      /\ s.kind = "regex" =>
           /\ s.name \in DOMAIN info[r].regex_strings /\ s.text \in DOMAIN regex_cache
           /\ info[r].regex_strings[s.name] = regex_cache[s.text]

\* A map of a rule names only strings of its kind that have been passed.
NamesPassed(r) ==
  /\ \A m \in DOMAIN info[r].literal_strings : \E i \in 1 .. Len(file[r].strings) :
       /\ file[r].strings[i].name = m /\ file[r].strings[i].kind = "literal"
       /\ Passed(r, i)
  /\ \A m \in DOMAIN info[r].regex_strings : \E i \in 1 .. Len(file[r].strings) :
       /\ file[r].strings[i].name = m /\ file[r].strings[i].kind = "regex"
       /\ Passed(r, i)

StringInv ==
  phase # "done" => \A r \in 1 .. Len(info) :
    /\ \A i \in 1 .. Len(file[r].strings) : Passed(r, i) => Recorded(r, i)
    /\ NamesPassed(r)

LEMMA AddLiteralKeeps ==
  ASSUME TypeInv, StringInv, AddLiteral PROVE StringInv'
<1> DEFINE id == IdFor(literal_cache, String.text, literal_index)
           T == Emplace(info[rule].literal_strings, String.name, id)
<1>1. /\ file \in Rulesets /\ Len(file) \in Nat /\ info \in Seq(InfoType)
      /\ rule \in 1 .. Len(info) /\ rule = Len(info) /\ rule \in 1 .. Len(file)
      /\ pos \in 1 .. Len(file[rule].strings) /\ String.kind = "literal"
      /\ phase = "strings"
  BY FileTyped DEF AddLiteral, TypeInv
<1>2. /\ UNCHANGED <<file, phase, rule, regex_cache>> /\ pos' = pos + 1
      /\ literal_cache' = Emplace(literal_cache, String.text, literal_index)
      /\ info' = [info EXCEPT ![rule].literal_strings = T]
  BY DEF AddLiteral
<1>3. id = literal_cache'[String.text]
  BY <1>2 DEF IdFor, Emplace
<1>4. String.name \notin DOMAIN info[rule].literal_strings
  <2> SUFFICES ASSUME String.name \in DOMAIN info[rule].literal_strings PROVE FALSE
    OBVIOUS
  <2>1. PICK i \in 1 .. Len(file[rule].strings) :
          file[rule].strings[i].name = String.name /\ Passed(rule, i)
    BY <1>1 DEF StringInv, NamesPassed
  <2>2. i < pos
    BY <1>1, <2>1 DEF Passed
  <2> QED BY <1>1, <2>1, <2>2, FileTyped DEF String
<1> HIDE DEF id
<1>5. /\ DOMAIN T = DOMAIN info[rule].literal_strings \cup {String.name}
      /\ \A m \in DOMAIN info[rule].literal_strings : T[m] = info[rule].literal_strings[m]
      /\ T[String.name] = literal_cache'[String.text]
  BY <1>3, <1>4 DEF Emplace
<1>6. /\ String.text \in DOMAIN literal_cache'
      /\ \A t \in DOMAIN literal_cache : t \in DOMAIN literal_cache' /\ literal_cache'[t] = literal_cache[t]
  BY <1>2 DEF Emplace
<1> HIDE DEF T
<1>7. /\ Len(info') = Len(info)
      /\ \A r \in 1 .. Len(info) :
           /\ info'[r].literal_strings = IF r = rule THEN T ELSE info[r].literal_strings
           /\ info'[r].regex_strings = info[r].regex_strings
  BY <1>1, <1>2, OtherFields, InfoUpdated
<1>8. ASSUME NEW r \in 1 .. Len(info), NEW i \in 1 .. Len(file[r].strings)
      PROVE  Passed(r, i)' <=> Passed(r, i) \/ (r = rule /\ i = pos)
  BY <1>1, <1>2, FileTyped DEF Passed
<1>9. ASSUME NEW r \in 1 .. Len(info), NEW i \in 1 .. Len(file[r].strings), Passed(r, i)'
      PROVE  Recorded(r, i)'
  <2>1. CASE Passed(r, i)
    <3>1. Recorded(r, i)
      BY <2>1, <1>1 DEF StringInv
    <3> QED BY <1>2, <1>5, <1>6, <1>7, <3>1 DEF Recorded
  <2>2. CASE r = rule /\ i = pos
    BY <1>1, <1>2, <1>5, <1>6, <1>7, <2>2 DEF Recorded, String
  <2> QED BY <1>8, <1>9, <2>1, <2>2
<1>10. ASSUME NEW r \in 1 .. Len(info) PROVE NamesPassed(r)'
  <2>1. \A m \in DOMAIN info'[r].literal_strings :
          m \in DOMAIN info[r].literal_strings \/ (r = rule /\ m = String.name)
    BY <1>5, <1>7
  <2>2. NamesPassed(r)
    BY <1>1 DEF StringInv
  <2>3. \A i \in 1 .. Len(file[r].strings) : Passed(r, i) => Passed(r, i)'
    BY <1>8
  <2>4. ASSUME NEW m \in DOMAIN info'[r].literal_strings
        PROVE  \E i \in 1 .. Len(file[r].strings) :
                 /\ file[r].strings[i].name = m /\ file[r].strings[i].kind = "literal"
                 /\ Passed(r, i)'
    <3>1. CASE m \in DOMAIN info[r].literal_strings
      BY <2>2, <2>3, <3>1 DEF NamesPassed
    <3>2. CASE r = rule /\ m = String.name
      BY <1>1, <1>8, <3>2 DEF String
    <3> QED BY <2>1, <3>1, <3>2
  <2>5. ASSUME NEW m \in DOMAIN info'[r].regex_strings
        PROVE  \E i \in 1 .. Len(file[r].strings) :
                 /\ file[r].strings[i].name = m /\ file[r].strings[i].kind = "regex"
                 /\ Passed(r, i)'
    BY <1>7, <2>2, <2>3 DEF NamesPassed
  <2> QED BY <1>2, <2>4, <2>5 DEF NamesPassed
<1> QED BY <1>2, <1>7, <1>9, <1>10 DEF StringInv

LEMMA AddRegexKeeps ==
  ASSUME TypeInv, StringInv, AddRegex PROVE StringInv'
<1> DEFINE id == IdFor(regex_cache, String.text, regex_index)
           T == Emplace(info[rule].regex_strings, String.name, id)
<1>1. /\ file \in Rulesets /\ Len(file) \in Nat /\ info \in Seq(InfoType)
      /\ rule \in 1 .. Len(info) /\ rule = Len(info) /\ rule \in 1 .. Len(file)
      /\ pos \in 1 .. Len(file[rule].strings) /\ String.kind = "regex"
      /\ phase = "strings"
  BY FileTyped DEF AddRegex, TypeInv
<1>2. /\ UNCHANGED <<file, phase, rule, literal_cache>> /\ pos' = pos + 1
      /\ regex_cache' = Emplace(regex_cache, String.text, regex_index)
      /\ info' = [info EXCEPT ![rule].regex_strings = T]
  BY DEF AddRegex
<1>3. id = regex_cache'[String.text]
  BY <1>2 DEF IdFor, Emplace
<1>4. String.name \notin DOMAIN info[rule].regex_strings
  <2> SUFFICES ASSUME String.name \in DOMAIN info[rule].regex_strings PROVE FALSE
    OBVIOUS
  <2>1. PICK i \in 1 .. Len(file[rule].strings) :
          file[rule].strings[i].name = String.name /\ Passed(rule, i)
    BY <1>1 DEF StringInv, NamesPassed
  <2>2. i < pos
    BY <1>1, <2>1 DEF Passed
  <2> QED BY <1>1, <2>1, <2>2, FileTyped DEF String
<1> HIDE DEF id
<1>5. /\ DOMAIN T = DOMAIN info[rule].regex_strings \cup {String.name}
      /\ \A m \in DOMAIN info[rule].regex_strings : T[m] = info[rule].regex_strings[m]
      /\ T[String.name] = regex_cache'[String.text]
  BY <1>3, <1>4 DEF Emplace
<1>6. /\ String.text \in DOMAIN regex_cache'
      /\ \A t \in DOMAIN regex_cache : t \in DOMAIN regex_cache' /\ regex_cache'[t] = regex_cache[t]
  BY <1>2 DEF Emplace
<1> HIDE DEF T
<1>7. /\ Len(info') = Len(info)
      /\ \A r \in 1 .. Len(info) :
           /\ info'[r].regex_strings = IF r = rule THEN T ELSE info[r].regex_strings
           /\ info'[r].literal_strings = info[r].literal_strings
  BY <1>1, <1>2, OtherFields, InfoUpdated
<1>8. ASSUME NEW r \in 1 .. Len(info), NEW i \in 1 .. Len(file[r].strings)
      PROVE  Passed(r, i)' <=> Passed(r, i) \/ (r = rule /\ i = pos)
  BY <1>1, <1>2, FileTyped DEF Passed
<1>9. ASSUME NEW r \in 1 .. Len(info), NEW i \in 1 .. Len(file[r].strings), Passed(r, i)'
      PROVE  Recorded(r, i)'
  <2>1. CASE Passed(r, i)
    <3>1. Recorded(r, i)
      BY <2>1, <1>1 DEF StringInv
    <3> QED BY <1>2, <1>5, <1>6, <1>7, <3>1 DEF Recorded
  <2>2. CASE r = rule /\ i = pos
    BY <1>1, <1>2, <1>5, <1>6, <1>7, <2>2 DEF Recorded, String
  <2> QED BY <1>8, <1>9, <2>1, <2>2
<1>10. ASSUME NEW r \in 1 .. Len(info) PROVE NamesPassed(r)'
  <2>1. \A m \in DOMAIN info'[r].regex_strings :
          m \in DOMAIN info[r].regex_strings \/ (r = rule /\ m = String.name)
    BY <1>5, <1>7
  <2>2. NamesPassed(r)
    BY <1>1 DEF StringInv
  <2>3. \A i \in 1 .. Len(file[r].strings) : Passed(r, i) => Passed(r, i)'
    BY <1>8
  <2>4. ASSUME NEW m \in DOMAIN info'[r].regex_strings
        PROVE  \E i \in 1 .. Len(file[r].strings) :
                 /\ file[r].strings[i].name = m /\ file[r].strings[i].kind = "regex"
                 /\ Passed(r, i)'
    <3>1. CASE m \in DOMAIN info[r].regex_strings
      BY <2>2, <2>3, <3>1 DEF NamesPassed
    <3>2. CASE r = rule /\ m = String.name
      BY <1>1, <1>8, <3>2 DEF String
    <3> QED BY <2>1, <3>1, <3>2
  <2>5. ASSUME NEW m \in DOMAIN info'[r].literal_strings
        PROVE  \E i \in 1 .. Len(file[r].strings) :
                 /\ file[r].strings[i].name = m /\ file[r].strings[i].kind = "literal"
                 /\ Passed(r, i)'
    BY <1>7, <2>2, <2>3 DEF NamesPassed
  <2> QED BY <1>2, <2>4, <2>5 DEF NamesPassed
<1> QED BY <1>2, <1>7, <1>9, <1>10 DEF StringInv

LEMMA VisitMutexKeeps ==
  ASSUME TypeInv, StringInv, VisitMutex PROVE StringInv'
<1>1. /\ info \in Seq(InfoType) /\ rule \in 1 .. Len(info)
      /\ phase = "mutexes" /\ phase' = "mutexes"
      /\ UNCHANGED <<file, rule, literal_cache, regex_cache>>
  BY FileTyped DEF VisitMutex, TypeInv
<1>2. \A r \in 1 .. Len(info) : info'[r].literal_strings = info[r].literal_strings
                               /\ info'[r].regex_strings = info[r].regex_strings
  BY <1>1, OtherFields DEF VisitMutex
<1>3. Len(info') = Len(info)
  BY <1>1, InfoUpdated DEF VisitMutex
<1>4. ASSUME NEW r \in 1 .. Len(info)
      PROVE  /\ NamesPassed(r) => NamesPassed(r)'
             /\ \A i \in 1 .. Len(file[r].strings) : Recorded(r, i) => Recorded(r, i)'
  <2>1. \A i \in 1 .. Len(file[r].strings) : Passed(r, i)'
    BY <1>1 DEF Passed
  <2>2. NamesPassed(r) => NamesPassed(r)'
    BY <1>1, <1>2, <2>1 DEF NamesPassed
  <2>3. \A i \in 1 .. Len(file[r].strings) : Recorded(r, i) => Recorded(r, i)'
    BY <1>1, <1>2 DEF Recorded
  <2> QED BY <2>2, <2>3
<1>5. \A r \in 1 .. Len(info) : NamesPassed(r) /\ \A i \in 1 .. Len(file[r].strings) : Recorded(r, i)
  BY <1>1 DEF StringInv, Passed
<1> QED BY <1>1, <1>3, <1>4, <1>5 DEF StringInv

LEMMA InitStrings == Init => StringInv
  BY DEF Init, Start, StringInv

LEMMA NextStrings == TypeInv /\ StringInv /\ [Next]_vars => StringInv'
<1> SUFFICES ASSUME TypeInv, StringInv, [Next]_vars PROVE StringInv'
  OBVIOUS
<1>1. file \in Rulesets /\ Len(file) \in Nat /\ info \in Seq(InfoType)
  BY FileTyped DEF TypeInv
<1>2. CASE StartRule
  <2>1. /\ Len(info') = Len(info) + 1 /\ rule = Len(info) + 1 /\ Len(info) \in Nat
        /\ info'[Len(info) + 1].literal_strings = NoEntries
        /\ info'[Len(info) + 1].regex_strings = NoEntries
        /\ \A r \in 1 .. Len(info) : info'[r] = info[r]
    BY <1>1, <1>2 DEF StartRule, TypeInv
  <2>2. \A r \in 1 .. Len(info') : r \in 1 .. Len(info) \/ r = rule
    BY <2>1
  <2>3. phase = "rule" /\ phase' = "strings" /\ pos' = 1
        /\ UNCHANGED <<file, rule, literal_cache, regex_cache>>
    BY <1>2 DEF StartRule
  <2>4. ASSUME NEW r \in 1 .. Len(info)
        PROVE  NamesPassed(r)' /\ \A i \in 1 .. Len(file[r].strings) : Recorded(r, i)'
    <3>1. r < rule
      BY <2>1
    <3>2. \A i \in 1 .. Len(file[r].strings) : Recorded(r, i)
      BY <2>3, <3>1 DEF StringInv, Passed
    <3>3. NamesPassed(r)
      BY <2>3 DEF StringInv
    <3>4. info'[r] = info[r]
      BY <2>1
    <3> QED BY <2>3, <3>1, <3>2, <3>3, <3>4 DEF Recorded, NamesPassed, Passed
  <2>5. NamesPassed(rule)'
    BY <2>1, <2>3, NoEntriesTyped DEF NamesPassed
  <2>6. \A i \in 1 .. Len(file'[rule].strings) : ~Passed(rule, i)'
    BY <2>1, <2>3, FileTyped, <1>1 DEF Passed
  <2> QED BY <2>2, <2>3, <2>4, <2>5, <2>6 DEF StringInv
<1>3. CASE ObserveCondition
  <2>1. \A r \in 1 .. Len(info) : \A i \in 1 .. Len(file[r].strings) : Passed(r, i)
    <3>1. rule = Len(info) /\ rule \in 1 .. Len(file) /\ pos > Len(file[rule].strings)
      BY <1>1, <1>3 DEF ObserveCondition, TypeInv
    <3>2. \A i \in 1 .. Len(file[rule].strings) : i < pos
      BY <1>1, <3>1, FileTyped DEF TypeInv
    <3>3. \A r \in 1 .. Len(info) : r < rule \/ r = rule
      BY <3>1
    <3> QED BY <3>2, <3>3 DEF Passed
  <2> QED BY <1>3, <2>1 DEF ObserveCondition, StringInv, Recorded, NamesPassed, Passed
<1>4. CASE EndRule
  <2>1. \A r \in 1 .. Len(info) : r < rule + 1
    BY <1>1, <1>4 DEF EndRule, TypeInv
  <2> QED BY <1>4, <2>1 DEF EndRule, StringInv, Recorded, NamesPassed, Passed
<1>5. CASE FixLiterals
  BY <1>5 DEF FixLiterals, StringInv
<1>6. CASE UNCHANGED vars
  BY <1>6 DEF vars, StringInv, Recorded, NamesPassed, Passed
<1> QED BY <1>2, <1>3, <1>4, <1>5, <1>6, AddLiteralKeeps, AddRegexKeeps, VisitMutexKeeps DEF Next

\* When the literal numbers have been moved, a string's number is that of its
\* text in the cache, for literals past the numbers of regexes.
LEMMA FixedIds ==
  ASSUME TypeInv, StringInv, FixLiterals,
         NEW r \in 1 .. Len(file), NEW i \in 1 .. Len(file[r].strings)
  PROVE  LET s == file[r].strings[i]
         IN  /\ s.kind \in {"literal", "regex"}
             /\ s.kind = "literal" => /\ s.text \in DOMAIN literal_cache
                  /\ StringId(r, s.name)' = literal_cache[s.text] + TotalRegexSize
             /\ s.kind = "regex" => /\ s.text \in DOMAIN regex_cache
                  /\ StringId(r, s.name)' = regex_cache[s.text]
<1>1. /\ file \in Rulesets /\ Len(file) \in Nat
      /\ info \in Seq(InfoType) /\ Len(info) = Len(file)
      /\ phase = "rule" /\ file' = file /\ rule = Len(file) + 1
  BY FileTyped DEF FixLiterals, TypeInv
<1> DEFINE Shifted(q, m) == info[q].literal_strings[m] + TotalRegexSize
<1>2. /\ info'[r].literal_strings = [m \in DOMAIN info[r].literal_strings |-> Shifted(r, m)]
      /\ info'[r].regex_strings = info[r].regex_strings
  <2>1. info[r] \in InfoType
    BY <1>1, ElementOfSeq
  <2> QED BY <1>1, <2>1 DEF FixLiterals, InfoType
<1>3. r < rule /\ r \in 1 .. Len(info)
  BY <1>1
<1>4. Recorded(r, i) /\ NamesPassed(r)
  BY <1>1, <1>3 DEF StringInv, Passed
<1>5. CASE file[r].strings[i].kind = "literal"
  <2> DEFINE nm == file[r].strings[i].name
             tx == file[r].strings[i].text
  <2>1. /\ nm \in DOMAIN info[r].literal_strings /\ info[r].literal_strings[nm] = literal_cache[tx]
        /\ tx \in DOMAIN literal_cache
    BY <1>4, <1>5 DEF Recorded
  <2>2. /\ nm \in DOMAIN info'[r].literal_strings
        /\ info'[r].literal_strings[nm] = literal_cache[tx] + TotalRegexSize
    <3>1. info'[r].literal_strings = [m \in DOMAIN info[r].literal_strings |-> Shifted(r, m)]
      BY <1>2
    <3> QED BY <2>1, <3>1, Zenon
  <2>3. StringId(r, nm)' = literal_cache[tx] + TotalRegexSize
    BY <1>1, <2>2 DEF StringId
  <2> QED BY <1>5, <2>1, <2>3
<1>6. CASE file[r].strings[i].kind = "regex"
  <2>1. file[r].strings[i].name \notin DOMAIN info[r].literal_strings
    BY <1>1, <1>4, <1>6, FileTyped DEF NamesPassed
  <2> QED BY <1>1, <1>2, <1>4, <1>6, <2>1 DEF Recorded, StringId
<1>7. file[r].strings[i].kind \in {"literal", "regex"}
  BY <1>1, FileTyped
<1> QED BY <1>5, <1>6, <1>7

\* Then equal strings have equal numbers.
LEMMA FixLiteralsAgrees ==
  ASSUME TypeInv, StringInv, FixLiterals PROVE SameTextSameId'
<1>1. file' = file
  BY DEF FixLiterals
<1>2. ASSUME NEW r \in 1 .. Len(file), NEW i \in 1 .. Len(file[r].strings)
      PROVE  LET s == file[r].strings[i]
             IN  /\ s.kind \in {"literal", "regex"}
                 /\ s.kind = "literal" =>
                      StringId(r, s.name)' = literal_cache[s.text] + TotalRegexSize
                 /\ s.kind = "regex" => StringId(r, s.name)' = regex_cache[s.text]
  BY FixedIds
<1>3. ASSUME NEW a \in AllStrings, NEW b \in AllStrings,
             a.string.kind = b.string.kind, a.string.text = b.string.text
      PROVE  IdOf(a)' = IdOf(b)'
  <2>r. PICK r \in 1 .. Len(file) : \E i \in 1 .. Len(file[r].strings) :
          a = [rule |-> r, string |-> file[r].strings[i]]
    BY DEF AllStrings
  <2>1. PICK i \in 1 .. Len(file[r].strings) : a = [rule |-> r, string |-> file[r].strings[i]]
    BY <2>r
  <2>q. PICK q \in 1 .. Len(file) : \E j \in 1 .. Len(file[q].strings) :
          b = [rule |-> q, string |-> file[q].strings[j]]
    BY DEF AllStrings
  <2>2. PICK j \in 1 .. Len(file[q].strings) : b = [rule |-> q, string |-> file[q].strings[j]]
    BY <2>q
  <2>3. /\ IdOf(a)' = StringId(r, file[r].strings[i].name)'
        /\ IdOf(b)' = StringId(q, file[q].strings[j].name)'
    BY <1>1, <2>1, <2>2 DEF IdOf
  <2>4. /\ file[r].strings[i].kind = file[q].strings[j].kind
        /\ file[r].strings[i].text = file[q].strings[j].text
    BY <1>3, <2>1, <2>2
  <2>5. CASE file[r].strings[i].kind = "literal"
    <3>1. StringId(r, file[r].strings[i].name)'
            = literal_cache[file[r].strings[i].text] + TotalRegexSize
      BY <1>2, <2>5
    <3>2. StringId(q, file[q].strings[j].name)'
            = literal_cache[file[q].strings[j].text] + TotalRegexSize
      BY <1>2, <2>4, <2>5
    <3> QED BY <2>3, <2>4, <3>1, <3>2
  <2>6. CASE file[r].strings[i].kind = "regex"
    <3>1. StringId(r, file[r].strings[i].name)' = regex_cache[file[r].strings[i].text]
      BY <1>2, <2>6
    <3>2. StringId(q, file[q].strings[j].name)' = regex_cache[file[q].strings[j].text]
      BY <1>2, <2>4, <2>6
    <3> QED BY <2>3, <2>4, <3>1, <3>2
  <2>7. file[r].strings[i].kind \in {"literal", "regex"}
    BY <1>2
  <2> QED BY <2>5, <2>6, <2>7
<1> QED BY <1>1, <1>3 DEF SameTextSameId, AllStrings

\* Strings of the same kind and text have one number, in whatever rules they
\* are (the caches and "Fix literal indices"), for every file.
THEOREM EqualStringsAgree == Spec => []SameTextSameId
<1>1. Init => SameTextSameId
  BY DEF Init, Start, SameTextSameId
<1>2. TypeInv /\ StringInv /\ SameTextSameId /\ [Next]_vars => SameTextSameId'
  <2> SUFFICES ASSUME TypeInv, StringInv, SameTextSameId, [Next]_vars PROVE SameTextSameId'
    OBVIOUS
  <2>1. CASE FixLiterals
    BY <2>1, FixLiteralsAgrees
  <2>2. CASE StartRule \/ AddLiteral \/ AddRegex \/ ObserveCondition \/ VisitMutex \/ EndRule
    <3>1. phase' # "done"
      BY <2>2 DEF StartRule, AddLiteral, AddRegex, ObserveCondition, VisitMutex, EndRule
    <3> QED BY <3>1 DEF SameTextSameId
  <2>3. CASE UNCHANGED vars
    BY <2>3 DEF vars, SameTextSameId, AllStrings, IdOf, StringId
  <2> QED BY <2>1, <2>2, <2>3 DEF Next
<1>3. Spec => [](TypeInv /\ StringInv /\ SameTextSameId)
  BY <1>1, <1>2, InitTyped, NextTyped, InitStrings, NextStrings, PTL DEF Spec
<1> QED BY <1>3, PTL
-----------------------------------------------------------------------------
\* A number in a cache is below the number of patterns, though it counts from
\* 0 in every rule.
Below(P, T) == \A t \in DOMAIN T : T[t] < Len(P)

LEMMA AddedBelow ==
  ASSUME NEW P \in Seq(Texts), NEW T \in Tables(Texts), NEW k \in Texts, NEW v \in Nat,
         Below(P, T), v <= Len(P)
  PROVE  /\ Below(Added(P, T, k), Emplace(T, k, v))
         /\ Advanced(T, k, v) <= Len(Added(P, T, k))
<1>1. /\ DOMAIN Emplace(T, k, v) = DOMAIN T \cup {k}
      /\ \A x \in DOMAIN T : Emplace(T, k, v)[x] = T[x]
      /\ k \notin DOMAIN T => Emplace(T, k, v)[k] = v
  BY EmplaceIs
<1>2. CASE k \in DOMAIN T
  BY <1>1, <1>2 DEF Added, Advanced, Below
<1>3. CASE k \notin DOMAIN T
  <2>1. Added(P, T, k) = Append(P, k) /\ Len(Append(P, k)) = Len(P) + 1 /\ Len(P) \in Nat
    BY <1>3 DEF Added
  <2>2. Advanced(T, k, v) = v + 1
    BY <1>3 DEF Advanced
  <2>3. ASSUME NEW x \in DOMAIN T PROVE T[x] < Len(P) + 1
    <3>1. IsTable(T, Texts)
      BY TableTyped
    <3>2. T[x] \in Nat
      BY <3>1 DEF IsTable
    <3> QED BY <2>1, <3>2 DEF Below
  <2> QED BY <1>1, <1>3, <2>1, <2>2, <2>3 DEF Below
<1> QED BY <1>2, <1>3

BoundsInv ==
  /\ Below(literal_patterns, literal_cache) /\ literal_index <= Len(literal_patterns)
  /\ Below(regex_patterns, regex_cache) /\ regex_index <= Len(regex_patterns)

LEMMA InitBounds == Init => BoundsInv
  BY DEF Init, Start, BoundsInv, Below, NoEntries

LEMMA NextBounds == TypeInv /\ BoundsInv /\ [Next]_vars => BoundsInv'
<1> SUFFICES ASSUME TypeInv, BoundsInv, [Next]_vars PROVE BoundsInv'
  OBVIOUS
<1>1. file \in Rulesets
  BY DEF TypeInv
<1>2. CASE AddLiteral
  <2>1. String.text \in Texts
    BY <1>1, <1>2, FileTyped DEF AddLiteral, String, TypeInv
  <2> QED BY <1>2, <2>1, AddedBelow DEF AddLiteral, BoundsInv, TypeInv
<1>3. CASE AddRegex
  <2>1. String.text \in Texts
    BY <1>1, <1>3, FileTyped DEF AddRegex, String, TypeInv
  <2> QED BY <1>3, <2>1, AddedBelow DEF AddRegex, BoundsInv, TypeInv
<1>4. CASE StartRule
  BY <1>4 DEF StartRule, BoundsInv, Below, TypeInv
<1>5. CASE ObserveCondition \/ VisitMutex \/ EndRule \/ FixLiterals \/ UNCHANGED vars
  BY <1>5 DEF ObserveCondition, VisitMutex, EndRule, FixLiterals, vars, BoundsInv, Below
<1> QED BY <1>2, <1>3, <1>4, <1>5 DEF Next

(***************************************************************************)
(* What total_regex_size counts: while no regex is used twice, the regex   *)
(* strings of the rules so far are as many as the regex patterns.          *)
(***************************************************************************)
UsedRegexes == UNION {{r} \X DOMAIN info[r].regex_strings : r \in 1 .. Len(info)}

SizeInv ==
  phase # "done" =>
    /\ \A t \in DOMAIN regex_cache :
         \E r \in 1 .. Len(info) : \E i \in 1 .. Len(file[r].strings) :
           /\ file[r].strings[i].kind = "regex" /\ file[r].strings[i].text = t
           /\ Passed(r, i)
    /\ IsFiniteSet(UsedRegexes)
    /\ RegexesDiffer => Cardinality(UsedRegexes) = Len(regex_patterns)

LEMMA SameFile ==
  ASSUME file' = file
  PROVE  /\ AllStrings' = AllStrings
         /\ RegexesDiffer' <=> RegexesDiffer
         /\ StringsInOneRule' <=> StringsInOneRule
<1>1. AllStrings' = AllStrings
  BY DEF AllStrings
<1> QED BY <1>1 DEF RegexesDiffer, StringsInOneRule

LEMMA InitSize == Init => SizeInv
<1> SUFFICES ASSUME Init PROVE SizeInv
  OBVIOUS
<1>1. UsedRegexes = {} /\ Len(regex_patterns) = 0 /\ DOMAIN regex_cache = {}
  BY DEF Init, Start, UsedRegexes, NoEntries
<1> QED BY <1>1, FS_EmptySet DEF SizeInv

\* A regex string has a name of its own in its rule.
LEMMA RegexAdded ==
  ASSUME TypeInv, StringInv, AddRegex
  PROVE  /\ rule \in 1 .. Len(info) /\ Len(info') = Len(info)
         /\ String.name \notin DOMAIN info[rule].regex_strings
         /\ \A r \in 1 .. Len(info) : DOMAIN info'[r].regex_strings =
              DOMAIN info[r].regex_strings \cup (IF r = rule THEN {String.name} ELSE {})
<1> DEFINE T == Emplace(info[rule].regex_strings, String.name,
                        IdFor(regex_cache, String.text, regex_index))
<1>1. /\ file \in Rulesets /\ Len(file) \in Nat /\ info \in Seq(InfoType)
      /\ rule \in 1 .. Len(info) /\ rule = Len(info) /\ rule \in 1 .. Len(file)
      /\ pos \in 1 .. Len(file[rule].strings) /\ phase = "strings"
  BY FileTyped DEF AddRegex, TypeInv
<1>2. String.name \notin DOMAIN info[rule].regex_strings
  <2> SUFFICES ASSUME String.name \in DOMAIN info[rule].regex_strings PROVE FALSE
    OBVIOUS
  <2>1. PICK i \in 1 .. Len(file[rule].strings) :
          file[rule].strings[i].name = String.name /\ Passed(rule, i)
    BY <1>1 DEF StringInv, NamesPassed
  <2>2. i < pos
    BY <1>1, <2>1 DEF Passed
  <2> QED BY <1>1, <2>1, <2>2, FileTyped DEF String
<1>3. info' = [info EXCEPT ![rule].regex_strings = T]
  BY DEF AddRegex
<1>4. DOMAIN T = DOMAIN info[rule].regex_strings \cup {String.name}
  BY DEF Emplace
<1> HIDE DEF T
<1>5. /\ Len(info') = Len(info)
      /\ \A r \in 1 .. Len(info) :
           info'[r].regex_strings = IF r = rule THEN T ELSE info[r].regex_strings
  BY <1>1, <1>3, OtherFields, InfoUpdated
<1> QED BY <1>1, <1>2, <1>4, <1>5

\* A regex of a file whose regexes differ has a text that is not in the cache.
LEMMA NewRegex ==
  ASSUME TypeInv, SizeInv, AddRegex, RegexesDiffer
  PROVE  String.text \notin DOMAIN regex_cache
<1> SUFFICES ASSUME String.text \in DOMAIN regex_cache PROVE FALSE
  OBVIOUS
<1>1. /\ file \in Rulesets /\ Len(file) \in Nat /\ phase = "strings" /\ String.kind = "regex"
      /\ rule \in 1 .. Len(file) /\ rule = Len(info) /\ rule \in Nat
      /\ pos \in 1 .. Len(file[rule].strings)
  BY FileTyped DEF AddRegex, TypeInv
<1>2. PICK r \in 1 .. Len(info) : \E i \in 1 .. Len(file[r].strings) :
        /\ file[r].strings[i].kind = "regex" /\ file[r].strings[i].text = String.text
        /\ Passed(r, i)
  BY <1>1 DEF SizeInv
<1>3. PICK i \in 1 .. Len(file[r].strings) :
        /\ file[r].strings[i].kind = "regex" /\ file[r].strings[i].text = String.text
        /\ Passed(r, i)
  BY <1>2
<1> DEFINE x == [rule |-> r, string |-> file[r].strings[i]]
           y == [rule |-> rule, string |-> String]
<1>4. r \in 1 .. Len(file)
  BY <1>1
<1>5. x \in AllStrings /\ y \in AllStrings
  BY <1>1, <1>3, <1>4 DEF AllStrings, String
<1>6. x = y
  BY <1>1, <1>3, <1>5 DEF RegexesDiffer
<1>7. r = rule /\ file[r].strings[i] = String
  BY <1>6
<1>8. i = pos
  BY <1>1, <1>7, FileTyped DEF String
<1> QED BY <1>1, <1>3, <1>7, <1>8 DEF Passed

LEMMA AddRegexSize ==
  ASSUME TypeInv, StringInv, SizeInv, AddRegex PROVE SizeInv'
<1>1. /\ file \in Rulesets /\ rule \in 1 .. Len(file) /\ rule = Len(info)
      /\ pos \in 1 .. Len(file[rule].strings) /\ String.kind = "regex"
      /\ phase = "strings" /\ UNCHANGED <<file, phase, rule>> /\ pos' = pos + 1
      /\ regex_cache' = Emplace(regex_cache, String.text, regex_index)
      /\ regex_patterns' = Added(regex_patterns, regex_cache, String.text)
  BY FileTyped DEF AddRegex, TypeInv
<1>2. Len(info') = Len(info)
  BY RegexAdded
<1>3. UsedRegexes' = UsedRegexes \cup {<<rule, String.name>>}
      /\ <<rule, String.name>> \notin UsedRegexes
  BY RegexAdded DEF UsedRegexes
<1>4. IsFiniteSet(UsedRegexes) /\ IsFiniteSet(UsedRegexes')
      /\ Cardinality(UsedRegexes') = Cardinality(UsedRegexes) + 1
  BY <1>1, <1>3, FS_AddElement DEF SizeInv
<1>5. ASSUME RegexesDiffer' PROVE Cardinality(UsedRegexes') = Len(regex_patterns')
  <2>1. RegexesDiffer
    BY <1>1, <1>5, SameFile
  <2>2. regex_patterns' = Append(regex_patterns, String.text)
    BY <1>1, <2>1, NewRegex DEF Added
  <2>3. Len(regex_patterns') = Len(regex_patterns) + 1
    BY <2>2 DEF TypeInv
  <2> QED BY <1>1, <1>4, <2>1, <2>3 DEF SizeInv
<1>6. ASSUME NEW t \in DOMAIN regex_cache'
      PROVE  \E r \in 1 .. Len(info') : \E i \in 1 .. Len(file'[r].strings) :
               /\ file'[r].strings[i].kind = "regex" /\ file'[r].strings[i].text = t
               /\ Passed(r, i)'
  <2>1. CASE t \in DOMAIN regex_cache
    <3>1. PICK r \in 1 .. Len(info) : \E i \in 1 .. Len(file[r].strings) :
            /\ file[r].strings[i].kind = "regex" /\ file[r].strings[i].text = t /\ Passed(r, i)
      BY <1>1, <2>1 DEF SizeInv
    <3>2. PICK i \in 1 .. Len(file[r].strings) :
            /\ file[r].strings[i].kind = "regex" /\ file[r].strings[i].text = t /\ Passed(r, i)
      BY <3>1
    <3>3. i \in Nat /\ pos \in Nat
      BY DEF TypeInv
    <3>4. Passed(r, i)'
      BY <1>1, <3>2, <3>3 DEF Passed
    <3> QED BY <1>1, <1>2, <3>2, <3>4
  <2>2. CASE t \notin DOMAIN regex_cache
    <3>1. t = String.text
      BY <1>1, <2>2 DEF Emplace
    <3>2. PICK r \in 1 .. Len(info'), i \in 1 .. Len(file[rule].strings) : r = rule /\ i = pos
      BY <1>1, <1>2, RegexAdded
    <3>3. i < pos'
      BY <1>1, <3>2
    <3>4. Passed(r, i)'
      BY <3>3 DEF Passed
    <3> QED BY <1>1, <3>1, <3>2, <3>4 DEF String
  <2> QED BY <2>1, <2>2
<1> QED BY <1>4, <1>5, <1>6 DEF SizeInv

LEMMA NextSize == TypeInv /\ StringInv /\ SizeInv /\ [Next]_vars => SizeInv'
<1> SUFFICES ASSUME TypeInv, StringInv, SizeInv, [Next]_vars PROVE SizeInv'
  OBVIOUS
<1>1. /\ file \in Rulesets /\ Len(file) \in Nat /\ info \in Seq(InfoType)
      /\ file' = file /\ (RegexesDiffer' <=> RegexesDiffer)
  <2>1. file' = file
    BY DEF Next, vars, StartRule, AddLiteral, AddRegex, ObserveCondition, VisitMutex, EndRule,
       FixLiterals
  <2> QED BY <2>1, FileTyped, SameFile DEF TypeInv
\* The other steps keep the regexes and pass no fewer strings.
<1>2. ASSUME phase # "done", UNCHANGED <<regex_cache, regex_patterns>>,
             UsedRegexes' = UsedRegexes, Len(info') >= Len(info), Len(info') \in Nat,
             \A r \in 1 .. Len(info) : \A i \in 1 .. Len(file[r].strings) :
               Passed(r, i) => Passed(r, i)'
      PROVE  SizeInv'
  <2>1. ASSUME NEW t \in DOMAIN regex_cache
        PROVE  \E r \in 1 .. Len(info') : \E i \in 1 .. Len(file[r].strings) :
                 /\ file[r].strings[i].kind = "regex" /\ file[r].strings[i].text = t
                 /\ Passed(r, i)'
    <3>1. PICK r \in 1 .. Len(info) : \E i \in 1 .. Len(file[r].strings) :
            /\ file[r].strings[i].kind = "regex" /\ file[r].strings[i].text = t /\ Passed(r, i)
      BY <1>2 DEF SizeInv
    <3>2. r \in 1 .. Len(info')
      BY <1>1, <1>2
    <3> QED BY <1>2, <3>1, <3>2
  <2> QED BY <1>1, <1>2, <2>1 DEF SizeInv
<1>3. CASE StartRule
  <2>1. /\ Len(info') = Len(info) + 1 /\ rule = Len(info) + 1 /\ Len(info) \in Nat
        /\ info'[Len(info) + 1].regex_strings = NoEntries
        /\ \A r \in 1 .. Len(info) : info'[r] = info[r]
    BY <1>1, <1>3 DEF StartRule, TypeInv
  <2>2. DOMAIN info'[rule].regex_strings = {}
    BY <2>1, NoEntriesTyped
  <2>3. UsedRegexes' = UsedRegexes
    BY <2>1, <2>2 DEF UsedRegexes
  <2>4. \A r \in 1 .. Len(info) : \A i \in 1 .. Len(file[r].strings) : Passed(r, i)'
    BY <1>3, <2>1 DEF StartRule, Passed
  <2> QED BY <1>2, <1>3, <2>1, <2>3, <2>4 DEF StartRule
<1>4. CASE AddLiteral
  <2>1. rule \in 1 .. Len(info) /\ pos \in Nat /\ Len(info) \in Nat
    BY <1>1, <1>4 DEF AddLiteral, TypeInv
  <2>2. /\ Len(info') = Len(info)
        /\ \A r \in 1 .. Len(info) : info'[r].regex_strings = info[r].regex_strings
    BY <1>1, <1>4, <2>1, OtherFields, InfoUpdated DEF AddLiteral
  <2>3. \A r \in 1 .. Len(info) : \A i \in 1 .. Len(file[r].strings) :
          Passed(r, i) => Passed(r, i)'
    BY <1>4, <2>1 DEF AddLiteral, Passed
  <2>4. UsedRegexes' = UsedRegexes
    BY <2>2 DEF UsedRegexes
  <2> QED BY <1>2, <1>4, <2>1, <2>2, <2>3, <2>4 DEF AddLiteral
<1>5. CASE ObserveCondition
  <2>1. \A r \in 1 .. Len(info) : \A i \in 1 .. Len(file[r].strings) : Passed(r, i)'
    BY <1>5 DEF ObserveCondition, Passed
  <2> QED BY <1>1, <1>2, <1>5, <2>1 DEF ObserveCondition, UsedRegexes
<1>6. CASE VisitMutex
  <2>1. rule \in 1 .. Len(info) /\ Len(info) \in Nat
    BY <1>1, <1>6 DEF VisitMutex, TypeInv
  <2>2. /\ Len(info') = Len(info)
        /\ \A r \in 1 .. Len(info) : info'[r].regex_strings = info[r].regex_strings
    BY <1>1, <1>6, <2>1, OtherFields, InfoUpdated DEF VisitMutex
  <2>3. \A r \in 1 .. Len(info) : \A i \in 1 .. Len(file[r].strings) : Passed(r, i)'
    BY <1>6 DEF VisitMutex, Passed
  <2>4. UsedRegexes' = UsedRegexes
    BY <2>2 DEF UsedRegexes
  <2> QED BY <1>2, <1>6, <2>1, <2>2, <2>3, <2>4 DEF VisitMutex
<1>7. CASE EndRule
  <2>1. Len(info) = rule /\ rule \in Nat
    BY <1>1, <1>7 DEF EndRule, TypeInv
  <2>2. \A r \in 1 .. Len(info) : \A i \in 1 .. Len(file[r].strings) : Passed(r, i)'
    BY <1>7, <2>1 DEF EndRule, Passed
  <2> QED BY <1>1, <1>2, <1>7, <2>2 DEF EndRule, UsedRegexes
<1>8. CASE FixLiterals
  BY <1>8 DEF FixLiterals, SizeInv
<1>9. CASE UNCHANGED vars
  BY <1>9 DEF vars, SizeInv, UsedRegexes, Passed, RegexesDiffer, AllStrings
<1> QED BY <1>3, <1>4, <1>5, <1>6, <1>7, <1>8, <1>9, AddRegexSize DEF Next

\* At the end a string's number is that of the pattern of its text in the
\* cache, for literals past the regex patterns.
LEMMA FixedIdOf ==
  ASSUME TypeInv, StringInv, SizeInv, FixLiterals, RegexesDiffer, NEW x \in AllStrings'
  PROVE  /\ x.string.kind \in {"literal", "regex"}
         /\ x.string.kind = "literal" => /\ x.string.text \in DOMAIN literal_cache
              /\ IdOf(x)' = literal_cache[x.string.text] + Len(regex_patterns)
         /\ x.string.kind = "regex" => /\ x.string.text \in DOMAIN regex_cache
              /\ IdOf(x)' = regex_cache[x.string.text]
<1>1. file' = file /\ phase = "rule"
  BY DEF FixLiterals
<1>2. TotalRegexSize = Len(regex_patterns)
  BY <1>1 DEF SizeInv, TotalRegexSize, UsedRegexes
<1>3. PICK r \in 1 .. Len(file) : \E i \in 1 .. Len(file[r].strings) :
        x = [rule |-> r, string |-> file[r].strings[i]]
  BY <1>1 DEF AllStrings
<1>4. PICK i \in 1 .. Len(file[r].strings) : x = [rule |-> r, string |-> file[r].strings[i]]
  BY <1>3
<1>5. IdOf(x)' = StringId(r, file[r].strings[i].name)' /\ x.string = file[r].strings[i]
  BY <1>1, <1>4 DEF IdOf
<1> QED BY <1>2, <1>5, FixedIds

\* A step that is not FixLiterals ends nothing.
LEMMA DoneByFix == [Next]_vars /\ phase' = "done" => FixLiterals \/ UNCHANGED vars
  BY DEF Next, StartRule, AddLiteral, AddRegex, ObserveCondition, VisitMutex, EndRule

(***************************************************************************)
(* A number that a rule uses is an index of ScanContext::matches, for      *)
(* every file in which no regex is used twice, though the indices of a     *)
(* rule start at 0 again (pattern_extractor.hpp:63-120).                   *)
(***************************************************************************)
THEOREM IdsStayWithin == Spec => []IdsWithinMatches
<1>1. Init => IdsWithinMatches
  BY DEF Init, Start, IdsWithinMatches
<1>2. TypeInv /\ StringInv /\ BoundsInv /\ SizeInv /\ IdsWithinMatches /\ [Next]_vars
        => IdsWithinMatches'
  <2> SUFFICES ASSUME TypeInv, StringInv, BoundsInv, SizeInv, FixLiterals, RegexesDiffer',
                      NEW x \in AllStrings'
               PROVE  IdOf(x)' < PatternCount'
    <3>1. ASSUME UNCHANGED vars, IdsWithinMatches PROVE IdsWithinMatches'
      BY <3>1 DEF vars, IdsWithinMatches, RegexesDiffer, AllStrings, IdOf, StringId, PatternCount
    <3> QED BY <3>1, DoneByFix DEF IdsWithinMatches
  <2>1. RegexesDiffer
    BY SameFile DEF FixLiterals
  <2>2. PatternCount' = Len(literal_patterns) + Len(regex_patterns)
    BY DEF FixLiterals, PatternCount
  <2>3. Len(literal_patterns) \in Nat /\ Len(regex_patterns) \in Nat
    BY DEF TypeInv
  <2>4. /\ \A t \in DOMAIN literal_cache : literal_cache[t] \in Nat
        /\ \A t \in DOMAIN regex_cache : regex_cache[t] \in Nat
    BY TypeInvImplies DEF TypeOK, IsTable
  <2>5. CASE x.string.kind = "literal"
    <3>1. /\ x.string.text \in DOMAIN literal_cache
          /\ IdOf(x)' = literal_cache[x.string.text] + Len(regex_patterns)
      BY <2>1, <2>5, FixedIdOf
    <3>2. literal_cache[x.string.text] < Len(literal_patterns)
      BY <3>1 DEF BoundsInv, Below
    <3> QED BY <2>2, <2>3, <2>4, <3>1, <3>2
  <2>6. CASE x.string.kind = "regex"
    <3>1. x.string.text \in DOMAIN regex_cache /\ IdOf(x)' = regex_cache[x.string.text]
      BY <2>1, <2>6, FixedIdOf
    <3>2. regex_cache[x.string.text] < Len(regex_patterns)
      BY <3>1 DEF BoundsInv, Below
    <3> QED BY <2>2, <2>3, <2>4, <3>1, <3>2
  <2> QED BY <2>1, <2>5, <2>6, FixedIdOf
<1> QED BY <1>1, <1>2, InitTyped, NextTyped, InitStrings, NextStrings, InitBounds, NextBounds,
           InitSize, NextSize, PTL DEF Spec
-----------------------------------------------------------------------------
(***************************************************************************)
(* With all strings in one rule the caches hold positions: nothing is      *)
(* collected before that rule, and in it the indices count the patterns.   *)
(***************************************************************************)
NoStringsYet == \A r \in 1 .. Len(info) : Len(file[r].strings) = 0

PlaceInv ==
  StringsInOneRule =>
    /\ Numbered(literal_patterns, literal_cache) /\ Numbered(regex_patterns, regex_cache)
    /\ phase = "strings" /\ Len(file[rule].strings) > 0 =>
         literal_index = Len(literal_patterns) /\ regex_index = Len(regex_patterns)
    /\ NoStringsYet => Len(literal_patterns) = 0 /\ Len(regex_patterns) = 0

LEMMA InitPlace == Init => PlaceInv
  BY DEF Init, Start, PlaceInv, Numbered, NoEntries

LEMMA AdvancedIs ==
  ASSUME NEW P \in Seq(Texts), NEW T, NEW k \in Texts
  PROVE  Advanced(T, k, Len(P)) = Len(Added(P, T, k))
  BY DEF Advanced, Added

LEMMA NextPlace == TypeInv /\ PlaceInv /\ [Next]_vars => PlaceInv'
<1> SUFFICES ASSUME TypeInv, PlaceInv, [Next]_vars, StringsInOneRule'
             PROVE  PlaceInv'
  BY DEF PlaceInv
<1>1. /\ file \in Rulesets /\ Len(file) \in Nat /\ info \in Seq(InfoType)
      /\ file' = file /\ StringsInOneRule
  <2>1. file' = file
    BY DEF Next, vars, StartRule, AddLiteral, AddRegex, ObserveCondition, VisitMutex, EndRule,
       FixLiterals
  <2> QED BY <2>1, FileTyped, SameFile DEF TypeInv
<1>2. /\ Numbered(literal_patterns, literal_cache) /\ Numbered(regex_patterns, regex_cache)
      /\ phase = "strings" /\ Len(file[rule].strings) > 0 =>
           literal_index = Len(literal_patterns) /\ regex_index = Len(regex_patterns)
      /\ NoStringsYet => Len(literal_patterns) = 0 /\ Len(regex_patterns) = 0
  BY <1>1 DEF PlaceInv
<1>3. CASE StartRule
  <2>1. /\ Len(info') = Len(info) + 1 /\ rule = Len(info) + 1 /\ Len(info) \in Nat
        /\ rule \in 1 .. Len(file) /\ rule' = rule
        /\ literal_index' = 0 /\ regex_index' = 0
        /\ UNCHANGED <<literal_patterns, regex_patterns, literal_cache, regex_cache>>
    BY <1>1, <1>3 DEF StartRule, TypeInv
  <2>2. NoStringsYet' => NoStringsYet
    BY <1>1, <2>1 DEF NoStringsYet
  <2>3. ASSUME Len(file[rule].strings) > 0 PROVE NoStringsYet
    <3>1. ASSUME NEW q \in 1 .. Len(info), Len(file[q].strings) # 0 PROVE FALSE
      <4> DEFINE x == [rule |-> q, string |-> file[q].strings[1]]
                 y == [rule |-> rule, string |-> file[rule].strings[1]]
      <4>1. q \in 1 .. Len(file) /\ q # rule
        BY <1>1, <2>1
      <4>2. 1 \in 1 .. Len(file[q].strings) /\ 1 \in 1 .. Len(file[rule].strings)
        BY <1>1, <2>1, <2>3, <3>1, <4>1, FileTyped
      <4>3. x \in AllStrings /\ y \in AllStrings
        <5>1. x \in AllStrings
          BY <4>1, <4>2 DEF AllStrings
        <5>2. y \in AllStrings
          BY <2>1, <4>2 DEF AllStrings
        <5> QED BY <5>1, <5>2
      <4>4. x.rule = y.rule
        BY <1>1, <4>3 DEF StringsInOneRule
      <4> QED BY <4>1, <4>4
    <3> QED BY <3>1 DEF NoStringsYet
  <2> QED BY <1>1, <1>2, <2>1, <2>2, <2>3 DEF PlaceInv, Numbered
<1>4. CASE AddLiteral
  <2>1. /\ rule \in 1 .. Len(info) /\ rule \in 1 .. Len(file) /\ rule' = rule
        /\ pos \in 1 .. Len(file[rule].strings) /\ Len(file[rule].strings) > 0
        /\ phase = "strings" /\ UNCHANGED <<regex_index, regex_patterns, regex_cache>>
    BY <1>1, <1>4, FileTyped DEF AddLiteral, TypeInv
  <2>2. String.text \in Texts
    BY <1>1, <2>1, FileTyped DEF String
  <2>3. literal_index = Len(literal_patterns) /\ regex_index = Len(regex_patterns)
    BY <1>2, <2>1
  <2>4. Numbered(literal_patterns', literal_cache')
    BY <1>2, <1>4, <2>2, <2>3, AddedNumbered DEF AddLiteral, TypeInv
  <2>5. literal_index' = Len(literal_patterns')
    BY <1>4, <2>2, <2>3, AdvancedIs DEF AddLiteral, TypeInv
  <2>6. Len(info') = Len(info)
    BY <1>1, <1>4, <2>1, InfoUpdated DEF AddLiteral
  <2>7. ~NoStringsYet'
    BY <1>1, <2>1, <2>6 DEF NoStringsYet
  <2> QED BY <1>2, <2>1, <2>3, <2>4, <2>5, <2>7 DEF PlaceInv
<1>5. CASE AddRegex
  <2>1. /\ rule \in 1 .. Len(info) /\ rule \in 1 .. Len(file) /\ rule' = rule
        /\ pos \in 1 .. Len(file[rule].strings) /\ Len(file[rule].strings) > 0
        /\ phase = "strings" /\ UNCHANGED <<literal_index, literal_patterns, literal_cache>>
    BY <1>1, <1>5, FileTyped DEF AddRegex, TypeInv
  <2>2. String.text \in Texts
    BY <1>1, <2>1, FileTyped DEF String
  <2>3. literal_index = Len(literal_patterns) /\ regex_index = Len(regex_patterns)
    BY <1>2, <2>1
  <2>4. Numbered(regex_patterns', regex_cache')
    BY <1>2, <1>5, <2>2, <2>3, AddedNumbered DEF AddRegex, TypeInv
  <2>5. regex_index' = Len(regex_patterns')
    BY <1>5, <2>2, <2>3, AdvancedIs DEF AddRegex, TypeInv
  <2>6. Len(info') = Len(info)
    BY <1>1, <1>5, <2>1, InfoUpdated DEF AddRegex
  <2>7. ~NoStringsYet'
    BY <1>1, <2>1, <2>6 DEF NoStringsYet
  <2> QED BY <1>2, <2>1, <2>3, <2>4, <2>5, <2>7 DEF PlaceInv
\* The other steps keep the patterns, and leave the phase of strings.
<1>6. ASSUME UNCHANGED <<literal_patterns, regex_patterns, literal_cache, regex_cache>>,
             phase' # "strings", Len(info') = Len(info)
      PROVE  PlaceInv'
  <2>1. NoStringsYet' <=> NoStringsYet
    BY <1>1, <1>6 DEF NoStringsYet
  <2> QED BY <1>2, <1>6, <2>1 DEF PlaceInv, Numbered
<1>7. CASE ObserveCondition
  BY <1>6, <1>7 DEF ObserveCondition
<1>8. CASE VisitMutex
  <2>1. rule \in 1 .. Len(info)
    BY <1>1, <1>8 DEF VisitMutex, TypeInv
  <2>2. Len(info') = Len(info)
    BY <1>1, <1>8, <2>1, InfoUpdated DEF VisitMutex
  <2> QED BY <1>6, <1>8, <2>2 DEF VisitMutex
<1>9. CASE EndRule
  BY <1>6, <1>9 DEF EndRule
<1>10. CASE FixLiterals
  <2>1. Len(info) \in Nat /\ info' \in Seq(InfoType) /\ DOMAIN info' = 1 .. Len(info)
    BY <1>1, <1>10, NextTyped DEF FixLiterals, TypeInv
  <2>2. Len(info') = Len(info)
    BY <2>1
  <2> QED BY <1>6, <1>10, <2>2 DEF FixLiterals
<1>11. CASE UNCHANGED vars
  BY <1>2, <1>11 DEF vars, PlaceInv, Numbered, NoStringsYet
<1> QED BY <1>3, <1>4, <1>5, <1>7, <1>8, <1>9, <1>10, <1>11 DEF Next

(***************************************************************************)
(* The number a rule uses for a string is the one under which the          *)
(* databases report that string's pattern (README.md:51), for every file   *)
(* in which one rule has all the strings and uses no regex twice.          *)
(***************************************************************************)
THEOREM OneRuleResolves == Spec => []IdsResolve
<1>1. Init => IdsResolve
  BY DEF Init, Start, IdsResolve
<1>2. TypeInv /\ StringInv /\ SizeInv /\ PlaceInv /\ IdsResolve /\ [Next]_vars => IdsResolve'
  <2> SUFFICES ASSUME TypeInv, StringInv, SizeInv, PlaceInv, FixLiterals, RegexesDiffer',
                      StringsInOneRule', NEW x \in AllStrings'
               PROVE  /\ IdOf(x)' \in MatchIds'
                      /\ CompiledText(IdOf(x))' =
                           [kind |-> x.string.kind, text |-> x.string.text]
    <3>1. ASSUME UNCHANGED vars, IdsResolve PROVE IdsResolve'
      <4>1. \A y : IdOf(y)' = IdOf(y) /\ CompiledText(IdOf(y))' = CompiledText(IdOf(y))
        BY <3>1 DEF vars, IdOf, StringId, CompiledText
      <4>2. MatchIds' = MatchIds /\ phase' = phase /\ file' = file
        BY <3>1 DEF vars, MatchIds
      <4> QED BY <3>1, <4>1, <4>2, SameFile DEF IdsResolve
    <3> QED BY <3>1, DoneByFix DEF IdsResolve
  <2>1. RegexesDiffer /\ StringsInOneRule
    BY SameFile DEF FixLiterals
  <2>2. UNCHANGED <<literal_patterns, regex_patterns>>
    BY DEF FixLiterals
  <2>3. Len(literal_patterns) \in Nat /\ Len(regex_patterns) \in Nat
    BY DEF TypeInv
  <2>4. /\ \A t \in DOMAIN literal_cache : literal_cache[t] \in Nat
        /\ \A t \in DOMAIN regex_cache : regex_cache[t] \in Nat
    BY TypeInvImplies DEF TypeOK, IsTable
  <2>5. Numbered(literal_patterns, literal_cache) /\ Numbered(regex_patterns, regex_cache)
    BY <2>1 DEF PlaceInv
  <2>6. ASSUME NEW id \in Nat, IdOf(x)' = id
        PROVE  /\ IdOf(x)' \in MatchIds' <=> id < Len(regex_patterns) + Len(literal_patterns)
               /\ CompiledText(IdOf(x))' = CompiledText(id)
    BY <2>2, <2>3, <2>6 DEF MatchIds, CompiledText
  <2>7. CASE x.string.kind = "literal"
    <3> DEFINE at == literal_cache[x.string.text]
    <3>1. x.string.text \in DOMAIN literal_cache /\ IdOf(x)' = at + Len(regex_patterns)
      BY <2>1, <2>7, FixedIdOf
    <3>2. at \in Nat /\ at + 1 \in 1 .. Len(literal_patterns)
          /\ literal_patterns[at + 1] = x.string.text
      BY <2>4, <2>5, <3>1 DEF Numbered
    <3> HIDE DEF at
    <3>3. CompiledText(at + Len(regex_patterns)) = [kind |-> "literal", text |-> x.string.text]
      BY <2>3, <3>2 DEF CompiledText
    <3> QED BY <2>3, <2>6, <2>7, <3>1, <3>2, <3>3
  <2>8. CASE x.string.kind = "regex"
    <3> DEFINE at == regex_cache[x.string.text]
    <3>1. x.string.text \in DOMAIN regex_cache /\ IdOf(x)' = at
      BY <2>1, <2>8, FixedIdOf
    <3>2. at \in Nat /\ at + 1 \in 1 .. Len(regex_patterns) /\ regex_patterns[at + 1] = x.string.text
      BY <2>4, <2>5, <3>1 DEF Numbered
    <3> HIDE DEF at
    <3>3. CompiledText(at) = [kind |-> "regex", text |-> x.string.text]
      BY <2>3, <3>2 DEF CompiledText
    <3> QED BY <2>3, <2>6, <2>8, <3>1, <3>2, <3>3
  <2> QED BY <2>1, <2>7, <2>8, FixedIdOf
<1> QED BY <1>1, <1>2, InitTyped, NextTyped, InitStrings, NextStrings, InitSize, NextSize,
           InitPlace, NextPlace, PTL DEF Spec
=============================================================================
