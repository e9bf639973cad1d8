------------------------ MODULE ConditionHelpersProofs ------------------------
(***************************************************************************)
(* The helpers of conditions are exact.  The loops of QuantifiedLoop, for  *)
(* every word size, number of items and count: neither giving up early nor *)
(* a difference that wraps around changes an answer, and the bodies that   *)
(* are evaluated are those of the items at which the answer is open.  The  *)
(* reads of ScanReads, for every word size, buffer, number of occurrences  *)
(* and offset; and what is not there is never equal to, or below, what a   *)
(* rule compares it with.                                                  *)
(***************************************************************************)
EXTENDS QuantifiedLoop, ScanReads, Integers, FiniteSetTheorems, SequenceTheorems, TLAPS

\* The items of a call whose body is true.
All(c) == Items(c) \cap c.holds

\* A call is made of words.
LEMMA CallTyped ==
  ASSUME NEW c \in Calls
  PROVE  /\ c.low \in Words /\ c.high \in Words /\ c.value \in Words
         /\ c.over \in {"set", "range"}
         /\ c.quantifier \in {"any", "all", "literal", "other"}
  BY CallsAssumption DEF CallType

LEMMA CountTyped == ASSUME NEW c \in Calls PROVE Count(c) \in Words /\ Wanted(c) \in Words
<1>1. /\ c.low \in Words /\ c.high \in Words /\ c.value \in Words
      /\ c.quantifier \in {"any", "all", "literal", "other"}
  BY CallTyped
<1>2. TotalCount(c) \in Words
  BY <1>1, WordAssumption DEF TotalCount, Words
<1>3. Greatest(1, Least(TotalCount(c), c.value)) \in Words
  BY <1>1, <1>2, WordAssumption DEF Greatest, Least, Words
<1>4. Count(c) \in Words
  <2>1. CASE c.quantifier = "any"
    BY <2>1, WordAssumption DEF Count, Words
  <2>2. CASE c.quantifier = "all"
    BY <1>2, <2>2 DEF Count
  <2>3. CASE c.quantifier = "literal"
    BY <1>3, <2>3 DEF Count
  <2>4. CASE c.quantifier = "other"
    BY <2>4, WordAssumption DEF Count, Words
  <2> QED BY <1>1, <2>1, <2>2, <2>3, <2>4
<1> QED BY <1>1, <1>4 DEF Wanted, CutToRange, Least

\* The difference of two words is a word, and the true difference when that
\* is not negative.
LEMMA MinusIs ==
  ASSUME NEW a \in Words, NEW b \in Words
  PROVE  Minus(a, b) \in Words /\ (b <= a => Minus(a, b) = a - b)
  BY WordAssumption DEF Minus, Words

\* The held items before k are finitely many, and one step of the loop adds
\* the item it is at, if that is held.
LEMMA HeldIs ==
  ASSUME NEW c \in Calls, NEW k \in Nat
  PROVE  /\ IsFiniteSet(Held(c, k)) /\ Cardinality(Held(c, k)) \in Nat
         /\ IsFiniteSet(All(c)) /\ Cardinality(All(c)) \in Nat
         /\ Cardinality(Held(c, k)) <= Cardinality(All(c))
<1>1. c.low \in Nat /\ c.high \in Nat
  BY CallTyped, WordAssumption DEF Words
<1>2. IsFiniteSet(c.low .. c.high)
  BY <1>1, FS_Interval
<1>3. All(c) \subseteq c.low .. c.high
  BY <1>1, WordAssumption DEF All, Items, Words
<1>4. IsFiniteSet(All(c))
  BY <1>2, <1>3, FS_Subset
<1>5. Held(c, k) \subseteq All(c)
  BY DEF Held, All
<1>6. IsFiniteSet(Held(c, k)) /\ Cardinality(Held(c, k)) <= Cardinality(All(c))
  BY <1>4, <1>5, FS_Subset
<1> QED BY <1>4, <1>6, FS_CardinalityType

LEMMA HeldStep ==
  ASSUME NEW c \in Calls, NEW k \in Items(c)
  PROVE  /\ k \in c.holds => Cardinality(Held(c, k + 1)) = Cardinality(Held(c, k)) + 1
         /\ k \notin c.holds => Cardinality(Held(c, k + 1)) = Cardinality(Held(c, k))
<1>1. k \in Nat /\ \A j \in Items(c) : j \in Nat
  BY WordAssumption DEF Items, Words
<1>2. IsFiniteSet(Held(c, k)) /\ k \notin Held(c, k)
  BY <1>1, HeldIs DEF Held
<1>3. \A j \in Items(c) : j < k + 1 <=> j < k \/ j = k
  BY <1>1
<1>4. CASE k \in c.holds
  <2>1. Held(c, k + 1) = Held(c, k) \cup {k}
    BY <1>3, <1>4 DEF Held
  <2> QED BY <1>2, <1>4, <2>1, FS_AddElement
<1>5. CASE k \notin c.holds
  <2>1. Held(c, k + 1) = Held(c, k)
    BY <1>3, <1>5 DEF Held
  <2> QED BY <1>5, <2>1
<1> QED BY <1>4, <1>5

\* The items from k on can add no more than their number.
LEMMA HeldRest ==
  ASSUME NEW c \in Calls, NEW k \in Nat, k < c.high
  PROVE  Cardinality(All(c)) <= Cardinality(Held(c, k)) + (c.high - k)
<1> DEFINE Rest == {j \in All(c) : k <= j}
<1>1. c.high \in Nat /\ \A j \in Items(c) : j \in Nat /\ j < c.high
  BY CallTyped, WordAssumption DEF Items, Words
<1>2. All(c) = Held(c, k) \cup Rest
  BY <1>1 DEF All, Held
<1>3. IsFiniteSet(k .. c.high - 1) /\ Cardinality(k .. c.high - 1) = c.high - k
  <2>1. k \in Int /\ c.high - 1 \in Int /\ ~(k > c.high - 1)
    BY <1>1
  <2>2. (c.high - 1) - k + 1 = c.high - k
    BY <1>1
  <2> QED BY <2>1, <2>2, FS_Interval
<1>4. Rest \subseteq k .. c.high - 1
  BY <1>1 DEF All
<1>5. IsFiniteSet(Rest) /\ Cardinality(Rest) <= c.high - k
  BY <1>3, <1>4, FS_Subset
<1>6. Held(c, k) \cap Rest = {}
  BY <1>1 DEF Held, All
<1>7. Cardinality(Held(c, k) \cup Rest)
        = Cardinality(Held(c, k)) + Cardinality(Rest) - Cardinality(Held(c, k) \cap Rest)
  BY <1>5, HeldIs, FS_Union
<1>8. Cardinality(Held(c, k) \cap Rest) = 0
  BY <1>6, FS_EmptySet
<1>9. Cardinality(Rest) \in Nat /\ Cardinality(Held(c, k)) \in Nat
  BY <1>5, HeldIs, FS_CardinalityType
<1> QED BY <1>1, <1>2, <1>5, <1>7, <1>8, <1>9

\* Before the first item nothing is held; from the last on, everything.
LEMMA HeldEnds ==
  ASSUME NEW c \in Calls
  PROVE  /\ Cardinality(Held(c, c.low)) = 0
         /\ \A k \in Nat : k >= c.high => Held(c, k) = All(c)
<1>1. c.low \in Nat /\ c.high \in Nat /\ \A j \in Items(c) : j \in Nat /\ c.low <= j /\ j < c.high
  BY CallTyped, WordAssumption DEF Items, Words
<1>2. Held(c, c.low) = {}
  BY <1>1 DEF Held
<1> QED BY <1>1, <1>2, FS_EmptySet DEF Held, All

(***************************************************************************)
(* In the loop, hits counts the held items before i and index all of them, *)
(* and n has not been reached.                                             *)
(***************************************************************************)
LoopInv ==
  /\ call \in Calls /\ pc \in {"enter", "loop", "done"} /\ result \in BOOLEAN
  /\ pc = "enter" =>
       n = Count(call) /\ i = call.low /\ index = 0 /\ hits = 0 /\ tolerance = 0
  /\ pc # "enter" =>
       n = Wanted(call) /\ tolerance = Minus(Minus(call.high, call.low), n)
  /\ i \in Nat /\ call.low <= i /\ (i <= call.high \/ i = call.low)
  /\ index = i - call.low
  /\ hits \in Nat
  /\ pc = "loop" => /\ hits = Cardinality(Held(call, i)) /\ hits <= index
                    /\ n = 0 \/ hits < n
  /\ ResultExact

LEMMA InitLoop == Init => LoopInv
<1> SUFFICES ASSUME Init PROVE LoopInv
  OBVIOUS
<1>1. call.low \in Nat
  BY CallTyped, WordAssumption DEF Init, Words
<1>2. i = call.low /\ index = i - call.low /\ hits \in Nat /\ call.low <= i
  BY <1>1 DEF Init
<1> QED BY <1>1, <1>2, Zenon DEF Init, LoopInv, ResultExact

LEMMA EnterKeeps == ASSUME LoopInv, Enter PROVE LoopInv'
<1>1. Cardinality(Held(call, call.low)) = 0
  BY HeldEnds DEF LoopInv
<1>2. Wanted(call) \in Nat /\ call.low \in Nat
  BY CountTyped, CallTyped, WordAssumption DEF LoopInv, Words
<1> QED BY <1>1, <1>2 DEF Enter, LoopInv, Wanted, ResultExact

\* Giving up is right: even if all the items that are left were held, there
\* would be fewer than n.
LEMMA GiveUpKeeps == ASSUME LoopInv, GiveUp PROVE LoopInv'
<1>1. /\ call \in Calls /\ call.low \in Words /\ call.high \in Words /\ n \in Words
      /\ n = Wanted(call) /\ i \in Nat /\ i < call.high /\ call.low <= i
      /\ index = i - call.low /\ hits = Cardinality(Held(call, i)) /\ hits <= index
      /\ hits \in Nat
  BY CallTyped, CountTyped DEF GiveUp, LoopInv
<1>2. Minus(call.high, call.low) = call.high - call.low /\ call.high - call.low \in Words
  <2>1. call.low <= call.high
    BY <1>1, WordAssumption DEF Words
  <2>2. Minus(call.high, call.low) = call.high - call.low
    BY <1>1, <2>1, MinusIs
  <2> QED BY <1>1, <2>2, MinusIs
<1>3. index \in Words /\ hits \in Words
  BY <1>1, WordAssumption DEF Words
<1>4. Minus(index, hits) = index - hits
  BY <1>1, <1>3, MinusIs
<1>5. Cardinality(All(call)) <= hits + (call.high - i) /\ Cardinality(All(call)) \in Nat
  BY <1>1, HeldRest, HeldIs
<1>6. Cardinality(All(call)) < n
  <2>1. CASE n <= call.high - call.low
    <3>1. tolerance = (call.high - call.low) - n
      BY <1>1, <1>2, <2>1, MinusIs DEF LoopInv, GiveUp
    <3>2. index - hits > (call.high - call.low) - n
      BY <1>4, <3>1 DEF GiveUp, Hopeless
    <3> QED BY <1>1, <1>5, <3>2, WordAssumption DEF Words
  <2>2. CASE ~(n <= call.high - call.low)
    BY <1>1, <1>5, <2>2, WordAssumption DEF Words
  <2> QED BY <2>1, <2>2
<1>7. ~(n # 0 /\ Cardinality(All(call)) >= n)
  BY <1>1, <1>5, <1>6, WordAssumption DEF Words
<1>8. call' = call /\ pc' = "done" /\ result' = FALSE
  BY DEF GiveUp, Return
<1>9. ResultExact'
  BY <1>1, <1>7, <1>8, Zenon DEF ResultExact, Wanted, All
<1> QED BY <1>1, <1>9 DEF GiveUp, Return, LoopInv

LEMMA HitKeeps == ASSUME LoopInv, Hit PROVE LoopInv'
<1>1. /\ call \in Calls /\ call.low \in Nat /\ call.high \in Words /\ n \in Nat
      /\ n = Wanted(call) /\ i \in Nat /\ i < call.high /\ call.low <= i
      /\ index = i - call.low /\ hits = Cardinality(Held(call, i)) /\ hits <= index
      /\ hits \in Nat /\ (n = 0 \/ hits < n)
  BY CallTyped, CountTyped, WordAssumption DEF Hit, LoopInv, Words
<1>2. i \in Items(call)
  BY <1>1, WordAssumption DEF Items, Words
<1>3. hits + 1 = Cardinality(Held(call, i + 1))
  BY <1>1, <1>2, HeldStep DEF Hit
<1>4. CASE hits + 1 = n /\ Return(TRUE) /\ UNCHANGED <<i, index>>
  <2>1. Cardinality(All(call)) >= n /\ n # 0
    BY <1>1, <1>3, <1>4, HeldIs
  <2>2. ResultExact'
    BY <1>1, <1>4, <2>1 DEF Hit, Return, ResultExact, Wanted, All
  <2> QED BY <1>1, <1>4, <2>2 DEF Hit, Return, LoopInv
<1>5. CASE hits + 1 # n /\ i' = i + 1 /\ index' = index + 1 /\ UNCHANGED <<pc, result>>
  <2>1. n = 0 \/ hits + 1 < n
    BY <1>1, <1>5
  <2>2. i + 1 <= call.high
    BY <1>1, WordAssumption DEF Words
  <2> QED BY <1>1, <1>3, <1>5, <2>1, <2>2 DEF Hit, LoopInv, ResultExact
<1> QED BY <1>4, <1>5 DEF Hit

LEMMA MissKeeps == ASSUME LoopInv, Miss PROVE LoopInv'
<1>1. /\ call \in Calls /\ call.low \in Nat /\ call.high \in Words
      /\ i \in Nat /\ i < call.high /\ call.low <= i
      /\ index = i - call.low /\ hits = Cardinality(Held(call, i)) /\ hits <= index
      /\ hits \in Nat /\ (n = 0 \/ hits < n)
  BY CallTyped, WordAssumption DEF Miss, LoopInv, Words
<1>2. i \in Items(call)
  BY <1>1, WordAssumption DEF Items, Words
<1>3. hits = Cardinality(Held(call, i + 1))
  BY <1>1, <1>2, HeldStep DEF Miss
<1>4. i + 1 <= call.high
  BY <1>1, WordAssumption DEF Words
<1> QED BY <1>1, <1>3, <1>4 DEF Miss, LoopInv, ResultExact

LEMMA RunOutKeeps == ASSUME LoopInv, RunOut PROVE LoopInv'
<1>1. /\ call \in Calls /\ n \in Nat /\ n = Wanted(call) /\ i \in Nat /\ i >= call.high
      /\ hits = Cardinality(Held(call, i)) /\ hits \in Nat /\ (n = 0 \/ hits < n)
  BY CountTyped, WordAssumption DEF RunOut, LoopInv, Words
<1>2. Held(call, i) = All(call)
  BY <1>1, HeldEnds
<1>3. ~(n # 0 /\ Cardinality(All(call)) >= n)
  BY <1>1, <1>2
<1>4. call' = call /\ pc' = "done" /\ result' = FALSE
  BY DEF RunOut, Return
<1>5. ResultExact'
  BY <1>1, <1>3, <1>4, Zenon DEF ResultExact, Wanted, All
<1> QED BY <1>1, <1>5 DEF RunOut, Return, LoopInv

LEMMA NextLoop == LoopInv /\ [Next]_vars => LoopInv'
<1>1. ASSUME LoopInv, UNCHANGED vars PROVE LoopInv'
  BY <1>1 DEF vars, LoopInv, ResultExact
<1> QED BY <1>1, EnterKeeps, GiveUpKeeps, HitKeeps, MissKeeps, RunOutKeeps DEF Next

\* A loop is true exactly when the body is true for n items, for every word
\* size, count and range (ruleset.yar.cpp:133-201).
THEOREM LoopsExact == Spec => []ResultExact
<1>1. LoopInv => ResultExact
  BY DEF LoopInv
<1> QED BY <1>1, InitLoop, NextLoop, PTL DEF Spec
-----------------------------------------------------------------------------
\* The items of a call that has some are the integers low .. high - 1.
LEMMA ItemsAre ==
  ASSUME NEW c \in Calls, c.low <= c.high
  PROVE  /\ IsFiniteSet(Items(c)) /\ Cardinality(Items(c)) = c.high - c.low
         /\ \A S \in SUBSET Items(c) :
              Cardinality(S) >= Cardinality(Items(c)) <=> S = Items(c)
<1>1. c.low \in Int /\ c.high \in Int /\ c.low \in Nat /\ c.high \in Nat
  BY CallTyped, WordAssumption DEF Words
<1>2. Items(c) = c.low .. c.high - 1
  BY <1>1, CallTyped, WordAssumption DEF Items, Words
<1>3. IsFiniteSet(c.low .. c.high - 1) /\ Cardinality(c.low .. c.high - 1) = c.high - c.low
  <2>1. c.high - 1 \in Int /\ (c.high - 1) - c.low + 1 = c.high - c.low
    BY <1>1
  <2>2. IsFiniteSet(c.low .. c.high - 1)
    BY <1>1, <2>1, FS_Interval
  <2>3. CASE c.low > c.high - 1
    <3>1. Cardinality(c.low .. c.high - 1) = 0
      BY <1>1, <2>1, <2>3, FS_Interval
    <3> QED BY <1>1, <2>2, <2>3, <3>1
  <2>4. CASE ~(c.low > c.high - 1)
    BY <1>1, <2>1, <2>2, <2>4, FS_Interval
  <2> QED BY <2>3, <2>4
<1>4. ASSUME NEW S \in SUBSET Items(c)
      PROVE  Cardinality(S) >= Cardinality(Items(c)) <=> S = Items(c)
  <2>1. IsFiniteSet(S) /\ Cardinality(S) <= Cardinality(Items(c))
        /\ (Cardinality(S) = Cardinality(Items(c)) => S = Items(c))
    BY <1>2, <1>3, FS_Subset
  <2>2. Cardinality(S) \in Nat /\ Cardinality(Items(c)) \in Nat
    BY <1>2, <1>3, <2>1, FS_CardinalityType
  <2> QED BY <2>1, <2>2
<1> QED BY <1>2, <1>3, <1>4

(***************************************************************************)
(* The types hold for every word size: no counter of a loop passes its     *)
(* word, whatever the range (ruleset.yar.cpp:133-201).                     *)
(***************************************************************************)
THEOREM TypeCorrect == Spec => []TypeOK
<1>1. Init => TypeOK
  <2> SUFFICES ASSUME Init PROVE TypeOK
    OBVIOUS
  <2>1. call \in Calls /\ call \in CallType /\ call.low \in Words /\ 0 \in Words
    BY CallsAssumption, CallTyped, WordAssumption DEF Init, Words
  <2> QED BY <2>1, CountTyped DEF Init, TypeOK
<1>2. LoopInv /\ TypeOK /\ [Next]_vars => TypeOK'
  <2> SUFFICES ASSUME LoopInv, TypeOK, [Next]_vars PROVE TypeOK'
    OBVIOUS
  <2>1. call \in Calls /\ call.low \in Words /\ call.high \in Words
    BY CallTyped DEF LoopInv
  <2>2. CASE Enter
    <3>1. CutToRange(call, n) = Wanted(call)
      BY <2>2 DEF Enter, LoopInv, Wanted
    <3>2. Wanted(call) \in Words
      BY <2>1, CountTyped
    <3> QED BY <2>1, <2>2, <3>1, <3>2, MinusIs DEF Enter, TypeOK
  <2>3. CASE GiveUp \/ RunOut
    BY <2>3 DEF GiveUp, RunOut, Return, TypeOK
  <2>4. CASE Hit \/ Miss
    <3>1. /\ i < call.high /\ call.low <= i /\ i \in Nat /\ index = i - call.low
          /\ hits \in Nat /\ hits <= index
      BY <2>4 DEF Hit, Miss, LoopInv
    <3>2. i + 1 \in Words /\ index + 1 \in Words /\ hits + 1 \in Words
      BY <2>1, <3>1, WordAssumption DEF Words
    <3> QED BY <2>4, <3>2 DEF Hit, Miss, Return, TypeOK
  <2>5. CASE UNCHANGED vars
    BY <2>5 DEF vars, TypeOK
  <2> QED BY <2>2, <2>3, <2>4, <2>5 DEF Next
<1> QED BY <1>1, <1>2, InitLoop, NextLoop, PTL DEF Spec

(***************************************************************************)
(* A literal count over a set asks for at least that many items, for all   *)
(* of them when it is above their number, and for one when it is 0, for    *)
(* every word size and set (codegen.hpp:134-135).                          *)
(***************************************************************************)
THEOREM LiteralsAreCut == Spec => []LiteralIsCut
<1>1. LoopInv => LiteralIsCut
  <2> SUFFICES ASSUME LoopInv, pc = "done", call.over = "set", call.quantifier = "literal",
                      call.high > 0
               PROVE  result = IF call.value = 0 THEN All(call) # {}
                               ELSE Cardinality(All(call)) >= call.value \/ All(call) = Items(call)
    BY DEF LiteralIsCut, All
  <2>1. /\ call \in Calls /\ call.low = 0 /\ call.high \in Nat /\ call.value \in Nat
    BY CallTyped, CallsAssumption, WordAssumption DEF LoopInv, Words
  <2>2. Wanted(call) = Greatest(1, Least(call.high, call.value))
    BY DEF Wanted, CutToRange, Count, TotalCount
  <2>3. result = (Wanted(call) # 0 /\ Cardinality(All(call)) >= Wanted(call))
    BY DEF LoopInv, ResultExact, Wanted, All
  <2>4. IsFiniteSet(All(call)) /\ Cardinality(All(call)) \in Nat
    BY <2>1, HeldIs
  <2>5. Cardinality(Items(call)) = call.high
        /\ (Cardinality(All(call)) >= Cardinality(Items(call)) <=> All(call) = Items(call))
    <3>1. call.low <= call.high /\ call.high - call.low = call.high
      BY <2>1
    <3>2. All(call) \in SUBSET Items(call)
      BY DEF All
    <3> QED BY <2>1, <3>1, <3>2, ItemsAre
  <2>6. CASE call.value = 0
    <3>1. Wanted(call) = 1
      BY <2>1, <2>2, <2>6 DEF Greatest, Least
    <3>2. Cardinality(All(call)) = 0 <=> All(call) = {}
      BY <2>4, FS_EmptySet
    <3> QED BY <2>3, <2>4, <2>6, <3>1, <3>2
  <2>7. CASE call.value # 0
    <3>1. Wanted(call) = Least(call.high, call.value) /\ Wanted(call) # 0
      BY <2>1, <2>2, <2>7 DEF Greatest, Least
    <3>2. Cardinality(All(call)) >= Wanted(call)
            <=> Cardinality(All(call)) >= call.value \/ Cardinality(All(call)) >= call.high
      BY <2>1, <2>4, <3>1 DEF Least
    <3> QED BY <2>3, <2>5, <2>7, <3>1, <3>2
  <2> QED BY <2>6, <2>7
<1> QED BY <1>1, InitLoop, NextLoop, PTL DEF Spec

\* From k to m there can be no more held items than items.
LEMMA HeldBetween ==
  ASSUME NEW c \in Calls, NEW k \in Nat, NEW m \in Nat, k <= m
  PROVE  /\ Cardinality(Held(c, k)) <= Cardinality(Held(c, m))
         /\ Cardinality(Held(c, m)) <= Cardinality(Held(c, k)) + (m - k)
<1> DEFINE Rest == {j \in All(c) : k <= j /\ j < m}
<1>1. \A j \in Items(c) : j \in Nat
  BY WordAssumption DEF Items, Words
<1>2. /\ IsFiniteSet(Held(c, k)) /\ Cardinality(Held(c, k)) \in Nat
      /\ IsFiniteSet(Held(c, m)) /\ Cardinality(Held(c, m)) \in Nat
  BY HeldIs
<1>3. Held(c, k) \subseteq Held(c, m)
  BY <1>1 DEF Held
<1>4. Cardinality(Held(c, k)) <= Cardinality(Held(c, m))
  BY <1>2, <1>3, FS_Subset
<1>5. Held(c, m) = Held(c, k) \cup Rest /\ Held(c, k) \cap Rest = {}
  BY <1>1 DEF Held, All
<1>6. IsFiniteSet(k .. m - 1) /\ Cardinality(k .. m - 1) = m - k
  <2>1. k \in Int /\ m - 1 \in Int /\ (m - 1) - k + 1 = m - k
    OBVIOUS
  <2>2. CASE k > m - 1
    <3>1. Cardinality(k .. m - 1) = 0 /\ IsFiniteSet(k .. m - 1)
      BY <2>1, <2>2, FS_Interval
    <3>2. m - k = 0
      BY <2>2
    <3> QED BY <3>1, <3>2
  <2>3. CASE ~(k > m - 1)
    BY <2>1, <2>3, FS_Interval
  <2> QED BY <2>2, <2>3
<1>7. Rest \subseteq k .. m - 1
  BY <1>1 DEF All
<1>8. IsFiniteSet(Rest) /\ Cardinality(Rest) <= m - k
  BY <1>6, <1>7, FS_Subset
<1>9. Cardinality(Held(c, m)) = Cardinality(Held(c, k)) + Cardinality(Rest)
  <2>1. Cardinality(Held(c, k) \cup Rest)
          = Cardinality(Held(c, k)) + Cardinality(Rest) - Cardinality(Held(c, k) \cap Rest)
    BY <1>2, <1>8, FS_Union
  <2>2. Cardinality(Held(c, k) \cap Rest) = 0 /\ Cardinality(Rest) \in Nat
    BY <1>5, <1>8, FS_EmptySet, FS_CardinalityType
  <2> QED BY <1>2, <1>5, <2>1, <2>2
<1>10. Cardinality(Rest) \in Nat
  BY <1>8, FS_CardinalityType
<1> QED BY <1>2, <1>4, <1>8, <1>9, <1>10

\* n is reachable: neither 0 nor more than the items.
Reachable == Wanted(call) \in 1 .. Cardinality(Items(call))

\* What LoopInv says of a loop that is at an item; the loop gives up exactly
\* when n is reachable and the answer is no longer open.
LEMMA AtItem ==
  ASSUME LoopInv, pc = "loop", i < call.high
  PROVE  /\ call \in Calls /\ i \in Items(call) /\ i \in Nat /\ call.high \in Nat
         /\ Cardinality(Items(call)) = call.high - call.low
         /\ hits = Cardinality(Held(call, i)) /\ hits \in Nat /\ hits <= i - call.low
         /\ n = Wanted(call) /\ n \in Nat /\ (n = 0 \/ hits < n)
         /\ Hopeless <=> Reachable /\ ~OpenAt(call, i)
<1>1. /\ call \in Calls /\ call.low \in Words /\ call.high \in Words /\ n \in Words
      /\ call.low <= i /\ i \in Nat /\ index = i - call.low
      /\ hits = Cardinality(Held(call, i)) /\ hits \in Nat /\ hits <= index
      /\ (n = 0 \/ hits < n) /\ n = Wanted(call)
      /\ tolerance = Minus(Minus(call.high, call.low), n)
  BY CallTyped, CountTyped DEF LoopInv
<1>2. /\ call.low <= call.high /\ index \in Words /\ hits \in Words /\ i \in Items(call)
      /\ call.high \in Nat /\ call.low \in Nat /\ n \in Nat /\ n < WordSize
  BY <1>1, WordAssumption DEF Words, Items
<1>3. Cardinality(Items(call)) = call.high - call.low
  BY <1>1, <1>2, ItemsAre
<1>4. /\ Minus(index, hits) = index - hits
      /\ Minus(call.high, call.low) = call.high - call.low /\ call.high - call.low \in Words
  BY <1>1, <1>2, MinusIs
<1>5. Reachable <=> n # 0 /\ n <= call.high - call.low
  BY <1>1, <1>2, <1>3 DEF Reachable
<1>6. OpenAt(call, i) <=> hits < n /\ hits + (call.high - i) >= n
  BY <1>1 DEF OpenAt
<1>7. CASE n <= call.high - call.low
  <2>1. tolerance = (call.high - call.low) - n
    BY <1>1, <1>4, <1>7, MinusIs
  <2>2. Hopeless <=> index - hits > (call.high - call.low) - n
    BY <1>4, <2>1 DEF Hopeless
  <2> QED BY <1>1, <1>2, <1>3, <1>5, <1>6, <1>7, <2>2
<1>8. CASE ~(n <= call.high - call.low)
  <2>1. tolerance = ((call.high - call.low) + WordSize) - n
    BY <1>1, <1>2, <1>4, <1>8 DEF Minus
  <2>2. ~Hopeless
    BY <1>1, <1>2, <1>4, <2>1, WordAssumption DEF Hopeless
  <2> QED BY <1>1, <1>2, <1>3, <1>5, <1>8, <2>2
<1> QED BY <1>7, <1>8

(***************************************************************************)
(* The answer was open at every item the loop has passed.                  *)
(***************************************************************************)
OpenInv ==
  /\ pc = "loop" /\ Reachable => \A k \in Items(call) : k < i => OpenAt(call, k)
  /\ EvaluatedWhileOpen

LEMMA InitOpen == Init => OpenInv
  BY DEF Init, OpenInv, EvaluatedWhileOpen

\* An answer that n held items have decided stays decided.
LEMMA ReachedCloses ==
  ASSUME LoopInv, NEW m \in Nat, NEW k \in Nat, m <= k,
         Cardinality(Held(call, m)) >= Wanted(call)
  PROVE  ~OpenAt(call, k)
<1>1. call \in Calls /\ Wanted(call) \in Nat
  BY CountTyped, WordAssumption DEF LoopInv, Words
<1>2. Cardinality(Held(call, m)) <= Cardinality(Held(call, k))
      /\ Cardinality(Held(call, m)) \in Nat /\ Cardinality(Held(call, k)) \in Nat
  BY <1>1, HeldBetween, HeldIs
<1> QED BY <1>1, <1>2 DEF OpenAt

\* So does one that the items left cannot reach any more.
LEMMA HopelessCloses ==
  ASSUME LoopInv, NEW m \in Nat, NEW k \in Nat, m <= k,
         Cardinality(Held(call, m)) + (call.high - m) < Wanted(call)
  PROVE  ~OpenAt(call, k)
<1>1. call \in Calls /\ Wanted(call) \in Nat /\ call.high \in Nat
  BY CountTyped, CallTyped, WordAssumption DEF LoopInv, Words
<1>2. Cardinality(Held(call, k)) <= Cardinality(Held(call, m)) + (k - m)
      /\ Cardinality(Held(call, m)) \in Nat /\ Cardinality(Held(call, k)) \in Nat
  BY <1>1, HeldBetween, HeldIs
<1> QED BY <1>1, <1>2 DEF OpenAt

LEMMA HitOpen == ASSUME LoopInv, OpenInv, Hit PROVE OpenInv'
<1>1. /\ call \in Calls /\ i \in Items(call) /\ i \in Nat /\ call.high \in Nat
      /\ Cardinality(Items(call)) = call.high - call.low
      /\ hits = Cardinality(Held(call, i)) /\ hits \in Nat /\ hits <= i - call.low
      /\ n = Wanted(call) /\ n \in Nat
      /\ Reachable => OpenAt(call, i)
  BY AtItem DEF Hit
<1>2. /\ call' = call /\ n' = n /\ i \in call.holds
      /\ \A k \in Items(call) : k \in Nat
      /\ call.low \in Nat /\ i < call.high
  BY <1>1, CallTyped, WordAssumption DEF Hit, Items, Words
<1>3. Reachable' <=> Reachable
  BY <1>2 DEF Reachable
<1>4. \A k \in Items(call) : k < i + 1 /\ Reachable => OpenAt(call, k)
  <2>1. \A k \in Nat : k < i + 1 <=> k < i \/ k = i
    BY <1>1
  <2>2. \A k \in Items(call) : k < i + 1 <=> k < i \/ k = i
    BY <1>2, <2>1
  <2> QED BY <1>1, <2>2 DEF OpenInv, Hit
<1>5. CASE hits + 1 = n /\ Return(TRUE) /\ UNCHANGED <<i, index>>
  <2>1. Cardinality(Held(call, i + 1)) = n
    BY <1>1, <1>2, <1>5, HeldStep
  <2>2. Reachable
    BY <1>1, <1>2, <1>5 DEF Reachable
  <2>3. ASSUME NEW k \in Items(call), ~(k < i \/ k = i) PROVE ~OpenAt(call, k)
    <3>1. i + 1 \in Nat /\ k \in Nat /\ i + 1 <= k
      <4>1. i \in Nat /\ k \in Nat
        BY <1>1, <1>2
      <4> QED BY <2>3, <4>1
    <3> QED BY <1>1, <2>1, <3>1, ReachedCloses
  <2>4. {k \in Items(call) : k < i \/ k = i} = {k \in Items(call) : OpenAt(call, k)}
    <3>1. \A k \in Items(call) : k < i \/ k = i => k < i + 1
      BY <1>1, <1>2
    <3> QED BY <1>4, <2>2, <2>3, <3>1
  <2>5. Evaluated' = {k \in Items(call) : OpenAt(call, k)}
    BY <1>2, <1>5, <2>4, Zenon DEF Evaluated, Return
  <2>6. EvaluatedWhileOpen'
    BY <1>2, <1>3, <2>2, <2>5 DEF EvaluatedWhileOpen, Reachable
  <2> QED BY <1>5, <2>6 DEF OpenInv, Return
<1>6. CASE hits + 1 # n /\ i' = i + 1 /\ index' = index + 1 /\ UNCHANGED <<pc, result>>
  <2>1. EvaluatedWhileOpen'
    BY <1>6 DEF Hit, EvaluatedWhileOpen
  <2> QED BY <1>2, <1>3, <1>4, <1>6, <2>1 DEF OpenInv
<1> QED BY <1>5, <1>6 DEF Hit

LEMMA MissOpen == ASSUME LoopInv, OpenInv, Miss PROVE OpenInv'
<1>1. /\ call \in Calls /\ i \in Items(call) /\ i \in Nat
      /\ Reachable => OpenAt(call, i)
  BY AtItem DEF Miss
<1>2. call' = call /\ i' = i + 1 /\ pc' = "loop" /\ pc = "loop" /\ \A k \in Items(call) : k \in Nat
  BY WordAssumption DEF Miss, Items, Words
<1>3. Reachable' <=> Reachable
  BY <1>2 DEF Reachable
<1>4. \A k \in Items(call) : k < i + 1 <=> k < i \/ k = i
  BY <1>1, <1>2
<1> QED BY <1>1, <1>2, <1>3, <1>4 DEF OpenInv, EvaluatedWhileOpen

LEMMA GiveUpOpen == ASSUME LoopInv, OpenInv, GiveUp PROVE OpenInv'
<1>1. /\ call \in Calls /\ i \in Items(call) /\ i \in Nat /\ call.high \in Nat
      /\ hits = Cardinality(Held(call, i)) /\ hits \in Nat
      /\ n = Wanted(call) /\ n \in Nat /\ (n = 0 \/ hits < n)
      /\ Reachable /\ ~OpenAt(call, i)
  BY AtItem DEF GiveUp
<1>2. /\ call' = call /\ i' = i /\ pc' = "done" /\ pc = "loop" /\ result' = FALSE
      /\ \A k \in Items(call) : k \in Nat
  BY WordAssumption DEF GiveUp, Return, Items, Words
<1>3. Cardinality(Held(call, i)) + (call.high - i) < Wanted(call)
  <2>1. n # 0 /\ Cardinality(Held(call, i)) < Wanted(call)
    <3>1. n # 0
      <4>1. \A m : Wanted(call) \in 1 .. m => Wanted(call) # 0
        OBVIOUS
      <4> QED BY <1>1, <4>1 DEF Reachable
    <3> QED BY <1>1, <3>1
  <2> QED BY <1>1, <2>1 DEF OpenAt
<1>4. ASSUME NEW k \in Items(call), ~(k < i) PROVE ~OpenAt(call, k)
  <2>1. k \in Nat /\ i <= k
    BY <1>1, <1>2, <1>4
  <2> QED BY <1>1, <1>3, <2>1, HopelessCloses
<1>5. {k \in Items(call) : k < i} = {k \in Items(call) : OpenAt(call, k)}
  BY <1>1, <1>2, <1>4 DEF OpenInv
<1>6. Evaluated' = {k \in Items(call) : k < i}
  BY <1>2 DEF Evaluated
<1>7. EvaluatedWhileOpen'
  BY <1>1, <1>2, <1>5, <1>6 DEF EvaluatedWhileOpen, Reachable
<1> QED BY <1>2, <1>7 DEF OpenInv

LEMMA RunOutOpen == ASSUME LoopInv, OpenInv, RunOut PROVE OpenInv'
<1>1. /\ call' = call /\ i' = i /\ pc' = "done" /\ pc = "loop" /\ result' = FALSE
      /\ i \in Nat /\ call.high \in Nat /\ i >= call.high
      /\ \A k \in Items(call) : k \in Nat /\ k < call.high
  BY CallTyped, WordAssumption DEF RunOut, Return, LoopInv, Items, Words
<1>2. \A k \in Items(call) : k < i
  BY <1>1
<1>3. Evaluated' = Items(call)
  <2>1. Evaluated' = {k \in Items(call) : k < i}
    BY <1>1 DEF Evaluated
  <2> QED BY <1>2, <2>1
<1>4. Reachable => {k \in Items(call) : OpenAt(call, k)} = Items(call)
  BY <1>1, <1>2 DEF OpenInv
<1>5. EvaluatedWhileOpen'
  BY <1>1, <1>3, <1>4 DEF EvaluatedWhileOpen, Reachable
<1> QED BY <1>1, <1>5 DEF OpenInv

LEMMA NextOpen == LoopInv /\ OpenInv /\ [Next]_vars => OpenInv'
<1> SUFFICES ASSUME LoopInv, OpenInv, [Next]_vars PROVE OpenInv'
  OBVIOUS
<1>1. CASE Enter
  <2>1. /\ call' = call /\ i' = call.low /\ pc' = "loop"
        /\ call.low \in Nat /\ \A k \in Items(call) : k \in Nat /\ call.low <= k
    BY <1>1, CallTyped, WordAssumption DEF Enter, LoopInv, Items, Words
  <2> QED BY <2>1 DEF OpenInv, EvaluatedWhileOpen
<1>2. CASE UNCHANGED vars
  BY <1>2 DEF vars, OpenInv, EvaluatedWhileOpen, Evaluated, Reachable
<1> QED BY <1>1, <1>2, HitOpen, MissOpen, GiveUpOpen, RunOutOpen DEF Next

(***************************************************************************)
(* For every word size, number of items and count, the bodies a loop has   *)
(* evaluated when it returns are those of the items at which its answer is *)
(* open, and all of them where n is 0 or above the number of items, so     *)
(* that tolerance wraps around (ruleset.yar.cpp:133-201): its two early    *)
(* exits spare every body they can, and no other.                          *)
(***************************************************************************)
THEOREM EvaluatedOnlyWhileOpen == Spec => []EvaluatedWhileOpen
<1>1. OpenInv => EvaluatedWhileOpen
  BY DEF OpenInv
<1> QED BY <1>1, InitLoop, NextLoop, InitOpen, NextOpen, PTL DEF Spec
-----------------------------------------------------------------------------
\* The steps a loop has left at most: one for each item it has not passed, one
\* to run out of them, and one to enter.
StepsLeft ==
  LET itemsLeft == IF i < call.high THEN call.high - i ELSE 0
  IN  CASE pc = "enter" -> itemsLeft + 2
        [] pc = "loop" -> itemsLeft + 1
        [] pc = "done" -> 0

(***************************************************************************)
(* Every step of a loop brings it nearer to its end: a loop over k items   *)
(* takes k + 2 steps at most, whatever the bodies are and whether or not   *)
(* tolerance wrapped (ruleset.yar.cpp:132-149).  What LoopEnds adds is     *)
(* that a loop which has not ended can take a step, and does.              *)
(***************************************************************************)
THEOREM LoopAdvances ==
  Spec => [][/\ StepsLeft \in Nat /\ StepsLeft' \in Nat
             /\ StepsLeft' < StepsLeft]_vars
<1> DEFINE Nearer == /\ StepsLeft \in Nat /\ StepsLeft' \in Nat
                     /\ StepsLeft' < StepsLeft
<1>1. LoopInv /\ [Next]_vars => [Nearer]_vars
  <2> SUFFICES ASSUME LoopInv, Next PROVE Nearer
    OBVIOUS
  <2>1. i \in Nat /\ call.high \in Nat
    BY CallTyped, WordAssumption DEF LoopInv, Words
  <2>2. CASE Enter
    BY <2>1, <2>2 DEF Enter, StepsLeft
  <2>3. CASE GiveUp
    BY <2>1, <2>3 DEF GiveUp, Return, StepsLeft
  <2>4. CASE Hit
    <3>1. CASE Return(TRUE) /\ UNCHANGED <<i, index>>
      BY <2>1, <2>4, <3>1 DEF Hit, Return, StepsLeft
    <3>2. CASE i' = i + 1 /\ index' = index + 1 /\ UNCHANGED <<pc, result>>
      BY <2>1, <2>4, <3>2 DEF Hit, StepsLeft
    <3> QED BY <2>4, <3>1, <3>2 DEF Hit
  <2>5. CASE Miss
    BY <2>1, <2>5 DEF Miss, StepsLeft
  <2>6. CASE RunOut
    BY <2>1, <2>6 DEF RunOut, Return, StepsLeft
  <2> QED BY <2>2, <2>3, <2>4, <2>5, <2>6 DEF Next
<1> QED BY <1>1, InitLoop, NextLoop, PTL DEF Spec
-----------------------------------------------------------------------------
Widths == {1, 2, 4}
Orders == {"le", "be"}

\* The bytes of a read, the least significant one first.
BytesAt(data, offset, width, order) ==
  [k \in 1 .. width |-> data[offset + (IF order = "be" THEN width + 1 - k ELSE k)]]

\* What the scan of a rule has is smaller than the address space.
LEMMA Sizes ==
  ASSUME NEW r \in Rules
  PROVE  /\ r.data \in Seq(0 .. ByteSize - 1)
         /\ Len(r.data) + 4 <= WordSize
         /\ Len(r.data) < Undefined
  BY RulesAssumption, SizesAssumption DEF FoundType

\* offset + sizeof(T) > data_size is enough to refuse a read beyond the end, for
\* the sum wraps around only where offset >= data_size refuses it.
LEMMA ReadableIsInside ==
  ASSUME NEW size \in Nat, size + 4 <= WordSize, NEW offset \in Words, NEW width \in Widths
  PROVE  Readable(size, offset, width) <=> offset + width <= size
<1>. offset \in Nat /\ width \in 1 .. 4 /\ WordSize \in Nat \ {0}
  BY WordAssumption DEF Words, Widths
<1>1. CASE offset < size
  <2>1. offset + width \in 0 .. WordSize - 1
    BY <1>1
  <2>2. Plus(offset, width) = offset + width
    BY <2>1 DEF Plus
  <2> QED BY <1>1, <2>2 DEF Readable
<1>2. CASE ~(offset < size)
  BY <1>2 DEF Readable
<1> QED BY <1>1, <1>2

\* The bytes that are loaded, in either order, are those at the offset.
LEMMA ConvertedBytes ==
  ASSUME NEW S, NEW data \in Seq(S), NEW offset \in Nat, NEW width \in Widths,
         offset + width <= Len(data), NEW order \in Orders
  PROVE  Converted(SubSeq(data, offset + 1, offset + width), order)
           = BytesAt(data, offset, width, order)
<1>. DEFINE bytes == SubSeq(data, offset + 1, offset + width)
<1>. width \in 1 .. 4
  BY DEF Widths
<1>1. /\ bytes \in Seq(S)
      /\ Len(bytes) = width
      /\ \A k \in 1 .. width : bytes[k] = data[offset + k]
  <2>1. \A k \in offset + 1 .. offset + width : data[k] \in S
    OBVIOUS
  <2>2. /\ bytes \in Seq(S)
        /\ Len(bytes) = IF offset + 1 <= offset + width THEN offset + width - (offset + 1) + 1 ELSE 0
        /\ \A k \in 1 .. offset + width - (offset + 1) + 1 : bytes[k] = data[offset + 1 + k - 1]
    BY <2>1, SubSeqProperties
  <2> QED BY <2>2
<1>2. bytes = [k \in 1 .. width |-> data[offset + k]]
  BY <1>1
<1>3. CASE order = "be"
  <2>1. Reverse(bytes) = [k \in 1 .. width |-> bytes[width - k + 1]]
    BY <1>1 DEF Reverse
  <2>2. \A k \in 1 .. width : bytes[width - k + 1] = data[offset + (width + 1 - k)]
    <3> TAKE k \in 1 .. width
    <3>1. width - k + 1 \in 1 .. width /\ width - k + 1 = width + 1 - k
      OBVIOUS
    <3> QED BY <1>1, <3>1
  <2>3. Reverse(bytes) = [k \in 1 .. width |-> data[offset + (width + 1 - k)]]
    BY <2>1, <2>2, Zenon
  <2> QED BY <1>3, <2>3 DEF Converted, BytesAt
<1>4. CASE order = "le"
  BY <1>2, <1>4 DEF Converted, BytesAt
<1> QED BY <1>3, <1>4 DEF Orders

(***************************************************************************)
(* Whatever the offset, also one whose sum with the width wraps around, a  *)
(* read gives the bytes at the offset or UNDEFINED (ReadsExact).           *)
(***************************************************************************)
LEMMA ReadIsExact ==
  ASSUME NEW r \in Rules, NEW offset \in Words, NEW width \in Widths, NEW order \in Orders
  PROVE  ReadData(r.data, offset, width, order) =
           IF offset + width > Len(r.data) THEN Undefined
           ELSE Loaded(BytesAt(r.data, offset, width, order))
<1>. /\ r.data \in Seq(0 .. ByteSize - 1) /\ Len(r.data) \in Nat
     /\ offset \in Nat /\ width \in Nat
  BY Sizes, WordAssumption DEF Words, Widths
<1>1. Readable(Len(r.data), offset, width) <=> offset + width <= Len(r.data)
  BY Sizes, ReadableIsInside
<1>2. CASE offset + width <= Len(r.data)
  <2>1. Converted(SubSeq(r.data, offset + 1, offset + width), order)
          = BytesAt(r.data, offset, width, order)
    BY <1>2, ConvertedBytes
  <2>2. ~(offset + width > Len(r.data))
    BY <1>2
  <2> QED BY <1>1, <1>2, <2>1, <2>2, Zenon DEF ReadData
<1>3. CASE ~(offset + width <= Len(r.data))
  <2>1. offset + width > Len(r.data)
    BY <1>3
  <2> QED BY <1>1, <1>3, <2>1, Zenon DEF ReadData
<1> QED BY <1>2, <1>3

THEOREM ReadsAreExact == rule \in Rules \cup {NoRule} => ReadsExact
<1> SUFFICES ASSUME rule \in Rules,
                    NEW offset \in Words, NEW width \in {1, 2, 4}, NEW order \in {"le", "be"}
             PROVE  ReadData(rule.data, offset, width, order) =
                      IF offset + width > Len(rule.data) THEN Undefined
                      ELSE Loaded([k \in 1 .. width |->
                             rule.data[offset + (IF order = "be" THEN width + 1 - k ELSE k)]])
  BY Zenon DEF ReadsExact
<1> QED BY ReadIsExact, Zenon DEF Widths, Orders, BytesAt
-----------------------------------------------------------------------------
\* An index lowered by one selects the entry it counts from 1, if there is one:
\* 0 becomes the largest word, which is no index of any vector.
LEMMA LoweredIndex ==
  ASSUME NEW found, Len(found) \in Nat, Len(found) < Undefined, NEW place \in Words
  PROVE  /\ place \in 1 .. Len(found) => Minus(place, 1) < Len(found) /\ Minus(place, 1) + 1 = place
         /\ place \notin 1 .. Len(found) => ~(Minus(place, 1) < Len(found))
<1>. place \in Nat /\ place < WordSize /\ WordSize \in Nat \ {0, 1} /\ Undefined \in 0 .. WordSize - 1
  BY WordAssumption, SizesAssumption DEF Words
<1>1. CASE place = 0
  BY <1>1 DEF Minus
<1>2. CASE place # 0
  BY <1>2 DEF Minus
<1> QED BY <1>1, <1>2

(***************************************************************************)
(* @s[i] and !s[i] are of the i-th occurrence for every number of          *)
(* occurrences, and UNDEFINED for every other i (EntriesExact).            *)
(***************************************************************************)
LEMMA EntryIsExact ==
  ASSUME NEW r \in Rules, NEW id \in 0 .. Len(r.matches) - 1, NEW place \in Words
  PROVE  LET found == Occurrences(r, id)
             there == place \in 1 .. Len(found)
         IN  /\ Entry(Offsets(r, id), Minus(place, 1)) = IF there THEN found[place].offset ELSE Undefined
             /\ Entry(Lengths(r, id), Minus(place, 1)) = IF there THEN found[place].length ELSE Undefined
<1>. DEFINE found == Occurrences(r, id)
<1>1. /\ found \in Seq([offset : Words, length : Words])
      /\ Len(found) < Undefined
  <2>1. r.matches \in Seq(Seq([offset : Words, length : Words]))
    BY RulesAssumption DEF FoundType
  <2>2. id + 1 \in DOMAIN r.matches
    BY <2>1
  <2>3. found \in Seq([offset : Words, length : Words])
    BY <2>1, <2>2 DEF Occurrences
  <2> QED BY <2>2, <2>3, SizesAssumption DEF Occurrences
<1>2. DOMAIN found = 1 .. Len(found) /\ Len(found) \in Nat
  BY <1>1
<1>3. Len(Offsets(r, id)) = Len(found) /\ Len(Lengths(r, id)) = Len(found)
  BY <1>2 DEF Offsets, Lengths
<1>4. CASE place \in 1 .. Len(found)
  <2>1. Minus(place, 1) < Len(found) /\ Minus(place, 1) + 1 = place
    BY <1>1, <1>2, <1>4, LoweredIndex
  <2>2. Offsets(r, id)[place] = found[place].offset /\ Lengths(r, id)[place] = found[place].length
    BY <1>2, <1>4 DEF Offsets, Lengths
  <2> QED BY <1>3, <1>4, <2>1, <2>2 DEF Entry
<1>5. CASE place \notin 1 .. Len(found)
  <2>1. ~(Minus(place, 1) < Len(found))
    BY <1>1, <1>2, <1>5, LoweredIndex
  <2> QED BY <1>3, <1>5, <2>1 DEF Entry
<1> QED BY <1>4, <1>5

THEOREM EntriesAreExact == rule \in Rules \cup {NoRule} => EntriesExact
  BY EntryIsExact, Zenon DEF EntriesExact
-----------------------------------------------------------------------------
\* Asked to be equal to, or below, a number below UNDEFINED, UNDEFINED is not.
LEMMA UndefinedIsLarge ==
  ASSUME NEW op \in {"==", "<", "<="}, NEW v \in Nat, v < Undefined
  PROVE  Compare(op, Undefined, v) = 0
<1>. Undefined \in Nat
  BY SizesAssumption, WordAssumption DEF Words
<1>1. Bool(Undefined = v) = 0 /\ Bool(Undefined < v) = 0 /\ Bool(Undefined <= v) = 0
  BY DEF Bool
<1> QED BY <1>1 DEF Compare
=============================================================================
