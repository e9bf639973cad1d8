--------------------------- MODULE MCQuantifiedLoop ---------------------------
(***************************************************************************)
(* Quantified expressions over up to seven items, at the bottom and at the *)
(* top of a word of 8 or 16 values, so that counts above the number of     *)
(* items and differences below zero occur.                                 *)
(***************************************************************************)
EXTENDS QuantifiedLoop

Quantifiers ==
  {<<q, 0>> : q \in {"any", "all", "other"}} \cup {<<"literal", v>> : v \in 0 .. 6}
CallsOver(over, lows, highs, qs) ==
  UNION {{[over |-> over, low |-> l, high |-> h, holds |-> t,
           quantifier |-> q[1], value |-> q[2]] :
          t \in SUBSET {k \in Words : l <= k /\ k < h}, q \in qs} : l \in lows, h \in highs}

SetCalls == CallsOver("set", {0}, 0 .. 4, Quantifiers)
RangeCalls == CallsOver("range", 0 .. 4, {0, 1, 2, 3, 4, 7}, Quantifiers)
                \cup CallsOver("range", {WordSize - 4}, {WordSize - 1}, Quantifiers)
AnyCalls == SetCalls \cup RangeCalls
AllRanges == CallsOver("range", 0 .. 2, 0 .. 4, {<<"all", 0>>})
=============================================================================
