---------------------------- MODULE MCScanRuntime ----------------------------
(***************************************************************************)
(* Instances of ScanRuntime: a ruleset of three rules in which a private   *)
(* rule feeds a public one, and the requests that tell its paths apart.    *)
(***************************************************************************)
EXTENDS ScanRuntime, FiniteSets

CONSTANTS lit, rgx, mtx, big

Leaf(kind, sign, arg) == [kind |-> kind, sign |-> sign, arg |-> arg]

\* rule one { $lit and filesize > N }
\* private rule two { cuckoo.sync.mutex(mtx) or $rgx }
\* rule three { two and not one }
MCCondition ==
  << [op |-> "and", leaves |-> <<Leaf("string", "plain", lit), Leaf("data", "plain", big)>>],
     [op |-> "or", leaves |-> <<Leaf("mutex", "plain", mtx), Leaf("string", "plain", rgx)>>],
     [op |-> "and", leaves |-> <<Leaf("rule", "plain", 2), Leaf("rule", "not", 1)>>] >>

\* The same rules when no rule calls cuckoo.sync.mutex.
NoMutexCondition ==
  [MCCondition EXCEPT ![2].leaves = <<Leaf("string", "plain", rgx)>>]

\* rule one { filesize > N }
\* private rule two { cuckoo.sync.mutex(mtx) or filesize <= N }
\* rule three { two and not one }
StringlessCondition ==
  << [op |-> "and", leaves |-> <<Leaf("data", "plain", big)>>],
     [op |-> "or", leaves |-> <<Leaf("mutex", "plain", mtx), Leaf("data", "not", big)>>],
     [op |-> "and", leaves |-> <<Leaf("rule", "plain", 2), Leaf("rule", "not", 1)>>] >>

\* A call whose empty buffer is that of an empty std::vector.
Request(size, literal, regex, cuckoo, mutex, facts) ==
  [data |-> IF size = 0 THEN "null" ELSE "buffer",
   size |-> size, literal |-> literal, regex |-> regex,
   cuckoo |-> cuckoo, mutex |-> mutex, facts |-> facts]

Lit(end) == [id |-> lit, end |-> end]
Rgx(end) == [id |-> rgx, end |-> end]

HitsOne == Request(3, {Lit(1), Lit(3)}, {}, "none", {}, {big})
HitsThree == Request(2, {}, {Rgx(2)}, "none", {}, {})
HitsBoth == Request(3, {Lit(2)}, {Rgx(3)}, "none", {}, {big})
MutexOnly == Request(2, {Lit(2)}, {}, "wellformed", {mtx}, {})
NoHits == Request(1, {}, {}, "none", {}, {})

SequentialRequests ==
  {HitsOne, HitsThree, HitsBoth, MutexOnly, NoHits,
   Request(0, {}, {}, "none", {}, {}),
   Request(2, {Lit(1)}, {}, "unreadable", {}, {}),
   Request(3, {Lit(1)}, {Rgx(2)}, "malformed", {}, {big})}
CuckooRequests == {HitsThree, Request(2, {Lit(2)}, {Rgx(1)}, "wellformed", {}, {})}
StringlessRequests ==
  {Request(2, {}, {}, "none", {}, {big}), Request(2, {}, {}, "wellformed", {mtx}, {})}

\* The least fixed point of the conditions, rule by rule.
VerdictOf(q, cond) ==
  LET holds(leaf, earlier) ==
        (leaf.sign = "plain") <=>
           \/ leaf.kind = "string" /\ \E e \in q.literal \cup q.regex : e.id = leaf.arg
           \/ leaf.kind = "mutex" /\ q.cuckoo = "wellformed" /\ leaf.arg \in q.mutex
           \/ leaf.kind = "data" /\ leaf.arg \in q.facts
           \/ leaf.kind = "rule" /\ leaf.arg \in earlier
      upTo[r \in 0 .. Len(cond)] ==
        IF r = 0 THEN {}
        ELSE LET c == cond[r]
                 good == {i \in 1 .. Len(c.leaves) : holds(c.leaves[i], upTo[r - 1])}
             IN  IF good = 1 .. Len(c.leaves) \/ (c.op = "or" /\ good # {})
                   THEN upTo[r - 1] \cup {r} ELSE upTo[r - 1]
  IN  upTo[Len(cond)]

MCVerdict == [q \in Requests |-> VerdictOf(q, Condition)]
=============================================================================
