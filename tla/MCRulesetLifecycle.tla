-------------------------- MODULE MCRulesetLifecycle --------------------------
(***************************************************************************)
(* Two paths, a compiled ruleset and another shared object, and a second   *)
(* compiled ruleset where the client's objects use several files.          *)
(***************************************************************************)
EXTENDS RulesetLifecycle, TLC

CONSTANTS f1, f2, lib, o1, o2, w1, w2, s1, s2

\* Clients that keep to scoped use, one of which calls initialize() as well, one
\* that is careless with scanners, one with Rulesets, and one that does all the
\* classes allow.
AnyClient ==
  {{}, {"initialize"}, {"copy", "outlive", "initialize"},
   {"move", "share", "initialize", "finalize"}, AllUses}

\* No operation tells two files of a kind, objects, wrappers or scanners apart.
Alike ==
  Permutations({f1, f2}) \cup Permutations({o1, o2}) \cup Permutations({w1, w2})
    \cup Permutations({s1, s2})

MCKind == [f \in Files |-> IF f = lib THEN "other" ELSE "ruleset"]
=============================================================================
