----------------------------- MODULE MCToolchain -----------------------------
\* Two rulesets of one directory and one of the script's; a file, a Cuckoo
\* report, a directory, and words for nothing.
EXTENDS Toolchain, TLC

CONSTANTS b1, b2, u1, r1, r2, r3, here, scripts, c1, c2, bad

MCDir == [r \in Rulesets |-> IF r = r3 THEN scripts ELSE here]
MCDatabases == [c \in {c1, c2, bad} |->
  CASE c = c1 -> {"literal"} [] c = c2 -> {"regex", "mutex"} [] OTHER -> {}]
MCBinOf == [r \in Rulesets |-> CASE r = r1 -> "r1.bin" [] r = r2 -> "r2.bin" [] OTHER -> "r3.bin"]
MCWords == {"r1.bin", "r2.bin", "r3.bin", "-c", "-t", "4", "report", "sample", "dir"}
MCKind == [w \in MCWords |->
  CASE w \in {"report", "sample"} -> "file" [] w = "dir" -> "directory" [] OTHER -> "missing"]
PlainLines == {<<"r1.bin">>, <<"r1.bin", "sample">>, <<"r1.bin", "dir">>, <<"-t", "4", "r1.bin", "sample">>}
CuckooLines == {<<"r1.bin", "-c", "report", "sample">>}

\* Each use alone, and builds that are stopped while others run.
EachUse == {{}} \cup {{u} : u \in AllUses} \cup {{"overlap", "interrupt"}}
MCMaxBuilds == [p \in Policies |-> IF "overlap" \in p THEN 2 ELSE 3]
MCMaxScans == [p \in Policies |-> IF p \in {{}, {"refused"}} THEN 1 ELSE 0]
SomeBuilder == Permutations(Builders)
=============================================================================
