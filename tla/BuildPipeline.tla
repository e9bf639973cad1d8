---------------------------- MODULE BuildPipeline ----------------------------
(***************************************************************************)
(* scripts/yarangc.sh and the program yarangc it calls: a ruleset file is  *)
(* compiled to rules.def and up to three databases, these are assembled    *)
(* and compiled, and the objects are linked to a .bin.  The steps meet     *)
(* only in files.  Most are named after the ruleset; rules.def is named    *)
(* after nothing but the directory of the ruleset, and is looked for       *)
(* beside ruleset.yar.cpp and in the directory the script is called in,    *)
(* which also gets the object made from it.                                *)
(* No step looks at whether the step before it succeeded.                  *)
(***************************************************************************)
EXTENDS Naturals, FiniteSets

CONSTANTS
  Builders,   \* processes that call yarangc.sh
  Rulesets,   \* the paths they give it
  Dirs,       \* directories
  Dir,        \* the directory of a ruleset
  ScriptDir,  \* the directory of the script and of ruleset.yar.cpp
  Contents,   \* what a ruleset file can hold
  Accepted,   \* the contents yarangc compiles; for the others it stops before it writes
  Databases,  \* the databases yarangc makes of a content
  Policies,   \* what people do besides one careful build at a time, see AllUses
  MaxBuilds,  \* bound on the builds, for each policy
  MaxEdits,   \* bound on the edits of rulesets
  Absent, Partial, Empty

Kinds == {"literal", "regex", "mutex"}

\* What a .bin that is whole has been linked of.
Images == [code : Contents, db : [Kinds -> Contents \cup {Partial, Empty}]]

(***************************************************************************)
(* overlap: builds that share a directory run at the same time; interrupt: *)
(* a build is stopped; elsewhere: the script is not called in the          *)
(* directory of the ruleset; beside: rulesets in the directory of the      *)
(* script; refused: rulesets that yarangc does not compile; uninstalled:   *)
(* yarang can be found, which the script looks for, and yarangc cannot.    *)
(***************************************************************************)
AllUses == {"overlap", "interrupt", "elsewhere", "beside", "refused", "uninstalled"}

ASSUME ContentAssumption == Accepted \subseteq Contents /\ Databases \in [Contents -> SUBSET Kinds]
ASSUME DirAssumption == Dir \in [Rulesets -> Dirs] /\ ScriptDir \in Dirs
ASSUME PolicyAssumption ==
  Policies \subseteq SUBSET AllUses /\ MaxBuilds \in [Policies -> Nat] /\ MaxEdits \in Nat
ASSUME MarkAssumption ==
  Absent # Partial /\ Absent # Empty /\ Partial # Empty
  /\ {Absent, Partial, Empty} \cap (Contents \cup Rulesets) = {} /\ Absent \notin Builders
ASSUME ImageAssumption == {Absent, Partial} \cap Images = {}

VARIABLES
  uses,    \* what people do, the same in every state
  source,  \* what a ruleset file holds
  edits, starts,   \* the number of edits of rulesets
  rules,   \* rules.def of a directory
  db,      \* the .literal.db, .regex.db and .mutex.db of a ruleset
  asm,     \* the .s file of a database: Absent, or whether it embeds the .db
  dbObj,   \* the .o file of a database, Empty when it embeds nothing
  obj,     \* ruleset.yar.cpp.o of a directory
  bin,     \* the .bin of a ruleset
  writer,  \* the build whose linker has made the file there, Absent before one has
  pc, target, cwd,  \* where a build is, its argument and its working directory
  content, \* what yarangc has read
  todo,    \* the files, then the databases, a build has yet to go through
  trouble, \* history: what was not careful about a build
  built    \* history: the content and the trouble of the last build that completed a .bin

world == <<uses, source, edits, starts>>
files == <<rules, db, asm, dbObj, obj, bin, writer, built>>
jobs == <<pc, target, cwd, content, todo, trouble>>
vars == <<world, files, jobs>>

FileStates == Contents \cup {Absent, Partial}
\* The order in which yarangc writes its files, and the script embeds databases.
WriteTurn == [rules |-> 1, regex |-> 2, literal |-> 3, mutex |-> 4]
EmbedTurn == [literal |-> 1, regex |-> 2, mutex |-> 3]

Wanted(c) == c \in Accepted \/ "refused" \in uses

Init ==
  /\ uses \in Policies
  /\ source \in [Rulesets -> Contents] /\ \A r \in Rulesets : Wanted(source[r])
  /\ edits = 0 /\ starts = 0
  /\ rules = [d \in Dirs |-> Absent] /\ obj = [d \in Dirs |-> Absent]
  /\ db = [r \in Rulesets |-> [k \in Kinds |-> Absent]]
  /\ asm = [r \in Rulesets |-> [k \in Kinds |-> Absent]]
  /\ dbObj = [r \in Rulesets |-> [k \in Kinds |-> Absent]]
  /\ bin = [r \in Rulesets |-> Absent] /\ writer = [r \in Rulesets |-> Absent]
  /\ built = [r \in Rulesets |-> Absent]
  /\ pc = [b \in Builders |-> "idle"] /\ target = [b \in Builders |-> Absent]
  /\ cwd = [b \in Builders |-> Absent] /\ content = [b \in Builders |-> Absent]
  /\ todo = [b \in Builders |-> {}] /\ trouble = [b \in Builders |-> {}]
-----------------------------------------------------------------------------
Active(b) == pc[b] # "idle"
Share(b, r, d) == Active(b) /\ {cwd[b], Dir[target[b]]} \cap {d, Dir[r]} # {}

\* yarangc.sh r, called in d.  What the environment lacks apart from yarangc
\* ends the script before it does anything.
Start(b, r, d) ==
  /\ ~Active(b) /\ starts < MaxBuilds[uses]
  /\ starts' = starts + 1
  /\ "overlap" \in uses \/ \A o \in Builders : ~Share(o, r, d)
  /\ "elsewhere" \in uses \/ d = Dir[r]
  /\ "beside" \in uses \/ Dir[r] # ScriptDir
  /\ pc' = [pc EXCEPT ![b] = "compile"] /\ target' = [target EXCEPT ![b] = r]
  /\ cwd' = [cwd EXCEPT ![b] = d]
  /\ trouble' = [o \in Builders |->
       IF o = b THEN (IF \E p \in Builders : Share(p, r, d) THEN {"overlap"} ELSE {})
                     \cup (IF d = Dir[r] THEN {} ELSE {"elsewhere"})
       ELSE IF Share(o, r, d) THEN trouble[o] \cup {"overlap"} ELSE trouble[o]]
  /\ UNCHANGED <<uses, source, edits, content, todo>> /\ UNCHANGED files

\* Mutant: no database of mutexes is saved.
OutputsNoMutex(c) == {"rules"} \cup (Databases[c] \ {"mutex"})

\* The files yarangc writes for a ruleset besides patterns.txt, which nothing
\* reads: databases without patterns are not saved.
Outputs(c) == {"rules"} \cup Databases[c]

\* yarangc compiles the ruleset as it is now; a database it does not make may be
\* there from a build that was interrupted.
Compile(b) ==
  LET r == target[b]
      c == source[r]
  IN  /\ pc[b] = "compile" /\ c \in Accepted
      /\ pc' = [pc EXCEPT ![b] = "open"] /\ content' = [content EXCEPT ![b] = c]
      /\ todo' = [todo EXCEPT ![b] = Outputs(c)]
      /\ trouble' = [trouble EXCEPT ![b] = @ \cup
           (IF \A k \in Kinds \ Databases[c] : db[r][k] = Absent THEN {} ELSE {"leftover"})]
      /\ UNCHANGED world /\ UNCHANGED <<target, cwd>> /\ UNCHANGED files

\* There is no yarangc, or an exception leaves it before it has written anything:
\* the script goes on all the same.
Refuse(b) ==
  /\ pc[b] = "compile"
  /\ source[target[b]] \notin Accepted \/ "uninstalled" \in uses
  /\ pc' = [pc EXCEPT ![b] = "embed"] /\ content' = [content EXCEPT ![b] = source[target[b]]]
  /\ todo' = [todo EXCEPT ![b] = Kinds]
  /\ trouble' = [trouble EXCEPT ![b] = @ \cup {"refused"}]
  /\ UNCHANGED world /\ UNCHANGED <<target, cwd>> /\ UNCHANGED files

\* The file f of b's ruleset now holds c.
Written(b, f, c) ==
  IF f = "rules" THEN rules' = [rules EXCEPT ![Dir[target[b]]] = c] /\ db' = db
                 ELSE db' = [db EXCEPT ![target[b]][f] = c] /\ rules' = rules

NextOutput(b, f) == f \in todo[b] /\ \A g \in todo[b] : WriteTurn[f] <= WriteTurn[g]

\* std::ofstream truncates the file when it is opened ...
Open(b, f) ==
  /\ pc[b] = "open" /\ NextOutput(b, f)
  /\ Written(b, f, Partial)
  /\ pc' = [pc EXCEPT ![b] = "write"]
  /\ UNCHANGED world /\ UNCHANGED <<asm, dbObj, obj, bin, writer, built, target, cwd, content, todo, trouble>>

\* ... and all is there when it is closed.
Write(b, f) ==
  /\ pc[b] = "write" /\ NextOutput(b, f)
  /\ Written(b, f, content[b])
  /\ IF todo[b] = {f}
       THEN pc' = [pc EXCEPT ![b] = "embed"] /\ todo' = [todo EXCEPT ![b] = Kinds]
       ELSE pc' = [pc EXCEPT ![b] = "open"] /\ todo' = [todo EXCEPT ![b] = @ \ {f}]
  /\ UNCHANGED world /\ UNCHANGED <<asm, dbObj, obj, bin, writer, built, target, cwd, content, trouble>>
-----------------------------------------------------------------------------
NextDatabase(b, k) == k \in todo[b] /\ \A j \in todo[b] : EmbedTurn[k] <= EmbedTurn[j]

\* generate_asm_file embeds the .db if there is one.
Embed(b, k) ==
  /\ pc[b] = "embed" /\ NextDatabase(b, k)
  /\ asm' = [asm EXCEPT ![target[b]][k] = IF db[target[b]][k] # Absent THEN "embeds" ELSE "empty"]
  /\ pc' = [pc EXCEPT ![b] = "assemble"]
  /\ UNCHANGED world /\ UNCHANGED <<rules, db, dbObj, obj, bin, writer, built, target, cwd, content, todo, trouble>>

\* What g++ -c of a .s file leaves: nothing of an object that cannot be
\* assembled, and the object that was there when there is no .s file.
Assembled(r, k) ==
  IF asm[r][k] = "embeds" THEN db[r][k]
  ELSE IF asm[r][k] = "empty" THEN Empty ELSE dbObj[r][k]

Assemble(b, k) ==
  /\ pc[b] = "assemble" /\ NextDatabase(b, k)
  /\ dbObj' = [dbObj EXCEPT ![target[b]][k] = Assembled(target[b], k)]
  /\ todo' = [todo EXCEPT ![b] = @ \ {k}]
  /\ pc' = [pc EXCEPT ![b] = IF todo[b] = {k} THEN "build" ELSE "embed"]
  /\ UNCHANGED world /\ UNCHANGED <<rules, db, asm, obj, bin, writer, built, target, cwd, content, trouble>>

\* Mutant: whatever rules.def holds is compiled.
BuiltFromAny(old, text) == text

\* The object g++ -c of ruleset.yar.cpp leaves, given the rules.def it includes:
\* what cannot be compiled leaves the object that was there.
BuiltFrom(old, text) == IF text \in Contents THEN text ELSE old

\* #include "rules.def" looks beside ruleset.yar.cpp before it looks where -I says.
Shadowed(b) == cwd[b] # ScriptDir /\ rules[ScriptDir] # Absent

Build(b) ==
  /\ pc[b] = "build"
  /\ obj' = [obj EXCEPT ![cwd[b]] =
                BuiltFrom(@, IF Shadowed(b) THEN rules[ScriptDir] ELSE rules[cwd[b]])]
  /\ pc' = [pc EXCEPT ![b] = "link"]
  /\ trouble' = [trouble EXCEPT ![b] = @ \cup (IF Shadowed(b) THEN {"shadowed"} ELSE {})]
  /\ UNCHANGED world /\ UNCHANGED <<rules, db, asm, dbObj, bin, writer, built, target, cwd, content, todo>>

\* Mutant: an object that embeds no database cannot be linked.
LinkableFull(b) ==
  obj[cwd[b]] # Absent /\ \A k \in Kinds : dbObj[target[b]][k] \notin {Absent, Empty}

Linkable(b) == obj[cwd[b]] # Absent /\ \A k \in Kinds : dbObj[target[b]][k] # Absent

\* g++ -shared begins no link when an object is missing: the .bin stays as it is.
LinkerStops(b) ==
  /\ pc[b] = "link" /\ ~Linkable(b)
  /\ pc' = [pc EXCEPT ![b] = "clean"]
  /\ UNCHANGED world /\ UNCHANGED files /\ UNCHANGED <<target, cwd, content, todo, trouble>>

\* The linker begins by removing the .bin that is there: whoever has it open keeps
\* what he has ...
RemoveBin(b) ==
  /\ pc[b] = "link" /\ Linkable(b)
  /\ bin' = [bin EXCEPT ![target[b]] = Absent] /\ writer' = [writer EXCEPT ![target[b]] = Absent]
  /\ pc' = [pc EXCEPT ![b] = "create"]
  /\ UNCHANGED world
  /\ UNCHANGED <<rules, db, asm, dbObj, obj, built, target, cwd, content, todo, trouble>>

\* ... makes a new file ...
CreateBin(b) ==
  /\ pc[b] = "create"
  /\ bin' = [bin EXCEPT ![target[b]] = Partial] /\ writer' = [writer EXCEPT ![target[b]] = b]
  /\ pc' = [pc EXCEPT ![b] = "finish"]
  /\ UNCHANGED world
  /\ UNCHANGED <<rules, db, asm, dbObj, obj, built, target, cwd, content, todo, trouble>>

\* ... and has written it when it is closed, unless another linker has removed the
\* name meanwhile.  A link that fails removes what is there.
FinishBin(b) ==
  /\ pc[b] = "finish"
  /\ \/ /\ Linkable(b) /\ writer[target[b]] = b
        /\ bin' = [bin EXCEPT ![target[b]] = [code |-> obj[cwd[b]], db |-> dbObj[target[b]]]]
        /\ built' = [built EXCEPT ![target[b]] = [content |-> content[b], trouble |-> trouble[b]]]
        /\ writer' = writer
     \/ /\ Linkable(b) /\ writer[target[b]] # b
        /\ UNCHANGED <<bin, built, writer>>
     \/ /\ ~Linkable(b)
        /\ bin' = [bin EXCEPT ![target[b]] = Absent]
        /\ writer' = [writer EXCEPT ![target[b]] = Absent] /\ built' = built
  /\ pc' = [pc EXCEPT ![b] = "clean"]
  /\ UNCHANGED world /\ UNCHANGED <<rules, db, asm, dbObj, obj, target, cwd, content, todo, trouble>>

\* The end of a build.
Ended(b) ==
  /\ pc' = [pc EXCEPT ![b] = "idle"] /\ target' = [target EXCEPT ![b] = Absent]
  /\ cwd' = [cwd EXCEPT ![b] = Absent] /\ content' = [content EXCEPT ![b] = Absent]
  /\ todo' = [todo EXCEPT ![b] = {}] /\ trouble' = [trouble EXCEPT ![b] = {}]

\* Mutant: the databases are not among the files that are removed.
CleanObjects(b) ==
  /\ pc[b] = "clean"
  /\ dbObj' = [dbObj EXCEPT ![target[b]] = [k \in Kinds |-> Absent]]
  /\ obj' = [obj EXCEPT ![cwd[b]] = Absent]
  /\ Ended(b)
  /\ UNCHANGED world /\ UNCHANGED <<rules, db, asm, bin, writer, built>>

\* rm -f of everything the build made except rules.def, patterns.txt and the .bin.
Clean(b) ==
  /\ pc[b] = "clean"
  /\ db' = [db EXCEPT ![target[b]] = [k \in Kinds |-> Absent]]
  /\ asm' = [asm EXCEPT ![target[b]] = [k \in Kinds |-> Absent]]
  /\ dbObj' = [dbObj EXCEPT ![target[b]] = [k \in Kinds |-> Absent]]
  /\ obj' = [obj EXCEPT ![cwd[b]] = Absent]
  /\ Ended(b)
  /\ UNCHANGED world /\ UNCHANGED <<rules, bin, writer, built>>

\* The build is stopped, and its files stay as they are.
Interrupt(b) ==
  /\ "interrupt" \in uses /\ Active(b)
  /\ Ended(b)
  /\ UNCHANGED world /\ UNCHANGED files

\* Somebody edits a ruleset.
Edit(r, c) ==
  /\ Wanted(c) /\ c # source[r] /\ edits < MaxEdits
  /\ edits' = edits + 1
  /\ source' = [source EXCEPT ![r] = c]
  /\ UNCHANGED <<uses, starts>> /\ UNCHANGED files /\ UNCHANGED jobs

BuildStep(b) ==
  \/ Compile(b) \/ Refuse(b) \/ Build(b) \/ Clean(b)
  \/ LinkerStops(b) \/ RemoveBin(b) \/ CreateBin(b) \/ FinishBin(b)
  \/ \E f \in Kinds \cup {"rules"} : Open(b, f) \/ Write(b, f)
  \/ \E k \in Kinds : Embed(b, k) \/ Assemble(b, k)

Next ==
  \/ \E b \in Builders : BuildStep(b) \/ Interrupt(b)
  \/ \E b \in Builders, r \in Rulesets, d \in Dirs : Start(b, r, d)
  \/ \E r \in Rulesets, c \in Contents : Edit(r, c)

Spec == Init /\ [][Next]_vars
-----------------------------------------------------------------------------
Troubles == {"overlap", "elsewhere", "leftover", "shadowed", "refused"}

TypeOK ==
  /\ uses \in Policies /\ source \in [Rulesets -> Contents]
  /\ edits \in 0 .. MaxEdits /\ starts \in 0 .. MaxBuilds[uses]
  /\ rules \in [Dirs -> FileStates] /\ obj \in [Dirs -> Contents \cup {Absent}]
  /\ db \in [Rulesets -> [Kinds -> FileStates]]
  /\ asm \in [Rulesets -> [Kinds -> {Absent, "embeds", "empty"}]]
  /\ dbObj \in [Rulesets -> [Kinds -> FileStates \cup {Empty}]]
  /\ bin \in [Rulesets -> Images \cup {Absent, Partial}]
  /\ writer \in [Rulesets -> Builders \cup {Absent}]
  /\ built \in [Rulesets -> [content : Contents, trouble : SUBSET Troubles] \cup {Absent}]
  /\ pc \in [Builders -> {"idle", "compile", "open", "write", "embed", "assemble", "build",
                          "link", "create", "finish", "clean"}]
  /\ target \in [Builders -> Rulesets \cup {Absent}] /\ cwd \in [Builders -> Dirs \cup {Absent}]
  /\ content \in [Builders -> Contents \cup {Absent}]
  /\ todo \in [Builders -> SUBSET (Kinds \cup {"rules"})]
  /\ trouble \in [Builders -> SUBSET Troubles]
  /\ \A b \in Builders : Active(b) => target[b] \in Rulesets /\ cwd[b] \in Dirs

\* The .bin of a content: its rules with its databases.
ImageOf(c) == [code |-> c, db |-> [k \in Kinds |-> IF k \in Databases[c] THEN c ELSE Empty]]

(***************************************************************************)
(* Whatever other builds do, are stopped at or leave behind, a build that  *)
(* shared no directory with another while it ran, was called where its     *)
(* ruleset is, compiled, and found no rules.def beside ruleset.yar.cpp and *)
(* no database it does not make itself, has linked the rules and the       *)
(* databases of the content it read (yarangc.sh:40-69, yarangc.cpp:52-69): *)
(* a rules.def of another ruleset, a partial file and an old object are    *)
(* all replaced in time.  It is about the .bins that a linker has closed.  *)
(***************************************************************************)
UntroubledBuildIsExact ==
  \A r \in Rulesets :
    bin[r] \notin {Absent, Partial} /\ built[r].trouble = {} => bin[r] = ImageOf(built[r].content)

\* The linker of a build of r has begun to replace its .bin.
Replacing(r) == \E b \in Builders : target[b] = r /\ pc[b] \in {"create", "finish"}

(***************************************************************************)
(* With one build of a directory at a time, each in that directory, none   *)
(* in the script's, all ended and of rulesets that yarangc accepts, every  *)
(* ruleset that was ever built has its .bin, and has it whole, except      *)
(* while the linker of a build of it replaces it (yarangc.sh:69), however  *)
(* often rulesets are edited and built again: what a build leaves behind,  *)
(* rules.def included, reaches no later one.                               *)
(***************************************************************************)
CarefulBuildsAreWhole ==
  uses = {} => \A r \in Rulesets :
    \/ \E c \in Accepted : bin[r] = ImageOf(c)
    \/ Replacing(r) /\ bin[r] \in {Absent, Partial}
    \/ bin[r] = Absent /\ built[r] = Absent
-----------------------------------------------------------------------------
\* The builds that have read a ruleset and not yet finished the link of what they
\* made of it.
Readers(r) == {b \in Builders : target[b] = r /\ pc[b] \notin {"idle", "compile", "clean"}}

\* What they have read.
HeldContent ==
  [r \in Rulesets |-> IF Readers(r) = {} THEN Absent ELSE content[CHOOSE b \in Readers(r) : TRUE]]

Service == INSTANCE BuildService WITH
  Image <- [c \in Contents |-> ImageOf(c)], reading <- HeldContent,
  image <- [r \in Rulesets |-> IF bin[r] = Partial THEN Absent ELSE bin[r]]

(***************************************************************************)
(* Careful builds implement BuildService: the .bin of a ruleset goes away  *)
(* only when a build of it links, and what is then put there is the image  *)
(* of what that build read when it began (yarangc.sh:40-69, yarangc.cpp:   *)
(* 52-69); no edit, no other build and no removal of files reaches it.     *)
(***************************************************************************)
BuildServiceKept ==
  Service!Init /\ [][uses = {} => Service!Next]_(Service!service)
=============================================================================
