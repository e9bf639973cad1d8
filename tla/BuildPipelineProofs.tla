-------------------------- MODULE BuildPipelineProofs --------------------------
(***************************************************************************)
(* Proofs about BuildPipeline, for any number of builds, rulesets,         *)
(* directories and contents: what a build that nothing troubled makes is   *)
(* exact, whatever goes on beside it.                                      *)
(***************************************************************************)
EXTENDS BuildPipeline, TLAPS

States == {"idle", "compile", "open", "write", "embed", "assemble", "build", "link",
           "create", "finish", "clean"}

\* The steps of the link.
Link(b) == LinkerStops(b) \/ RemoveBin(b) \/ CreateBin(b) \/ FinishBin(b)

\* A build that has called yarangc has a content.
ReadInv == \A b \in Builders : pc[b] \notin {"idle", "compile"} => content[b] \in Contents

TypeInv == TypeOK /\ ReadInv

LEMMA TypeInit == Init => TypeInv
<1> SUFFICES ASSUME Init PROVE TypeInv
  OBVIOUS
<1>1. MaxBuilds[uses] \in Nat /\ MaxEdits \in Nat
  BY PolicyAssumption DEF Init
<1> QED BY <1>1 DEF Init, TypeInv, TypeOK, ReadInv, Active, FileStates, Images

\* An active build has a ruleset and a directory.
LEMMA ActiveTyped ==
  ASSUME TypeInv, NEW b \in Builders, Active(b)
  PROVE  target[b] \in Rulesets /\ cwd[b] \in Dirs /\ Dir[target[b]] \in Dirs
  BY DirAssumption DEF TypeInv, TypeOK

LEMMA WrittenTyped ==
  ASSUME TypeInv, NEW b \in Builders, Active(b), NEW f \in Kinds \cup {"rules"},
         NEW c \in FileStates, Written(b, f, c)
  PROVE  rules' \in [Dirs -> FileStates] /\ db' \in [Rulesets -> [Kinds -> FileStates]]
<1>1. target[b] \in Rulesets /\ Dir[target[b]] \in Dirs
  BY ActiveTyped
<1>2. rules \in [Dirs -> FileStates] /\ db \in [Rulesets -> [Kinds -> FileStates]]
  BY DEF TypeInv, TypeOK
<1>3. CASE f = "rules"
  BY <1>1, <1>2, <1>3 DEF Written
<1>4. CASE f # "rules"
  <2>1. f \in Kinds /\ db' = [db EXCEPT ![target[b]][f] = c] /\ rules' = rules
    BY <1>4 DEF Written
  <2> QED BY <1>1, <1>2, <2>1
<1> QED BY <1>3, <1>4

\* The end of a build.
LEMMA EndedTyped ==
  ASSUME TypeInv, NEW b \in Builders, Ended(b)
  PROVE  /\ pc' \in [Builders -> States] /\ target' \in [Builders -> Rulesets \cup {Absent}]
         /\ cwd' \in [Builders -> Dirs \cup {Absent}]
         /\ content' \in [Builders -> Contents \cup {Absent}]
         /\ todo' \in [Builders -> SUBSET (Kinds \cup {"rules"})]
         /\ trouble' \in [Builders -> SUBSET Troubles]
         /\ \A o \in Builders : Active(o)' => target'[o] \in Rulesets /\ cwd'[o] \in Dirs
         /\ ReadInv'
  BY DEF Ended, TypeInv, TypeOK, ReadInv, States, Active

LEMMA TypeNext == TypeInv /\ [Next]_vars => TypeInv'
<1> SUFFICES ASSUME TypeInv, [Next]_vars PROVE TypeInv'
  OBVIOUS
<1>0. Accepted \subseteq Contents /\ Databases \in [Contents -> SUBSET Kinds]
  BY ContentAssumption
<1>1. ASSUME NEW b \in Builders, NEW r \in Rulesets, NEW d \in Dirs, Start(b, r, d)
      PROVE  TypeInv'
  <2>1. starts' \in 0 .. MaxBuilds[uses]
    <3>1. MaxBuilds[uses] \in Nat
      BY PolicyAssumption DEF TypeInv, TypeOK
    <3> QED BY <1>1, <3>1 DEF Start, TypeInv, TypeOK
  <2>2. trouble' \in [Builders -> SUBSET Troubles]
    BY <1>1 DEF Start, TypeInv, TypeOK, Troubles
  <2> QED BY <1>1, <2>1, <2>2 DEF Start, TypeInv, TypeOK, ReadInv, Active, files
<1>2. ASSUME NEW b \in Builders, Compile(b) PROVE TypeInv'
  <2>1. target[b] \in Rulesets
    BY <1>2, ActiveTyped DEF Compile, Active
  <2>2. Outputs(source[target[b]]) \subseteq Kinds \cup {"rules"}
    BY <1>0, <2>1 DEF Outputs, TypeInv, TypeOK
  <2>3. trouble' \in [Builders -> SUBSET Troubles]
    BY <1>2 DEF Compile, TypeInv, TypeOK, Troubles
  <2> QED BY <1>2, <2>1, <2>2, <2>3 DEF Compile, TypeInv, TypeOK, ReadInv, Active, world, files
<1>3. ASSUME NEW b \in Builders, Refuse(b) PROVE TypeInv'
  <2>1. target[b] \in Rulesets
    BY <1>3, ActiveTyped DEF Refuse, Active
  <2>2. trouble' \in [Builders -> SUBSET Troubles]
    BY <1>3 DEF Refuse, TypeInv, TypeOK, Troubles
  <2> QED BY <1>3, <2>1, <2>2 DEF Refuse, TypeInv, TypeOK, ReadInv, Active, world, files
<1>4. ASSUME NEW b \in Builders, NEW f \in Kinds \cup {"rules"}, Open(b, f) PROVE TypeInv'
  <2>1. rules' \in [Dirs -> FileStates] /\ db' \in [Rulesets -> [Kinds -> FileStates]]
    BY <1>4, WrittenTyped DEF Open, Active, FileStates
  <2> QED BY <1>4, <2>1 DEF Open, TypeInv, TypeOK, ReadInv, Active, world
<1>5. ASSUME NEW b \in Builders, NEW f \in Kinds \cup {"rules"}, Write(b, f) PROVE TypeInv'
  <2>1. content[b] \in FileStates
    BY DEF TypeInv, TypeOK, FileStates
  <2>2. rules' \in [Dirs -> FileStates] /\ db' \in [Rulesets -> [Kinds -> FileStates]]
    BY <1>5, <2>1, WrittenTyped DEF Write, Active
  <2>3. /\ pc' \in [Builders -> States] /\ todo' \in [Builders -> SUBSET (Kinds \cup {"rules"})]
        /\ \A o \in Builders : Active(o)' => Active(o)
        /\ \A o \in Builders : pc'[o] \notin {"idle", "compile"} => pc[o] \notin {"idle", "compile"}
    <3>1. pc[b] = "write" /\ \E next \in {"open", "embed"} : pc' = [pc EXCEPT ![b] = next]
      BY <1>5 DEF Write
    <3>2. \E left \in SUBSET (Kinds \cup {"rules"}) : todo' = [todo EXCEPT ![b] = left]
      <4>1. CASE todo[b] = {f}
        BY <1>5, <4>1 DEF Write
      <4>2. CASE todo[b] # {f}
        BY <1>5, <4>2 DEF Write, TypeInv, TypeOK
      <4> QED BY <4>1, <4>2
    <3> QED BY <3>1, <3>2 DEF TypeInv, TypeOK, States, Active
  <2> QED BY <1>5, <2>2, <2>3 DEF Write, TypeInv, TypeOK, ReadInv, States, world
<1>6. ASSUME NEW b \in Builders, NEW k \in Kinds, Embed(b, k) PROVE TypeInv'
  <2>1. target[b] \in Rulesets
    BY <1>6, ActiveTyped DEF Embed, Active
  <2>2. asm' \in [Rulesets -> [Kinds -> {Absent, "embeds", "empty"}]]
    BY <1>6, <2>1 DEF Embed, TypeInv, TypeOK
  <2> QED BY <1>6, <2>2 DEF Embed, TypeInv, TypeOK, ReadInv, Active, world
<1>7. ASSUME NEW b \in Builders, NEW k \in Kinds, Assemble(b, k) PROVE TypeInv'
  <2>1. target[b] \in Rulesets
    BY <1>7, ActiveTyped DEF Assemble, Active
  <2>2. Assembled(target[b], k) \in FileStates \cup {Empty}
    BY <2>1 DEF Assembled, TypeInv, TypeOK
  <2>3. dbObj' \in [Rulesets -> [Kinds -> FileStates \cup {Empty}]]
    BY <1>7, <2>1, <2>2 DEF Assemble, TypeInv, TypeOK
  <2> QED BY <1>7, <2>3 DEF Assemble, TypeInv, TypeOK, ReadInv, Active, world
<1>8. ASSUME NEW b \in Builders, Build(b) PROVE TypeInv'
  <2>1. cwd[b] \in Dirs
    BY <1>8, ActiveTyped DEF Build, Active
  <2>2. obj' \in [Dirs -> Contents \cup {Absent}]
    BY <1>8, <2>1 DEF Build, BuiltFrom, TypeInv, TypeOK
  <2>3. trouble' \in [Builders -> SUBSET Troubles]
    BY <1>8 DEF Build, TypeInv, TypeOK, Troubles
  <2> QED BY <1>8, <2>2, <2>3 DEF Build, TypeInv, TypeOK, ReadInv, Active, world
<1>9. ASSUME NEW b \in Builders, Link(b) PROVE TypeInv'
  <2>1. /\ target[b] \in Rulesets /\ cwd[b] \in Dirs /\ content[b] \in Contents
        /\ pc[b] \in {"link", "create", "finish"}
    BY <1>9, ActiveTyped
       DEF Link, LinkerStops, RemoveBin, CreateBin, FinishBin, Active, TypeInv, ReadInv
  <2>2. CASE LinkerStops(b)
    BY <2>2 DEF LinkerStops, TypeInv, TypeOK, ReadInv, Active, world, files
  <2>3. CASE RemoveBin(b)
    <3>1. /\ bin' \in [Rulesets -> Images \cup {Absent, Partial}]
          /\ writer' \in [Rulesets -> Builders \cup {Absent}]
      BY <2>3 DEF RemoveBin, TypeInv, TypeOK
    <3> QED BY <2>3, <3>1 DEF RemoveBin, TypeInv, TypeOK, ReadInv, Active, world
  <2>4. CASE CreateBin(b)
    <3>1. /\ bin' \in [Rulesets -> Images \cup {Absent, Partial}]
          /\ writer' \in [Rulesets -> Builders \cup {Absent}]
      BY <2>4 DEF CreateBin, TypeInv, TypeOK
    <3> QED BY <2>4, <3>1 DEF CreateBin, TypeInv, TypeOK, ReadInv, Active, world
  <2>5. CASE FinishBin(b)
    <3>1. bin' \in [Rulesets -> Images \cup {Absent, Partial}]
      <4>1. Linkable(b) => [code |-> obj[cwd[b]], db |-> dbObj[target[b]]] \in Images
        <5> SUFFICES ASSUME Linkable(b)
                     PROVE  /\ obj[cwd[b]] \in Contents
                            /\ dbObj[target[b]] \in [Kinds -> Contents \cup {Partial, Empty}]
          BY DEF Images
        <5> QED BY <2>1 DEF Linkable, TypeInv, TypeOK, FileStates
      <4> QED BY <2>1, <2>5, <4>1 DEF FinishBin, TypeInv, TypeOK
    <3>2. built' \in [Rulesets -> [content : Contents, trouble : SUBSET Troubles] \cup {Absent}]
      <4>1. [content |-> content[b], trouble |-> trouble[b]]
              \in [content : Contents, trouble : SUBSET Troubles]
        BY <2>1 DEF TypeInv, TypeOK
      <4> QED BY <2>1, <2>5, <4>1 DEF FinishBin, TypeInv, TypeOK
    <3>3. writer' \in [Rulesets -> Builders \cup {Absent}]
      BY <2>5 DEF FinishBin, TypeInv, TypeOK
    <3> QED BY <2>5, <3>1, <3>2, <3>3 DEF FinishBin, TypeInv, TypeOK, ReadInv, Active, world
  <2> QED BY <1>9, <2>2, <2>3, <2>4, <2>5 DEF Link
<1>10. ASSUME NEW b \in Builders, Clean(b) PROVE TypeInv'
  <2>1. target[b] \in Rulesets /\ cwd[b] \in Dirs
    BY <1>10, ActiveTyped DEF Clean, Active
  <2>2. /\ db' \in [Rulesets -> [Kinds -> FileStates]]
        /\ asm' \in [Rulesets -> [Kinds -> {Absent, "embeds", "empty"}]]
        /\ dbObj' \in [Rulesets -> [Kinds -> FileStates \cup {Empty}]]
        /\ obj' \in [Dirs -> Contents \cup {Absent}]
    BY <1>10, <2>1 DEF Clean, TypeInv, TypeOK, FileStates
  <2>3. Ended(b)
    BY <1>10 DEF Clean
  <2> QED BY <1>10, <2>2, <2>3, EndedTyped DEF Clean, TypeInv, TypeOK, States, world
<1>11. ASSUME NEW b \in Builders, Interrupt(b) PROVE TypeInv'
  <2>1. Ended(b)
    BY <1>11 DEF Interrupt
  <2> QED BY <1>11, <2>1, EndedTyped DEF Interrupt, TypeInv, TypeOK, States, world, files
<1>12. ASSUME NEW r \in Rulesets, NEW c \in Contents, Edit(r, c) PROVE TypeInv'
  BY <1>12, PolicyAssumption DEF Edit, TypeInv, TypeOK, ReadInv, Active, files, jobs
<1>13. CASE UNCHANGED vars
  BY <1>13 DEF vars, world, files, jobs, TypeInv, TypeOK, ReadInv, Active
<1> QED BY <1>1, <1>2, <1>3, <1>4, <1>5, <1>6, <1>7, <1>8, <1>9, <1>10, <1>11, <1>12, <1>13
        DEF Next, BuildStep, Link

(***************************************************************************)
(* The types of the files and the builds, for every number of them: in     *)
(* particular a .bin that its linker has closed is linked of objects that  *)
(* were all there (yarangc.sh:69).                                         *)
(***************************************************************************)
THEOREM TypeCorrect == Spec => []TypeOK
<1>1. TypeInv => TypeOK
  BY DEF TypeInv
<1> QED BY <1>1, TypeInit, TypeNext, PTL DEF Spec
-----------------------------------------------------------------------------
(***************************************************************************)
(* A build that nothing troubled: no other build is in its directory, and  *)
(* its files hold, as far as it has come, what the content it read makes.  *)
(***************************************************************************)
Alone(b) ==
  \A o \in Builders \ {b} : Active(o) => cwd[o] # cwd[b] /\ Dir[target[o]] # cwd[b]

Holds(b, f) == IF f = "rules" THEN rules[cwd[b]] ELSE db[target[b]][f]
Right(c, k) == IF k \in Databases[c] THEN c ELSE Empty

Exact(b) ==
  /\ cwd[b] = Dir[target[b]]
  /\ pc[b] # "compile" =>
       /\ content[b] \in Accepted
       /\ \A k \in Kinds \ Databases[content[b]] : db[target[b]][k] = Absent
  /\ pc[b] \in {"open", "write"} =>
       /\ todo[b] \subseteq Outputs(content[b])
       /\ \A f \in Outputs(content[b]) \ todo[b] : Holds(b, f) = content[b]
  /\ pc[b] \in {"embed", "assemble", "build"} =>
       \A f \in Outputs(content[b]) : Holds(b, f) = content[b]
  /\ pc[b] \in {"embed", "assemble"} =>
       /\ todo[b] \subseteq Kinds
       /\ \A k \in Kinds \ todo[b] : dbObj[target[b]][k] = Right(content[b], k)
  /\ pc[b] = "assemble" =>
       \A k \in Kinds : NextDatabase(b, k) =>
         asm[target[b]][k] = IF k \in Databases[content[b]] THEN "embeds" ELSE "empty"
  /\ pc[b] \in {"build", "link", "create", "finish"} =>
       \A k \in Kinds : dbObj[target[b]][k] = Right(content[b], k)
  /\ pc[b] \in {"link", "create", "finish"} => obj[cwd[b]] = content[b]
  /\ pc[b] = "finish" => writer[target[b]] = b

BuildInv == \A b \in Builders : Active(b) /\ trouble[b] = {} => Alone(b) /\ Exact(b)

\* What Exact says of a build depends only on the build and on its own files.
LEMMA ExactLocal ==
  ASSUME NEW b \in Builders, Exact(b),
         pc'[b] = pc[b], target'[b] = target[b], cwd'[b] = cwd[b], content'[b] = content[b],
         todo'[b] = todo[b], rules'[cwd[b]] = rules[cwd[b]], obj'[cwd[b]] = obj[cwd[b]],
         db'[target[b]] = db[target[b]], asm'[target[b]] = asm[target[b]],
         dbObj'[target[b]] = dbObj[target[b]], writer'[target[b]] = writer[target[b]]
  PROVE  Exact(b)'
<1>1. \A k \in Kinds : NextDatabase(b, k)' <=> NextDatabase(b, k)
  BY DEF NextDatabase
<1>2. \A f : Holds(b, f)' = Holds(b, f)
  BY DEF Holds
<1> QED BY <1>1, <1>2 DEF Exact

\* A step of one build does not touch the files of another that has its
\* directory to itself.
LEMMA OthersKeep ==
  ASSUME TypeInv, NEW b \in Builders, Active(b), Alone(b), Exact(b),
         NEW o \in Builders \ {b}, Active(o),
         BuildStep(o) \/ Interrupt(o)
  PROVE  Exact(b)' /\ Alone(b)' /\ Active(b)' /\ trouble'[b] = trouble[b]
<1>1. /\ target[b] \in Rulesets /\ cwd[b] \in Dirs /\ target[o] \in Rulesets /\ cwd[o] \in Dirs
      /\ cwd[o] # cwd[b] /\ Dir[target[o]] # cwd[b] /\ Dir[target[o]] \in Dirs
      /\ target[o] # target[b]
  BY ActiveTyped DEF Alone, Exact
<1>2. /\ pc'[b] = pc[b] /\ target'[b] = target[b] /\ cwd'[b] = cwd[b]
      /\ content'[b] = content[b] /\ todo'[b] = todo[b] /\ trouble'[b] = trouble[b]
      /\ \A p \in Builders : Active(p)' => Active(p) /\ target'[p] = target[p] /\ cwd'[p] = cwd[p]
  <2>1. CASE Compile(o) \/ Refuse(o)
    BY <2>1 DEF Compile, Refuse, Active, TypeInv, TypeOK
  <2>2. CASE \E f \in Kinds \cup {"rules"} : Open(o, f)
    BY <2>2 DEF Open, Active, TypeInv, TypeOK
  <2>3. CASE \E f \in Kinds \cup {"rules"} : Write(o, f)
    <3>1. PICK f \in Kinds \cup {"rules"} : Write(o, f)
      BY <2>3
    <3>2. \E next \in {"open", "embed"} : pc' = [pc EXCEPT ![o] = next]
      BY <3>1 DEF Write
    <3>3. \E left : todo' = [todo EXCEPT ![o] = left]
      BY <3>1 DEF Write
    <3>4. UNCHANGED <<target, cwd, content, trouble>> /\ pc[o] = "write"
      BY <3>1 DEF Write
    <3> QED BY <3>2, <3>3, <3>4 DEF Active, TypeInv, TypeOK
  <2>4. CASE \E k \in Kinds : Embed(o, k) \/ Assemble(o, k)
    BY <2>4 DEF Embed, Assemble, Active, TypeInv, TypeOK
  <2>5. CASE Build(o) \/ Link(o)
    BY <2>5 DEF Build, Link, LinkerStops, RemoveBin, CreateBin, FinishBin, Active, TypeInv, TypeOK
  <2>6. CASE Clean(o) \/ Interrupt(o)
    BY <2>6 DEF Clean, Interrupt, Ended, Active, TypeInv, TypeOK
  <2> QED BY <2>1, <2>2, <2>3, <2>4, <2>5, <2>6 DEF BuildStep, Link
<1>3. /\ rules'[cwd[b]] = rules[cwd[b]] /\ db'[target[b]] = db[target[b]]
      /\ obj'[cwd[b]] = obj[cwd[b]] /\ asm'[target[b]] = asm[target[b]]
      /\ dbObj'[target[b]] = dbObj[target[b]] /\ writer'[target[b]] = writer[target[b]]
  <2>1. ASSUME NEW f, NEW c, Written(o, f, c)
        PROVE  rules'[cwd[b]] = rules[cwd[b]] /\ db'[target[b]] = db[target[b]]
    BY <1>1, <2>1 DEF Written, TypeInv, TypeOK
  <2>2. CASE Compile(o) \/ Refuse(o) \/ Interrupt(o)
    BY <2>2 DEF Compile, Refuse, Interrupt, files
  <2>6. CASE Link(o)
    BY <1>1, <2>6 DEF Link, LinkerStops, RemoveBin, CreateBin, FinishBin, files, TypeInv, TypeOK
  <2>3. CASE \E f \in Kinds \cup {"rules"} : Open(o, f) \/ Write(o, f)
    BY <2>1, <2>3 DEF Open, Write
  <2>4. CASE \E k \in Kinds : Embed(o, k) \/ Assemble(o, k)
    BY <1>1, <2>4 DEF Embed, Assemble, TypeInv, TypeOK
  <2>5. CASE Build(o) \/ Clean(o)
    BY <1>1, <2>5 DEF Build, Clean, TypeInv, TypeOK
  <2> QED BY <2>2, <2>3, <2>4, <2>5, <2>6 DEF BuildStep, Link
<1>4. Exact(b)'
  BY <1>2, <1>3, ExactLocal
<1>5. Alone(b)'
  BY <1>2 DEF Alone
<1> QED BY <1>2, <1>4, <1>5 DEF Active

\* What Exact and Alone have of a build from those before the step.
LEMMA OwnTyped ==
  ASSUME TypeInv, NEW b \in Builders, Active(b)
  PROVE  /\ target[b] \in Rulesets /\ cwd[b] \in Dirs
         /\ pc \in [Builders -> States] /\ todo \in [Builders -> SUBSET (Kinds \cup {"rules"})]
         /\ content \in [Builders -> Contents \cup {Absent}]
         /\ trouble \in [Builders -> SUBSET Troubles]
         /\ rules \in [Dirs -> FileStates] /\ obj \in [Dirs -> Contents \cup {Absent}]
         /\ db \in [Rulesets -> [Kinds -> FileStates]]
         /\ asm \in [Rulesets -> [Kinds -> {Absent, "embeds", "empty"}]]
         /\ dbObj \in [Rulesets -> [Kinds -> FileStates \cup {Empty}]]
  BY ActiveTyped DEF TypeInv, TypeOK, States

LEMMA CompileExact ==
  ASSUME TypeInv, NEW b \in Builders, Active(b), Exact(b), Compile(b), trouble'[b] = {}
  PROVE  Exact(b)'
<1>1. /\ pc'[b] = "open" /\ content'[b] = source[target[b]] /\ source[target[b]] \in Accepted
      /\ todo'[b] = Outputs(source[target[b]])
      /\ \A k \in Kinds \ Databases[source[target[b]]] : db[target[b]][k] = Absent
      /\ UNCHANGED <<target, cwd, db>>
  BY OwnTyped DEF Compile, files
<1> QED BY <1>1 DEF Exact

\* The file that is opened is one that has yet to be written.
LEMMA OpenExact ==
  ASSUME TypeInv, NEW b \in Builders, Active(b), Exact(b),
         NEW f \in Kinds \cup {"rules"}, Open(b, f)
  PROVE  Exact(b)'
<1>1. /\ pc[b] = "open" /\ pc'[b] = "write" /\ f \in todo[b] /\ Written(b, f, Partial)
      /\ UNCHANGED <<target, cwd, content, todo>>
  BY OwnTyped DEF Open, NextOutput
<1>2. f \in Outputs(content[b]) /\ todo[b] \subseteq Outputs(content[b])
  BY <1>1 DEF Exact
<1>3. \A g \in (Kinds \cup {"rules"}) \ {f} : Holds(b, g)' = Holds(b, g)
  BY <1>1, OwnTyped DEF Written, Holds, Exact
<1>4. ASSUME NEW k \in Kinds \ Databases[content[b]] PROVE db'[target[b]][k] = Absent
  <2>1. k # f /\ k # "rules"
    BY <1>2 DEF Outputs, Kinds
  <2>2. Holds(b, k)' = Holds(b, k)
    BY <1>3, <2>1
  <2>3. db'[target[b]][k] = db[target[b]][k]
    BY <1>1, <2>1, <2>2 DEF Holds
  <2> QED BY <1>1, <2>3 DEF Exact
<1>5. \A g \in Outputs(content[b]) \ todo[b] : Holds(b, g)' = content[b]
  <2>1. Outputs(content[b]) \subseteq Kinds \cup {"rules"}
    BY <1>1, ContentAssumption DEF Outputs, Exact
  <2> QED BY <1>1, <1>3, <2>1 DEF Exact
<1> QED BY <1>1, <1>2, <1>4, <1>5 DEF Exact

LEMMA WriteExact ==
  ASSUME TypeInv, NEW b \in Builders, Active(b), Exact(b),
         NEW f \in Kinds \cup {"rules"}, Write(b, f)
  PROVE  Exact(b)'
<1>1. /\ pc[b] = "write" /\ f \in todo[b] /\ Written(b, f, content[b])
      /\ UNCHANGED <<target, cwd, content>>
  BY DEF Write, NextOutput
<1>2. /\ f \in Outputs(content[b]) /\ todo[b] \subseteq Outputs(content[b])
      /\ content[b] \in Accepted /\ Outputs(content[b]) \subseteq Kinds \cup {"rules"}
  BY <1>1, ContentAssumption DEF Exact, Outputs
<1>3. \A g \in (Kinds \cup {"rules"}) \ {f} : Holds(b, g)' = Holds(b, g)
  BY <1>1, OwnTyped DEF Written, Holds, Exact
<1>4. Holds(b, f)' = content[b]
  BY <1>1, OwnTyped DEF Written, Holds, Exact
<1>5. ASSUME NEW k \in Kinds \ Databases[content[b]] PROVE db'[target[b]][k] = Absent
  <2>1. k # f /\ k # "rules"
    BY <1>2 DEF Outputs, Kinds
  <2>2. Holds(b, k)' = Holds(b, k)
    BY <1>3, <2>1
  <2>3. db'[target[b]][k] = db[target[b]][k]
    BY <1>1, <2>1, <2>2 DEF Holds
  <2> QED BY <1>1, <2>3 DEF Exact
<1>6. \A g \in Outputs(content[b]) \ (todo[b] \ {f}) : Holds(b, g)' = content[b]
  BY <1>1, <1>2, <1>3, <1>4 DEF Exact
<1>7. CASE todo[b] = {f}
  <2>1. pc'[b] = "embed" /\ todo'[b] = Kinds
    BY <1>7, OwnTyped DEF Write
  <2>2. \A g \in Outputs(content[b]) : Holds(b, g)' = content[b]
    BY <1>6, <1>7
  <2> QED BY <1>1, <1>2, <1>5, <2>1, <2>2 DEF Exact
<1>8. CASE todo[b] # {f}
  <2>1. pc'[b] = "open" /\ todo'[b] = todo[b] \ {f}
    BY <1>8, OwnTyped DEF Write
  <2> QED BY <1>1, <1>2, <1>5, <1>6, <2>1 DEF Exact
<1> QED BY <1>7, <1>8

\* A database is there exactly when the content has one, so that the .s file
\* embeds the right thing.
LEMMA EmbedExact ==
  ASSUME TypeInv, NEW b \in Builders, Active(b), Exact(b), NEW k \in Kinds, Embed(b, k)
  PROVE  Exact(b)'
<1>1. /\ pc[b] = "embed" /\ pc'[b] = "assemble" /\ NextDatabase(b, k)
      /\ UNCHANGED <<target, cwd, content, todo, rules, db, dbObj>>
      /\ asm'[target[b]][k] = IF db[target[b]][k] # Absent THEN "embeds" ELSE "empty"
  BY OwnTyped DEF Embed, world
<1>2. content[b] \in Accepted /\ content[b] # Absent
  BY <1>1, ContentAssumption, MarkAssumption DEF Exact
<1>3. db[target[b]][k] # Absent <=> k \in Databases[content[b]]
  BY <1>1, <1>2 DEF Exact, Holds, Outputs, Kinds
<1>4. ASSUME NEW j \in Kinds, NextDatabase(b, j)' PROVE j = k
  BY <1>1, <1>4 DEF NextDatabase, EmbedTurn, Kinds
<1>5. \A f : Holds(b, f)' = Holds(b, f)
  BY <1>1 DEF Holds
<1> QED BY <1>1, <1>3, <1>4, <1>5 DEF Exact

LEMMA AssembleExact ==
  ASSUME TypeInv, NEW b \in Builders, Active(b), Exact(b), NEW k \in Kinds, Assemble(b, k)
  PROVE  Exact(b)'
<1>1. /\ pc[b] = "assemble" /\ NextDatabase(b, k) /\ todo'[b] = todo[b] \ {k} /\ k \in todo[b]
      /\ pc'[b] = IF todo[b] = {k} THEN "build" ELSE "embed"
      /\ UNCHANGED <<target, cwd, content, rules, db, asm>>
      /\ dbObj'[target[b]][k] = Assembled(target[b], k)
      /\ \A j \in Kinds \ {k} : dbObj'[target[b]][j] = dbObj[target[b]][j]
  BY OwnTyped DEF Assemble, world, NextDatabase
<1>2. Assembled(target[b], k) = Right(content[b], k)
  <2>1. k \in Databases[content[b]] => db[target[b]][k] = content[b]
    BY <1>1 DEF Exact, Holds, Outputs, Kinds
  <2> QED BY <1>1, <2>1 DEF Exact, Assembled, Right
<1>3. \A j \in Kinds \ (todo[b] \ {k}) : dbObj'[target[b]][j] = Right(content[b], j)
  BY <1>1, <1>2 DEF Exact
<1>4. \A f : Holds(b, f)' = Holds(b, f)
  BY <1>1 DEF Holds
<1>5. todo[b] \subseteq Kinds
  BY <1>1 DEF Exact
<1>6. CASE todo[b] = {k}
  BY <1>1, <1>3, <1>4, <1>6 DEF Exact, Right
<1>7. CASE todo[b] # {k}
  BY <1>1, <1>3, <1>4, <1>5, <1>7 DEF Exact, Right
<1> QED BY <1>6, <1>7

\* Without a rules.def beside ruleset.yar.cpp the compiler includes that of
\* the directory, which is whole.
LEMMA BuildExact ==
  ASSUME TypeInv, NEW b \in Builders, Active(b), Exact(b), Build(b), trouble'[b] = {}
  PROVE  Exact(b)'
<1>1. /\ pc[b] = "build" /\ pc'[b] = "link" /\ ~Shadowed(b)
      /\ UNCHANGED <<target, cwd, content, todo, db, dbObj>>
      /\ obj'[cwd[b]] = BuiltFrom(obj[cwd[b]], rules[cwd[b]])
  BY OwnTyped DEF Build, world
<1>2. content[b] \in Contents /\ rules[cwd[b]] = content[b]
  BY <1>1, ContentAssumption DEF Exact, Holds, Outputs
<1> QED BY <1>1, <1>2 DEF Exact, BuiltFrom, Right

\* An untroubled build is linked, of its own objects, to a file that nobody takes
\* away from its linker.
LEMMA LinkExact ==
  ASSUME TypeInv, NEW b \in Builders, Active(b), Exact(b), Link(b)
  PROVE  /\ Exact(b)' /\ ~LinkerStops(b)
         /\ FinishBin(b) =>
              /\ bin' = [bin EXCEPT ![target[b]] = ImageOf(content[b])]
              /\ built' = [built EXCEPT ![target[b]] =
                             [content |-> content[b], trouble |-> trouble[b]]]
<1>1. /\ pc[b] \in {"link", "create", "finish"} /\ UNCHANGED <<target, cwd, content, db, dbObj, obj>>
  BY DEF Link, LinkerStops, RemoveBin, CreateBin, FinishBin, files
<1>2. /\ content[b] \in Contents /\ obj[cwd[b]] = content[b]
      /\ \A k \in Kinds : dbObj[target[b]][k] = Right(content[b], k)
  BY <1>1, ContentAssumption DEF Exact
<1>3. Linkable(b)
  BY <1>2, MarkAssumption DEF Linkable, Right
<1>4. dbObj[target[b]] = [k \in Kinds |-> Right(content[b], k)]
  BY <1>2, OwnTyped
<1>5. [code |-> obj[cwd[b]], db |-> dbObj[target[b]]] = ImageOf(content[b])
  BY <1>2, <1>4 DEF ImageOf, Right
<1>6. ~LinkerStops(b)
  BY <1>3 DEF LinkerStops
<1>7. CASE RemoveBin(b)
  <2>1. pc'[b] = "create"
    BY <1>7, OwnTyped DEF RemoveBin
  <2>2. ~FinishBin(b)
    BY <1>7 DEF RemoveBin, FinishBin
  <2> QED BY <1>1, <1>2, <1>6, <2>1, <2>2 DEF Exact, Right
<1>8. CASE CreateBin(b)
  <2>1. pc'[b] = "finish" /\ writer'[target[b]] = b
    BY <1>8, OwnTyped DEF CreateBin, TypeInv, TypeOK
  <2>2. ~FinishBin(b)
    BY <1>8 DEF CreateBin, FinishBin
  <2> QED BY <1>1, <1>2, <1>6, <2>1, <2>2 DEF Exact, Right
<1>9. CASE FinishBin(b)
  <2>1. pc'[b] = "clean" /\ writer[target[b]] = b
    BY <1>9, OwnTyped DEF FinishBin, Exact
  <2>2. /\ bin' = [bin EXCEPT ![target[b]] = [code |-> obj[cwd[b]], db |-> dbObj[target[b]]]]
        /\ built' = [built EXCEPT ![target[b]] = [content |-> content[b], trouble |-> trouble[b]]]
    BY <1>3, <1>9, <2>1 DEF FinishBin
  <2>3. Exact(b)'
    BY <1>1, <2>1 DEF Exact
  <2> QED BY <1>5, <1>6, <2>2, <2>3
<1> QED BY <1>6, <1>7, <1>8, <1>9 DEF Link

\* A step of a build that stays untroubled keeps what is said of it.
LEMMA OwnStep ==
  ASSUME TypeInv, NEW b \in Builders, Active(b), trouble[b] = {} => Alone(b) /\ Exact(b),
         BuildStep(b) \/ Interrupt(b), Active(b)', trouble'[b] = {}
  PROVE  Alone(b)' /\ Exact(b)'
<1>1. ~Clean(b) /\ ~Interrupt(b) /\ ~Refuse(b)
  BY OwnTyped DEF Clean, Interrupt, Ended, Active, Refuse
<1>2. /\ trouble[b] = {} /\ UNCHANGED <<target, cwd>>
      /\ \A o \in Builders \ {b} : pc'[o] = pc[o]
  <2>1. CASE Compile(b) \/ Build(b)
    BY <2>1, OwnTyped DEF Compile, Build
  <2>2. CASE Link(b)
    BY <2>2, OwnTyped DEF Link, LinkerStops, RemoveBin, CreateBin, FinishBin
  <2>3. CASE \E f \in Kinds \cup {"rules"} : Open(b, f)
    BY <2>3, OwnTyped DEF Open
  <2>4. CASE \E f \in Kinds \cup {"rules"} : Write(b, f)
    <3>1. PICK f \in Kinds \cup {"rules"} : Write(b, f)
      BY <2>4
    <3>2. \E next \in {"open", "embed"} : pc' = [pc EXCEPT ![b] = next]
      BY <3>1 DEF Write
    <3>3. UNCHANGED <<target, cwd, trouble>>
      BY <3>1 DEF Write
    <3> QED BY <3>2, <3>3
  <2>5. CASE \E k \in Kinds : Embed(b, k) \/ Assemble(b, k)
    BY <2>5, OwnTyped DEF Embed, Assemble
  <2> QED BY <1>1, <2>1, <2>2, <2>3, <2>4, <2>5 DEF BuildStep, Link
<1>3. Alone(b) /\ Exact(b)
  BY <1>2
<1>4. Alone(b)'
  BY <1>2, <1>3 DEF Alone, Active
<1>5. Exact(b)'
  BY <1>1, <1>3, CompileExact, OpenExact, WriteExact, EmbedExact, AssembleExact, BuildExact,
     LinkExact DEF BuildStep, Link
<1> QED BY <1>4, <1>5

\* The start of a build troubles those whose directories it enters.
LEMMA StartKeeps ==
  ASSUME TypeInv, BuildInv, NEW o \in Builders, NEW r \in Rulesets, NEW d \in Dirs,
         Start(o, r, d)
  PROVE  BuildInv'
<1>1. /\ pc' = [pc EXCEPT ![o] = "compile"] /\ target' = [target EXCEPT ![o] = r]
      /\ cwd' = [cwd EXCEPT ![o] = d] /\ UNCHANGED <<content, todo>> /\ UNCHANGED files
      /\ ~Active(o)
  BY DEF Start
<1>2. /\ pc'[o] = "compile" /\ target'[o] = r /\ cwd'[o] = d
      /\ \A p \in Builders \ {o} : /\ pc'[p] = pc[p] /\ target'[p] = target[p]
                                    /\ cwd'[p] = cwd[p]
  BY <1>1 DEF TypeInv, TypeOK
<1>3. /\ trouble'[o] = {} => d = Dir[r] /\ \A p \in Builders : ~Share(p, r, d)
      /\ \A p \in Builders \ {o} : trouble'[p] = {} => ~Share(p, r, d) /\ trouble[p] = {}
  BY DEF Start
<1>4. ASSUME trouble'[o] = {} PROVE Alone(o)' /\ Exact(o)'
  <2>1. Alone(o)'
    BY <1>2, <1>3, <1>4 DEF Alone, Active, Share
  <2> QED BY <1>2, <1>3, <1>4, <2>1 DEF Exact
<1>5. ASSUME NEW b \in Builders \ {o}, Active(b)', trouble'[b] = {} PROVE Alone(b)' /\ Exact(b)'
  <2>1. Active(b) /\ ~Share(b, r, d) /\ trouble[b] = {}
    BY <1>2, <1>3, <1>5 DEF Active
  <2>2. Alone(b) /\ Exact(b)
    BY <2>1 DEF BuildInv
  <2>3. Alone(b)'
    BY <1>2, <2>1, <2>2 DEF Alone, Active, Share
  <2>4. Exact(b)'
    BY <1>1, <1>2, <2>2, ExactLocal DEF files
  <2> QED BY <2>3, <2>4
<1> QED BY <1>4, <1>5 DEF BuildInv

LEMMA BuildInit == Init => BuildInv
  BY DEF Init, BuildInv, Active

LEMMA BuildNext == TypeInv /\ BuildInv /\ [Next]_vars => BuildInv'
<1> SUFFICES ASSUME TypeInv, BuildInv, [Next]_vars PROVE BuildInv'
  OBVIOUS
<1>1. ASSUME NEW o \in Builders, BuildStep(o) \/ Interrupt(o) PROVE BuildInv'
  <2>1. Active(o)
    BY <1>1 DEF BuildStep, Interrupt, Compile, Refuse, Open, Write, Embed, Assemble, Build,
       LinkerStops, RemoveBin, CreateBin, FinishBin, Clean, Active
  <2>2. ASSUME NEW b \in Builders \ {o}, Active(b)', trouble'[b] = {}
        PROVE  Alone(b)' /\ Exact(b)'
    <3>1. pc'[b] = pc[b] /\ trouble'[b] = trouble[b]
      <4>1. CASE \E f \in Kinds \cup {"rules"} : Write(o, f)
        <5>1. PICK f \in Kinds \cup {"rules"} : Write(o, f)
          BY <4>1
        <5>2. \E next \in {"open", "embed"} : pc' = [pc EXCEPT ![o] = next]
          BY <5>1 DEF Write
        <5>3. trouble' = trouble
          BY <5>1 DEF Write
        <5> QED BY <2>1, <5>2, <5>3, OwnTyped
      <4>2. CASE \E f \in Kinds \cup {"rules"} : Open(o, f)
        BY <2>1, <4>2, OwnTyped DEF Open
      <4>3. CASE \E k \in Kinds : Embed(o, k) \/ Assemble(o, k)
        BY <2>1, <4>3, OwnTyped DEF Embed, Assemble
      <4>4. CASE Compile(o) \/ Refuse(o) \/ Build(o) \/ Link(o)
        BY <2>1, <4>4, OwnTyped DEF Compile, Refuse, Build, Link, LinkerStops, RemoveBin,
           CreateBin, FinishBin
      <4>5. CASE Clean(o) \/ Interrupt(o)
        BY <2>1, <4>5, OwnTyped DEF Clean, Interrupt, Ended
      <4> QED BY <1>1, <4>1, <4>2, <4>3, <4>4, <4>5 DEF BuildStep, Link
    <3>2. Active(b) /\ Alone(b) /\ Exact(b)
      BY <2>2, <3>1 DEF Active, BuildInv
    <3> QED BY <1>1, <2>1, <3>2, OthersKeep
  <2>3. Active(o)' /\ trouble'[o] = {} => Alone(o)' /\ Exact(o)'
    BY <1>1, <2>1, OwnStep DEF BuildInv
  <2> QED BY <2>2, <2>3 DEF BuildInv
<1>2. ASSUME UNCHANGED files, UNCHANGED jobs PROVE BuildInv'
  <2>1. ASSUME NEW b \in Builders, Active(b)', trouble'[b] = {} PROVE Alone(b)' /\ Exact(b)'
    <3>1. Active(b) /\ Alone(b) /\ Exact(b)
      BY <1>2, <2>1 DEF jobs, Active, BuildInv
    <3>2. Alone(b)'
      BY <1>2, <3>1 DEF jobs, Alone, Active
    <3> QED BY <1>2, <3>1, <3>2, ExactLocal DEF files, jobs
  <2> QED BY <2>1 DEF BuildInv
<1>3. CASE \E r \in Rulesets, c \in Contents : Edit(r, c)
  BY <1>2, <1>3 DEF Edit
<1>4. CASE UNCHANGED vars
  BY <1>2, <1>4 DEF vars
<1> QED BY <1>1, <1>3, <1>4, StartKeeps DEF Next

\* What a link makes, and no other step.
LEMMA BinsKept ==
  ASSUME [Next]_vars
  PROVE  \/ UNCHANGED <<bin, built>>
         \/ \E b \in Builders : RemoveBin(b) \/ CreateBin(b) \/ FinishBin(b)
  BY DEF Next, vars, files, BuildStep, Start, Compile, Refuse, Open, Write, Embed, Assemble, Build,
     LinkerStops, Clean, Interrupt, Edit

\* A .bin that is closed has been finished, or was there before.
LEMMA LinkUntroubled ==
  ASSUME TypeInv, BuildInv, NEW b \in Builders, Link(b), NEW r \in Rulesets,
         bin'[r] \notin {Absent, Partial}
  PROVE  \/ bin'[r] = bin[r] /\ built'[r] = built[r]
         \/ /\ built'[r].trouble = trouble[b]
            /\ trouble[b] = {} => bin'[r] = ImageOf(built'[r].content)
<1>1. Active(b) /\ target[b] \in Rulesets
  BY OwnTyped DEF Link, LinkerStops, RemoveBin, CreateBin, FinishBin, Active
<1>2. CASE ~FinishBin(b)
  BY <1>1, <1>2 DEF Link, LinkerStops, RemoveBin, CreateBin, files, TypeInv, TypeOK
<1>3. CASE FinishBin(b) /\ r # target[b]
  BY <1>1, <1>3 DEF FinishBin, TypeInv, TypeOK
<1>4. CASE FinishBin(b) /\ r = target[b]
  <2>1. CASE UNCHANGED <<bin, built>>
    BY <2>1
  <2>2. CASE built' = [built EXCEPT ![r] = [content |-> content[b], trouble |-> trouble[b]]]
    <3>1. built'[r] = [content |-> content[b], trouble |-> trouble[b]]
      BY <2>2 DEF TypeInv, TypeOK
    <3>2. ASSUME trouble[b] = {} PROVE bin'[r] = ImageOf(content[b])
      <4>1. Exact(b)
        BY <1>1, <3>2 DEF BuildInv
      <4> QED BY <1>1, <1>4, <4>1, LinkExact DEF TypeInv, TypeOK
    <3> QED BY <3>1, <3>2
  <2>3. CASE bin' = [bin EXCEPT ![r] = Absent]
    BY <2>3 DEF TypeInv, TypeOK
  <2> QED BY <1>4, <2>1, <2>2, <2>3 DEF FinishBin
<1> QED BY <1>2, <1>3, <1>4

(***************************************************************************)
(* Whatever other builds do, are stopped at or leave behind, a build that  *)
(* nothing troubled has linked the rules and the databases of the content  *)
(* it read, for any number of builds, rulesets and directories             *)
(* (yarangc.sh:40-69).                                                     *)
(***************************************************************************)
THEOREM UntroubledBuilds == Spec => []UntroubledBuildIsExact
<1>1. Init => UntroubledBuildIsExact
  BY DEF Init, UntroubledBuildIsExact
<1>2. TypeInv /\ BuildInv /\ UntroubledBuildIsExact /\ [Next]_vars => UntroubledBuildIsExact'
  <2> SUFFICES ASSUME TypeInv, BuildInv, UntroubledBuildIsExact, [Next]_vars, NEW r \in Rulesets,
                      bin'[r] \notin {Absent, Partial}, built'[r].trouble = {}
               PROVE  bin'[r] = ImageOf(built'[r].content)
    BY DEF UntroubledBuildIsExact, ImageOf
  <2>1. CASE UNCHANGED <<bin, built>>
    BY <2>1 DEF UntroubledBuildIsExact
  <2>2. ASSUME NEW b \in Builders, Link(b) PROVE bin'[r] = ImageOf(built'[r].content)
    BY <2>2, LinkUntroubled DEF UntroubledBuildIsExact
  <2> QED BY <2>1, <2>2, BinsKept DEF Link
<1> QED BY <1>1, <1>2, TypeInit, TypeNext, BuildInit, BuildNext, PTL DEF Spec
-----------------------------------------------------------------------------
(***************************************************************************)
(* Careful use.  Nothing troubles a build: no two share a directory, none  *)
(* leaves a database behind, and no rules.def comes to be beside           *)
(* ruleset.yar.cpp.                                                        *)
(***************************************************************************)
CarefulInv ==
  uses = {} =>
    /\ \A r \in Rulesets : source[r] \in Accepted
    /\ rules[ScriptDir] = Absent
    /\ \A b \in Builders : Active(b) => trouble[b] = {} /\ Dir[target[b]] # ScriptDir
    /\ \A r \in Rulesets, k \in Kinds : db[r][k] # Absent =>
         \E b \in Builders : pc[b] \notin {"idle", "compile"} /\ target[b] = r

LEMMA CarefulInit == Init => CarefulInv
  BY DirAssumption DEF Init, CarefulInv, Active, Wanted

\* The databases of a ruleset that is built are of the build that makes them.
LEMMA CarefulCompile ==
  ASSUME TypeInv, BuildInv, CarefulInv, uses = {}, NEW b \in Builders, Compile(b)
  PROVE  CarefulInv'
<1>1. /\ Active(b) /\ pc[b] = "compile" /\ trouble[b] = {} /\ Alone(b) /\ Exact(b)
      /\ target[b] \in Rulesets
  BY OwnTyped DEF Compile, Active, CarefulInv, BuildInv
<1>2. \A k \in Kinds : db[target[b]][k] = Absent
  <2> SUFFICES ASSUME NEW k \in Kinds, db[target[b]][k] # Absent PROVE FALSE
    OBVIOUS
  <2>1. PICK o \in Builders : pc[o] \notin {"idle", "compile"} /\ target[o] = target[b]
    BY <1>1 DEF CarefulInv
  <2>2. o # b /\ Active(o)
    BY <1>1, <2>1 DEF Active
  <2> QED BY <1>1, <2>1, <2>2 DEF Alone, Exact
<1>3. /\ pc' = [pc EXCEPT ![b] = "open"] /\ trouble' = [trouble EXCEPT ![b] = {}]
      /\ UNCHANGED <<uses, source, target, rules, db>>
  BY <1>1, <1>2 DEF Compile, world, files
<1>4. \A o \in Builders : /\ trouble'[o] = IF o = b THEN {} ELSE trouble[o]
                          /\ pc'[o] = IF o = b THEN "open" ELSE pc[o]
  BY <1>1, <1>3, OwnTyped
<1> QED BY <1>1, <1>3, <1>4 DEF CarefulInv, Active

LEMMA CarefulWritten ==
  ASSUME TypeInv, CarefulInv, uses = {}, NEW b \in Builders, pc[b] \in {"open", "write"},
         NEW f \in Kinds \cup {"rules"}, NEW c, Written(b, f, c),
         UNCHANGED <<uses, source, target, trouble>>,
         \E next \in {"open", "write", "embed"} : pc' = [pc EXCEPT ![b] = next]
  PROVE  CarefulInv'
<1>1. Active(b) /\ target[b] \in Rulesets /\ Dir[target[b]] # ScriptDir
  BY OwnTyped DEF Active, CarefulInv
<1>2. \A o \in Builders : /\ pc'[o] \notin {"idle", "compile"} <=> pc[o] \notin {"idle", "compile"}
                          /\ Active(o)' <=> Active(o)
  BY <1>1, OwnTyped DEF Active
<1>3. rules'[ScriptDir] = rules[ScriptDir]
  <2>1. CASE f = "rules"
    BY <1>1, <2>1, DirAssumption DEF Written, TypeInv, TypeOK
  <2>2. CASE f # "rules"
    BY <2>2 DEF Written
  <2> QED BY <2>1, <2>2
<1>4. \A r \in Rulesets : r # target[b] => db'[r] = db[r]
  BY <1>1, OwnTyped DEF Written
<1>5. pc[b] \notin {"idle", "compile"}
  OBVIOUS
<1> QED BY <1>1, <1>2, <1>3, <1>4, <1>5 DEF CarefulInv

LEMMA CarefulClean ==
  ASSUME TypeInv, CarefulInv, uses = {}, NEW b \in Builders, Clean(b) PROVE CarefulInv'
<1>1. Active(b) /\ target[b] \in Rulesets
  BY OwnTyped DEF Clean, Active
<1>2. /\ UNCHANGED <<uses, source, rules>>
      /\ db' = [db EXCEPT ![target[b]] = [k \in Kinds |-> Absent]]
      /\ pc' = [pc EXCEPT ![b] = "idle"] /\ target' = [target EXCEPT ![b] = Absent]
      /\ trouble' = [trouble EXCEPT ![b] = {}]
  BY DEF Clean, Ended, world
<1>3. \A o \in Builders \ {b} : /\ pc'[o] = pc[o] /\ target'[o] = target[o]
                                /\ trouble'[o] = trouble[o]
  BY <1>2
<1>4. pc'[b] = "idle"
  BY <1>1, <1>2, OwnTyped
<1>5. \A k \in Kinds : db'[target[b]][k] = Absent
  BY <1>1, <1>2, OwnTyped
<1>6. \A r \in Rulesets : r # target[b] => db'[r] = db[r]
  BY <1>2
<1> QED BY <1>2, <1>3, <1>4, <1>5, <1>6 DEF CarefulInv, Active

LEMMA CarefulStart ==
  ASSUME TypeInv, CarefulInv, uses = {}, NEW b \in Builders, NEW r \in Rulesets, NEW d \in Dirs,
         Start(b, r, d)
  PROVE  CarefulInv'
<1>1. /\ ~Active(b) /\ d = Dir[r] /\ Dir[r] # ScriptDir /\ \A o \in Builders : ~Share(o, r, d)
      /\ UNCHANGED <<uses, source, rules, db>>
      /\ pc' = [pc EXCEPT ![b] = "compile"] /\ target' = [target EXCEPT ![b] = r]
  BY DEF Start, files
<1>2. \A o \in Builders : trouble'[o] = IF o = b THEN {} ELSE trouble[o]
  BY <1>1 DEF Start
<1>3. /\ pc'[b] = "compile" /\ target'[b] = r
      /\ \A o \in Builders \ {b} : pc'[o] = pc[o] /\ target'[o] = target[o]
  BY <1>1 DEF TypeInv, TypeOK
<1>4. pc[b] = "idle"
  BY <1>1 DEF Active
<1> QED BY <1>1, <1>2, <1>3, <1>4 DEF CarefulInv, Active

LEMMA UsesKept == [Next]_vars => uses' = uses
  BY DEF Next, vars, world, BuildStep, Start, Compile, Refuse, Open, Write, Embed, Assemble,
     Build, LinkerStops, RemoveBin, CreateBin, FinishBin, Clean, Interrupt, Edit

LEMMA CarefulNext == TypeInv /\ BuildInv /\ CarefulInv /\ [Next]_vars => CarefulInv'
<1> SUFFICES ASSUME TypeInv, BuildInv, CarefulInv, [Next]_vars, uses' = {} PROVE CarefulInv'
  BY DEF CarefulInv
<1>1. uses = {}
  BY UsesKept
<1>2. ASSUME NEW b \in Builders, Compile(b) PROVE CarefulInv'
  BY <1>1, <1>2, CarefulCompile
<1>3. ASSUME NEW b \in Builders, Refuse(b) PROVE CarefulInv'
  <2>1. target[b] \in Rulesets
    BY <1>3, OwnTyped DEF Refuse, Active
  <2> QED BY <1>1, <1>3, <2>1 DEF Refuse, CarefulInv
<1>4. ASSUME NEW b \in Builders, NEW f \in Kinds \cup {"rules"}, Open(b, f) PROVE CarefulInv'
  BY <1>1, <1>4, CarefulWritten DEF Open, world
<1>5. ASSUME NEW b \in Builders, NEW f \in Kinds \cup {"rules"}, Write(b, f) PROVE CarefulInv'
  BY <1>1, <1>5, CarefulWritten DEF Write, world
\* Steps that move a build on and touch no source, no rules.def and no database.
<1>6. ASSUME NEW b \in Builders, pc[b] \notin {"idle", "compile"}, trouble'[b] = trouble[b],
             NEW next \in States \ {"idle", "compile"}, pc' = [pc EXCEPT ![b] = next],
             \A o \in Builders \ {b} : trouble'[o] = trouble[o],
             UNCHANGED <<source, target, rules, db>>
      PROVE  CarefulInv'
  <2>1. \A o \in Builders : /\ pc'[o] \notin {"idle", "compile"} <=> pc[o] \notin {"idle", "compile"}
                            /\ Active(o)' <=> Active(o)
    BY <1>6 DEF Active, TypeInv, TypeOK, States
  <2>2. trouble' = trouble \/ \A o \in Builders : trouble'[o] = trouble[o]
    BY <1>6
  <2> QED BY <1>1, <1>6, <2>1, <2>2 DEF CarefulInv
<1>7. ASSUME NEW b \in Builders, NEW k \in Kinds, Embed(b, k) \/ Assemble(b, k) PROVE CarefulInv'
  <2>1. CASE Embed(b, k)
    BY <1>6, <2>1 DEF Embed, world, States
  <2>2. CASE Assemble(b, k)
    <3>1. PICK next \in {"build", "embed"} : pc' = [pc EXCEPT ![b] = next]
      BY <2>2 DEF Assemble
    <3> QED BY <1>6, <2>2, <3>1 DEF Assemble, world, States
  <2> QED BY <1>7, <2>1, <2>2
<1>8. ASSUME NEW b \in Builders, Build(b) PROVE CarefulInv'
  <2>1. ~Shadowed(b)
    BY <1>1 DEF Shadowed, CarefulInv
  <2>2. \A o \in Builders : trouble'[o] = trouble[o]
    BY <1>8, <2>1 DEF Build, TypeInv, TypeOK
  <2> QED BY <1>6, <1>8, <2>2 DEF Build, world, States
<1>9. ASSUME NEW b \in Builders, Link(b) PROVE CarefulInv'
  <2>1. PICK next \in {"create", "finish", "clean"} : pc' = [pc EXCEPT ![b] = next]
    BY <1>9 DEF Link, LinkerStops, RemoveBin, CreateBin, FinishBin
  <2> QED BY <1>6, <1>9, <2>1
        DEF Link, LinkerStops, RemoveBin, CreateBin, FinishBin, world, files, States

<1>10. ASSUME NEW b \in Builders, Clean(b) PROVE CarefulInv'
  BY <1>1, <1>10, CarefulClean
<1>11. ~(\E b \in Builders : Interrupt(b))
  BY <1>1 DEF Interrupt
<1>12. ASSUME NEW b \in Builders, NEW r \in Rulesets, NEW d \in Dirs, Start(b, r, d)
       PROVE  CarefulInv'
  BY <1>1, <1>12, CarefulStart
<1>13. ASSUME NEW r \in Rulesets, NEW c \in Contents, Edit(r, c) PROVE CarefulInv'
  <2>1. c \in Accepted
    BY <1>1, <1>13 DEF Edit, Wanted
  <2> QED BY <1>1, <1>13, <2>1 DEF Edit, CarefulInv, Active, files, jobs
<1>14. CASE UNCHANGED vars
  BY <1>1, <1>14 DEF vars, world, files, jobs, CarefulInv, Active
<1> QED BY <1>2, <1>3, <1>4, <1>5, <1>7, <1>8, <1>9, <1>10, <1>11, <1>12, <1>13, <1>14
        DEF Next, BuildStep, Link

\* The linker of a build is at work on a .bin until it ends.
LEMMA ReplacingKept ==
  ASSUME TypeInv, uses = {}, [Next]_vars, \A b \in Builders : ~Link(b), NEW r \in Rulesets,
         Replacing(r)
  PROVE  Replacing(r)'
<1>1. PICK b \in Builders : target[b] = r /\ pc[b] \in {"create", "finish"}
  BY DEF Replacing
<1> SUFFICES target'[b] = r /\ pc'[b] = pc[b]
  BY <1>1 DEF Replacing
<1>2. /\ pc \in [Builders -> States] /\ target \in [Builders -> Rulesets \cup {Absent}]
  BY DEF TypeInv, TypeOK, States
<1>3. ASSUME NEW o \in Builders, BuildStep(o) PROVE target'[b] = r /\ pc'[b] = pc[b]
  <2>1. pc[o] \notin {"create", "finish"} /\ o # b
    BY <1>1, <1>3 DEF BuildStep, Link, Compile, Refuse, Open, Write, Embed, Assemble, Build, Clean
  <2>2. CASE Compile(o) \/ Refuse(o) \/ Build(o)
    BY <1>1, <1>2, <2>1, <2>2 DEF Compile, Refuse, Build
  <2>3. CASE Clean(o)
    BY <1>1, <1>2, <2>1, <2>3 DEF Clean, Ended
  <2>4. CASE \E f \in Kinds \cup {"rules"} : Open(o, f)
    BY <1>1, <1>2, <2>1, <2>4 DEF Open
  <2>5. CASE \E f \in Kinds \cup {"rules"} : Write(o, f)
    <3>1. PICK f \in Kinds \cup {"rules"} : Write(o, f)
      BY <2>5
    <3>2. \E next : pc' = [pc EXCEPT ![o] = next]
      BY <3>1 DEF Write
    <3>3. target' = target
      BY <3>1 DEF Write
    <3> QED BY <1>1, <1>2, <2>1, <3>2, <3>3
  <2>6. CASE \E k \in Kinds : Embed(o, k) \/ Assemble(o, k)
    BY <1>1, <1>2, <2>1, <2>6 DEF Embed, Assemble
  <2> QED BY <1>3, <2>2, <2>3, <2>4, <2>5, <2>6 DEF BuildStep, Link
<1>4. ASSUME NEW o \in Builders, NEW q \in Rulesets, NEW d \in Dirs, Start(o, q, d)
      PROVE  target'[b] = r /\ pc'[b] = pc[b]
  BY <1>1, <1>2, <1>4 DEF Start, Active
<1>5. ASSUME UNCHANGED jobs PROVE target'[b] = r /\ pc'[b] = pc[b]
  BY <1>1, <1>5 DEF jobs
<1>6. ASSUME NEW o \in Builders, Interrupt(o) PROVE FALSE
  BY <1>6 DEF Interrupt
<1> QED BY <1>3, <1>4, <1>5, <1>6 DEF Next, Edit, vars

(***************************************************************************)
(* With one build of a directory at a time, each in that directory, none   *)
(* in the script's and all of rulesets that yarangc accepts, every ruleset *)
(* that was ever built has its .bin, whole but for the time a link of it   *)
(* takes (yarangc.sh:69), for any number of builders, rulesets, builds and *)
(* edits.                                                                  *)
(***************************************************************************)
THEOREM CarefulBuilds == Spec => []CarefulBuildsAreWhole
<1>1. Init => CarefulBuildsAreWhole
  BY DEF Init, CarefulBuildsAreWhole
<1>2. TypeInv /\ BuildInv /\ CarefulInv /\ CarefulBuildsAreWhole /\ [Next]_vars
        => CarefulBuildsAreWhole'
  <2> SUFFICES ASSUME TypeInv, BuildInv, CarefulInv, CarefulBuildsAreWhole, [Next]_vars,
                      uses' = {}, NEW r \in Rulesets
               PROVE  \/ \E c \in Accepted : bin'[r] = ImageOf(c)
                      \/ Replacing(r)' /\ bin'[r] \in {Absent, Partial}
                      \/ bin'[r] = Absent /\ built'[r] = Absent
    BY DEF CarefulBuildsAreWhole, ImageOf
  <2>1. uses = {}
    BY UsesKept
  <2>2. CASE \A b \in Builders : ~Link(b)
    <3>1. UNCHANGED <<bin, built>>
      BY <2>2, BinsKept DEF Link
    <3>2. Replacing(r) => Replacing(r)'
      BY <2>1, <2>2, ReplacingKept
    <3> QED BY <2>1, <3>1, <3>2 DEF CarefulBuildsAreWhole
  <2>3. ASSUME NEW b \in Builders, Link(b)
        PROVE  \/ \E c \in Accepted : bin'[r] = ImageOf(c)
               \/ Replacing(r)' /\ bin'[r] \in {Absent, Partial}
               \/ bin'[r] = Absent /\ built'[r] = Absent
    <3>1. /\ Active(b) /\ pc[b] \in {"link", "create", "finish"} /\ target[b] \in Rulesets
          /\ target' = target
      BY <2>3, OwnTyped DEF Link, LinkerStops, RemoveBin, CreateBin, FinishBin, Active
    <3>2. Exact(b) /\ content[b] \in Accepted
      BY <2>1, <3>1 DEF CarefulInv, BuildInv, Exact
    <3>3. ~LinkerStops(b)
      BY <2>3, <3>1, <3>2, LinkExact
    <3>4. CASE r # target[b]
      <4>1. \A o \in Builders : target[o] = r => pc'[o] = pc[o]
        BY <2>3, <3>1, <3>4 DEF Link, LinkerStops, RemoveBin, CreateBin, FinishBin, TypeInv, TypeOK
      <4>2. Replacing(r) => Replacing(r)'
        BY <3>1, <4>1 DEF Replacing
      <4>3. bin'[r] = bin[r] /\ built'[r] = built[r]
        BY <2>3, <3>1, <3>3, <3>4 DEF Link, RemoveBin, CreateBin, FinishBin, TypeInv, TypeOK
      <4> QED BY <2>1, <4>2, <4>3 DEF CarefulBuildsAreWhole
    <3>5. CASE r = target[b] /\ (RemoveBin(b) \/ CreateBin(b))
      <4>1. bin'[r] \in {Absent, Partial} /\ pc'[b] \in {"create", "finish"}
        BY <3>5 DEF RemoveBin, CreateBin, TypeInv, TypeOK
      <4> QED BY <3>1, <3>5, <4>1 DEF Replacing
    <3>6. CASE r = target[b] /\ FinishBin(b)
      BY <2>3, <3>1, <3>2, <3>6, LinkExact DEF TypeInv, TypeOK
    <3> QED BY <2>3, <3>3, <3>4, <3>5, <3>6 DEF Link
  <2> QED BY <2>2, <2>3
<1> QED BY <1>1, <1>2, TypeInit, TypeNext, BuildInit, BuildNext, CarefulInit, CarefulNext,
           PTL DEF Spec
-----------------------------------------------------------------------------
(***************************************************************************)
(* Careful builds implement BuildService.  A ruleset has at most one       *)
(* build, so that what its Readers have read is what that build holds:     *)
(* Compile reads, RemoveBin and CreateBin clear, FinishBin replaces, Edit  *)
(* edits, and the other steps change neither a ruleset nor what is read    *)
(* nor a .bin.                                                             *)
(***************************************************************************)
ServiceInv == TypeInv /\ BuildInv /\ CarefulInv

\* With careful builds, the build of a ruleset is the only one.
LEMMA OneBuild ==
  ASSUME ServiceInv, uses = {}, NEW b \in Builders, Active(b)
  PROVE  /\ trouble[b] = {} /\ Exact(b) /\ target[b] \in Rulesets
         /\ \A o \in Builders : Active(o) /\ target[o] = target[b] => o = b
<1>1. trouble[b] = {} /\ Exact(b) /\ Alone(b)
  BY DEF ServiceInv, BuildInv, CarefulInv
<1> QED BY <1>1, OwnTyped DEF ServiceInv, Alone, Exact

\* What is read of a ruleset is what its build holds.
LEMMA HeldOne ==
  ASSUME ServiceInv, uses = {}, NEW b \in Builders, pc[b] \notin {"idle", "compile", "clean"}
  PROVE  HeldContent[target[b]] = content[b]
<1>1. Active(b)
  BY DEF Active
<1>2. Readers(target[b]) = {b}
  BY <1>1, OneBuild DEF Readers, Active
<1> QED BY <1>1, <1>2, OneBuild DEF HeldContent

LEMMA HeldNone ==
  ASSUME ServiceInv, uses = {}, NEW b \in Builders, pc[b] \in {"compile", "clean"}
  PROVE  HeldContent[target[b]] = Absent
<1>1. Active(b)
  BY DEF Active
<1>2. Readers(target[b]) = {}
  BY <1>1, OneBuild DEF Readers, Active
<1> QED BY <1>1, <1>2, OneBuild DEF HeldContent

\* A step that moves neither the readers of a ruleset nor what they have read.
LEMMA HeldKept ==
  ASSUME NEW r \in Rulesets, Readers(r)' = Readers(r),
         \A b \in Readers(r) : content'[b] = content[b]
  PROVE  HeldContent'[r] = HeldContent[r]
<1>1. CASE Readers(r) = {}
  BY <1>1 DEF HeldContent
<1>2. CASE Readers(r) # {}
  <2>1. (CHOOSE b \in Readers(r) : TRUE) \in Readers(r)
    BY <1>2
  <2>2. (CHOOSE b \in Readers(r) : TRUE)' = CHOOSE b \in Readers(r) : TRUE
    OBVIOUS
  <2> QED BY <1>2, <2>1, <2>2 DEF HeldContent
<1> QED BY <1>1, <1>2

\* A step that changes the readers of one ruleset at most.
LEMMA HeldFunction ==
  ASSUME NEW r \in Rulesets, NEW c, HeldContent'[r] = c,
         \A q \in Rulesets \ {r} : HeldContent'[q] = HeldContent[q]
  PROVE  HeldContent' = [HeldContent EXCEPT ![r] = c]
<1>1. HeldContent = [q \in Rulesets |-> HeldContent[q]]
  BY DEF HeldContent
<1>2. HeldContent' = [q \in Rulesets |-> HeldContent'[q]]
  BY DEF HeldContent
<1> QED BY <1>1, <1>2, Zenon

LEMMA CompileReads ==
  ASSUME ServiceInv, uses = {}, NEW b \in Builders, Compile(b)
  PROVE  Service!Read(target[b])
<1> DEFINE r == target[b]
           c == source[r]
<1>1. /\ pc[b] = "compile" /\ Active(b) /\ c \in Accepted /\ r \in Rulesets
      /\ pc' = [pc EXCEPT ![b] = "open"] /\ content' = [content EXCEPT ![b] = c]
      /\ UNCHANGED <<source, target, bin>>
  BY OneBuild DEF Compile, Active, world, files
<1>2. /\ pc'[b] = "open" /\ content'[b] = c
      /\ \A o \in Builders \ {b} : pc'[o] = pc[o] /\ content'[o] = content[o]
  BY <1>1, OwnTyped DEF ServiceInv
<1>3. Readers(r)' = {b}
  <2>1. ASSUME NEW o \in Builders, o # b PROVE o \notin Readers(r)'
    BY <1>1, <1>2, <2>1, OneBuild DEF Readers, Active
  <2> QED BY <1>1, <1>2, <2>1 DEF Readers
<1>4. HeldContent[r] = Absent /\ HeldContent'[r] = c
  BY <1>1, <1>2, <1>3, HeldNone DEF HeldContent
<1>5. ASSUME NEW q \in Rulesets, q # r PROVE HeldContent'[q] = HeldContent[q]
  BY <1>1, <1>2, <1>5, HeldKept DEF Readers
<1> QED BY <1>1, <1>4, <1>5, HeldFunction DEF Service!Read

\* What is behind the .bins, for the service.
InPlace == [r \in Rulesets |-> IF bin[r] = Partial THEN Absent ELSE bin[r]]

LEMMA LinkClears ==
  ASSUME ServiceInv, uses = {}, NEW b \in Builders, RemoveBin(b) \/ CreateBin(b)
  PROVE  Service!Clear(target[b])
<1> DEFINE r == target[b]
<1>1. /\ pc[b] \in {"link", "create"} /\ Active(b) /\ r \in Rulesets
      /\ UNCHANGED <<source, target, content>>
      /\ \E next \in {"create", "finish"} : pc' = [pc EXCEPT ![b] = next]
      /\ \E i \in {Absent, Partial} : bin' = [bin EXCEPT ![r] = i]
  BY OneBuild DEF RemoveBin, CreateBin, Active, world
<1>2. HeldContent[r] # Absent
  <2>1. content[b] # Absent
    BY <1>1, OneBuild, ContentAssumption, MarkAssumption DEF Exact
  <2> QED BY <1>1, <2>1, HeldOne
<1>3. HeldContent' = HeldContent
  <2>1. \A o \in Builders : pc'[o] \notin {"idle", "compile", "clean"}
                             <=> pc[o] \notin {"idle", "compile", "clean"}
    BY <1>1, OwnTyped DEF ServiceInv
  <2>2. \A q \in Rulesets : HeldContent'[q] = HeldContent[q]
    BY <1>1, <2>1, HeldKept DEF Readers
  <2>3. HeldContent = [q \in Rulesets |-> HeldContent[q]]
    BY DEF HeldContent
  <2>4. HeldContent' = [q \in Rulesets |-> HeldContent'[q]]
    BY DEF HeldContent
  <2> QED BY <2>2, <2>3, <2>4
<1>4. InPlace' = [InPlace EXCEPT ![r] = Absent]
  BY <1>1 DEF InPlace, ServiceInv, TypeInv, TypeOK
<1> QED BY <1>1, <1>2, <1>3, <1>4 DEF InPlace, Service!Clear

LEMMA LinkReplaces ==
  ASSUME ServiceInv, uses = {}, NEW b \in Builders, FinishBin(b)
  PROVE  Service!Replace(target[b])
<1> DEFINE r == target[b]
<1>1. /\ pc[b] = "finish" /\ Active(b) /\ r \in Rulesets /\ trouble[b] = {} /\ Exact(b)
      /\ pc' = [pc EXCEPT ![b] = "clean"] /\ UNCHANGED <<source, target, content>>
  BY OneBuild DEF FinishBin, Active, world
<1>2. pc'[b] = "clean" /\ \A o \in Builders \ {b} : pc'[o] = pc[o]
  BY <1>1, OwnTyped DEF ServiceInv
<1>3. Readers(r)' = {}
  BY <1>1, <1>2, OneBuild DEF Readers, Active
<1>4. HeldContent[r] = content[b] /\ HeldContent'[r] = Absent
  BY <1>1, <1>3, HeldOne DEF HeldContent
<1>5. content[b] \in Contents /\ content[b] # Absent
  BY <1>1, ContentAssumption, MarkAssumption DEF Exact
<1>6. bin' = [bin EXCEPT ![r] = ImageOf(content[b])]
  BY <1>1, LinkExact DEF ServiceInv, Link
<1>7. ImageOf(content[b]) # Partial
  BY <1>5, ImageAssumption DEF ImageOf, Images
<1>8. InPlace' = [InPlace EXCEPT ![r] = ImageOf(content[b])]
  BY <1>1, <1>6, <1>7 DEF InPlace, ServiceInv, TypeInv, TypeOK
<1>9. ASSUME NEW q \in Rulesets, q # r PROVE HeldContent'[q] = HeldContent[q]
  BY <1>1, <1>2, <1>9, HeldKept DEF Readers
<1> QED BY <1>1, <1>4, <1>5, <1>8, <1>9, HeldFunction DEF InPlace, Service!Replace

\* A step that starts no reading and ends none, and of which no content that has
\* been read, no ruleset and no .bin can tell.
LEMMA ServiceStutters ==
  ASSUME NEW b \in Builders, UNCHANGED <<source, bin>>,
         pc[b] \in {"idle", "compile", "clean"} <=> pc'[b] \in {"idle", "compile", "clean"},
         pc[b] \notin {"idle", "compile", "clean"} => target'[b] = target[b] /\ content'[b] = content[b],
         \A o \in Builders \ {b} :
           pc'[o] = pc[o] /\ target'[o] = target[o] /\ content'[o] = content[o]
  PROVE  UNCHANGED Service!service
<1>1. ASSUME NEW r \in Rulesets PROVE HeldContent'[r] = HeldContent[r]
  <2>1. Readers(r)' = Readers(r)
    BY DEF Readers
  <2>2. \A o \in Readers(r) : content'[o] = content[o]
    BY DEF Readers
  <2> QED BY <2>1, <2>2, HeldKept
<1>2. HeldContent = [q \in Rulesets |-> HeldContent[q]]
  BY DEF HeldContent
<1>3. HeldContent' = [q \in Rulesets |-> HeldContent'[q]]
  BY DEF HeldContent
<1>4. HeldContent' = HeldContent
  BY <1>1, <1>2, <1>3
<1> QED BY <1>4 DEF Service!service

LEMMA BuildServes ==
  ASSUME ServiceInv, uses = {}, [Next]_vars
  PROVE  [Service!Next]_(Service!service)
<1>1. ASSUME NEW b \in Builders, Compile(b) PROVE Service!Next
  BY <1>1, CompileReads, OneBuild DEF Service!Next, Compile, Active
<1>2. ASSUME NEW b \in Builders, Link(b) PROVE Service!Next
  <2>1. ~LinkerStops(b) /\ target[b] \in Rulesets
    BY <1>2, OneBuild, LinkExact
       DEF Link, LinkerStops, RemoveBin, CreateBin, FinishBin, Active, ServiceInv
  <2>2. CASE RemoveBin(b) \/ CreateBin(b)
    BY <2>1, <2>2, LinkClears DEF Service!Next, Service!Clear
  <2>3. CASE FinishBin(b)
    BY <2>1, <2>3, LinkReplaces DEF Service!Next, Service!Replace
  <2> QED BY <1>2, <2>1, <2>2, <2>3 DEF Link
<1>3. ASSUME NEW b \in Builders, Refuse(b) PROVE FALSE
  BY <1>3, OneBuild DEF Refuse, Active, ServiceInv, CarefulInv
<1>4. ASSUME NEW b \in Builders, Active(b), UNCHANGED <<source, bin, target, content>>,
             pc[b] \notin {"idle", "compile", "clean"},
             NEW p \in States \ {"idle", "compile", "clean"}, pc' = [pc EXCEPT ![b] = p]
      PROVE  UNCHANGED Service!service
  BY <1>4, OwnTyped, ServiceStutters DEF ServiceInv
<1>5. ASSUME NEW b \in Builders, NEW f \in Kinds \cup {"rules"}, Open(b, f) \/ Write(b, f)
      PROVE  UNCHANGED Service!service
  <2>1. PICK p \in {"open", "write", "embed"} : pc' = [pc EXCEPT ![b] = p]
    BY <1>5 DEF Open, Write
  <2> QED BY <1>4, <1>5, <2>1 DEF Open, Write, Active, world, States
<1>6. ASSUME NEW b \in Builders, NEW k \in Kinds, Embed(b, k) \/ Assemble(b, k)
      PROVE  UNCHANGED Service!service
  <2>1. PICK p \in {"embed", "assemble", "build"} : pc' = [pc EXCEPT ![b] = p]
    BY <1>6 DEF Embed, Assemble
  <2> QED BY <1>4, <1>6, <2>1 DEF Embed, Assemble, Active, world, States
<1>7. ASSUME NEW b \in Builders, Build(b) PROVE UNCHANGED Service!service
  BY <1>4, <1>7 DEF Build, Active, world, States
<1>8. ASSUME NEW b \in Builders, Clean(b) PROVE UNCHANGED Service!service
  <2>1. /\ pc[b] = "clean" /\ UNCHANGED <<source, bin>> /\ pc' = [pc EXCEPT ![b] = "idle"]
        /\ target' = [target EXCEPT ![b] = Absent] /\ content' = [content EXCEPT ![b] = Absent]
    BY <1>8 DEF Clean, Ended, world
  <2>2. pc'[b] = "idle"
    BY <2>1, OwnTyped DEF ServiceInv, Active
  <2> QED BY <2>1, <2>2, ServiceStutters
<1>9. ASSUME NEW b \in Builders, NEW r \in Rulesets, NEW d \in Dirs, Start(b, r, d)
      PROVE  UNCHANGED Service!service
  <2>1. /\ pc[b] = "idle" /\ UNCHANGED <<source, bin, content>>
        /\ pc' = [pc EXCEPT ![b] = "compile"] /\ target' = [target EXCEPT ![b] = r]
    BY <1>9 DEF Start, Active, files
  <2>2. pc'[b] = "compile"
    BY <2>1 DEF ServiceInv, TypeInv, TypeOK
  <2> QED BY <2>1, <2>2, ServiceStutters
<1>10. ASSUME NEW r \in Rulesets, NEW c \in Contents, Edit(r, c) PROVE Service!Next
  <2>1. HeldContent' = HeldContent
    BY <1>10 DEF Edit, jobs, HeldContent, Readers
  <2> QED BY <1>10, <2>1 DEF Edit, files, Service!Edit, Service!Next
<1>11. CASE UNCHANGED vars
  BY <1>11 DEF vars, world, files, jobs, Service!service, HeldContent, Readers
<1>12. \A b \in Builders : ~Interrupt(b)
  BY DEF Interrupt
<1> QED BY <1>1, <1>2, <1>3, <1>5, <1>6, <1>7, <1>8, <1>9, <1>10, <1>11, <1>12
        DEF Next, BuildStep, Link

(***************************************************************************)
(* Careful builds implement BuildService: a .bin goes away only when a     *)
(* build of its ruleset links, and what is then put there is the image of  *)
(* what that build read, for any number of builds, rulesets, directories   *)
(* and edits (yarangc.sh:40-75).                                           *)
(***************************************************************************)
THEOREM BuildServiceImplemented == Spec => BuildServiceKept
<1>1. Init => Service!Init
  BY DEF Init, Service!Init, HeldContent, Readers
<1>2. ServiceInv /\ [Next]_vars => [uses = {} => Service!Next]_(Service!service)
  BY BuildServes
<1>3. ServiceInv <=> TypeInv /\ BuildInv /\ CarefulInv
  BY DEF ServiceInv
<1> QED BY <1>1, <1>2, <1>3, TypeInit, TypeNext, BuildInit, BuildNext, CarefulInit, CarefulNext,
           PTL DEF Spec, BuildServiceKept
=============================================================================
