---------------------------- MODULE ToolchainProofs ----------------------------
(***************************************************************************)
(* Proofs about Toolchain, for any number of builds, rulesets and runs of  *)
(* yarang: what is true of the builds stays true with yarang beside them,  *)
(* and a run of yarang with a ruleset and a file on its command line scans *)
(* the file with what one accepted content makes.                          *)
(***************************************************************************)
EXTENDS Toolchain, BuildPipelineProofs

\* A step of a run of yarang leaves the builds alone: what is proved of the
\* builds holds of the two together.
THEOREM ToolBuilds == ToolSpec => Spec
<1>1. ToolInit => Init
  BY DEF ToolInit
<1>2. [ToolNext]_<<vars, users>> => [Next]_vars
  BY DEF ToolNext
<1> QED BY <1>1, <1>2, PTL DEF ToolSpec, Spec

\* The theorems about builds, of builds with yarang beside them.
COROLLARY ToolBuildsCorrect ==
  ToolSpec => /\ []TypeOK /\ []UntroubledBuildIsExact /\ []CarefulBuildsAreWhole
              /\ BuildServiceKept
  BY ToolBuilds, TypeCorrect, UntroubledBuilds, CarefulBuilds, BuildServiceImplemented, PTL
-----------------------------------------------------------------------------
Phases == {"none", "options", "load", "read", "scan", "ended", "terminated"}

\* The image of an accepted content.
Whole(image) == \E c \in Accepted : image = ImageOf(c)

\* A run of yarang has read the first two words of its line, the one as the path
\* of the ruleset and the other as what to scan.
Parsed(u) == Len(line[u]) >= 2 /\ options[u] = OptionsOf(line[u])

(***************************************************************************)
(* What a run of yarang has gone through, and what it has by then.  A run  *)
(* that found its ruleset there has it whole, and is stopped by nothing    *)
(* but an input that is not a file.                                        *)
(***************************************************************************)
Looked(u) == ready[u] \/ loaded[u] \notin {Absent, Partial}

RunInv(u) ==
  /\ phase[u] \in {"load", "read", "scan", "ended"} => Parsed(u)
  /\ phase[u] \in {"none", "options", "load"} => loaded[u] = Absent /\ ~ready[u]
  /\ Looked(u) => Parsed(u) /\ (uses = {} => Whole(loaded[u]))
  /\ uses = {} /\ phase[u] = "terminated" /\ Looked(u) =>
       Kind[options[u].input] \in {"missing", "directory"}
  /\ phase[u] = "ended" => scanned[u].image = loaded[u] /\ scanned[u].input = options[u].input

UsersInv ==
  /\ phase \in [Users -> Phases] /\ ready \in [Users -> BOOLEAN]
  /\ line = [u \in Users |-> line[u]] /\ options = [u \in Users |-> options[u]]
  /\ loaded = [u \in Users |-> loaded[u]] /\ scanned = [u \in Users |-> scanned[u]]
  /\ \A u \in Users : RunInv(u)

LEMMA UsersInit == ToolInit => UsersInv
  BY DEF ToolInit, UsersInv, RunInv, Looked, Phases

\* What is behind a path is the image of an accepted content when there is one that
\* is closed, and there is one when the ruleset is ready.
LEMMA FoundWhole ==
  ASSUME CarefulBuildsAreWhole, uses = {}, NEW w, Ready(w) \/ Found(w) \notin {Absent, Partial}
  PROVE  Whole(Found(w))
<1>1. Named(w) /\ Found(w) = bin[RulesetAt(w)]
  BY DEF Ready, Found
<1>2. RulesetAt(w) \in Rulesets
  BY <1>1 DEF Named, RulesetAt
<1> QED BY <1>1, <1>2 DEF Ready, CarefulBuildsAreWhole, Whole

\* An image that is whole is one that the linker has closed.
LEMMA WholeClosed ==
  ASSUME NEW i, Whole(i) PROVE i \notin {Absent, Partial} /\ \E c \in Contents : i = ImageOf(c)
<1>1. PICK c \in Accepted : i = ImageOf(c)
  BY DEF Whole
<1>2. c \in Contents /\ ImageOf(c) \in Images
  BY ContentAssumption DEF ImageOf, Images
<1> QED BY <1>1, <1>2, ImageAssumption

\* The steps of a run of yarang, of which the builds know nothing.
LEMMA UserStepKeeps ==
  ASSUME UsersInv, CarefulBuildsAreWhole, NEW u \in Users, UserStep(u), UNCHANGED vars
  PROVE  phase'[u] \in Phases /\ RunInv(u)'
<1>1. uses' = uses
  BY DEF vars, world
<1>2. CASE ParseOptions(u)
  BY <1>1, <1>2 DEF ParseOptions, UsersInv, RunInv, Looked, Parsed, Phases
<1>3. CASE Load(u)
  <2> DEFINE w == options[u].ruleset
  <2>1. /\ Parsed(u) /\ Parsed(u)' /\ ready'[u] = Ready(w) /\ loaded[u] = Absent
        /\ \/ Found(w) \in {Absent, Partial} /\ phase'[u] = "terminated" /\ loaded'[u] = Absent
           \/ Found(w) # Absent /\ phase'[u] = "read" /\ loaded'[u] = Found(w)
    BY <1>3 DEF Load, UsersInv, RunInv, Parsed
  <2>2. ASSUME uses = {}, Ready(w) \/ Found(w) \notin {Absent, Partial}
        PROVE  Whole(Found(w)) /\ Found(w) \notin {Absent, Partial}
    BY <2>2, FoundWhole, WholeClosed
  <2>3. uses = {} /\ Looked(u)' =>
          phase'[u] = "read" /\ loaded'[u] = Found(w) /\ Whole(Found(w))
    BY <2>1, <2>2 DEF Looked
  <2>4. Looked(u)' => Parsed(u)' /\ (uses' = {} => Whole(loaded[u])')
    BY <1>1, <2>1, <2>3 DEF Whole, ImageOf
  <2> QED BY <1>1, <2>1, <2>3, <2>4 DEF RunInv, Phases
<1>4. CASE Read(u)
  BY <1>1, <1>4 DEF Read, UsersInv, RunInv, Looked, Parsed, Whole, ImageOf, Phases
<1>5. CASE Scan(u)
  <2>1. /\ Parsed(u) /\ Parsed(u)' /\ loaded'[u] = loaded[u] /\ options'[u] = options[u]
        /\ Looked(u)' = Looked(u) /\ phase[u] = "scan"
    BY <1>5 DEF Scan, UsersInv, RunInv, Parsed, Looked
  <2>2. uses = {} /\ Looked(u) => \E c \in Contents : loaded[u] = ImageOf(c)
    BY <2>1, WholeClosed DEF UsersInv, RunInv
  <2>3. \/ phase'[u] = "ended" /\ scanned'[u].image = loaded[u] /\ scanned'[u].input = options[u].input
        \/ phase'[u] = "terminated" /\ \A c \in Contents : loaded[u] # ImageOf(c)
    BY <1>5 DEF Scan, UsersInv
  <2>4. Looked(u) => Parsed(u) /\ (uses = {} => Whole(loaded[u]))
    BY DEF UsersInv, RunInv
  <2>5. Whole(loaded[u])' <=> Whole(loaded[u])
    BY <2>1 DEF Whole, ImageOf
  <2> QED BY <1>1, <2>1, <2>2, <2>3, <2>4, <2>5 DEF RunInv, Phases
<1> QED BY <1>2, <1>3, <1>4, <1>5 DEF UserStep

LEMMA UsersNext ==
  CarefulBuildsAreWhole /\ UsersInv /\ [ToolNext]_<<vars, users>> => UsersInv'
<1> SUFFICES ASSUME CarefulBuildsAreWhole, UsersInv, [ToolNext]_<<vars, users>> PROVE UsersInv'
  OBVIOUS
<1>1. uses' = uses
  BY UsesKept DEF ToolNext, vars, world
<1>2. CASE UNCHANGED users
  <2>1. ASSUME NEW u \in Users PROVE RunInv(u)'
    BY <1>1, <1>2 DEF users, UsersInv, RunInv, Looked, Parsed, Whole, ImageOf
  <2> QED BY <1>2, <2>1 DEF users, UsersInv
\* A run in its first state has nothing behind it; the others are where they were.
<1>3. ASSUME NEW u \in Users, phase'[u] \in Phases, RunInv(u)',
             \E p, l, o, i, y, s : /\ phase' = [phase EXCEPT ![u] = p] /\ line' = [line EXCEPT ![u] = l]
                                /\ options' = [options EXCEPT ![u] = o]
                                /\ loaded' = [loaded EXCEPT ![u] = i]
                                /\ ready' = [ready EXCEPT ![u] = y] /\ y \in BOOLEAN
                                /\ scanned' = [scanned EXCEPT ![u] = s]
      PROVE  UsersInv'
  <2>1. ASSUME NEW o \in Users, o # u PROVE RunInv(o)'
    <3>1. /\ phase'[o] = phase[o] /\ line'[o] = line[o] /\ options'[o] = options[o]
          /\ loaded'[o] = loaded[o] /\ scanned'[o] = scanned[o] /\ ready'[o] = ready[o]
      BY <1>3, <2>1 DEF UsersInv
    <3> QED BY <1>1, <3>1 DEF UsersInv, RunInv, Looked, Parsed, Whole, ImageOf
  <2>2. phase' \in [Users -> Phases] /\ ready' \in [Users -> BOOLEAN]
    BY <1>3 DEF UsersInv
  <2> QED BY <1>3, <2>1, <2>2 DEF UsersInv
<1>4. ASSUME NEW u \in Users, UserStep(u), UNCHANGED vars PROVE UsersInv'
  <2>1. \E p, l, o, i, y, s : /\ phase' = [phase EXCEPT ![u] = p] /\ line' = [line EXCEPT ![u] = l]
                           /\ options' = [options EXCEPT ![u] = o]
                           /\ loaded' = [loaded EXCEPT ![u] = i]
                           /\ ready' = [ready EXCEPT ![u] = y] /\ y \in BOOLEAN
                           /\ scanned' = [scanned EXCEPT ![u] = s]
    <3>1. /\ line = [line EXCEPT ![u] = line[u]] /\ options = [options EXCEPT ![u] = options[u]]
          /\ loaded = [loaded EXCEPT ![u] = loaded[u]]
          /\ scanned = [scanned EXCEPT ![u] = scanned[u]]
          /\ ready = [ready EXCEPT ![u] = ready[u]] /\ ready[u] \in BOOLEAN
      BY DEF UsersInv
    <3>2. CASE ParseOptions(u)
      BY <3>1, <3>2 DEF ParseOptions
    <3>3. CASE Load(u)
      <4>1. PICK p : phase' = [phase EXCEPT ![u] = p]
        BY <3>3 DEF Load
      <4>2. PICK i : loaded' = [loaded EXCEPT ![u] = i]
        BY <3>1, <3>3 DEF Load
      <4>4. PICK y \in BOOLEAN : ready' = [ready EXCEPT ![u] = y]
        BY <3>3 DEF Load, Ready, Named
      <4>3. /\ line' = [line EXCEPT ![u] = line[u]] /\ options' = [options EXCEPT ![u] = options[u]]
            /\ scanned' = [scanned EXCEPT ![u] = scanned[u]]
        BY <3>1, <3>3 DEF Load
      <4> QED BY <4>1, <4>2, <4>3, <4>4, Zenon
    <3>4. CASE Read(u)
      BY <3>1, <3>4 DEF Read
    <3>5. CASE Scan(u)
      BY <3>1, <3>5 DEF Scan
    <3> QED BY <1>4, <3>2, <3>3, <3>4, <3>5 DEF UserStep
  <2> QED BY <1>3, <1>4, <2>1, UserStepKeeps
<1>5. ASSUME NEW u \in Users, NEW l \in Lines, Run(u, l) PROVE UsersInv'
  <2>1. phase'[u] = "options" /\ loaded'[u] = Absent /\ ~ready'[u]
    BY <1>5 DEF Run, UsersInv
  <2>2. RunInv(u)' /\ phase'[u] \in Phases
    BY <2>1 DEF RunInv, Looked, Phases
  <2> QED BY <1>3, <1>5, <2>2 DEF Run
<1> QED BY <1>2, <1>4, <1>5 DEF ToolNext

LEMMA PlainFromUsers == UsersInv => PlainLineScans
<1> SUFFICES ASSUME UsersInv, uses = {}, NEW u \in Users,
                    phase[u] \in {"ended", "terminated"}, Looked(u),
                    Len(line[u]) = 2, Kind[line[u][2]] = "file"
             PROVE  /\ phase[u] = "ended" /\ scanned[u].input = line[u][2]
                    /\ \E c \in Accepted : scanned[u].image = ImageOf(c)
  BY DEF PlainLineScans, Looked
<1>1. options[u].input = line[u][2] /\ Whole(loaded[u])
  BY DEF UsersInv, RunInv, Parsed, OptionsOf
<1>2. phase[u] = "ended"
  BY <1>1 DEF UsersInv, RunInv
<1> QED BY <1>1, <1>2 DEF UsersInv, RunInv, Whole

(***************************************************************************)
(* With careful builds, `yarang <bin> <file>` scans the file with the      *)
(* rules and the databases of one accepted content, whatever builds, edits *)
(* and runs of yarang go on beside it, if the ruleset was built and was    *)
(* not being linked when yarang looked, for any number of them and any     *)
(* command lines (yarangc.sh:69, yarang.cpp:92-111).                       *)
(***************************************************************************)
THEOREM PlainLines == ToolSpec => []PlainLineScans
<1>1. ToolSpec => []CarefulBuildsAreWhole
  BY ToolBuildsCorrect, PTL
<1> QED BY <1>1, UsersInit, UsersNext, PlainFromUsers, PTL DEF ToolSpec
=============================================================================
