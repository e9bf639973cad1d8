------------------------------ MODULE Toolchain ------------------------------
(***************************************************************************)
(* The build of a ruleset together with its use: the program yarang        *)
(* (src/yarang.cpp), given a .bin and something to scan on its command     *)
(* line.  It meets the builds in the .bin alone, which it loads at once.   *)
(***************************************************************************)
EXTENDS BuildPipeline, Sequences

CONSTANTS
  Users,      \* processes that run yarang
  Words,      \* the words of command lines
  Options,    \* those that begin with a '-'
  BinOf,      \* the word that is the path of a ruleset's .bin
  Kind,       \* what ifstream finds under a word: "file", "directory" or "missing"
  Lines,      \* command lines
  MaxScans    \* bound on the runs of yarang, for each policy

ASSUME WordAssumption ==
  /\ Options \subseteq Words /\ BinOf \in [Rulesets -> Words]
  /\ Kind \in [Words -> {"file", "directory", "missing"}] /\ Lines \subseteq Seq(Words)
  /\ Absent \notin Words
ASSUME ScanAssumption == MaxScans \in [Policies -> Nat]

VARIABLES
  phase,     \* where a run of yarang is; "terminated" is the end an exception makes
  line,      \* its arguments
  options,   \* what parse_options made of them
  loaded,    \* the image behind its Ruleset
  ready,     \* history: the .bin was built and not being replaced when it was loaded
  scanned,   \* what it has scanned, and with which image and report
  scans      \* the number of runs

users == <<phase, line, options, loaded, ready, scanned, scans>>

\* Mutant: the ruleset stays among the inputs, and is the one that is scanned.
OptionsOfAll(l) == [ruleset |-> l[1], cuckoo |-> Absent, input |-> l[1]]

\* parse_options: the loop stops at the first word that begins with '-', so that
\* the branches that recognise an option are never taken, and nothing is counted
\* for removal; main reads argv[2], whatever the inputs.
OptionsOf(l) == [ruleset |-> l[1], cuckoo |-> Absent, input |-> l[2]]

ToolInit ==
  /\ Init
  /\ phase = [u \in Users |-> "none"] /\ line = [u \in Users |-> <<>>]
  /\ options = [u \in Users |-> Absent]
  /\ loaded = [u \in Users |-> Absent] /\ ready = [u \in Users |-> FALSE]
  /\ scanned = [u \in Users |-> Absent] /\ scans = 0

Run(u, l) ==
  /\ phase[u] \in {"none", "ended", "terminated"} /\ scans < MaxScans[uses]
  /\ scans' = scans + 1
  /\ phase' = [phase EXCEPT ![u] = "options"] /\ line' = [line EXCEPT ![u] = l]
  /\ options' = [options EXCEPT ![u] = Absent]
  /\ loaded' = [loaded EXCEPT ![u] = Absent] /\ ready' = [ready EXCEPT ![u] = FALSE]
  /\ scanned' = [scanned EXCEPT ![u] = Absent]

\* Without a ruleset and an input an exception leaves main.
ParseOptions(u) ==
  /\ phase[u] = "options"
  /\ \/ /\ Len(line[u]) < 2
        /\ phase' = [phase EXCEPT ![u] = "terminated"] /\ options' = options
     \/ /\ Len(line[u]) >= 2
        /\ phase' = [phase EXCEPT ![u] = "load"]
        /\ options' = [options EXCEPT ![u] = OptionsOf(line[u])]
  /\ UNCHANGED <<line, loaded, ready, scanned, scans>>

\* What is under a path.
Named(w) == \E r \in Rulesets : BinOf[r] = w
RulesetAt(w) == CHOOSE r \in Rulesets : BinOf[r] = w
Found(w) == IF Named(w) THEN bin[RulesetAt(w)] ELSE Absent

\* The ruleset of a path has been built, and no linker is at work on its .bin.
Ready(w) == Named(w) /\ built[RulesetAt(w)] # Absent /\ ~Replacing(RulesetAt(w))

\* Ruleset(path) throws when dlopen finds no ruleset there.  It keeps the file that
\* it opens, whatever its name is given to later; one that is still being written
\* it may refuse or take for a ruleset.
Load(u) ==
  LET w == options[u].ruleset
  IN  /\ phase[u] = "load"
      /\ ready' = [ready EXCEPT ![u] = Ready(w)]
      /\ \/ /\ Found(w) \in {Absent, Partial}
            /\ phase' = [phase EXCEPT ![u] = "terminated"] /\ loaded' = loaded
         \/ /\ Found(w) # Absent
            /\ phase' = [phase EXCEPT ![u] = "read"]
            /\ loaded' = [loaded EXCEPT ![u] = Found(w)]
      /\ UNCHANGED <<line, options, scanned, scans>>

\* The size of what cannot be opened is -1, and no vector can have it; a directory
\* can be opened, and has whatever size its file system says.
Read(u) ==
  /\ phase[u] = "read"
  /\ \/ /\ Kind[options[u].input] \in {"missing", "directory"}
        /\ phase' = [phase EXCEPT ![u] = "terminated"]
     \/ /\ Kind[options[u].input] \in {"file", "directory"}
        /\ phase' = [phase EXCEPT ![u] = "scan"]
  /\ UNCHANGED <<line, options, loaded, ready, scanned, scans>>

\* scan_data; with databases that are not those of the code, or a .bin that was not
\* all there, anything can happen.
Scan(u) ==
  /\ phase[u] = "scan"
  /\ \/ /\ phase' = [phase EXCEPT ![u] = "ended"]
        /\ scanned' = [scanned EXCEPT ![u] =
             [image |-> loaded[u], input |-> options[u].input, report |-> options[u].cuckoo]]
     \/ /\ \A c \in Contents : loaded[u] # ImageOf(c)
        /\ phase' = [phase EXCEPT ![u] = "terminated"] /\ scanned' = scanned
  /\ UNCHANGED <<line, options, loaded, ready, scans>>

UserStep(u) == ParseOptions(u) \/ Load(u) \/ Read(u) \/ Scan(u)

ToolNext ==
  \/ Next /\ UNCHANGED users
  \/ \E u \in Users : UserStep(u) /\ UNCHANGED vars
  \/ \E u \in Users, l \in Lines : Run(u, l) /\ UNCHANGED vars

ToolSpec == ToolInit /\ [][ToolNext]_<<vars, users>>
-----------------------------------------------------------------------------
(***************************************************************************)
(* With careful builds, `yarang <bin> <file>` scans the file with the      *)
(* rules and the databases of one accepted content, edits and builds going *)
(* on, whenever the ruleset has been built and its .bin is not being       *)
(* linked anew when yarang looks, and whenever what yarang finds there is  *)
(* a file the linker has closed (yarangc.sh:69, yarang.cpp:92-111).        *)
(***************************************************************************)
PlainLineScans ==
  uses = {} => \A u \in Users :
    LET l == line[u]
    IN  /\ phase[u] \in {"ended", "terminated"}
        /\ ready[u] \/ loaded[u] \notin {Absent, Partial}
        /\ Len(l) = 2 /\ Kind[l[2]] = "file"
        => /\ phase[u] = "ended" /\ scanned[u].input = l[2]
           /\ \E c \in Accepted : scanned[u].image = ImageOf(c)

(***************************************************************************)
(* README.md:29: `yarang <bin> -c <report> <file>` scans the file with the *)
(* report, when the .bin is there and both can be read.                    *)
(***************************************************************************)
CuckooLineScans ==
  \A u \in Users :
    LET l == line[u]
    IN  /\ phase[u] \in {"ended", "terminated"} /\ loaded[u] \notin {Absent, Partial}
        /\ Len(l) = 4 /\ Kind[l[3]] = "file" /\ Kind[l[4]] = "file"
        => phase[u] = "ended" /\ scanned[u].input = l[4] /\ scanned[u].report = l[3]
=============================================================================
