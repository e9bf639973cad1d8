--------------------------- MODULE RulesetLifecycle ---------------------------
(***************************************************************************)
(* The C++ library libyarang: class Ruleset opens a compiled ruleset with  *)
(* dlopen and calls its yng_ functions, and Ruleset::ScannerWrapper owns a *)
(* scanner.  The databases are globals of the shared object, so that every *)
(* Ruleset of one file shares them, and their lifetime is that of no       *)
(* object.                                                                 *)
(***************************************************************************)
EXTENDS Naturals, FiniteSets

CONSTANTS
  Files,      \* the paths given to Ruleset(path)
  Kind,       \* what dlopen finds there: a "ruleset", or an "other" shared object
              \* without the yng_ functions (the program itself, when there is no
              \* file: realpath is then null)
  Objects,    \* Ruleset variables of the client
  Wrappers,   \* ScannerWrapper variables of the client
  Scanners,   \* addresses of scanners
  Policies,   \* kinds of client: what each does beyond plain scoped use, see AllUses
  MaxFailed,  \* bound on failed constructions per path
  MaxLive,    \* bound on the databases of a path, which some uses leak
  MaxAgain,   \* bound on the calls of initialize() per path
  None

\* move: Ruleset(Ruleset&&); copy: the implicit copy of a ScannerWrapper;
\* share: two Rulesets of one file at a time; outlive: a ScannerWrapper that
\* is destroyed after its Ruleset; initialize, finalize: the public members.
AllUses == {"move", "copy", "share", "outlive", "initialize", "finalize"}

ASSUME KindAssumption == Kind \in [Files -> {"ruleset", "other"}]
ASSUME UsesAssumption ==
  Policies \subseteq SUBSET AllUses /\ {MaxFailed, MaxLive, MaxAgain} \subseteq Nat
ASSUME NoneAssumption == None \notin Files \cup Objects \cup Scanners

VARIABLES
  uses,      \* what this client does, the same in every state
  handles,   \* dlopen's reference count of a file
  phase,     \* the last of load, yng_initialize, yng_finalize
  pointer,   \* literal_db, regex_db and mutex_db of the loaded file
  live,      \* databases of the file that are allocated, in sets of three
  failed,    \* constructions that threw after dlopen had succeeded
  again,     \* history: calls of initialize() there were
  file,      \* the _handle of a Ruleset, None when there is no such object
  retired,   \* Rulesets that have been moved from
  stale,     \* Rulesets whose library was unloaded: their _handle and their function
             \* pointers lead to what is no longer there, even if it is loaded anew
  parent,    \* _parent of a ScannerWrapper
  scanner,   \* _scanner of a ScannerWrapper, None when there is no wrapper
  alive,     \* scanners that are allocated
  owner,     \* the file whose code and databases a scanner is made for
  faults     \* history: what went wrong in a call

library == <<handles, phase, pointer, live>>
rulesets == <<file, retired, stale>>
wrappers == <<parent, scanner, alive, owner>>
vars == <<uses, library, failed, again, rulesets, wrappers, faults>>

Init ==
  /\ uses \in Policies
  /\ handles = [f \in Files |-> 0] /\ phase = [f \in Files |-> "unloaded"]
  /\ pointer = [f \in Files |-> "null"] /\ live = [f \in Files |-> 0]
  /\ failed = [f \in Files |-> 0] /\ again = [f \in Files |-> 0]
  /\ file = [o \in Objects |-> None] /\ retired = {} /\ stale = {}
  /\ parent = [w \in Wrappers |-> None] /\ scanner = [w \in Wrappers |-> None]
  /\ alive = {} /\ owner = [s \in Scanners |-> None]
  /\ faults = {}

\* What follows a fault is undefined, and not looked at.
Sound == faults = {}

Usable(o) == file[o] # None /\ o \notin retired
SharesFile(o, f) == \E p \in Objects \ {o} : file[p] = f
-----------------------------------------------------------------------------
(***************************************************************************)
(* The yng_ functions, for a file that is loaded.                          *)
(***************************************************************************)
\* A call after yng_finalize, and a pointer to a database that was freed
\* being freed again or read.
FaultsOf(f, freeing) ==
  (IF phase[f] = "finalized" THEN {"call after finalize"} ELSE {})
  \cup (IF pointer[f] = "dangling"
          THEN {IF freeing THEN "double free" ELSE "use after free"} ELSE {})

\* A call of Ruleset o, which is through one of its function pointers.
CallFaults(o, freeing) ==
  IF o \in stale THEN {"call into unloaded code"} ELSE FaultsOf(file[o], freeing)

\* Mutant: databases that are there already are kept.
InitializedOnce(f) ==
  /\ live[f] < MaxLive
  /\ phase' = [phase EXCEPT ![f] = "initialized"]
  /\ pointer' = [pointer EXCEPT ![f] = IF @ = "null" THEN "live" ELSE @]
  /\ live' = [live EXCEPT ![f] = IF pointer[f] = "null" THEN @ + 1 ELSE @]

\* yng_initialize: the databases are deserialised into fresh memory, whatever
\* the pointers held.
Initialized(f) ==
  /\ live[f] < MaxLive
  /\ phase' = [phase EXCEPT ![f] = "initialized"]
  /\ pointer' = [pointer EXCEPT ![f] = "live"]
  /\ live' = [live EXCEPT ![f] = @ + 1]

\* Mutant: the databases are not freed.
FreedNothing(f) == live[f]

\* hs_free_database on the three pointers; of a null pointer it does nothing.
Freed(f) == IF pointer[f] = "live" THEN live[f] - 1 ELSE live[f]

\* yng_finalize: the pointers are not reset.
Finalized(f) ==
  /\ live' = [live EXCEPT ![f] = Freed(f)]
  /\ phase' = [phase EXCEPT ![f] = "finalized"]
  /\ pointer' = [pointer EXCEPT ![f] = IF @ = "live" THEN "dangling" ELSE @]

\* Mutant: the handle is closed twice.
ClosedTwice(f) ==
  /\ handles' = [handles EXCEPT ![f] = @ - 2]
  /\ Finalized(f)
  /\ UNCHANGED stale

\* yng_finalize and dlclose: at 0 the file is unloaded, under any Ruleset that
\* still has it, or it stays because it defines a symbol that the linker made
\* unique.  dlclose fails when nothing is open any more.
Closed(f) ==
  \/ /\ handles[f] = 1
     /\ handles' = [handles EXCEPT ![f] = 0]
     /\ live' = [live EXCEPT ![f] = Freed(f)]
     /\ phase' = [phase EXCEPT ![f] = "unloaded"]
     /\ pointer' = [pointer EXCEPT ![f] = "null"]
     /\ stale' = stale \cup {p \in Objects : file'[p] = f}
  \/ /\ handles' = [handles EXCEPT ![f] = IF @ = 0 THEN 0 ELSE @ - 1]
     /\ Finalized(f)
     /\ UNCHANGED stale
-----------------------------------------------------------------------------
(***************************************************************************)
(* Ruleset.                                                                *)
(***************************************************************************)
\* Mutant: a Ruleset does not initialise its library.
ConstructOnly(o, f) ==
  /\ Sound /\ file[o] = None /\ Kind[f] = "ruleset"
  /\ "share" \in uses \/ ~SharesFile(o, f)
  /\ handles' = [handles EXCEPT ![f] = @ + 1]
  /\ file' = [file EXCEPT ![o] = f] /\ retired' = retired \ {o}
  /\ UNCHANGED <<uses, phase, pointer, live, failed, again, stale, wrappers, faults>>

\* Ruleset(path), with a file dlopen can load: dlopen, five times dlsym, yng_initialize.
Construct(o, f) ==
  /\ Sound /\ file[o] = None /\ Kind[f] = "ruleset"
  /\ "share" \in uses \/ ~SharesFile(o, f)
  /\ handles' = [handles EXCEPT ![f] = @ + 1]
  /\ Initialized(f)
  /\ file' = [file EXCEPT ![o] = f] /\ retired' = retired \ {o}
  /\ UNCHANGED <<uses, failed, again, stale, wrappers, faults>>

\* _load throws: the object never existed, its destructor does not run, and
\* the handle stays open.
ConstructThrows(o, f) ==
  /\ Sound /\ file[o] = None /\ Kind[f] = "other" /\ failed[f] < MaxFailed
  /\ handles' = [handles EXCEPT ![f] = @ + 1]
  /\ failed' = [failed EXCEPT ![f] = @ + 1]
  /\ phase' = [phase EXCEPT ![f] = IF @ = "unloaded" THEN "loaded" ELSE @]
  /\ UNCHANGED <<uses, pointer, live, again, rulesets, wrappers, faults>>

\* Ruleset(Ruleset&&) = default copies the pointers and leaves them.
Move(o, p) ==
  /\ Sound /\ "move" \in uses /\ Usable(o) /\ file[p] = None
  /\ file' = [file EXCEPT ![p] = file[o]] /\ retired' = (retired \ {p}) \cup {o}
  /\ stale' = IF o \in stale THEN stale \cup {p} ELSE stale
  /\ UNCHANGED <<uses, library, failed, again, wrappers, faults>>

\* ~Ruleset(): yng_finalize and dlclose, also for an object that was moved from.
Destroy(o) ==
  /\ Sound /\ file[o] # None
  /\ "outlive" \in uses \/ \A w \in Wrappers : scanner[w] = None \/ parent[w] # o
  /\ faults' = CallFaults(o, TRUE)
  /\ file' = [file EXCEPT ![o] = None] /\ retired' = retired \ {o}
  /\ \/ o \in stale /\ UNCHANGED <<library, stale>>
     \/ o \notin stale /\ Closed(file[o])
  /\ UNCHANGED <<uses, failed, again, wrappers>>

\* The public member initialize(): yng_initialize, which works at any time.
Initialize(o) ==
  /\ Sound /\ "initialize" \in uses /\ Usable(o) /\ again[file[o]] < MaxAgain
  /\ faults' = IF o \in stale THEN CallFaults(o, FALSE) ELSE {}
  /\ \/ o \in stale /\ UNCHANGED library
     \/ o \notin stale /\ Initialized(file[o]) /\ UNCHANGED handles
  /\ again' = [again EXCEPT ![file[o]] = @ + 1]
  /\ UNCHANGED <<uses, failed, rulesets, wrappers>>

\* The public member finalize().
Finalize(o) ==
  /\ Sound /\ "finalize" \in uses /\ Usable(o)
  /\ faults' = CallFaults(o, TRUE)
  /\ \/ o \in stale /\ UNCHANGED library
     \/ o \notin stale /\ Finalized(file[o]) /\ UNCHANGED handles
  /\ UNCHANGED <<uses, failed, again, rulesets, wrappers>>
-----------------------------------------------------------------------------
(***************************************************************************)
(* Ruleset::ScannerWrapper.                                                *)
(***************************************************************************)
\* new_scanner: yng_new_scanner sizes the scratch spaces by the databases.
NewScanner(o, w, s) ==
  /\ Sound /\ Usable(o) /\ scanner[w] = None /\ s \notin alive
  /\ \A v \in Wrappers : scanner[v] # s
  /\ faults' = CallFaults(o, FALSE)
  /\ \/ o \in stale /\ UNCHANGED wrappers
     \/ /\ o \notin stale
        /\ parent' = [parent EXCEPT ![w] = o] /\ scanner' = [scanner EXCEPT ![w] = s]
        /\ alive' = alive \cup {s} /\ owner' = [owner EXCEPT ![s] = file[o]]
  /\ UNCHANGED <<uses, library, failed, again, rulesets>>

\* What goes wrong when a wrapper calls through _parent.
ThroughParent(w) ==
  IF file[parent[w]] = None THEN {"dangling parent"}
  ELSE IF parent[w] \in stale THEN {"call into unloaded code"}
  ELSE IF scanner[w] \notin alive THEN {"freed scanner"}
  ELSE IF owner[scanner[w]] # file[parent[w]] THEN {"scanner of another ruleset"}
  ELSE {}

\* scan_data: yng_scan_data reads the databases.
Scan(w) ==
  /\ Sound /\ scanner[w] # None
  /\ faults' = ThroughParent(w)
               \cup (IF ThroughParent(w) = {} THEN FaultsOf(file[parent[w]], FALSE) ELSE {})
  /\ UNCHANGED <<uses, library, failed, again, rulesets, wrappers>>

\* The implicit copy constructor of ScannerWrapper copies the two pointers.
Copy(w, v) ==
  /\ Sound /\ "copy" \in uses /\ scanner[w] # None /\ scanner[v] = None
  /\ parent' = [parent EXCEPT ![v] = parent[w]]
  /\ scanner' = [scanner EXCEPT ![v] = scanner[w]]
  /\ UNCHANGED <<uses, library, failed, again, rulesets, alive, owner, faults>>

\* ~ScannerWrapper(): yng_free_scanner, which reads no database.
DestroyWrapper(w) ==
  /\ Sound /\ scanner[w] # None
  /\ faults' = ThroughParent(w)
  /\ alive' = alive \ {scanner[w]}
  /\ parent' = [parent EXCEPT ![w] = None] /\ scanner' = [scanner EXCEPT ![w] = None]
  /\ UNCHANGED <<uses, library, failed, again, rulesets, owner>>
-----------------------------------------------------------------------------
Next ==
  \/ \E o \in Objects, f \in Files : Construct(o, f) \/ ConstructThrows(o, f)
  \/ \E o, p \in Objects : Move(o, p)
  \/ \E o \in Objects : Destroy(o) \/ Initialize(o) \/ Finalize(o)
  \/ \E o \in Objects, w \in Wrappers, s \in Scanners : NewScanner(o, w, s)
  \/ \E w \in Wrappers : Scan(w) \/ DestroyWrapper(w)
  \/ \E w, v \in Wrappers : Copy(w, v)

Spec == Init /\ [][Next]_vars
-----------------------------------------------------------------------------
\* One Ruleset of a file at a time, no moves, copies or finalize(), and every
\* scanner ends before its Ruleset.
Tidy == uses \subseteq {"initialize"}

\* What can go wrong with a library, and with a scanner and its Ruleset.
LibraryFaults ==
  {"call after finalize", "double free", "use after free", "call into unloaded code"}
WrapperFaults == {"dangling parent", "freed scanner", "scanner of another ruleset"}

TypeOK ==
  /\ uses \in Policies
  /\ handles \in [Files -> Nat] /\ failed \in [Files -> 0 .. MaxFailed]
  /\ phase \in [Files -> {"unloaded", "loaded", "initialized", "finalized"}]
  /\ pointer \in [Files -> {"null", "live", "dangling"}]
  /\ live \in [Files -> 0 .. MaxLive]
  /\ again \in [Files -> 0 .. MaxAgain]
  /\ file \in [Objects -> Files \cup {None}] /\ retired \cup stale \subseteq Objects
  /\ parent \in [Wrappers -> Objects \cup {None}]
  /\ scanner \in [Wrappers -> Scanners \cup {None}]
  /\ alive \subseteq Scanners /\ owner \in [Scanners -> Files \cup {None}]
  /\ faults \subseteq LibraryFaults \cup WrapperFaults

(***************************************************************************)
(* With scoped use no call goes wrong, however often a file is opened      *)
(* again and whether or not dlclose unloads it, and however often          *)
(* initialize() is called once more (ruleset.cpp:7-40, ruleset.hpp:20-34). *)
(***************************************************************************)
NoFault == Tidy => faults = {}

\* README.md:80-81: every yng_ call comes before yng_finalize, and is a call of
\* a library that is there.
CallsInOrder ==
  faults \cap {"call after finalize", "call into unloaded code"} = {}

(***************************************************************************)
(* Nothing leaks with scoped use: the open handles are those of Rulesets   *)
(* and of constructions that threw (these stay open), a file has one set   *)
(* of databases while there is a Ruleset of it and, for ever, one for each *)
(* call of initialize(), and the scanners that are allocated are those of  *)
(* wrappers.                                                               *)
(***************************************************************************)
NothingLeaks == Tidy =>
  /\ \A f \in Files :
       LET open == {o \in Objects : file[o] = f}
       IN  /\ handles[f] = Cardinality(open) + failed[f]
           /\ live[f] = Cardinality(open) + again[f]
  /\ alive = {scanner[w] : w \in Wrappers} \ {None}

\* With such use, while a scanner can be used its parent is there, and the
\* databases a scan reads are those of the file it was made for (ruleset.hpp:31-38).
ScannerReady == Tidy =>
  \A w \in Wrappers : scanner[w] # None =>
    LET f == file[parent[w]]
    IN  f # None /\ owner[scanner[w]] = f /\ phase[f] = "initialized" /\ pointer[f] = "live"

(***************************************************************************)
(* A client that neither moves Rulesets nor has two of one file nor calls  *)
(* finalize() meets no fault of a library, whatever it does with its       *)
(* scanners: copies and late destructors reach a Ruleset or a scanner that *)
(* is gone, never a freed database or unloaded code.  And one that neither *)
(* copies wrappers nor lets them outlive their Ruleset meets no fault of a *)
(* scanner, however it moves, shares and finalizes Rulesets                *)
(* (ruleset.hpp:20-45, ruleset.cpp:28-60).                                 *)
(***************************************************************************)
FaultsFollowUse ==
  /\ uses \cap {"move", "share", "finalize"} = {} => faults \subseteq WrapperFaults
  /\ uses \cap {"copy", "outlive"} = {} => faults \subseteq LibraryFaults
=============================================================================
