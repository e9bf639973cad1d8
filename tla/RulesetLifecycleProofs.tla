------------------------ MODULE RulesetLifecycleProofs ------------------------
(***************************************************************************)
(* Proofs about RulesetLifecycle, for any files, objects, wrappers,        *)
(* scanners and clients.                                                   *)
(***************************************************************************)
EXTENDS RulesetLifecycle, FiniteSetTheorems, TLAPS

\* A pointer that is live has its databases.
PointerInv == \A f \in Files : pointer[f] = "live" => live[f] >= 1

\* A ScannerWrapper that has a scanner has a parent, which may be gone.
ParentInv == \A w \in Wrappers : scanner[w] # None => parent[w] \in Objects

TypeInv == TypeOK /\ PointerInv /\ ParentInv

LEMMA Bounds == MaxFailed \in Nat /\ MaxLive \in Nat /\ MaxAgain \in Nat
  BY UsesAssumption

LEMMA TypeInit == Init => TypeInv
  BY Bounds DEF Init, TypeInv, TypeOK, PointerInv, ParentInv

\* The calls that give a file fresh databases.
LEMMA TypeInitialized ==
  ASSUME TypeInv, NEW f \in Files, Initialized(f)
  PROVE  /\ phase' \in [Files -> {"unloaded", "loaded", "initialized", "finalized"}]
         /\ pointer' \in [Files -> {"null", "live", "dangling"}]
         /\ live' \in [Files -> 0 .. MaxLive] /\ PointerInv'
<1>1. MaxLive \in Nat /\ live[f] + 1 \in 1 .. MaxLive
  BY Bounds DEF TypeInv, TypeOK, Initialized
<1> QED BY <1>1 DEF TypeInv, TypeOK, PointerInv, Initialized

\* The calls that free them.
LEMMA TypeFreed ==
  ASSUME TypeInv, NEW f \in Files, live' = [live EXCEPT ![f] = Freed(f)],
         \/ /\ phase' = [phase EXCEPT ![f] = "unloaded"]
            /\ pointer' = [pointer EXCEPT ![f] = "null"]
         \/ /\ phase' = [phase EXCEPT ![f] = "finalized"]
            /\ pointer' = [pointer EXCEPT ![f] = IF @ = "live" THEN "dangling" ELSE @]
  PROVE  /\ phase' \in [Files -> {"unloaded", "loaded", "initialized", "finalized"}]
         /\ pointer' \in [Files -> {"null", "live", "dangling"}]
         /\ live' \in [Files -> 0 .. MaxLive] /\ PointerInv'
<1>1. MaxLive \in Nat /\ Freed(f) \in 0 .. MaxLive
  BY Bounds DEF TypeInv, TypeOK, PointerInv, Freed
<1> QED BY <1>1 DEF TypeInv, TypeOK, PointerInv

\* The faults are of the kinds that are listed.
LEMMA FaultsTyped ==
  /\ \A f \in Files, freeing \in BOOLEAN : FaultsOf(f, freeing) \subseteq LibraryFaults
  /\ \A o \in Objects, freeing \in BOOLEAN : CallFaults(o, freeing) \subseteq LibraryFaults
  /\ \A w \in Wrappers : ThroughParent(w) \subseteq LibraryFaults \cup WrapperFaults
  BY DEF FaultsOf, CallFaults, ThroughParent, LibraryFaults, WrapperFaults

LEMMA TypeNext == TypeInv /\ [Next]_vars => TypeInv'
<1> SUFFICES ASSUME TypeInv, [Next]_vars PROVE TypeInv'
  OBVIOUS
<1> USE DEF TypeInv, ParentInv, library, rulesets, wrappers
<1>0. MaxFailed \in Nat /\ MaxLive \in Nat /\ MaxAgain \in Nat
  BY Bounds
<1>1. ASSUME NEW o \in Objects, NEW f \in Files, Construct(o, f) PROVE TypeInv'
  BY <1>1, TypeInitialized DEF Construct, TypeOK
<1>2. ASSUME NEW o \in Objects, NEW f \in Files, ConstructThrows(o, f) PROVE TypeInv'
  <2>1. failed[f] + 1 \in 0 .. MaxFailed
    BY <1>0, <1>2 DEF ConstructThrows, TypeOK
  <2> QED BY <1>2, <2>1 DEF ConstructThrows, TypeOK, PointerInv
<1>3. ASSUME NEW o \in Objects, NEW p \in Objects, Move(o, p) PROVE TypeInv'
  BY <1>3 DEF Move, TypeOK, PointerInv
<1>4. ASSUME NEW o \in Objects, Destroy(o) PROVE TypeInv'
  <2> DEFINE f == file[o]
  <2>1. f \in Files
    BY <1>4 DEF Destroy, TypeOK
  <2>2. faults' \subseteq LibraryFaults
    BY <1>4, FaultsTyped DEF Destroy
  <2>3. CASE UNCHANGED <<library, stale>>
    BY <1>4, <2>2, <2>3 DEF Destroy, TypeOK, PointerInv
  <2>4. CASE Closed(f)
    <3>1. handles' \in [Files -> Nat] /\ stale' \subseteq Objects
      BY <2>1, <2>4 DEF Closed, TypeOK
    <3>2. /\ phase' \in [Files -> {"unloaded", "loaded", "initialized", "finalized"}]
          /\ pointer' \in [Files -> {"null", "live", "dangling"}]
          /\ live' \in [Files -> 0 .. MaxLive] /\ PointerInv'
      BY <2>1, <2>4, TypeFreed DEF Closed, Finalized
    <3> QED BY <1>4, <2>2, <3>1, <3>2 DEF Destroy, TypeOK
  <2> QED BY <1>4, <2>3, <2>4 DEF Destroy
<1>5. ASSUME NEW o \in Objects, Initialize(o) PROVE TypeInv'
  <2>1. file[o] \in Files /\ again[file[o]] + 1 \in 0 .. MaxAgain
    BY <1>0, <1>5 DEF Initialize, Usable, TypeOK
  <2>2. faults' \subseteq LibraryFaults /\ again' \in [Files -> 0 .. MaxAgain]
    BY <1>5, <2>1, FaultsTyped DEF Initialize, TypeOK
  <2>3. CASE UNCHANGED library
    BY <1>5, <2>2, <2>3 DEF Initialize, TypeOK, PointerInv
  <2>4. CASE Initialized(file[o]) /\ UNCHANGED handles
    BY <1>5, <2>1, <2>2, <2>4, TypeInitialized DEF Initialize, TypeOK
  <2> QED BY <1>5, <2>3, <2>4 DEF Initialize
<1>6. ASSUME NEW o \in Objects, Finalize(o) PROVE TypeInv'
  <2>1. file[o] \in Files
    BY <1>6 DEF Finalize, Usable, TypeOK
  <2>2. faults' \subseteq LibraryFaults
    BY <1>6, FaultsTyped DEF Finalize
  <2>3. CASE UNCHANGED library
    BY <1>6, <2>2, <2>3 DEF Finalize, TypeOK, PointerInv
  <2>4. CASE Finalized(file[o]) /\ UNCHANGED handles
    <3>1. /\ phase' \in [Files -> {"unloaded", "loaded", "initialized", "finalized"}]
          /\ pointer' \in [Files -> {"null", "live", "dangling"}]
          /\ live' \in [Files -> 0 .. MaxLive] /\ PointerInv'
      BY <2>1, <2>4, TypeFreed DEF Finalized
    <3> QED BY <1>6, <2>2, <2>4, <3>1 DEF Finalize, TypeOK
  <2> QED BY <1>6, <2>3, <2>4 DEF Finalize
<1>7. ASSUME NEW o \in Objects, NEW w \in Wrappers, NEW s \in Scanners, NewScanner(o, w, s)
      PROVE  TypeInv'
  <2>1. file[o] \in Files
    BY <1>7 DEF NewScanner, Usable, TypeOK
  <2>2. faults' \subseteq LibraryFaults
    BY <1>7, FaultsTyped DEF NewScanner
  <2>3. UNCHANGED <<uses, library, failed, again, rulesets>>
    BY <1>7 DEF NewScanner
  <2>4. CASE UNCHANGED wrappers
    BY <2>2, <2>3, <2>4 DEF TypeOK, PointerInv
  <2>5. CASE /\ parent' = [parent EXCEPT ![w] = o] /\ scanner' = [scanner EXCEPT ![w] = s]
             /\ alive' = alive \cup {s} /\ owner' = [owner EXCEPT ![s] = file[o]]
    BY <2>1, <2>2, <2>3, <2>5 DEF TypeOK, PointerInv
  <2> QED BY <1>7, <2>4, <2>5 DEF NewScanner
<1>8. ASSUME NEW w \in Wrappers, Scan(w) PROVE TypeInv'
  <2>1. faults' \subseteq LibraryFaults \cup WrapperFaults
    BY <1>8 DEF Scan, ThroughParent, FaultsOf, LibraryFaults, WrapperFaults
  <2> QED BY <1>8, <2>1 DEF Scan, TypeOK, PointerInv
<1>9. ASSUME NEW w \in Wrappers, DestroyWrapper(w) PROVE TypeInv'
  BY <1>9, FaultsTyped DEF DestroyWrapper, TypeOK, PointerInv
<1>10. ASSUME NEW w \in Wrappers, NEW v \in Wrappers, Copy(w, v) PROVE TypeInv'
  BY <1>10 DEF Copy, TypeOK, PointerInv
<1>11. CASE UNCHANGED vars
  BY <1>11 DEF vars, TypeOK, PointerInv
<1> QED BY <1>1, <1>2, <1>3, <1>4, <1>5, <1>6, <1>7, <1>8, <1>9, <1>10, <1>11 DEF Next

(***************************************************************************)
(* The state of the library and of its clients has its type; in particular *)
(* no handle is closed more often than it was opened, and no database is   *)
(* freed that was not allocated (ruleset.cpp:28-35).                       *)
(***************************************************************************)
THEOREM TypeCorrect == Spec => []TypeOK
<1>1. TypeInv => TypeOK
  BY DEF TypeInv
<1> QED BY <1>1, TypeInit, TypeNext, PTL DEF Spec
-----------------------------------------------------------------------------
(***************************************************************************)
(* A client that neither moves Rulesets nor has two of one file nor calls  *)
(* finalize(), whatever it does with its scanners.  A file that has a      *)
(* Ruleset is initialized, with one handle and one set of databases; the   *)
(* others have none, and keep the handles of constructions that threw.     *)
(* initialize() adds databases that nobody frees.                          *)
(***************************************************************************)
Owning == uses \cap {"move", "share", "finalize"} = {}

Opened(f) == \E o \in Objects : file[o] = f

OpenFile(f) ==
  /\ Kind[f] = "ruleset" /\ phase[f] = "initialized" /\ pointer[f] = "live"
  /\ handles[f] = 1 + failed[f] /\ live[f] = 1 + again[f]

ClosedFile(f) == pointer[f] # "live" /\ handles[f] = failed[f] /\ live[f] = again[f]

FilesInv ==
  /\ \A o, p \in Objects : file[o] = file[p] /\ file[o] # None => o = p
  /\ \A f \in Files : /\ Opened(f) => OpenFile(f)
                      /\ ~Opened(f) => ClosedFile(f)
                      /\ Kind[f] = "ruleset" => failed[f] = 0
  /\ stale = {}

(***************************************************************************)
(* A client that neither copies wrappers nor lets them outlive their       *)
(* Ruleset, whatever it does with its Rulesets: wrappers share no scanner, *)
(* and their Ruleset is there.                                             *)
(***************************************************************************)
Paired == uses \cap {"copy", "outlive"} = {}

WrappersInv ==
  /\ \A w \in Wrappers : scanner[w] # None =>
       /\ file[parent[w]] # None /\ owner[scanner[w]] = file[parent[w]]
       /\ scanner[w] \in alive
  /\ \A w, v \in Wrappers : scanner[w] = scanner[v] /\ scanner[w] # None => w = v
  /\ \A s \in alive : \E w \in Wrappers : scanner[w] = s

OwningInv == Owning => FilesInv /\ faults \subseteq WrapperFaults
PairedInv == Paired => WrappersInv /\ faults \subseteq LibraryFaults

LEMMA ClientInit == Init => OwningInv /\ PairedInv
<1> SUFFICES ASSUME Init PROVE OwningInv /\ PairedInv
  OBVIOUS
<1>1. \A f \in Files : ~Opened(f) /\ ClosedFile(f)
  BY NoneAssumption DEF Init, Opened, ClosedFile
<1>2. FilesInv
  BY <1>1 DEF Init, FilesInv
<1>3. WrappersInv
  BY DEF Init, WrappersInv
<1> QED BY <1>2, <1>3 DEF Init, OwningInv, PairedInv
-----------------------------------------------------------------------------
\* Nothing goes wrong with a library that is open in one Ruleset.
LEMMA OwningFaults ==
  ASSUME TypeInv, FilesInv
  PROVE  /\ \A o \in Objects, freeing \in BOOLEAN : file[o] # None =>
              CallFaults(o, freeing) = {} /\ FaultsOf(file[o], freeing) = {}
         /\ \A w \in Wrappers : ThroughParent(w) \subseteq WrapperFaults
<1>1. ASSUME NEW o \in Objects, file[o] # None
      PROVE  phase[file[o]] = "initialized" /\ pointer[file[o]] = "live" /\ o \notin stale
  <2>1. file[o] \in Files /\ Opened(file[o])
    BY <1>1 DEF Opened, TypeInv, TypeOK
  <2> QED BY <2>1 DEF FilesInv, OpenFile
<1>2. \A w \in Wrappers : ThroughParent(w) \subseteq WrapperFaults
  BY DEF ThroughParent, FilesInv, WrapperFaults
<1> QED BY <1>1, <1>2 DEF FaultsOf, CallFaults

\* A Ruleset is opened: its file had none.
LEMMA OwningConstruct ==
  ASSUME TypeInv, FilesInv, Owning, NEW o \in Objects, NEW f \in Files, Construct(o, f)
  PROVE  FilesInv'
<1>1. live[f] \in Nat /\ failed[f] \in Nat /\ again[f] \in Nat
  BY Bounds DEF TypeInv, TypeOK
<1>2. ~Opened(f) /\ ClosedFile(f) /\ Kind[f] = "ruleset" /\ file[o] = None
  <2>1. ~Opened(f) /\ Kind[f] = "ruleset" /\ file[o] = None
    BY NoneAssumption DEF Construct, SharesFile, Owning, Opened
  <2> QED BY <2>1 DEF FilesInv
<1>3. /\ file' = [file EXCEPT ![o] = f] /\ stale' = stale /\ failed' = failed /\ again' = again
      /\ handles' = [handles EXCEPT ![f] = @ + 1] /\ Initialized(f)
  BY DEF Construct
<1>4. OpenFile(f)'
  BY <1>1, <1>2, <1>3 DEF OpenFile, ClosedFile, Initialized, TypeInv, TypeOK
<1>5. Opened(f)' /\ \A g \in Files \ {f} : Opened(g)' <=> Opened(g)
  BY <1>2, <1>3, NoneAssumption DEF Opened, TypeInv, TypeOK
<1>6. \A g \in Files \ {f} : (OpenFile(g)' <=> OpenFile(g)) /\ (ClosedFile(g)' <=> ClosedFile(g))
  BY <1>3 DEF OpenFile, ClosedFile, Initialized, TypeInv, TypeOK
<1>7. \A p, q \in Objects : file'[p] = file'[q] /\ file'[p] # None => p = q
  BY <1>2, <1>3 DEF FilesInv, Opened, TypeInv, TypeOK
<1> QED BY <1>3, <1>4, <1>5, <1>6, <1>7 DEF FilesInv

LEMMA OwningThrows ==
  ASSUME TypeInv, FilesInv, NEW o \in Objects, NEW f \in Files, ConstructThrows(o, f)
  PROVE  FilesInv'
<1>1. ~Opened(f) /\ ClosedFile(f) /\ Kind[f] # "ruleset"
  BY DEF FilesInv, OpenFile, ConstructThrows
<1>2. /\ file' = file /\ stale' = stale /\ pointer' = pointer /\ live' = live /\ again' = again
      /\ handles' = [handles EXCEPT ![f] = @ + 1] /\ failed' = [failed EXCEPT ![f] = @ + 1]
      /\ phase' = [phase EXCEPT ![f] = IF @ = "unloaded" THEN "loaded" ELSE @]
      /\ handles[f] \in Nat /\ failed[f] \in Nat
  BY Bounds DEF ConstructThrows, rulesets, TypeInv, TypeOK
<1>3. \A g \in Files : Opened(g)' <=> Opened(g)
  BY <1>2 DEF Opened
<1>4. ClosedFile(f)'
  BY <1>1, <1>2 DEF ClosedFile, TypeInv, TypeOK
<1>5. ASSUME NEW g \in Files, g # f
      PROVE  failed'[g] = failed[g] /\ (Opened(g)' => OpenFile(g)') /\ (~Opened(g)' => ClosedFile(g)')
  <2>1. handles'[g] = handles[g] /\ failed'[g] = failed[g] /\ phase'[g] = phase[g]
    BY <1>2, <1>5 DEF TypeInv, TypeOK
  <2>2. (OpenFile(g) => OpenFile(g)') /\ (ClosedFile(g) => ClosedFile(g)')
    BY <1>2, <2>1 DEF OpenFile, ClosedFile
  <2>3. (Opened(g) => OpenFile(g)) /\ (~Opened(g) => ClosedFile(g))
    BY DEF FilesInv
  <2> QED BY <1>3, <2>1, <2>2, <2>3
<1>6. \A g \in Files : (Opened(g)' => OpenFile(g)') /\ (~Opened(g)' => ClosedFile(g)')
  BY <1>1, <1>3, <1>4, <1>5
<1>7. ASSUME NEW g \in Files, Kind[g] = "ruleset" PROVE failed'[g] = 0
  BY <1>1, <1>5, <1>7 DEF FilesInv
<1> QED BY <1>2, <1>6, <1>7 DEF FilesInv

\* A Ruleset ends: its file has none left, so that none becomes stale.
LEMMA OwningDestroy ==
  ASSUME TypeInv, FilesInv, NEW o \in Objects, Destroy(o)
  PROVE  FilesInv' /\ faults' = {}
<1>1. PICK f \in Files : f = file[o] /\ f # None
  BY DEF Destroy, TypeInv, TypeOK
<1>2. OpenFile(f) /\ failed[f] \in Nat /\ again[f] \in Nat
  <2>1. Opened(f)
    BY <1>1 DEF Opened
  <2> QED BY <2>1, Bounds DEF FilesInv, TypeInv, TypeOK
<1>3. /\ Closed(f) /\ faults' = {} /\ failed' = failed /\ again' = again
      /\ file' = [file EXCEPT ![o] = None] /\ file \in [Objects -> Files \cup {None}]
  <2>1. faults' = {}
    BY <1>1, OwningFaults DEF Destroy
  <2> QED BY <1>1, <2>1 DEF Destroy, FilesInv, TypeInv, TypeOK
<1>4. \A p \in Objects : file'[p] # f
  BY <1>1, <1>3 DEF FilesInv
<1>5. stale' = {}
  BY <1>3, <1>4 DEF Closed, FilesInv
<1>6. /\ ClosedFile(f)'
      /\ \A g \in Files \ {f} : (OpenFile(g)' <=> OpenFile(g)) /\ (ClosedFile(g)' <=> ClosedFile(g))
  <2>1. handles' = [handles EXCEPT ![f] = failed[f]] /\ live' = [live EXCEPT ![f] = again[f]]
    BY <1>2, <1>3 DEF Closed, Finalized, Freed, OpenFile, TypeInv, TypeOK
  <2>2. pointer'[f] # "live" /\ \A g \in Files \ {f} : phase'[g] = phase[g] /\ pointer'[g] = pointer[g]
    BY <1>3 DEF Closed, Finalized, TypeInv, TypeOK
  <2> QED BY <1>3, <2>1, <2>2 DEF OpenFile, ClosedFile, TypeInv, TypeOK
<1>7. ~Opened(f)' /\ \A g \in Files \ {f} : Opened(g)' <=> Opened(g)
  <2>1. \A g \in Files \ {f}, p \in Objects : file'[p] = g <=> file[p] = g
    BY <1>1, <1>3, NoneAssumption
  <2> QED BY <1>4, <2>1 DEF Opened
<1>8. \A p, q \in Objects : file'[p] = file'[q] /\ file'[p] # None => p = q
  BY <1>1, <1>3 DEF FilesInv
<1>9. \A g \in Files : Kind[g] = "ruleset" => failed'[g] = 0
  BY <1>3 DEF FilesInv
<1>10. \A g \in Files : (Opened(g)' => OpenFile(g)') /\ (~Opened(g)' => ClosedFile(g)')
  <2> TAKE g \in Files
  <2>1. CASE g = f
    BY <1>6, <1>7, <2>1
  <2>2. CASE g # f
    BY <1>6, <1>7, <2>2 DEF FilesInv
  <2> QED BY <2>1, <2>2
<1> QED BY <1>3, <1>5, <1>8, <1>9, <1>10 DEF FilesInv

\* Fresh databases for a Ruleset that has some: the ones it had are lost.
LEMMA OwningInitialize ==
  ASSUME TypeInv, FilesInv, NEW o \in Objects, Initialize(o)
  PROVE  FilesInv' /\ faults' = {}
<1>1. PICK f \in Files : f = file[o] /\ Opened(f)
  BY DEF Initialize, Usable, TypeInv, TypeOK, Opened
<1>2. /\ Initialized(f) /\ again' = [again EXCEPT ![f] = @ + 1] /\ faults' = {}
      /\ handles' = handles /\ failed' = failed /\ file' = file /\ stale' = stale
      /\ live[f] \in Nat /\ again[f] \in Nat
  BY <1>1, Bounds DEF Initialize, FilesInv, rulesets, TypeInv, TypeOK
<1>3. OpenFile(f)'
  BY <1>1, <1>2 DEF FilesInv, OpenFile, Initialized, TypeInv, TypeOK
<1>4. \A g \in Files \ {f} : (OpenFile(g)' <=> OpenFile(g)) /\ (ClosedFile(g)' <=> ClosedFile(g))
  BY <1>2 DEF OpenFile, ClosedFile, Initialized, TypeInv, TypeOK
<1>5. \A g \in Files : Opened(g)' <=> Opened(g)
  BY <1>2 DEF Opened
<1> QED BY <1>1, <1>2, <1>3, <1>4, <1>5 DEF FilesInv

\* What the calls of wrappers leave alone.
LEMMA OwningKept == FilesInv /\ UNCHANGED <<library, failed, again, rulesets>> => FilesInv'
  BY DEF FilesInv, Opened, OpenFile, ClosedFile, library, rulesets

\* The client stays the same, and no call follows a fault.
LEMMA StepOf ==
  ASSUME [Next]_vars
  PROVE  uses' = uses /\ (UNCHANGED vars \/ faults = {})
  BY DEF Next, vars, Sound, Construct, ConstructThrows, Move, Destroy, Initialize, Finalize,
     NewScanner, Scan, DestroyWrapper, Copy

LEMMA OwningNext == TypeInv /\ OwningInv /\ [Next]_vars => OwningInv'
<1> SUFFICES ASSUME TypeInv, OwningInv, [Next]_vars, Owning'
             PROVE  FilesInv' /\ faults' \subseteq WrapperFaults
  BY DEF OwningInv
<1>1. Owning /\ FilesInv /\ faults \subseteq WrapperFaults
  BY StepOf DEF Owning, OwningInv
<1>2. ASSUME NEW o \in Objects, NEW f \in Files, Construct(o, f) \/ ConstructThrows(o, f)
      PROVE  FilesInv' /\ faults' \subseteq WrapperFaults
  BY <1>1, <1>2, OwningConstruct, OwningThrows DEF Construct, ConstructThrows
<1>3. ASSUME NEW o \in Objects, Destroy(o) \/ Initialize(o)
      PROVE  FilesInv' /\ faults' \subseteq WrapperFaults
  BY <1>1, <1>3, OwningDestroy, OwningInitialize
<1>4. ASSUME NEW o \in Objects, NEW w \in Wrappers, NEW s \in Scanners, NewScanner(o, w, s)
      PROVE  FilesInv' /\ faults' \subseteq WrapperFaults
  <2>1. faults' = {}
    BY <1>1, <1>4, OwningFaults DEF NewScanner, Usable
  <2> QED BY <1>1, <1>4, <2>1, OwningKept DEF NewScanner
<1>5. ASSUME NEW w \in Wrappers, Scan(w)
      PROVE  FilesInv' /\ faults' \subseteq WrapperFaults
  <2>1. faults' \subseteq WrapperFaults
    <3>1. CASE ThroughParent(w) # {}
      BY <1>1, <1>5, <3>1, OwningFaults DEF Scan
    <3>2. CASE ThroughParent(w) = {}
      <4>1. parent[w] \in Objects /\ file[parent[w]] # None
        BY <1>5, <3>2 DEF Scan, ThroughParent, TypeInv, ParentInv
      <4> QED BY <1>1, <1>5, <3>2, <4>1, OwningFaults DEF Scan
    <3> QED BY <3>1, <3>2
  <2> QED BY <1>1, <1>5, <2>1, OwningKept DEF Scan
<1>6. ASSUME NEW w \in Wrappers, DestroyWrapper(w)
      PROVE  FilesInv' /\ faults' \subseteq WrapperFaults
  BY <1>1, <1>6, OwningFaults, OwningKept DEF DestroyWrapper
<1>7. ASSUME NEW w \in Wrappers, NEW v \in Wrappers, Copy(w, v)
      PROVE  FilesInv' /\ faults' \subseteq WrapperFaults
  BY <1>1, <1>7, OwningKept DEF Copy
<1>8. ~(\E o, p \in Objects : Move(o, p)) /\ ~(\E o \in Objects : Finalize(o))
  BY <1>1 DEF Owning, Move, Finalize
<1>9. CASE UNCHANGED vars
  BY <1>1, <1>9, OwningKept DEF vars
<1> QED BY <1>2, <1>3, <1>4, <1>5, <1>6, <1>7, <1>8, <1>9 DEF Next
-----------------------------------------------------------------------------
\* Calls through a wrapper reach its Ruleset and its scanner.
LEMMA PairedFaults ==
  ASSUME TypeInv, WrappersInv
  PROVE  \A w \in Wrappers : scanner[w] # None => ThroughParent(w) \subseteq LibraryFaults
  BY DEF ThroughParent, WrappersInv, LibraryFaults

\* The Rulesets that come and go, and are moved, are none that a wrapper has.
LEMMA PairedKept ==
  ASSUME TypeInv, WrappersInv, UNCHANGED wrappers,
         \A o \in Objects : file'[o] = file[o] \/ file[o] = None
                            \/ \A w \in Wrappers : scanner[w] = None \/ parent[w] # o
  PROVE  WrappersInv'
<1>1. UNCHANGED <<parent, scanner, alive, owner>>
  BY DEF wrappers
<1>2. ASSUME NEW w \in Wrappers, scanner[w] # None PROVE file'[parent[w]] = file[parent[w]]
  <2>1. parent[w] \in Objects /\ file[parent[w]] # None
    BY <1>2 DEF WrappersInv, TypeInv, ParentInv
  <2> QED BY <1>2, <2>1
<1> QED BY <1>1, <1>2 DEF WrappersInv

LEMMA PairedNewScanner ==
  ASSUME TypeInv, WrappersInv, NEW o \in Objects, NEW w \in Wrappers, NEW s \in Scanners,
         NewScanner(o, w, s)
  PROVE  WrappersInv'
<1>1. file[o] # None /\ file' = file
  BY DEF NewScanner, Usable, rulesets
<1>2. CASE o \in stale
  BY <1>1, <1>2, PairedKept DEF NewScanner
<1>3. CASE o \notin stale
  <2>1. /\ scanner' = [scanner EXCEPT ![w] = s] /\ parent' = [parent EXCEPT ![w] = o]
        /\ owner' = [owner EXCEPT ![s] = file[o]] /\ alive' = alive \cup {s}
        /\ s # None /\ \A v \in Wrappers : scanner[v] # s
        /\ scanner \in [Wrappers -> Scanners \cup {None}]
        /\ parent \in [Wrappers -> Objects \cup {None}] /\ owner \in [Scanners -> Files \cup {None}]
        /\ scanner[w] = None
    BY <1>3, NoneAssumption DEF NewScanner, TypeInv, TypeOK
  <2>2. ASSUME NEW v \in Wrappers, scanner'[v] # None
        PROVE  /\ file'[parent'[v]] # None /\ owner'[scanner'[v]] = file'[parent'[v]]
               /\ scanner'[v] \in alive'
    BY <1>1, <2>1, <2>2 DEF WrappersInv
  <2>3. \A u, v \in Wrappers : scanner'[u] = scanner'[v] /\ scanner'[u] # None => u = v
    BY <2>1 DEF WrappersInv
  <2>4. \A x \in alive' : \E v \in Wrappers : scanner'[v] = x
    <3>1. ASSUME NEW x \in alive PROVE \E v \in Wrappers : scanner'[v] = x
      <4>1. PICK v \in Wrappers : scanner[v] = x
        BY DEF WrappersInv
      <4>2. v # w
        BY <2>1, <4>1, NoneAssumption DEF TypeInv, TypeOK
      <4> QED BY <2>1, <4>1, <4>2
    <3> QED BY <2>1, <3>1
  <2> QED BY <2>2, <2>3, <2>4 DEF WrappersInv
<1> QED BY <1>2, <1>3

LEMMA PairedDestroyWrapper ==
  ASSUME TypeInv, WrappersInv, NEW w \in Wrappers, DestroyWrapper(w)
  PROVE  WrappersInv'
<1>1. /\ scanner' = [scanner EXCEPT ![w] = None] /\ parent' = [parent EXCEPT ![w] = None]
      /\ alive' = alive \ {scanner[w]} /\ UNCHANGED <<file, owner>> /\ scanner[w] # None
      /\ scanner \in [Wrappers -> Scanners \cup {None}]
      /\ parent \in [Wrappers -> Objects \cup {None}]
  BY DEF DestroyWrapper, rulesets, TypeInv, TypeOK
<1>2. \A v \in Wrappers : scanner'[v] # None => v # w /\ scanner[v] # scanner[w]
  BY <1>1 DEF WrappersInv
<1> QED BY <1>1, <1>2 DEF WrappersInv

LEMMA PairedNext == TypeInv /\ PairedInv /\ [Next]_vars => PairedInv'
<1> SUFFICES ASSUME TypeInv, PairedInv, [Next]_vars, Paired'
             PROVE  WrappersInv' /\ faults' \subseteq LibraryFaults
  BY DEF PairedInv
<1>1. Paired /\ WrappersInv /\ faults \subseteq LibraryFaults
  BY StepOf DEF Paired, PairedInv
<1>2. ASSUME NEW o \in Objects, NEW f \in Files, Construct(o, f) \/ ConstructThrows(o, f)
      PROVE  WrappersInv' /\ faults' \subseteq LibraryFaults
  <2>1. /\ UNCHANGED <<wrappers, faults>>
        /\ \A q \in Objects : file'[q] = file[q] \/ file[q] = None
    BY <1>2 DEF Construct, ConstructThrows, rulesets, TypeInv, TypeOK
  <2> QED BY <1>1, <2>1, PairedKept
<1>3. ASSUME NEW o \in Objects, NEW p \in Objects, Move(o, p)
      PROVE  WrappersInv' /\ faults' \subseteq LibraryFaults
  <2>1. /\ UNCHANGED <<wrappers, faults>>
        /\ \A q \in Objects : file'[q] = file[q] \/ file[q] = None
    BY <1>3 DEF Move, TypeInv, TypeOK
  <2> QED BY <1>1, <2>1, PairedKept
<1>4. ASSUME NEW o \in Objects, Destroy(o)
      PROVE  WrappersInv' /\ faults' \subseteq LibraryFaults
  <2>1. /\ UNCHANGED wrappers /\ \A w \in Wrappers : scanner[w] = None \/ parent[w] # o
        /\ \A q \in Objects \ {o} : file'[q] = file[q]
    BY <1>1, <1>4 DEF Destroy, Paired, TypeInv, TypeOK
  <2>2. \A q \in Objects : file'[q] = file[q] \/ file[q] = None
                           \/ \A w \in Wrappers : scanner[w] = None \/ parent[w] # q
    BY <2>1
  <2>3. faults' \subseteq LibraryFaults
    BY <1>4, FaultsTyped DEF Destroy
  <2> QED BY <1>1, <2>1, <2>2, <2>3, PairedKept
<1>5. ASSUME NEW o \in Objects, Initialize(o) \/ Finalize(o)
      PROVE  WrappersInv' /\ faults' \subseteq LibraryFaults
  <2>1. UNCHANGED wrappers /\ file' = file
    BY <1>5 DEF Initialize, Finalize, rulesets
  <2>2. faults' \subseteq LibraryFaults
    BY <1>5, FaultsTyped DEF Initialize, Finalize
  <2> QED BY <1>1, <2>1, <2>2, PairedKept
<1>6. ASSUME NEW o \in Objects, NEW w \in Wrappers, NEW s \in Scanners, NewScanner(o, w, s)
      PROVE  WrappersInv' /\ faults' \subseteq LibraryFaults
  BY <1>1, <1>6, PairedNewScanner, FaultsTyped DEF NewScanner
<1>7. ASSUME NEW w \in Wrappers, Scan(w)
      PROVE  WrappersInv' /\ faults' \subseteq LibraryFaults
  <2>1. UNCHANGED wrappers /\ file' = file
    BY <1>7 DEF Scan, rulesets
  <2>2. ThroughParent(w) \subseteq LibraryFaults
    BY <1>1, <1>7, PairedFaults DEF Scan
  <2>3. FaultsOf(file[parent[w]], FALSE) \subseteq LibraryFaults
    BY DEF FaultsOf, LibraryFaults
  <2> QED BY <1>1, <1>7, <2>1, <2>2, <2>3, PairedKept DEF Scan
<1>8. ASSUME NEW w \in Wrappers, DestroyWrapper(w)
      PROVE  WrappersInv' /\ faults' \subseteq LibraryFaults
  BY <1>1, <1>8, PairedDestroyWrapper, PairedFaults DEF DestroyWrapper
<1>9. ~(\E w, v \in Wrappers : Copy(w, v))
  BY <1>1 DEF Paired, Copy
<1>10. CASE UNCHANGED vars
  <2>1. UNCHANGED wrappers /\ file' = file /\ faults' = faults
    BY <1>10 DEF vars, rulesets
  <2> QED BY <1>1, <2>1, PairedKept
<1> QED BY <1>2, <1>3, <1>4, <1>5, <1>6, <1>7, <1>8, <1>9, <1>10 DEF Next

LEMMA ClientStays == Spec => [](TypeInv /\ OwningInv /\ PairedInv)
  BY TypeInit, TypeNext, ClientInit, OwningNext, PairedNext, PTL DEF Spec

LEMMA TidyIsBoth == Tidy => Owning /\ Paired
  BY DEF Tidy, Owning, Paired
-----------------------------------------------------------------------------
(***************************************************************************)
(* Libraries go wrong only for clients that move Rulesets, have two of one *)
(* file or call finalize(), and scanners only for clients that copy their  *)
(* wrappers or let them outlive the Ruleset, for any number of files,      *)
(* Rulesets and scanners (ruleset.hpp:20-45, ruleset.cpp:28-60).           *)
(***************************************************************************)
THEOREM FaultsComeFromUse == Spec => []FaultsFollowUse
<1>1. OwningInv /\ PairedInv => FaultsFollowUse
  BY DEF OwningInv, PairedInv, Owning, Paired, FaultsFollowUse
<1> QED BY <1>1, ClientStays, PTL

(***************************************************************************)
(* With scoped use, also with calls of initialize(), no call of the        *)
(* library goes wrong, for any number of files, Rulesets and scanners,     *)
(* opened and closed again in any order, and with failed constructions     *)
(* between them (ruleset.cpp:7-40).                                        *)
(***************************************************************************)
THEOREM ScopedUseIsSound == Spec => []NoFault
<1>1. WrapperFaults \cap LibraryFaults = {}
  BY DEF WrapperFaults, LibraryFaults
<1>2. OwningInv /\ PairedInv => NoFault
  BY <1>1, TidyIsBoth DEF OwningInv, PairedInv, NoFault
<1> QED BY <1>2, ClientStays, PTL

(***************************************************************************)
(* With scoped use the handles, databases and scanners are those of the    *)
(* objects there are, of constructions that threw (ruleset.cpp:62-69) and  *)
(* of calls of initialize() (ruleset.cpp:37-40).                           *)
(***************************************************************************)
THEOREM ScopedUseLeaksNothing == Spec => []NothingLeaks
<1>1. TypeInv /\ OwningInv /\ PairedInv => NothingLeaks
  <2> SUFFICES ASSUME TypeInv, OwningInv, PairedInv, Tidy
               PROVE  /\ \A f \in Files :
                           LET open == {o \in Objects : file[o] = f}
                           IN  /\ handles[f] = Cardinality(open) + failed[f]
                               /\ live[f] = Cardinality(open) + again[f]
                      /\ alive = {scanner[w] : w \in Wrappers} \ {None}
    BY DEF NothingLeaks
  <2>1. FilesInv /\ WrappersInv
    BY TidyIsBoth DEF OwningInv, PairedInv
  <2>2. ASSUME NEW f \in Files
        PROVE  /\ handles[f] = Cardinality({o \in Objects : file[o] = f}) + failed[f]
               /\ live[f] = Cardinality({o \in Objects : file[o] = f}) + again[f]
    <3>1. failed[f] \in Nat /\ again[f] \in Nat
      BY Bounds DEF TypeInv, TypeOK
    <3>2. CASE Opened(f)
      <4>1. PICK o \in Objects : file[o] = f
        BY <3>2 DEF Opened
      <4>2. {p \in Objects : file[p] = f} = {o}
        BY <2>1, <4>1, NoneAssumption DEF FilesInv
      <4>3. Cardinality({o}) = 1
        BY FS_Singleton
      <4>4. handles[f] = 1 + failed[f] /\ live[f] = 1 + again[f]
        BY <2>1, <3>2 DEF FilesInv, OpenFile
      <4> QED BY <4>2, <4>3, <4>4
    <3>3. CASE ~Opened(f)
      <4>1. {p \in Objects : file[p] = f} = {}
        BY <3>3 DEF Opened
      <4>2. Cardinality({}) = 0
        BY FS_EmptySet
      <4>3. handles[f] = failed[f] /\ live[f] = again[f]
        BY <2>1, <3>3 DEF FilesInv, ClosedFile
      <4> QED BY <3>1, <4>1, <4>2, <4>3
    <3> QED BY <3>2, <3>3
  <2>3. alive = {scanner[w] : w \in Wrappers} \ {None}
    BY <2>1, NoneAssumption DEF WrappersInv, TypeInv, TypeOK
  <2> QED BY <2>2, <2>3
<1> QED BY <1>1, ClientStays, PTL

(***************************************************************************)
(* With scoped use a ScannerWrapper's Ruleset is there while it has a      *)
(* scanner, and the databases its scanner was sized for are those that a   *)
(* scan reads (ruleset.hpp:20-38).                                         *)
(***************************************************************************)
THEOREM ScopedScannersReady == Spec => []ScannerReady
<1>1. TypeInv /\ OwningInv /\ PairedInv => ScannerReady
  <2> SUFFICES ASSUME TypeInv, OwningInv, PairedInv, Tidy, NEW w \in Wrappers, scanner[w] # None
               PROVE  LET f == file[parent[w]]
                      IN  f # None /\ owner[scanner[w]] = f /\ phase[f] = "initialized"
                          /\ pointer[f] = "live"
    BY DEF ScannerReady
  <2>1. FilesInv /\ WrappersInv /\ parent[w] \in Objects
    BY TidyIsBoth DEF OwningInv, PairedInv, TypeInv, ParentInv
  <2>2. file[parent[w]] \in Files /\ Opened(file[parent[w]])
    BY <2>1 DEF WrappersInv, Opened, TypeInv, TypeOK
  <2> QED BY <2>1, <2>2 DEF FilesInv, OpenFile, WrappersInv
<1> QED BY <1>1, ClientStays, PTL
=============================================================================
