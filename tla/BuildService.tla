----------------------------- MODULE BuildService -----------------------------
(***************************************************************************)
(* What someone may rely on who builds rulesets with yarangc.sh one at a   *)
(* time in a directory, where they are, and of contents that compile: a    *)
(* build reads its ruleset once, and in the end it takes the .bin away and *)
(* puts the image of what it read in its place.  Until it does, the .bin   *)
(* neither changes nor goes away, whoever edits and builds what.           *)
(***************************************************************************)
CONSTANTS
  Rulesets,  \* the paths given to yarangc.sh
  Contents,  \* what a ruleset file can hold
  Accepted,  \* the contents that compile
  Image,     \* what a content makes
  Absent

VARIABLES
  source,    \* what a ruleset file holds
  reading,   \* what the build of a ruleset has read and not yet put in place
  image      \* what is in place

service == <<source, reading, image>>

Init ==
  /\ source \in [Rulesets -> Contents]
  /\ reading = [r \in Rulesets |-> Absent]
  /\ image = [r \in Rulesets |-> Absent]

Edit(r, c) ==
  /\ source' = [source EXCEPT ![r] = c]
  /\ UNCHANGED <<reading, image>>

Read(r) ==
  /\ reading[r] = Absent /\ source[r] \in Accepted
  /\ reading' = [reading EXCEPT ![r] = source[r]]
  /\ UNCHANGED <<source, image>>

\* What is in place goes, to make room.
Clear(r) ==
  /\ reading[r] # Absent
  /\ image' = [image EXCEPT ![r] = Absent]
  /\ UNCHANGED <<source, reading>>

Replace(r) ==
  /\ reading[r] # Absent
  /\ image' = [image EXCEPT ![r] = Image[reading[r]]]
  /\ reading' = [reading EXCEPT ![r] = Absent]
  /\ UNCHANGED source

Next ==
  \/ \E r \in Rulesets : Read(r) \/ Clear(r) \/ Replace(r)
  \/ \E r \in Rulesets, c \in Contents : Edit(r, c)

Spec == Init /\ [][Next]_service
=============================================================================
