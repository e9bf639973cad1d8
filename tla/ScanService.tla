----------------------------- MODULE ScanService -----------------------------
(***************************************************************************)
(* What a client of a compiled ruleset may rely on who has one scan open   *)
(* at a time: a scan is asked for with yng_scan_data, the callback tells   *)
(* the public rules that hold, each once and in the order of the file, and *)
(* the scan then answers; or it throws, or the process is aborted, and     *)
(* then it has told nothing.                                               *)
(***************************************************************************)
EXTENDS Naturals

CONSTANTS
  Scanners,     \* results of yng_new_scanner
  NumRules,     \* the number of rules of the ruleset
  PublicRules,  \* the rules that are not private
  Requests,     \* the arguments of scans
  Verdict,      \* the rules that hold for a request
  NoRequest

VARIABLES
  asked,   \* the request of a scanner's last scan
  told,    \* how often a rule was told in that scan
  status   \* "running", or how that scan ended

service == <<asked, told, status>>

Untold == [r \in 1 .. NumRules |-> 0]
Due(q) == PublicRules \cap Verdict[q]

Init ==
  /\ asked = [s \in Scanners |-> NoRequest]
  /\ told = [s \in Scanners |-> Untold]
  /\ status = [s \in Scanners |-> "fresh"]

Ask(s, q) ==
  /\ \A x \in Scanners : status[x] \notin {"running", "aborted"}
  /\ asked' = [asked EXCEPT ![s] = q]
  /\ told' = [told EXCEPT ![s] = Untold]
  /\ status' = [status EXCEPT ![s] = "running"]

\* The callback is called for r.
Tell(s, r) ==
  /\ status[s] = "running"
  /\ r \in Due(asked[s]) /\ told[s][r] = 0
  /\ \A e \in Due(asked[s]) : e < r => told[s][e] = 1
  /\ told' = [told EXCEPT ![s][r] = 1]
  /\ UNCHANGED <<asked, status>>

Answer(s) ==
  /\ status[s] = "running"
  /\ \A r \in Due(asked[s]) : told[s][r] = 1
  /\ status' = [status EXCEPT ![s] = "ok"]
  /\ UNCHANGED <<asked, told>>

Fail(s) ==
  /\ status[s] = "running" /\ told[s] = Untold
  /\ \E how \in {"threw", "aborted"} : status' = [status EXCEPT ![s] = how]
  /\ UNCHANGED <<asked, told>>

Next ==
  \/ \E s \in Scanners, q \in Requests : Ask(s, q)
  \/ \E s \in Scanners, r \in 1 .. NumRules : Tell(s, r)
  \/ \E s \in Scanners : Answer(s) \/ Fail(s)

Spec == Init /\ [][Next]_service
=============================================================================
