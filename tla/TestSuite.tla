----------------------------- MODULE TestSuite -----------------------------
(***************************************************************************)
(* What a run of the integration tests promises, without any process,      *)
(* pipe, mutex or order: every test is judged by its own regex alone, or   *)
(* is lost because its engine or the compiler died, and the exit status is *)
(* zero if and only if every test has passed.                              *)
(***************************************************************************)
EXTENDS Integers

CONSTANTS Cases, Engines, Local, Running

VARIABLES
  job,       \* the engine and the regex of each test
  judged,    \* the judgement of each test
  status     \* the exit status of the run

vars == <<job, judged, status>>

Pending == "none"
Lost == "lost"

\* A test is lost when its engine dies or the compiler panics.
Fragile(t) == job[t].call \in Engines \cup {"crash"}

\* The judgement a test deserves.
Deserved(t) ==
  IF job[t].call \in Local THEN job[t].call
  ELSE IF job[t].regex = <<"invalid">> THEN "error" ELSE "success"

Init ==
  /\ judged = [t \in Cases |-> Pending]
  /\ status = Running

Judge(t) ==
  /\ status = Running /\ judged[t] = Pending
  /\ job[t].call # "crash"
  /\ judged' = [judged EXCEPT ![t] = Deserved(t)]
  /\ UNCHANGED <<job, status>>

Lose(t) ==
  /\ status = Running /\ judged[t] = Pending
  /\ Fragile(t)
  /\ judged' = [judged EXCEPT ![t] = Lost]
  /\ UNCHANGED <<job, status>>

\* The run may end without a judgement on every test, but only to report failure.
Exit ==
  /\ status = Running
  /\ status' \in Nat
  /\ status' = 0 <=> \A t \in Cases : judged[t] \in {"success", "ignored"}
  /\ UNCHANGED <<job, judged>>

Next == Exit \/ \E t \in Cases : Judge(t) \/ Lose(t)

Spec == Init /\ [][Next]_vars
=============================================================================
