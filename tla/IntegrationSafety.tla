------------------------- MODULE IntegrationSafety -------------------------
(***************************************************************************)
(* What the driver and the pool of children promise together.              *)
(***************************************************************************)
EXTENDS IntegrationTest, FiniteSetsExt

Labels == {"idle", "ready"} \cup Calling \cup Stopped

\* The type invariant of the driver and the pool.
TypeOK ==
  /\ job \in [Clients -> Question]
  /\ pc \in [Clients -> Labels]
  /\ outcome \in [Clients -> Outcomes \cup {NoOutcome}]
  /\ slot \in [Services -> {"none", "alive", "dead"}]
  /\ count \in [Services -> Nat]
  /\ holder \in [Services -> Clients \cup {Nobody}]
  /\ stdin \in [Services -> Seq(Lines)]
  /\ stdout \in [Services -> Seq(Outcomes)]
  /\ natives \in Nat /\ deaths \in Nat
  /\ main \in {"warmup", "reset", "spawn", "await", "exited"}
  /\ at \in Nat \ {0}
  /\ status \in {Running} \cup Nat

\* A task tests a regex only where a child has been started before, by whichever
\* task came first: "process isn't running" is never reached.
NeverWithoutChild ==
  \A c \in Clients : pc[c] \in Calling \ {"start"} => slot[Engine(c)] # "none"

\* Between a request and its answer nobody else uses the pipes of the child, and
\* while the mutex is free nothing is left in them: no answer can be taken for
\* the answer to another request, whichever tasks panic in between.
PipesBelongToHolder ==
  (\A j \in Jobs : OneLine(j)) =>
    \A s \in Services :
      /\ Len(stdin[s]) + Len(stdout[s]) <= 1
      /\ stdin[s] \o stdout[s] # <<>> =>
           holder[s] # Nobody /\ pc[holder[s]] = "read" /\ Engine(holder[s]) = s

\* A task is told what the engine says of its own regex.
OwnVerdict ==
  (\A j \in Jobs : OneLine(j)) =>
    \A c \in Clients :
      outcome[c] # NoOutcome => outcome[c] = Verdict(job[c].regex[1])

\* The statistics count each test of the engine once, and not the warm-up.
CountsExact ==
  main = "await" /\ (\A t \in TestSet : pc[t] = "done") =>
    /\ \A s \in Services : count[s] = Cardinality({t \in TestSet : Engine(t) = s})
    /\ natives = Cardinality({t \in TestSet : Engine(t) = "native"})

\* The abstract test suite: a test is judged when its task has ended.
judged ==
  [t \in TestSet |-> IF pc[t] = "panicked" THEN "lost"
                     ELSE IF pc[t] = "done" /\ Engine(t) \in Local THEN Engine(t)
                     ELSE outcome[t]]

\* An exit status of zero means that every test was judged and has passed, and
\* tests that have all passed are reported as zero, for less than 256 tests.
StatusTellsTruth ==
  main = "exited" /\ Len(Tests) < StatusModulus =>
    (status = 0 <=> \A t \in TestSet : judged[t] \in {"success", "ignored"})

\* The driver, its tasks and the children together implement the suite in which
\* every test is judged on its own.
Suite == INSTANCE TestSuite
           WITH Cases <- TestSet, Engines <- Services, Local <- Local, Running <- Running
ImplementsSuite == Suite!Spec

\* No task waits for ever and the driver exits, whatever children die, unless a
\* child that waits for a word is sent a blank line.
DriverExits ==
  (\A t \in TestSet : Engine(t) \in TokenReaders => job[t].regex # <<"blank">>)
    => <>(main = "exited")

\* "child process did not respond": a call returns or panics.
CallsReturn ==
  \A t \in TestSet : pc[t] = "start" ~> pc[t] \in Stopped \/ main = "exited"
=============================================================================
