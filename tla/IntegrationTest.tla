-------------------------- MODULE IntegrationTest --------------------------
(***************************************************************************)
(* The driver of the integration tests (pomsky-lib/tests/it): defer_main   *)
(* warms the pool up, resets its counts, spawns a task per test case and   *)
(* awaits the tasks in order.  Its exit status is all that reports.        *)
(***************************************************************************)
EXTENDS RegexTest, Integers

CONSTANTS
  Tests,         \* the test cases, a sequence
  Children,      \* the services in the order in which their counts are reset
  StatusModulus  \* an exit status keeps that many values (256)

VARIABLES
  main,      \* the phase of defer_main
  at,        \* its position in Children or Tests
  status     \* the exit status

mainVars == <<main, at, status>>
vars == <<poolVars, mainVars>>

TestSet == {Tests[i] : i \in DOMAIN Tests}
\* There is no exit status yet.
Running == -1
\* Test cases that are not handed to an engine: they pass without one, their output
\* is not the expected one, or the compiler panics.
Local == {"ignored", "wrong", "crash"}

\* Mutant: a test fails only if an engine refuses its regex.
PassedMutant(t) == outcome[t] # "error"

\* TestResult, by what the engine said or by what the driver saw itself.
Passed(t) == Engine(t) = "ignored" \/ outcome[t] = "success"
Failed == {i \in DOMAIN Tests : ~Passed(Tests[i])}

\* The regex of a test, and the engine it is for.
Question == [call : Services \cup Local \cup {"native"}, regex : Seq(Lines) \ {<<>>}]

ASSUME DriverAssumption ==
  /\ Tests \in Seq(Clients) /\ Tests # <<>>
  /\ \A i, j \in DOMAIN Tests : Tests[i] = Tests[j] => i = j
  /\ Clients = TestSet \cup Services /\ TestSet \cap Services = {}
  /\ Children \in Seq(Services) /\ Services = {Children[i] : i \in DOMAIN Children}
  /\ TokenReaders \subseteq Services /\ Installed \subseteq Services
  /\ Nobody \notin Clients
  /\ Services \cap (Local \cup {"native"}) = {}
  /\ Jobs \subseteq Question
  /\ MaxDeaths \in Nat /\ StatusModulus \in Nat \ {0}

\* init_processes joins a call to each service, with the regex `x`.
WarmUp(s) == [call |-> s, regex |-> <<"valid">>]

Init ==
  /\ \E plan \in [TestSet -> Jobs] :
       job = [c \in Clients |-> IF c \in Services THEN WarmUp(c) ELSE plan[c]]
  /\ pc = [c \in Clients |-> IF c \in Services THEN "ready" ELSE "idle"]
  /\ PoolInit
  /\ main = "warmup" /\ at = 1 /\ status = Running

Exit(s) == main' = "exited" /\ status' = s /\ UNCHANGED <<poolVars, at>>

\* join! is done when all the calls are; a panic in one ends the program.
WarmedUp ==
  /\ main = "warmup" /\ \A s \in Services : pc[s] = "done"
  /\ main' = "reset" /\ at' = 1
  /\ UNCHANGED <<poolVars, status>>

WarmUpPanics ==
  /\ main = "warmup" /\ \E s \in Services : pc[s] = "panicked"
  /\ Exit(101)

\* Mutant: the counts keep the warm-up.
ResetMutant ==
  /\ main = "reset"
  /\ main' = "spawn" /\ at' = 1
  /\ UNCHANGED <<poolVars, status>>

Reset ==
  /\ main = "reset"
  /\ \/ /\ at <= Len(Children) /\ Free(Children[at])
        /\ count' = [count EXCEPT ![Children[at]] = 0]
        /\ at' = at + 1
        /\ UNCHANGED <<job, pc, outcome, slot, holder, stdin, stdout, deaths, natives,
                       main, status>>
     \/ /\ at > Len(Children)
        /\ main' = "spawn" /\ at' = 1
        /\ UNCHANGED <<poolVars, status>>

Spawn ==
  /\ main = "spawn"
  /\ \/ /\ at <= Len(Tests)
        /\ pc' = [pc EXCEPT ![Tests[at]] = "ready"]
        /\ at' = at + 1
        /\ UNCHANGED <<job, outcome, service, natives, main, status>>
     \/ /\ at > Len(Tests)
        /\ main' = "await" /\ at' = 1
        /\ UNCHANGED <<poolVars, status>>

\* test_file of a test that does not get to an engine.
Compare(t) ==
  /\ pc[t] = "ready" /\ Engine(t) \in Local
  /\ Goto(t, IF Engine(t) = "crash" THEN "panicked" ELSE "done")
  /\ UNCHANGED <<job, outcome, service, natives, mainVars>>

\* The first task, in the order of the tests, that has panicked ends the program.
Await ==
  /\ main = "await" /\ at <= Len(Tests)
  /\ \/ /\ pc[Tests[at]] = "done"
        /\ at' = at + 1
        /\ UNCHANGED <<poolVars, main, status>>
     \/ /\ pc[Tests[at]] = "panicked"
        /\ Exit(1)

\* std::process::exit(failed)
Report ==
  /\ main = "await" /\ at > Len(Tests)
  /\ Exit(Cardinality(Failed) % StatusModulus)

MainStep == WarmedUp \/ WarmUpPanics \/ Reset \/ Spawn \/ Await \/ Report
Task(c) ==
  /\ main # "exited"
  /\ \/ ClientStep(c) /\ UNCHANGED mainVars
     \/ c \in TestSet /\ Compare(c)
Child(s) == main # "exited" /\ Answer(s) /\ UNCHANGED mainVars
Death(s) == main # "exited" /\ Die(s) /\ UNCHANGED mainVars

\* The program has exited.
Exited == main = "exited" /\ UNCHANGED vars

Next ==
  \/ MainStep
  \/ \E c \in Clients : Task(c)
  \/ \E s \in Services : Child(s) \/ Death(s)
  \/ Exited

Spec == Init /\ [][Next]_vars

\* The runtime has eight workers, so a task that can go on does; a child that is
\* alive reads its input.  Nothing makes a child die.
Fairness ==
  /\ WF_vars(MainStep)
  /\ \A c \in Clients : WF_vars(Task(c))
  /\ \A s \in Services : WF_vars(Child(s))

FairSpec == Spec /\ Fairness
=============================================================================
