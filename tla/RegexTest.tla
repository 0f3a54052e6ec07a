----------------------------- MODULE RegexTest -----------------------------
(***************************************************************************)
(* regex_test::async::RegexTest: the pool that asks other regex engines    *)
(* whether they accept a regex.  One long-lived child process per engine   *)
(* reads regexes from its standard input, a line each, and prints a line   *)
(* for every one.  Many tasks share the pool; a mutex per child, held from *)
(* the request to its answer, is all that pairs answers with requests.     *)
(*                                                                         *)
(* A step is what a task does between two awaits.  Pipes hold whatever is  *)
(* written to them.  The mutex is acquired by any of its waiters, although *)
(* tokio's is first come, first served.                                    *)
(***************************************************************************)
EXTENDS Naturals, Sequences, FiniteSets

CONSTANTS
  Clients,       \* the calls that are made to the pool, one by each task
  Services,      \* the engines that run in a child process
  TokenReaders,  \* those that wait for a word before they read a line (Java)
  Installed,     \* those whose program can be started
  Jobs,          \* what a client may ask
  MaxDeaths      \* how many children may die, a bound of the model

VARIABLES
  job,       \* the engine and the regex of each client
  pc,        \* where each client is
  outcome,   \* what it has been told
  slot,      \* Process.data: no child yet, or a child, dead or alive
  count,     \* how often each child was asked since the last reset
  holder,    \* who holds the mutex
  stdin, stdout,   \* the lines on their way to and from each child
  natives,   \* the calls to engines that are linked in (Count)
  deaths

service == <<slot, count, holder, stdin, stdout, deaths>>
poolVars == <<job, pc, outcome, service, natives>>

Nobody == "nobody"
Lines == {"valid", "invalid", "blank"}
Outcomes == {"success", "error"}
NoOutcome == "none"
Calling == {"start", "call", "write", "read"}
Stopped == {"done", "panicked"}

\* Regexes are sequences of lines: a raw regex may contain a line break.
OneLine(j) == Len(j.regex) = 1

\* Mutant: the answer repeats the line.
VerdictMutant(line) == IF line = "blank" THEN "success" ELSE line

\* What an engine says of a line.  The empty regex is valid.
Verdict(line) == IF line = "invalid" THEN "error" ELSE "success"
Engine(c) == job[c].call

Goto(c, label) == pc' = [pc EXCEPT ![c] = label]
Free(s) == holder[s] = Nobody
Release(s) == holder' = [holder EXCEPT ![s] = Nobody]

PoolInit ==
  /\ outcome = [c \in Clients |-> NoOutcome]
  /\ slot = [s \in Services |-> "none"]
  /\ count = [s \in Services |-> 0]
  /\ holder = [s \in Services |-> Nobody]
  /\ stdin = [s \in Services |-> <<>>]
  /\ stdout = [s \in Services |-> <<>>]
  /\ natives = 0
  /\ deaths = 0

-----------------------------------------------------------------------------
\* test_rust, test_pcre and test_ruby do not leave the process.
Native(c) ==
  /\ pc[c] = "ready" /\ Engine(c) = "native"
  /\ natives' = natives + 1
  /\ outcome' = [outcome EXCEPT ![c] = Verdict(job[c].regex[1])]
  /\ Goto(c, "done")
  /\ UNCHANGED <<job, service>>

\* Mutant: the child is taken to be there.
CallMutant(c) ==
  /\ pc[c] = "ready" /\ Engine(c) \in Services
  /\ Goto(c, "call")
  /\ UNCHANGED <<job, outcome, service, natives>>

\* test_js, test_python and test_java first make sure that there is a child.
Call(c) ==
  /\ pc[c] = "ready" /\ Engine(c) \in Services
  /\ Goto(c, "start")
  /\ UNCHANGED <<job, outcome, service, natives>>

\* Process::start_with: under the mutex, and without an await in it, a child is
\* started if there never was one.  A child that has died stays in its slot.
Start(c) ==
  LET s == Engine(c) IN
  /\ pc[c] = "start" /\ Free(s)
  /\ \/ /\ slot[s] # "none"
        /\ Goto(c, "call")
        /\ UNCHANGED slot
     \/ /\ slot[s] = "none" /\ s \in Installed
        /\ slot' = [slot EXCEPT ![s] = "alive"]
        /\ Goto(c, "call")
     \/ /\ slot[s] = "none" /\ s \notin Installed      \* "failed to spawn child"
        /\ Goto(c, "panicked")
        /\ UNCHANGED slot
  /\ UNCHANGED <<job, outcome, count, holder, stdin, stdout, natives, deaths>>

\* Process::test, up to the write.  Between start and test the mutex is free.
Acquire(c) ==
  LET s == Engine(c) IN
  /\ pc[c] = "call" /\ Free(s)
  /\ holder' = [holder EXCEPT ![s] = c]
  /\ count' = [count EXCEPT ![s] = count[s] + 1]
  /\ Goto(c, "write")
  /\ UNCHANGED <<job, outcome, slot, stdin, stdout, natives, deaths>>

\* Mutant: a panic leaves the mutex locked.
PanicMutant(c) ==
  /\ Goto(c, "panicked")
  /\ UNCHANGED <<job, outcome, service, natives>>

\* A panic drops the guard and releases the mutex: tokio's is not poisoned.
Panic(c) ==
  /\ Goto(c, "panicked")
  /\ Release(Engine(c))
  /\ UNCHANGED <<job, outcome, slot, count, stdin, stdout, natives, deaths>>

\* Mutant: the mutex is released before the answer has arrived.
WriteMutant(c) ==
  LET s == Engine(c) IN
  /\ pc[c] = "write"
  /\ stdin' = [stdin EXCEPT ![s] = @ \o job[c].regex]
  /\ Goto(c, "read")
  /\ Release(s)
  /\ UNCHANGED <<job, outcome, slot, count, stdout, natives, deaths>>

Write(c) ==
  LET s == Engine(c) IN
  /\ pc[c] = "write"
  /\ \/ /\ slot[s] = "alive"
        /\ stdin' = [stdin EXCEPT ![s] = @ \o job[c].regex]
        /\ Goto(c, "read")
        /\ UNCHANGED <<job, outcome, slot, count, holder, stdout, natives, deaths>>
     \/ /\ slot[s] = "dead"                            \* the pipe is closed
        /\ Panic(c)

\* Mutant: the end of the child's output is no error.
ReadMutant(c) ==
  LET s == Engine(c) IN
  /\ pc[c] = "read"
  /\ stdout[s] # <<>> \/ slot[s] = "dead"
  /\ outcome' = [outcome EXCEPT ![c] = IF stdout[s] = <<>> THEN "success"
                                                         ELSE Head(stdout[s])]
  /\ stdout' = [stdout EXCEPT ![s] = IF @ = <<>> THEN @ ELSE Tail(@)]
  /\ Goto(c, "done")
  /\ Release(s)
  /\ UNCHANGED <<job, slot, count, stdin, natives, deaths>>

\* The answer is the next line of the child, and the mutex is released.
Read(c) ==
  LET s == Engine(c) IN
  /\ pc[c] = "read"
  /\ \/ /\ stdout[s] # <<>>
        /\ outcome' = [outcome EXCEPT ![c] = Head(stdout[s])]
        /\ stdout' = [stdout EXCEPT ![s] = Tail(@)]
        /\ Goto(c, "done")
        /\ Release(s)
        /\ UNCHANGED <<job, slot, count, stdin, natives, deaths>>
     \/ /\ stdout[s] = <<>> /\ slot[s] = "dead"        \* end of file
        /\ Panic(c)

-----------------------------------------------------------------------------
(***************************************************************************)
(* The children: tester-async.js, tester_async.py, TesterAsync.java.       *)
(***************************************************************************)

\* Scanner.hasNext() returns when there is a word, which it leaves in place.
Readable(s) ==
  IF s \in TokenReaders THEN \E i \in DOMAIN stdin[s] : stdin[s][i] # "blank"
                        ELSE stdin[s] # <<>>

\* Mutant: an invalid regex gets an answer of two lines.
AnswerMutant(s) ==
  /\ slot[s] = "alive" /\ Readable(s)
  /\ stdout' = [stdout EXCEPT ![s] = @ \o IF Head(stdin[s]) = "invalid"
                                          THEN <<"error", "error">> ELSE <<"success">>]
  /\ stdin' = [stdin EXCEPT ![s] = Tail(@)]
  /\ UNCHANGED <<job, pc, outcome, slot, count, holder, natives, deaths>>

Answer(s) ==
  /\ slot[s] = "alive" /\ Readable(s)
  /\ stdout' = [stdout EXCEPT ![s] = Append(@, Verdict(Head(stdin[s])))]
  /\ stdin' = [stdin EXCEPT ![s] = Tail(@)]
  /\ UNCHANGED <<job, pc, outcome, slot, count, holder, natives, deaths>>

\* A child may die at any time, for instance of a stack overflow.
Die(s) ==
  /\ slot[s] = "alive" /\ deaths < MaxDeaths
  /\ slot' = [slot EXCEPT ![s] = "dead"]
  /\ stdin' = [stdin EXCEPT ![s] = <<>>]
  /\ deaths' = deaths + 1
  /\ UNCHANGED <<job, pc, outcome, count, holder, stdout, natives>>

ClientStep(c) == Native(c) \/ Call(c) \/ Start(c) \/ Acquire(c) \/ Write(c) \/ Read(c)
=============================================================================
