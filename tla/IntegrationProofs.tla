------------------------- MODULE IntegrationProofs -------------------------
(***************************************************************************)
(* Proofs about the pool of children and its driver, for every number of   *)
(* tests, services and deaths: who owns a mutex and the pipes behind it,   *)
(* what is counted and reported, and that the driver with its pool         *)
(* implements the suite that judges each test on its own.                  *)
(***************************************************************************)
EXTENDS IntegrationSafety, SequenceTheorems, FiniteSetTheorems, TLAPS

-----------------------------------------------------------------------------
(***************************************************************************)
(* Types.                                                                  *)
(***************************************************************************)

\* What the steps do to the lines in a pipe.
LEMMA SequenceFacts ==
  /\ \A T, x : x \in T => <<x>> \in Seq(T)
  /\ \A T : \A q \in Seq(T) : q # <<>> => Head(q) \in T /\ Tail(q) \in Seq(T)
  /\ \A T : \A q \in Seq(T), x \in T : Append(q, x) \in Seq(T)
  /\ \A T : \A q, r \in Seq(T) : q \o r \in Seq(T)
  OBVIOUS

\* What a client may ask.
LEMMA CallTypes ==
  ASSUME TypeOK, NEW c \in Clients
  PROVE  /\ Engine(c) \in Services \cup Local \cup {"native"}
         /\ job[c].regex \in Seq(Lines) /\ job[c].regex # <<>>
         /\ job[c].regex[1] \in Lines
  BY DEF TypeOK, Question, Engine

LEMMA VerdictTypes == \A line : Verdict(line) \in Outcomes
  BY DEF Verdict, Outcomes

\* A client is a test or stands for the warm-up of a service.
LEMMA ClientSets == TestSet \subseteq Clients /\ Services \subseteq Clients
  BY DriverAssumption

\* A client that has got to its engine asks one that runs in a child.
Routed == \A c \in Clients : pc[c] \in Calling => Engine(c) \in Services

LEMMA ClientTypes ==
  ASSUME TypeOK, Routed, NEW c \in Clients, ClientStep(c), UNCHANGED mainVars
  PROVE  TypeOK' /\ Routed'
<1>1. CASE Native(c)
  BY <1>1, VerdictTypes DEF TypeOK, Routed, Native, service, mainVars, Goto, Labels, Stopped, Calling, Engine
<1>2. CASE Call(c)
  BY <1>2 DEF TypeOK, Routed, Call, service, mainVars, Goto, Labels, Calling, Engine
<1>3. ASSUME Panic(c), Engine(c) \in Services PROVE TypeOK' /\ Routed'
  BY <1>3 DEF TypeOK, Routed, Panic, Release, mainVars, Goto, Labels, Stopped, Calling, Engine
<1>4. CASE Start(c)
  <2>1. Engine(c) \in Services /\ pc[c] = "start"
    BY <1>4 DEF Routed, Start, Calling
  <2>2. pc' \in [Clients -> Labels] /\ Routed'
    <3>1. \E label \in {"call", "panicked"} : pc' = [pc EXCEPT ![c] = label]
      BY <1>4 DEF Start, Goto
    <3> QED
      BY <1>4, <2>1, <3>1 DEF TypeOK, Routed, Start, Labels, Calling, Stopped, Engine
  <2>3. slot' \in [Services -> {"none", "alive", "dead"}]
    BY <1>4, <2>1 DEF TypeOK, Start
  <2> QED
    BY <1>4, <2>2, <2>3 DEF TypeOK, Start, mainVars
<1>5. CASE Acquire(c)
  <2>1. Engine(c) \in Services
    BY <1>5 DEF Routed, Acquire, Calling
  <2> QED
    BY <1>5, <2>1 DEF TypeOK, Routed, Acquire, mainVars, Goto, Labels, Calling, Engine
<1>6. CASE Write(c)
  <2>1. Engine(c) \in Services
    BY <1>6 DEF Routed, Write, Calling
  <2>2. stdin[Engine(c)] \o job[c].regex \in Seq(Lines)
    BY <2>1, CallTypes, SequenceFacts DEF TypeOK
  <2>3. CASE Panic(c)
    BY <1>3, <2>1, <2>3
  <2>4. CASE ~Panic(c)
    BY <1>6, <2>1, <2>2, <2>4 DEF TypeOK, Routed, Write, mainVars, Goto, Labels, Calling, Engine
  <2> QED
    BY <2>3, <2>4
<1>7. CASE Read(c)
  <2>1. Engine(c) \in Services /\ pc[c] = "read"
    BY <1>7 DEF Routed, Read, Calling
  <2>2. CASE Panic(c)
    BY <1>3, <2>1, <2>2
  <2>3. CASE ~Panic(c)
    <3>1. stdout[Engine(c)] \in Seq(Outcomes) /\ stdout[Engine(c)] # <<>>
      BY <1>7, <2>1, <2>3 DEF TypeOK, Read
    <3>2. /\ Head(stdout[Engine(c)]) \in Outcomes
          /\ Tail(stdout[Engine(c)]) \in Seq(Outcomes)
      BY <3>1, SequenceFacts
    <3>3. pc' = [pc EXCEPT ![c] = "done"] /\ UNCHANGED job
      BY <1>7, <2>3 DEF Read, Goto
    <3>4. pc' \in [Clients -> Labels] /\ Routed'
      BY <2>1, <3>3 DEF TypeOK, Routed, Labels, Stopped, Calling, Engine
    <3>5. /\ outcome' = [outcome EXCEPT ![c] = Head(stdout[Engine(c)])]
          /\ stdout' = [stdout EXCEPT ![Engine(c)] = Tail(stdout[Engine(c)])]
          /\ holder' = [holder EXCEPT ![Engine(c)] = Nobody]
          /\ UNCHANGED <<job, slot, count, stdin, natives, deaths, main, at, status>>
      BY <1>7, <2>3 DEF Read, Release, mainVars
    <3>6. /\ outcome' \in [Clients -> Outcomes \cup {NoOutcome}]
          /\ stdout' \in [Services -> Seq(Outcomes)]
          /\ holder' \in [Services -> Clients \cup {Nobody}]
      BY <3>2, <3>5 DEF TypeOK
    <3> QED
      BY <3>4, <3>5, <3>6 DEF TypeOK
  <2> QED
    BY <2>2, <2>3
<1> QED
  BY <1>1, <1>2, <1>4, <1>5, <1>6, <1>7 DEF ClientStep

LEMMA ChildTypes ==
  ASSUME TypeOK, Routed, NEW s \in Services, Answer(s) \/ Die(s), UNCHANGED mainVars
  PROVE  TypeOK' /\ Routed'
<1>1. CASE Answer(s)
  <2>1. stdin[s] \in Seq(Lines) /\ stdin[s] # <<>> /\ stdout[s] \in Seq(Outcomes)
    BY <1>1 DEF TypeOK, Answer, Readable
  <2>2. /\ Tail(stdin[s]) \in Seq(Lines)
        /\ Append(stdout[s], Verdict(Head(stdin[s]))) \in Seq(Outcomes)
    BY <2>1, SequenceFacts, VerdictTypes
  <2> QED
    BY <1>1, <2>2 DEF TypeOK, Routed, Answer, mainVars, Engine
<1>2. CASE Die(s)
  BY <1>2 DEF TypeOK, Routed, Die, mainVars, Engine
<1> QED
  BY <1>1, <1>2

LEMMA MainTypes ==
  ASSUME TypeOK, Routed, MainStep
  PROVE  TypeOK' /\ Routed'
<1>1. CASE WarmedUp
  BY <1>1 DEF WarmedUp, TypeOK, Routed, poolVars, service, Engine
<1>2. ASSUME NEW n \in Nat, Exit(n) PROVE TypeOK' /\ Routed'
  BY <1>2 DEF Exit, TypeOK, Routed, poolVars, service, Engine
<1>3. CASE Reset
  <2>1. ASSUME at <= Len(Children) PROVE Children[at] \in Services
    BY <2>1, DriverAssumption DEF TypeOK
  <2>2. count' \in [Services -> Nat]
    <3>1. \/ at <= Len(Children) /\ count' = [count EXCEPT ![Children[at]] = 0]
          \/ count' = count
      BY <1>3 DEF Reset, poolVars, service
    <3>2. count \in [Services -> Nat]
      BY DEF TypeOK
    <3> QED
      BY <2>1, <3>1, <3>2
  <2> QED
    BY <1>3, <2>2 DEF Reset, TypeOK, Routed, poolVars, service, Engine
<1>4. CASE Spawn
  <2>1. ASSUME at <= Len(Tests) PROVE Tests[at] \in Clients
    BY <2>1, DriverAssumption DEF TypeOK
  <2>2. pc' \in [Clients -> Labels] /\ Routed'
    BY <1>4, <2>1 DEF Spawn, TypeOK, Routed, Labels, Calling, Engine, poolVars
  <2> QED
    BY <1>4, <2>2 DEF Spawn, TypeOK, poolVars, service
<1>5. CASE Await
  <2>1. CASE Exit(1)
    BY <1>2, <2>1
  <2>2. CASE ~Exit(1)
    BY <1>5, <2>2 DEF Await, TypeOK, Routed, poolVars, service, Engine
  <2> QED
    BY <2>1, <2>2
<1>6. CASE Report
  <2>1. Cardinality(Failed) % StatusModulus \in Nat
    <3>1. IsFiniteSet(DOMAIN Tests)
      BY DriverAssumption, FS_Interval
    <3>2. IsFiniteSet(Failed)
      BY <3>1, FS_Subset DEF Failed
    <3> QED
      BY <3>2, FS_CardinalityType, DriverAssumption
  <2> QED
    BY <1>2, <1>6, <2>1 DEF Report
<1> QED
  BY <1>1, <1>2, <1>3, <1>4, <1>5, <1>6 DEF MainStep, WarmUpPanics

LEMMA CompareTypes ==
  ASSUME TypeOK, Routed, NEW t \in TestSet, Compare(t)
  PROVE  TypeOK' /\ Routed'
<1>1. PICK label \in Stopped : pc' = [pc EXCEPT ![t] = label]
  BY DEF Compare, Goto, Stopped
<1> QED
  BY <1>1, ClientSets DEF TypeOK, Routed, Compare, service, mainVars, Engine, Labels, Stopped, Calling

LEMMA InitTypes == Init => TypeOK /\ Routed
<1> SUFFICES ASSUME Init PROVE TypeOK /\ Routed
  OBVIOUS
<1>1. job \in [Clients -> Question]
  <2>1. PICK plan \in [TestSet -> Jobs] :
          job = [c \in Clients |-> IF c \in Services THEN WarmUp(c) ELSE plan[c]]
    BY DEF Init
  <2>2. \A s \in Services : WarmUp(s) \in Question
    BY SequenceFacts DEF WarmUp, Question, Lines
  <2>3. \A j \in Jobs : j \in Question
    BY DriverAssumption
  <2> QED
    BY <2>1, <2>2, <2>3, DriverAssumption
<1>2. pc \in [Clients -> Labels] /\ Routed
  BY DEF Init, Labels, Routed, Calling
<1> QED
  <2>1. \A s \in Services : <<>> \in Seq(Lines) /\ <<>> \in Seq(Outcomes)
    OBVIOUS
  <2> QED
    BY <1>1, <1>2, <2>1 DEF Init, PoolInit, TypeOK, Running

LEMMA TypesStep == TypeOK /\ Routed /\ [Next]_vars => TypeOK' /\ Routed'
<1> SUFFICES ASSUME TypeOK, Routed, [Next]_vars PROVE TypeOK' /\ Routed'
  OBVIOUS
<1>1. CASE UNCHANGED vars
  BY <1>1 DEF TypeOK, Routed, vars, poolVars, service, mainVars, Engine
<1>2. CASE Next
  BY <1>1, <1>2, ClientTypes, ChildTypes, MainTypes, CompareTypes
     DEF Next, Task, Child, Death, Exited
<1> QED
  BY <1>1, <1>2

\* No variable of the driver and the pool leaves its type: every line in a pipe
\* is a regex or an answer, every holder of a mutex is a client.
THEOREM HarnessTypes == Spec => []TypeOK
<1>1. Init => TypeOK /\ Routed
  BY InitTypes
<1>2. TypeOK /\ Routed /\ [Next]_vars => (TypeOK /\ Routed)'
  BY TypesStep
<1> QED
  BY <1>1, <1>2, PTL DEF Spec

-----------------------------------------------------------------------------
(***************************************************************************)
(* The pipes.  The inductive invariant says who holds each mutex and what  *)
(* the pipes of a child contain meanwhile: nothing while the mutex is free *)
(* or its holder has not written yet, and afterwards the request of the    *)
(* holder or its answer, unless the child has died.                        *)
(***************************************************************************)

OneLineJobs == \A c \in Clients : Len(job[c].regex) = 1
Line(c) == job[c].regex[1]
Using == {"write", "read"}

Held == \A c \in Clients : pc[c] \in Using => holder[Engine(c)] = c
Holding ==
  \A s \in Services :
    holder[s] # Nobody => pc[holder[s]] \in Using /\ Engine(holder[s]) = s

Idle(s) == stdin[s] = <<>> /\ stdout[s] = <<>>
Requested(s) == stdin[s] = <<Line(holder[s])>> /\ stdout[s] = <<>>
Answered(s) == stdin[s] = <<>> /\ stdout[s] = <<Verdict(Line(holder[s]))>>
Pipes ==
  \A s \in Services :
    \/ Idle(s)
    \/ holder[s] # Nobody /\ pc[holder[s]] = "read" /\ (Requested(s) \/ Answered(s))

Closed == \A s \in Services : slot[s] # "alive" => stdin[s] = <<>>
Told == \A c \in Clients : outcome[c] # NoOutcome => outcome[c] = Verdict(Line(c))

PoolInv == Held /\ Holding /\ Pipes /\ Closed /\ NeverWithoutChild /\ Told

\* A client that does not use a child, before and after a step, disturbs nothing.
LEMMA Bystander ==
  ASSUME TypeOK, PoolInv, NEW c \in Clients, NEW label,
         pc[c] \notin Using, label \notin Using \cup {"call"},
         pc' = [pc EXCEPT ![c] = label],
         UNCHANGED <<job, service>>
  PROVE  Held' /\ Holding' /\ Pipes' /\ Closed' /\ NeverWithoutChild'
<1>1. \A s \in Services : holder[s] # Nobody => holder[s] # c
  BY DEF PoolInv, Holding
<1>2. \A d \in Clients : d # c => pc'[d] = pc[d]
  BY DEF TypeOK
<1>3. pc'[c] = label
  BY DEF TypeOK
<1>4. Held' /\ Holding'
  BY <1>1, <1>2, <1>3 DEF TypeOK, PoolInv, Held, Holding, service, Engine
<1>5. Pipes' /\ Closed'
  BY <1>1, <1>2, <1>3
     DEF TypeOK, PoolInv, Pipes, Closed, Idle, Requested, Answered, Line, service
<1>6. ASSUME label # "start" PROVE label \notin Calling
  BY <1>6 DEF Calling, Using
<1>7. NeverWithoutChild'
  BY <1>2, <1>3, <1>6 DEF PoolInv, NeverWithoutChild, service, Engine
<1> QED
  BY <1>4, <1>5, <1>7

LEMMA ClientPools ==
  ASSUME TypeOK, Routed, PoolInv, OneLineJobs, NEW c \in Clients, ClientStep(c)
  PROVE  PoolInv'
<1> DEFINE e == Engine(c)
<1>1. CASE Native(c)
  <2>1. Held' /\ Holding' /\ Pipes' /\ Closed' /\ NeverWithoutChild'
    BY <1>1, Bystander DEF Native, Goto, Using
  <2>2. Told'
    BY <1>1 DEF TypeOK, PoolInv, Told, Native, Line
  <2> QED
    BY <2>1, <2>2 DEF PoolInv
<1>2. CASE Call(c)
  <2>1. Held' /\ Holding' /\ Pipes' /\ Closed' /\ NeverWithoutChild'
    BY <1>2, Bystander DEF Call, Goto, Using
  <2>2. Told'
    BY <1>2 DEF PoolInv, Told, Call, Line
  <2> QED
    BY <2>1, <2>2 DEF PoolInv
<1>3. CASE Start(c)
  <2>1. pc[c] = "start" /\ e \in Services
    BY <1>3 DEF Start, Routed, Calling
  <2>2. /\ pc' \in [Clients -> Labels] 
        /\ \A d \in Clients : d # c => pc'[d] = pc[d]
        /\ pc'[c] \in {"call", "panicked"}
    BY <1>3 DEF TypeOK, Start, Goto, Labels, Calling, Stopped
  <2>3. UNCHANGED <<job, outcome, holder, stdin, stdout>>
    BY <1>3 DEF Start
  <2>4. \A s \in Services : holder[s] # Nobody => holder[s] # c
    BY <2>1 DEF PoolInv, Holding, Using
  <2>5. Held' /\ Holding'
    BY <2>1, <2>2, <2>3, <2>4 DEF TypeOK, PoolInv, Held, Holding, Using, Engine
  <2>6. Pipes'
    BY <2>2, <2>3, <2>4 DEF TypeOK, PoolInv, Pipes, Idle, Requested, Answered, Line
  <2>7. \A s \in Services : \/ slot'[s] = slot[s]
                            \/ slot[s] = "none" /\ slot'[s] = "alive"
    <3>1. \/ slot' = slot
          \/ slot[e] = "none" /\ slot' = [slot EXCEPT ![e] = "alive"]
      BY <1>3 DEF Start
    <3> QED
      BY <2>1, <3>1 DEF TypeOK
  <2>8. Closed'
    BY <2>3, <2>7 DEF PoolInv, Closed
  <2>9. pc'[c] = "call" => slot'[e] # "none"
    BY <1>3, <2>1 DEF TypeOK, Start, Goto
  <2>10. NeverWithoutChild'
    BY <2>2, <2>3, <2>7, <2>9 DEF PoolInv, NeverWithoutChild, Engine, Calling, Routed
  <2> QED
    BY <2>3, <2>5, <2>6, <2>8, <2>10 DEF PoolInv, Told, Line
<1>4. CASE Acquire(c)
  <2>1. pc[c] = "call" /\ e \in Services /\ holder[e] = Nobody
    BY <1>4 DEF Acquire, Routed, Calling, Free
  <2>2. pc' = [pc EXCEPT ![c] = "write"] /\ holder' = [holder EXCEPT ![e] = c]
    BY <1>4 DEF Acquire, Goto
  <2>3. UNCHANGED <<job, outcome, slot, stdin, stdout>>
    BY <1>4 DEF Acquire
  <2>4. \A s \in Services : holder[s] # Nobody => holder[s] # c
    BY <2>1 DEF PoolInv, Holding, Using
  <2>5. Held' /\ Holding'
    <3>1. \A d \in Clients : pc[d] \in Using => Engine(d) # e
      BY <2>1, DriverAssumption DEF PoolInv, Held
    <3>2. \A d \in Clients : pc'[d] \in Using => d = c \/ pc[d] \in Using
      BY <2>2 DEF TypeOK
    <3>3. Held'
      BY <2>1, <2>2, <2>3, <3>1, <3>2 DEF TypeOK, PoolInv, Held, Engine
    <3>4. Holding'
      BY <2>1, <2>2, <2>3, <2>4 DEF TypeOK, PoolInv, Holding, Engine, Using
    <3> QED
      BY <3>3, <3>4
  <2>6. Idle(e)
    BY <2>1 DEF PoolInv, Pipes
  <2>7. Pipes'
    <3> SUFFICES ASSUME NEW s \in Services
                 PROVE  \/ Idle(s)'
                        \/ /\ holder'[s] # Nobody /\ pc'[holder'[s]] = "read"
                           /\ Requested(s)' \/ Answered(s)'
      BY DEF Pipes
    <3>1. CASE s = e
      BY <2>3, <2>6, <3>1 DEF Idle
    <3>2. CASE s # e
      BY <2>1, <2>2, <2>3, <2>4, <3>2
         DEF TypeOK, PoolInv, Pipes, Idle, Requested, Answered, Line
    <3> QED
      BY <3>1, <3>2
  <2>8. Closed' /\ NeverWithoutChild' /\ Told'
    BY <2>1, <2>2, <2>3 DEF TypeOK, PoolInv, Closed, NeverWithoutChild, Told, Engine, Line, Calling
  <2> QED
    BY <2>5, <2>7, <2>8 DEF PoolInv
<1>5. ASSUME pc[c] \in Using, Idle(e), e \in Services, Panic(c) PROVE PoolInv'
  <2>1. pc' = [pc EXCEPT ![c] = "panicked"] /\ holder' = [holder EXCEPT ![e] = Nobody]
    BY <1>5 DEF Panic, Goto, Release
  <2>2. UNCHANGED <<job, outcome, slot, stdin, stdout>>
    BY <1>5 DEF Panic
  <2>3. holder[e] = c /\ \A s \in Services : s # e => holder[s] # c \/ holder[s] = Nobody
    BY <1>5 DEF PoolInv, Held, Holding
  <2>4. Held' /\ Holding'
    <3>1. \A d \in Clients : d # c /\ pc[d] \in Using => Engine(d) # e
      BY <2>3 DEF PoolInv, Held
    <3>2. \A d \in Clients : pc'[d] \in Using => d # c /\ pc[d] \in Using
      BY <2>1 DEF TypeOK, Using
    <3>3. Held'
      BY <1>5, <2>1, <2>2, <3>1, <3>2 DEF TypeOK, PoolInv, Held, Engine
    <3>4. Holding'
      BY <1>5, <2>1, <2>2, <2>3 DEF TypeOK, PoolInv, Holding, Engine
    <3> QED
      BY <3>3, <3>4
  <2>5. Pipes'
    <3> SUFFICES ASSUME NEW s \in Services
                 PROVE  \/ Idle(s)'
                        \/ /\ holder'[s] # Nobody /\ pc'[holder'[s]] = "read"
                           /\ Requested(s)' \/ Answered(s)'
      BY DEF Pipes
    <3>1. CASE s = e
      BY <1>5, <2>2, <3>1 DEF Idle
    <3>2. CASE s # e
      BY <2>1, <2>2, <2>3, <3>2
         DEF TypeOK, PoolInv, Pipes, Idle, Requested, Answered, Line
    <3> QED
      BY <3>1, <3>2
  <2>6. Closed' /\ NeverWithoutChild' /\ Told'
    BY <2>1, <2>2 DEF TypeOK, PoolInv, Closed, NeverWithoutChild, Told, Engine, Line, Calling
  <2> QED
    BY <2>4, <2>5, <2>6 DEF PoolInv
<1>6. CASE Write(c)
  <2>1. pc[c] = "write" /\ e \in Services /\ holder[e] = c
    BY <1>6 DEF Write, Routed, Calling, PoolInv, Held, Using
  <2>2. Idle(e)
    BY <2>1 DEF PoolInv, Pipes
  <2>3. CASE Panic(c)
    BY <1>5, <2>1, <2>2, <2>3 DEF Using
  <2>4. CASE ~Panic(c)
    <3>1. /\ pc' = [pc EXCEPT ![c] = "read"]
          /\ stdin' = [stdin EXCEPT ![e] = stdin[e] \o job[c].regex]
          /\ slot[e] = "alive"
          /\ UNCHANGED <<job, outcome, slot, holder, stdout>>
      BY <1>6, <2>4 DEF Write, Goto
    <3>2. stdin'[e] = <<Line(c)>>
      <4>1. stdin[e] \o job[c].regex = job[c].regex
        BY <2>2, CallTypes DEF Idle
      <4>2. job[c].regex = <<job[c].regex[1]>>
        BY CallTypes DEF OneLineJobs
      <4> QED
        BY <2>1, <3>1, <4>1, <4>2 DEF TypeOK, Line
    <3>3. Held' /\ Holding'
      BY <2>1, <3>1 DEF TypeOK, PoolInv, Held, Holding, Using, Engine
    <3>4. Pipes'
      <4> SUFFICES ASSUME NEW s \in Services
                   PROVE  \/ Idle(s)'
                          \/ /\ holder'[s] # Nobody /\ pc'[holder'[s]] = "read"
                             /\ Requested(s)' \/ Answered(s)'
        BY DEF Pipes
      <4>1. CASE s = e
        <5>1. Requested(s)'
          BY <2>1, <2>2, <3>1, <3>2, <4>1 DEF Idle, Requested, Line
        <5>2. holder'[s] # Nobody /\ pc'[holder'[s]] = "read"
          BY <2>1, <3>1, <4>1, DriverAssumption DEF TypeOK
        <5> QED
          BY <5>1, <5>2
      <4>2. CASE s # e
        BY <2>1, <3>1, <4>2 DEF TypeOK, PoolInv, Pipes, Idle, Requested, Answered, Line
      <4> QED
        BY <4>1, <4>2
    <3>5. Closed' /\ NeverWithoutChild' /\ Told'
      BY <2>1, <3>1 DEF TypeOK, PoolInv, Closed, NeverWithoutChild, Told, Engine, Line, Calling
    <3> QED
      BY <3>3, <3>4, <3>5 DEF PoolInv
  <2> QED
    BY <2>3, <2>4
<1>7. CASE Read(c)
  <2>1. pc[c] = "read" /\ e \in Services /\ holder[e] = c
    BY <1>7 DEF Read, Routed, Calling, PoolInv, Held, Using
  <2>2. CASE Panic(c)
    <3>1. stdout[e] = <<>> /\ slot[e] = "dead"
      BY <1>7, <2>1, <2>2 DEF TypeOK, Read, Panic, Goto
    <3>2. Idle(e)
      BY <2>1, <3>1 DEF PoolInv, Closed, Idle
    <3> QED
      BY <1>5, <2>1, <2>2, <3>2 DEF Using
  <2>3. CASE ~Panic(c)
    <3>1. /\ stdout[e] # <<>>
          /\ pc' = [pc EXCEPT ![c] = "done"]
          /\ holder' = [holder EXCEPT ![e] = Nobody]
          /\ outcome' = [outcome EXCEPT ![c] = Head(stdout[e])]
          /\ stdout' = [stdout EXCEPT ![e] = Tail(stdout[e])]
          /\ UNCHANGED <<job, slot, stdin>>
      BY <1>7, <2>3 DEF Read, Goto, Release
    <3>2. Answered(e)
      BY <2>1, <3>1 DEF PoolInv, Pipes, Idle, Requested
    <3>3. stdin[e] = <<>> /\ Tail(stdout[e]) = <<>> /\ Head(stdout[e]) = Verdict(Line(c))
      BY <2>1, <3>2 DEF Answered
    <3>4. \A s \in Services : s # e => holder[s] # c \/ holder[s] = Nobody
      BY <2>1 DEF PoolInv, Holding
    <3>5. Held' /\ Holding'
      <4>1. \A d \in Clients : d # c /\ pc[d] \in Using => Engine(d) # e
        BY <2>1 DEF PoolInv, Held
      <4>2. \A d \in Clients : pc'[d] \in Using => d # c /\ pc[d] \in Using
        BY <3>1 DEF TypeOK, Using
      <4>3. Held'
        BY <2>1, <3>1, <4>1, <4>2 DEF TypeOK, PoolInv, Held, Engine
      <4>4. Holding'
        BY <2>1, <3>1, <3>4 DEF TypeOK, PoolInv, Holding, Engine
      <4> QED
        BY <4>3, <4>4
    <3>6. Pipes'
      <4> SUFFICES ASSUME NEW s \in Services
                   PROVE  \/ Idle(s)'
                          \/ /\ holder'[s] # Nobody /\ pc'[holder'[s]] = "read"
                             /\ Requested(s)' \/ Answered(s)'
        BY DEF Pipes
      <4>1. CASE s = e
        BY <2>1, <3>1, <3>3, <4>1 DEF TypeOK, Idle
      <4>2. CASE s # e
        BY <3>1, <3>4, <4>2 DEF TypeOK, PoolInv, Pipes, Idle, Requested, Answered, Line
      <4> QED
        BY <4>1, <4>2
    <3>7. Closed' /\ NeverWithoutChild'
      BY <3>1 DEF TypeOK, PoolInv, Closed, NeverWithoutChild, Engine, Calling
    <3>8. Told'
      BY <3>1, <3>3 DEF TypeOK, PoolInv, Told, Line
    <3> QED
      BY <3>5, <3>6, <3>7, <3>8 DEF PoolInv
  <2> QED
    BY <2>2, <2>3
<1> QED
  BY <1>1, <1>2, <1>3, <1>4, <1>6, <1>7 DEF ClientStep

LEMMA ChildPools ==
  ASSUME TypeOK, PoolInv, NEW e \in Services, Answer(e) \/ Die(e)
  PROVE  PoolInv'
<1>1. CASE Answer(e)
  <2>1. /\ stdin[e] # <<>> /\ slot[e] = "alive"
        /\ stdout' = [stdout EXCEPT ![e] = Append(stdout[e], Verdict(Head(stdin[e])))]
        /\ stdin' = [stdin EXCEPT ![e] = Tail(stdin[e])]
        /\ UNCHANGED <<job, pc, outcome, slot, holder>>
    BY <1>1 DEF Answer, Readable
  <2>2. holder[e] # Nobody /\ pc[holder[e]] = "read" /\ Requested(e)
    BY <2>1 DEF PoolInv, Pipes, Idle, Answered
  <2>3. stdin'[e] = <<>> /\ stdout'[e] = <<Verdict(Line(holder[e]))>>
    BY <2>1, <2>2 DEF TypeOK, Requested
  <2>4. Pipes'
    <3> SUFFICES ASSUME NEW s \in Services
                 PROVE  \/ Idle(s)'
                        \/ /\ holder'[s] # Nobody /\ pc'[holder'[s]] = "read"
                           /\ Requested(s)' \/ Answered(s)'
      BY DEF Pipes
    <3>1. CASE s = e
      BY <2>1, <2>2, <2>3, <3>1 DEF Answered, Line
    <3>2. CASE s # e
      BY <2>1, <3>2 DEF TypeOK, PoolInv, Pipes, Idle, Requested, Answered, Line
    <3> QED
      BY <3>1, <3>2
  <2>5. Closed'
    BY <2>1, <2>3 DEF TypeOK, PoolInv, Closed
  <2> QED
    BY <2>1, <2>4, <2>5 DEF PoolInv, Held, Holding, NeverWithoutChild, Told, Engine, Line
<1>2. CASE Die(e)
  <2>1. /\ slot' = [slot EXCEPT ![e] = "dead"]
        /\ stdin' = [stdin EXCEPT ![e] = <<>>]
        /\ UNCHANGED <<job, pc, outcome, holder, stdout>>
    BY <1>2 DEF Die
  <2>2. Pipes' /\ Closed'
    BY <2>1 DEF TypeOK, PoolInv, Pipes, Closed, Idle, Requested, Answered, Line
  <2> QED
    BY <2>1, <2>2 DEF TypeOK, PoolInv, Held, Holding, NeverWithoutChild, Told, Engine, Line
<1> QED
  BY <1>1, <1>2

-----------------------------------------------------------------------------
(***************************************************************************)
(* The driver.                                                             *)
(***************************************************************************)

Unspawned ==
  /\ main \in {"warmup", "reset"} => \A t \in TestSet : pc[t] = "idle"
  /\ main = "spawn" => \A i \in DOMAIN Tests : i >= at => pc[Tests[i]] = "idle"
Awaited == main = "await" => \A i \in DOMAIN Tests : i < at => pc[Tests[i]] = "done"
DriverInv == Unspawned /\ Awaited

\* A client moves on only between its call and its end.
LEMMA Moves ==
  ASSUME NEW c \in Clients, ClientStep(c)
  PROVE  /\ pc[c] \in {"ready"} \cup Calling
         /\ \E label \in Calling \cup Stopped : pc' = [pc EXCEPT ![c] = label]
  BY DEF ClientStep, Native, Call, Start, Acquire, Write, Read, Panic, Goto, Calling, Stopped

LEMMA DriverStays ==
  ASSUME TypeOK, DriverInv, UNCHANGED mainVars,
         \/ \E c \in Clients : ClientStep(c)
         \/ \E t \in TestSet : Compare(t)
         \/ UNCHANGED pc
  PROVE  DriverInv'
<1>1. CASE UNCHANGED pc
  BY <1>1 DEF DriverInv, Unspawned, Awaited, mainVars
<1>2. ASSUME NEW c \in Clients, pc[c] \notin {"idle", "done"}, NEW label,
             pc' = [pc EXCEPT ![c] = label]
      PROVE  DriverInv'
  <2>1. \A d \in Clients : pc[d] \in {"idle", "done"} => pc'[d] = pc[d]
    BY <1>2 DEF TypeOK
  <2>2. \A i \in DOMAIN Tests : Tests[i] \in Clients
    BY DriverAssumption
  <2> QED
    BY <2>1, <2>2, ClientSets DEF DriverInv, Unspawned, Awaited, mainVars
<1>3. CASE \E c \in Clients : ClientStep(c)
  BY <1>2, <1>3, Moves DEF Calling
<1>4. CASE \E t \in TestSet : Compare(t)
  BY <1>2, <1>4, ClientSets DEF Compare, Goto
<1> QED
  BY <1>1, <1>3, <1>4

LEMMA DriverMoves ==
  ASSUME TypeOK, DriverInv, MainStep
  PROVE  DriverInv'
<1>1. CASE WarmedUp \/ WarmUpPanics
  BY <1>1 DEF WarmedUp, WarmUpPanics, Exit, DriverInv, Unspawned, Awaited, poolVars
<1>2. CASE Reset
  <2>1. pc' = pc
    BY <1>2 DEF Reset, poolVars
  <2>2. \/ main' = "reset" /\ main = "reset"
        \/ main = "reset" /\ main' = "spawn"
    BY <1>2 DEF Reset
  <2> QED
    BY <2>1, <2>2 DEF DriverInv, Unspawned, Awaited, TestSet
<1>3. CASE Spawn
  <2>1. CASE at <= Len(Tests)
    <3>1. /\ pc' = [pc EXCEPT ![Tests[at]] = "ready"] /\ at' = at + 1
          /\ main = "spawn" /\ main' = "spawn"
      BY <1>3, <2>1, DriverAssumption DEF Spawn, TypeOK
    <3>2. at \in DOMAIN Tests
      BY <2>1, DriverAssumption DEF TypeOK
    <3>3. \A i \in DOMAIN Tests : i >= at + 1 => Tests[i] # Tests[at] /\ i >= at
      BY <3>2, DriverAssumption DEF TypeOK
    <3>4. \A i \in DOMAIN Tests : Tests[i] \in Clients
      BY DriverAssumption
    <3> QED
      BY <3>1, <3>2, <3>3, <3>4 DEF TypeOK, DriverInv, Unspawned, Awaited
  <2>2. CASE ~(at <= Len(Tests))
    BY <1>3, <2>2, DriverAssumption DEF Spawn, DriverInv, Unspawned, Awaited
  <2> QED
    BY <2>1, <2>2
<1>4. CASE Await \/ Report
  <2>1. main = "await" /\ pc' = pc
    BY <1>4 DEF Await, Report, Exit, poolVars
  <2>2. \/ main' = "exited"
        \/ main' = "await" /\ at' = at + 1 /\ pc[Tests[at]] = "done"
    BY <1>4 DEF Await, Report, Exit
  <2>3. \A i \in DOMAIN Tests : i < at + 1 => i < at \/ i = at
    BY DriverAssumption DEF TypeOK
  <2> QED
    BY <2>1, <2>2, <2>3 DEF DriverInv, Unspawned, Awaited
<1> QED
  BY <1>1, <1>2, <1>3, <1>4 DEF MainStep

\* The driver's own steps change neither pipes nor mutexes; a test that it
\* spawns or compares itself is not in the pool.
LEMMA DriverPools ==
  ASSUME TypeOK, Routed, PoolInv, DriverInv,
         MainStep \/ \E t \in TestSet : Compare(t)
  PROVE  PoolInv'
<1>1. ASSUME UNCHANGED <<job, pc, outcome, slot, holder, stdin, stdout>> PROVE PoolInv'
  BY <1>1 DEF PoolInv, Held, Holding, Pipes, Idle, Requested, Answered, Closed,
              NeverWithoutChild, Told, Line, Engine
<1>2. ASSUME NEW t \in TestSet, pc[t] \notin Using, UNCHANGED <<job, outcome, service>>,
             NEW label \in {"ready"} \cup Stopped, pc' = [pc EXCEPT ![t] = label]
      PROVE  PoolInv'
  <2>1. Held' /\ Holding' /\ Pipes' /\ Closed' /\ NeverWithoutChild'
    BY <1>2, Bystander, ClientSets DEF Using, Stopped
  <2> QED
    BY <1>2, <2>1 DEF PoolInv, Told, Line
<1>3. CASE \E t \in TestSet : Compare(t)
  BY <1>2, <1>3 DEF Compare, Goto, Using, Stopped
<1>4. CASE Spawn
  <2>1. CASE at <= Len(Tests)
    <3>1. at \in DOMAIN Tests /\ Tests[at] \in TestSet
      BY <2>1, DriverAssumption DEF TypeOK, TestSet
    <3>2. pc[Tests[at]] = "idle"
      BY <1>4, <3>1 DEF Spawn, TypeOK, DriverInv, Unspawned
    <3> QED
      BY <1>2, <1>4, <2>1, <3>1, <3>2 DEF Spawn, Using
  <2>2. CASE ~(at <= Len(Tests))
    BY <1>1, <1>4, <2>2 DEF Spawn, poolVars, service
  <2> QED
    BY <2>1, <2>2
<1>5. CASE MainStep /\ ~Spawn
  BY <1>1, <1>5 DEF MainStep, WarmedUp, WarmUpPanics, Reset, Await, Report, Exit, poolVars, service
<1> QED
  BY <1>3, <1>4, <1>5

-----------------------------------------------------------------------------
(***************************************************************************)
(* The invariant of the whole, for regexes of one line.                    *)
(***************************************************************************)

Single == \A j \in Jobs : OneLine(j)

HarnessInv == TypeOK /\ Routed /\ OneLineJobs /\ PoolInv /\ DriverInv

LEMMA HarnessInit == Single /\ Init => HarnessInv
<1> SUFFICES ASSUME Single, Init PROVE HarnessInv
  OBVIOUS
<1>1. OneLineJobs
  <2>1. PICK plan \in [TestSet -> Jobs] :
          job = [c \in Clients |-> IF c \in Services THEN WarmUp(c) ELSE plan[c]]
    BY DEF Init
  <2>2. \A s \in Services : Len(WarmUp(s).regex) = 1
    BY DEF WarmUp
  <2>3. \A t \in TestSet : Len(plan[t].regex) = 1
    BY DEF Single, OneLine
  <2> QED
    BY <2>1, <2>2, <2>3, DriverAssumption DEF OneLineJobs
<1>2. \A c \in Clients : pc[c] \in {"ready", "idle"}
  BY DEF Init
<1>3. PoolInv
  BY <1>2 DEF Init, PoolInit, PoolInv, Held, Holding, Pipes, Idle, Closed, NeverWithoutChild,
              Told, Using, Calling
<1>4. DriverInv
  BY DriverAssumption DEF Init, DriverInv, Unspawned, Awaited
<1> QED
  BY <1>1, <1>3, <1>4, InitTypes DEF HarnessInv

LEMMA HarnessStep == HarnessInv /\ [Next]_vars => HarnessInv'
<1> SUFFICES ASSUME HarnessInv, [Next]_vars PROVE HarnessInv'
  OBVIOUS
<1> USE DEF HarnessInv
<1>1. TypeOK' /\ Routed'
  BY TypesStep
<1>2. OneLineJobs'
  <2>1. UNCHANGED job
    BY DEF Next, MainStep, Task, Child, Death, Exited, WarmedUp, WarmUpPanics, Reset, Spawn,
           Await, Report, Exit, Compare, ClientStep, Native, Call, Start, Acquire, Write,
           Read, Panic, Answer, Die, vars, poolVars, service
  <2> QED
    BY <2>1 DEF OneLineJobs
<1>3. CASE UNCHANGED vars
  <2>1. PoolInv'
    BY <1>3 DEF vars, poolVars, service, PoolInv, Held, Holding, Pipes, Idle, Requested,
                Answered, Closed, NeverWithoutChild, Told, Line, Engine
  <2>2. DriverInv'
    BY <1>3 DEF vars, poolVars, mainVars, DriverInv, Unspawned, Awaited
  <2> QED
    BY <1>1, <1>2, <2>1, <2>2
<1>4. CASE MainStep
  BY <1>1, <1>2, <1>4, DriverPools, DriverMoves
<1>5. ASSUME NEW c \in Clients, Task(c) PROVE HarnessInv'
  <2>1. CASE ClientStep(c) /\ UNCHANGED mainVars
    BY <1>1, <1>2, <2>1, ClientPools, DriverStays
  <2>2. CASE c \in TestSet /\ Compare(c)
    BY <1>1, <1>2, <2>2, DriverPools, DriverStays DEF Compare
  <2> QED
    BY <1>5, <2>1, <2>2 DEF Task
<1>6. ASSUME NEW s \in Services, Child(s) \/ Death(s) PROVE HarnessInv'
  <2>1. (Answer(s) \/ Die(s)) /\ UNCHANGED mainVars /\ UNCHANGED pc
    BY <1>6 DEF Child, Death, Answer, Die
  <2> QED
    BY <1>1, <1>2, <2>1, ChildPools, DriverStays
<1> QED
  BY <1>3, <1>4, <1>5, <1>6 DEF Next, Exited

\* As long as every regex is one line, the inductive invariant holds, for any
\* number of tests, services and deaths.
THEOREM HarnessInvariant == Single => (Spec => []HarnessInv)
<1> SUFFICES ASSUME Single PROVE Spec => []HarnessInv
  OBVIOUS
<1>1. Init => HarnessInv
  BY HarnessInit
<1> QED
  BY <1>1, HarnessStep, PTL DEF Spec

\* Whatever tasks panic and children die, while a mutex is free the pipes of its
\* child are empty, and otherwise they carry the request or the answer of the
\* task that holds it.
THEOREM PipesBelongToHolderHolds == Spec => []PipesBelongToHolder
<1>1. CASE Single
  <2>1. HarnessInv => PipesBelongToHolder
    <3> SUFFICES ASSUME HarnessInv, NEW s \in Services
                 PROVE  /\ Len(stdin[s]) + Len(stdout[s]) <= 1
                        /\ stdin[s] \o stdout[s] # <<>> =>
                             holder[s] # Nobody /\ pc[holder[s]] = "read" /\ Engine(holder[s]) = s
      BY DEF PipesBelongToHolder
    <3>1. CASE Idle(s)
      BY <3>1 DEF Idle
    <3>2. CASE ~Idle(s)
      <4>1. holder[s] # Nobody /\ pc[holder[s]] = "read" /\ (Requested(s) \/ Answered(s))
        BY <3>2 DEF HarnessInv, PoolInv, Pipes
      <4>2. Engine(holder[s]) = s
        BY <4>1 DEF HarnessInv, PoolInv, Holding
      <4>3. CASE Requested(s)
        BY <4>1, <4>2, <4>3 DEF Requested
      <4>4. CASE Answered(s)
        BY <4>1, <4>2, <4>4 DEF Answered
      <4> QED
        BY <4>1, <4>3, <4>4
    <3> QED
      BY <3>1, <3>2
  <2> QED
    BY <1>1, <2>1, HarnessInvariant, PTL
<1>2. CASE ~Single
  <2>1. PipesBelongToHolder
    BY <1>2 DEF Single, PipesBelongToHolder
  <2> QED
    BY <1>2, PTL DEF Single, PipesBelongToHolder
<1> QED
  BY <1>1, <1>2

\* Every task is told what its engine says of its own regex.
THEOREM OwnVerdictHolds == Spec => []OwnVerdict
<1>1. CASE Single
  <2>1. HarnessInv => OwnVerdict
    BY DEF HarnessInv, PoolInv, Told, Line, OwnVerdict
  <2> QED
    BY <1>1, <2>1, HarnessInvariant, PTL
<1>2. CASE ~Single
  <2>1. OwnVerdict
    BY <1>2 DEF Single, OwnVerdict
  <2> QED
    BY <1>2, PTL DEF Single, OwnVerdict
<1> QED
  BY <1>1, <1>2

\* A slot that is filled stays filled, whatever the regexes are made of.
LEMMA ChildStays ==
  ASSUME TypeOK, Routed, NeverWithoutChild, [Next]_vars
  PROVE  NeverWithoutChild'
<1>1. UNCHANGED job
  BY DEF Next, MainStep, Task, Child, Death, Exited, WarmedUp, WarmUpPanics, Reset, Spawn,
         Await, Report, Exit, Compare, ClientStep, Native, Call, Start, Acquire, Write,
         Read, Panic, Answer, Die, vars, poolVars, service
<1>2. ASSUME UNCHANGED <<pc, slot>> PROVE NeverWithoutChild'
  BY <1>1, <1>2 DEF NeverWithoutChild, Engine
<1>3. ASSUME NEW c \in Clients, NEW label, pc' = [pc EXCEPT ![c] = label], UNCHANGED slot,
             label \in Calling \ {"start"} => slot[Engine(c)] # "none"
      PROVE  NeverWithoutChild'
  BY <1>1, <1>3 DEF TypeOK, NeverWithoutChild, Engine
<1>4. ASSUME NEW s \in Services, NEW filled \in {"alive", "dead"},
             slot' = [slot EXCEPT ![s] = filled],
             \/ UNCHANGED pc
             \/ \E c \in Clients : Engine(c) = s /\ pc' = [pc EXCEPT ![c] = "call"]
      PROVE  NeverWithoutChild'
  <2> SUFFICES ASSUME NEW d \in Clients, pc'[d] \in Calling \ {"start"}
               PROVE  slot'[Engine(d)] # "none"
    BY <1>1 DEF NeverWithoutChild, Engine
  <2>1. CASE Engine(d) = s
    BY <1>4, <2>1 DEF TypeOK
  <2>2. CASE Engine(d) # s
    <3>1. pc'[d] = pc[d]
      BY <1>4, <2>2 DEF TypeOK
    <3>2. Engine(d) \in Services /\ slot[Engine(d)] # "none"
      BY <3>1 DEF NeverWithoutChild, Routed
    <3> QED
      BY <1>4, <2>2, <3>2 DEF TypeOK
  <2> QED
    BY <2>1, <2>2
<1>5. ASSUME NEW c \in Clients, Start(c) PROVE NeverWithoutChild'
  <2>1. Engine(c) \in Services
    BY <1>5 DEF Start, Routed, Calling
  <2>2. \/ slot[Engine(c)] # "none" /\ UNCHANGED slot /\ pc' = [pc EXCEPT ![c] = "call"]
        \/ /\ slot' = [slot EXCEPT ![Engine(c)] = "alive"]
           /\ pc' = [pc EXCEPT ![c] = "call"]
        \/ UNCHANGED slot /\ pc' = [pc EXCEPT ![c] = "panicked"]
    BY <1>5 DEF Start, Goto
  <2> QED
    BY <1>3, <1>4, <2>1, <2>2 DEF Calling
<1>6. ASSUME NEW c \in Clients, ClientStep(c) PROVE NeverWithoutChild'
  <2>1. ASSUME Native(c) \/ Call(c) \/ Panic(c) PROVE NeverWithoutChild'
    BY <1>3, <2>1 DEF Native, Call, Panic, service, Goto, Calling
  <2>2. ASSUME Acquire(c) PROVE NeverWithoutChild'
    BY <1>3, <2>2 DEF Acquire, Goto, NeverWithoutChild, Calling
  <2>3. ASSUME Write(c), ~Panic(c) PROVE NeverWithoutChild'
    BY <1>3, <2>3 DEF Write, Goto, NeverWithoutChild, Calling
  <2>4. ASSUME Read(c), ~Panic(c) PROVE NeverWithoutChild'
    BY <1>3, <2>4 DEF Read, Goto, Calling
  <2> QED
    BY <1>5, <1>6, <2>1, <2>2, <2>3, <2>4 DEF ClientStep
<1>7. ASSUME NEW s \in Services, Answer(s) \/ Die(s) PROVE NeverWithoutChild'
  BY <1>2, <1>4, <1>7 DEF Answer, Die
<1>8. ASSUME NEW t \in TestSet, Compare(t) PROVE NeverWithoutChild'
  BY <1>3, <1>8, ClientSets DEF Compare, Goto, service, Calling
<1>9. CASE Spawn
  <2>1. ASSUME at <= Len(Tests) PROVE Tests[at] \in Clients
    BY <2>1, DriverAssumption DEF TypeOK
  <2> QED
    BY <1>2, <1>3, <1>9, <2>1 DEF Spawn, service, poolVars, Calling
<1>10. CASE MainStep /\ ~Spawn
  BY <1>2, <1>10 DEF MainStep, WarmedUp, WarmUpPanics, Reset, Await, Report, Exit, poolVars, service
<1>11. CASE UNCHANGED vars
  BY <1>2, <1>11 DEF vars, poolVars, service
<1> QED
  BY <1>6, <1>7, <1>8, <1>9, <1>10, <1>11 DEF Next, Task, Child, Death, Exited

\* Wherever a task tests a regex a child has been started before, although the
\* mutex is free in between and whatever the regexes are.
THEOREM NeverWithoutChildHolds == Spec => []NeverWithoutChild
<1>1. Init => TypeOK /\ Routed /\ NeverWithoutChild
  <2>1. Init => NeverWithoutChild
    BY DEF Init, NeverWithoutChild, Calling
  <2> QED
    BY <2>1, InitTypes
<1>2. TypeOK /\ Routed /\ NeverWithoutChild /\ [Next]_vars
        => (TypeOK /\ Routed /\ NeverWithoutChild)'
  BY TypesStep, ChildStays
<1> QED
  BY <1>1, <1>2, PTL DEF Spec

-----------------------------------------------------------------------------
(***************************************************************************)
(* The statistics.  From the reset of its count on, a child has been asked *)
(* as often as there are tests that have sent or are sending it a regex,   *)
(* as long as none has panicked: the calls of the warm-up have ended       *)
(* before, and no test is spawned until the last count has been reset.     *)
(***************************************************************************)

Past == Using \cup {"done"}
Asking(s) == {t \in TestSet : Engine(t) = s /\ pc[t] \in Past}
Linked == {t \in TestSet : Engine(t) = "native" /\ pc[t] = "done"}

Cleared(s) ==
  \/ main \in {"spawn", "await"}
  \/ main = "reset" /\ \E i \in DOMAIN Children : i < at /\ Children[i] = s

Warm ==
  /\ \A s \in Services : Engine(s) = s
  /\ main \in {"reset", "spawn", "await"} => \A s \in Services : pc[s] = "done"

NoPanic == \A t \in TestSet : pc[t] # "panicked"
Counted ==
  /\ \A s \in Services : Cleared(s) => count[s] = Cardinality(Asking(s))
  /\ natives = Cardinality(Linked)

CountInv == Warm /\ (NoPanic => Counted)

LEMMA TestsFinite ==
  /\ IsFiniteSet(TestSet)
  /\ \A S : S \subseteq TestSet => IsFiniteSet(S)
<1>1. IsFiniteSet(DOMAIN Tests)
  <2>1. DOMAIN Tests = 1..Len(Tests) /\ Len(Tests) \in Int
    BY DriverAssumption
  <2> QED
    BY <2>1, FS_Interval
<1>2. [i \in DOMAIN Tests |-> Tests[i]] \in Surjection(DOMAIN Tests, TestSet)
  BY DEF Surjection, TestSet
<1>3. IsFiniteSet(TestSet)
  BY <1>1, <1>2, FS_Surjection
<1> QED
  BY <1>3, FS_Subset

\* A client that moves while the sets of those counted stay as they are.
LEMMA UncountedMove ==
  ASSUME TypeOK, CountInv, NEW c \in Clients, NEW label,
         pc' = [pc EXCEPT ![c] = label], pc[c] \notin Stopped,
         UNCHANGED <<job, count, natives, mainVars>>,
         c \in TestSet => label # "panicked",
         c \in TestSet /\ Engine(c) \in Services => (pc[c] \in Past <=> label \in Past),
         c \in TestSet /\ Engine(c) = "native" => label # "done"
  PROVE  CountInv'
<1>1. \A d \in Clients : pc'[d] = IF d = c THEN label ELSE pc[d]
  BY DEF TypeOK
<1>2. Warm'
  BY <1>1, ClientSets DEF CountInv, Warm, Engine, mainVars, Stopped
<1>3. ASSUME NoPanic' PROVE NoPanic
  BY <1>1, <1>3, ClientSets DEF NoPanic, Stopped
<1>4. \A s \in Services : Asking(s)' = Asking(s)
  BY <1>1, ClientSets DEF Asking, Engine
<1>5. Linked' = Linked
  BY <1>1, ClientSets DEF Linked, Engine, Stopped
<1>6. \A s \in Services : Cleared(s)' <=> Cleared(s)
  BY DEF Cleared, mainVars
<1> QED
  BY <1>2, <1>3, <1>4, <1>5, <1>6 DEF CountInv, Counted

\* A test that panics ends the count, and a call of the warm-up is not counted.
LEMMA PanicMove ==
  ASSUME TypeOK, CountInv, NEW c \in Clients, pc[c] \notin Stopped,
         pc' = [pc EXCEPT ![c] = "panicked"],
         UNCHANGED <<job, count, natives, mainVars>>
  PROVE  CountInv'
<1>1. CASE c \in TestSet
  <2>1. ~NoPanic'
    BY <1>1 DEF NoPanic, TypeOK
  <2>2. /\ \A s \in Services : Engine(s)' = Engine(s)
        /\ main' = main
    BY DEF Engine, mainVars
  <2>3. \A s \in Services : s # c
    BY <1>1, DriverAssumption
  <2>4. \A s \in Services : pc'[s] = pc[s]
    BY <2>3, ClientSets DEF TypeOK
  <2>5. Warm'
    BY <2>2, <2>4 DEF CountInv, Warm
  <2> QED
    BY <2>1, <2>5 DEF CountInv
<1> QED
  BY <1>1, UncountedMove

LEMMA AcquireCounts ==
  ASSUME TypeOK, Routed, DriverInv, CountInv, NEW c \in Clients, Acquire(c), UNCHANGED mainVars
  PROVE  CountInv'
<1>1. /\ pc[c] = "call" /\ pc' = [pc EXCEPT ![c] = "write"]
      /\ count' = [count EXCEPT ![Engine(c)] = count[Engine(c)] + 1]
      /\ UNCHANGED <<job, natives, main, at>>
  BY DEF Acquire, Goto, mainVars
<1>2. Engine(c) \in Services
  BY <1>1 DEF Routed, Calling
<1>3. \A d \in Clients : pc'[d] = IF d = c THEN "write" ELSE pc[d]
  BY <1>1 DEF TypeOK
<1>4. Warm'
  BY <1>1, <1>3, ClientSets DEF CountInv, Warm, Engine
<1>5. NoPanic' => NoPanic
  BY <1>1, <1>3, ClientSets DEF NoPanic
<1>6. Linked' = Linked
  BY <1>1, <1>3, ClientSets DEF Linked, Engine
<1>7. \A s \in Services : Cleared(s)' <=> Cleared(s)
  BY <1>1 DEF Cleared
<1>8. ASSUME NEW s \in Services, Cleared(s), count[s] = Cardinality(Asking(s))
      PROVE  count'[s] = Cardinality(Asking(s)')
  <2>1. CASE Engine(c) # s
    <3>1. Asking(s)' = Asking(s)
      BY <1>1, <1>3, <2>1, ClientSets DEF Asking, Engine
    <3> QED
      BY <1>1, <1>8, <2>1, <3>1 DEF TypeOK
  <2>2. CASE Engine(c) = s
    <3>1. c \in TestSet
      <4>1. \A d \in Services : pc[d] = "done"
        BY <1>8 DEF Cleared, CountInv, Warm
      <4> QED
        BY <1>1, <4>1, DriverAssumption
    <3>2. Asking(s)' = Asking(s) \cup {c}
      BY <1>1, <1>3, <2>2, <3>1, ClientSets DEF Asking, Engine, Past, Using
    <3>3. c \notin Asking(s)
      BY <1>1 DEF Asking, Past, Using
    <3>4. IsFiniteSet(Asking(s))
      BY TestsFinite DEF Asking
    <3>5. Cardinality(Asking(s) \cup {c}) = Cardinality(Asking(s)) + 1
      BY <3>3, <3>4, FS_AddElement
    <3> QED
      BY <1>1, <1>8, <2>2, <3>2, <3>5 DEF TypeOK
  <2> QED
    BY <2>1, <2>2
<1> QED
  BY <1>4, <1>5, <1>6, <1>7, <1>8, <1>1 DEF CountInv, Counted

LEMMA NativeCounts ==
  ASSUME TypeOK, CountInv, NEW c \in Clients, Native(c), UNCHANGED mainVars
  PROVE  CountInv'
<1>1. /\ pc[c] = "ready" /\ pc' = [pc EXCEPT ![c] = "done"] /\ Engine(c) = "native"
      /\ natives' = natives + 1
      /\ UNCHANGED <<job, count, main, at>>
  BY DEF Native, Goto, mainVars, service
<1>2. c \in TestSet
  BY <1>1, DriverAssumption DEF CountInv, Warm
<1>3. \A d \in Clients : pc'[d] = IF d = c THEN "done" ELSE pc[d]
  BY <1>1 DEF TypeOK
<1>4. Warm'
  BY <1>1, <1>3, ClientSets DEF CountInv, Warm, Engine
<1>5. NoPanic' => NoPanic
  BY <1>1, <1>3, ClientSets DEF NoPanic
<1>6. \A s \in Services : Asking(s)' = Asking(s)
  <2> SUFFICES ASSUME NEW s \in Services PROVE Asking(s)' = Asking(s)
    OBVIOUS
  <2>1. \A t \in TestSet : Engine(t)' = Engine(t)
    BY <1>1 DEF Engine
  <2>2. \A t \in TestSet : Engine(t) = s => t # c
    BY <1>1, DriverAssumption
  <2>3. \A t \in TestSet : Engine(t) = s => pc'[t] = pc[t]
    BY <1>3, <2>2, ClientSets
  <2> QED
    BY <2>1, <2>3 DEF Asking
<1>7. \A s \in Services : Cleared(s)' <=> Cleared(s)
  BY <1>1 DEF Cleared
<1>8. Cardinality(Linked') = Cardinality(Linked) + 1
  <2>1. Linked' = Linked \cup {c}
    BY <1>1, <1>2, <1>3, ClientSets DEF Linked, Engine
  <2>2. c \notin Linked
    BY <1>1 DEF Linked
  <2>3. IsFiniteSet(Linked)
    BY TestsFinite DEF Linked
  <2> QED
    BY <2>1, <2>2, <2>3, FS_AddElement
<1> QED
  BY <1>1, <1>4, <1>5, <1>6, <1>7, <1>8 DEF CountInv, Counted

LEMMA ClientCounts ==
  ASSUME TypeOK, Routed, DriverInv, CountInv, NEW c \in Clients, ClientStep(c),
         UNCHANGED mainVars
  PROVE  CountInv'
<1>1. CASE Native(c)
  BY <1>1, NativeCounts
<1>2. CASE Call(c)
  BY <1>2, UncountedMove DEF Call, Goto, service, Stopped, Past, Using
<1>3. CASE Start(c)
  <2>1. pc[c] = "start" /\ UNCHANGED <<job, count, natives>>
    BY <1>3 DEF Start
  <2>2. pc' = [pc EXCEPT ![c] = "call"] \/ pc' = [pc EXCEPT ![c] = "panicked"]
    BY <1>3 DEF Start, Goto
  <2> QED
    BY <2>1, <2>2, UncountedMove, PanicMove DEF Stopped, Past, Using
<1>4. CASE Acquire(c)
  BY <1>4, AcquireCounts
<1>5. CASE Write(c)
  <2>1. pc[c] = "write" /\ UNCHANGED <<job, count, natives>>
    BY <1>5 DEF Write, Panic
  <2>2. pc' = [pc EXCEPT ![c] = "read"] \/ pc' = [pc EXCEPT ![c] = "panicked"]
    BY <1>5 DEF Write, Panic, Goto
  <2> QED
    BY <2>1, <2>2, UncountedMove, PanicMove DEF Stopped, Past, Using
<1>6. CASE Read(c)
  <2>1. pc[c] = "read" /\ UNCHANGED <<job, count, natives>>
    BY <1>6 DEF Read, Panic
  <2>2. pc' = [pc EXCEPT ![c] = "done"] \/ pc' = [pc EXCEPT ![c] = "panicked"]
    BY <1>6 DEF Read, Panic, Goto
  <2>3. Engine(c) # "native"
    BY <2>1, DriverAssumption DEF Routed, Calling
  <2> QED
    BY <2>1, <2>2, <2>3, UncountedMove, PanicMove DEF Stopped, Past, Using
<1> QED
  BY <1>1, <1>2, <1>3, <1>4, <1>5, <1>6 DEF ClientStep

LEMMA CompareCounts ==
  ASSUME TypeOK, CountInv, NEW t \in TestSet, Compare(t)
  PROVE  CountInv'
<1>1. pc[t] = "ready" /\ Engine(t) \in Local /\ UNCHANGED <<job, count, natives, mainVars>>
  BY DEF Compare, service
<1>2. pc' = [pc EXCEPT ![t] = "done"] \/ pc' = [pc EXCEPT ![t] = "panicked"]
  BY DEF Compare, Goto
<1>3. Engine(t) \notin Services /\ Engine(t) # "native"
  BY <1>1, DriverAssumption DEF Local
<1> QED
  BY <1>1, <1>2, <1>3, ClientSets, UncountedMove, PanicMove DEF Stopped

\* What the driver does to the counts.
LEMMA ResetCounts ==
  ASSUME TypeOK, DriverInv, CountInv, Reset
  PROVE  CountInv'
<1>1. main = "reset" /\ UNCHANGED <<job, pc, natives>>
  BY DEF Reset, poolVars
<1>2. /\ (NoPanic' <=> NoPanic) /\ Linked' = Linked
      /\ \A s \in Services : Asking(s)' = Asking(s)
  BY <1>1 DEF NoPanic, Linked, Asking, Engine
<1>3. main' \in {"reset", "spawn"}
  BY DEF Reset
<1>4. Warm'
  BY <1>1, <1>3 DEF CountInv, Warm, Engine
<1>5. \A s \in Services : Cardinality(Asking(s)) = 0
  <2>1. \A t \in TestSet : pc[t] = "idle"
    BY <1>1 DEF DriverInv, Unspawned
  <2>2. \A s \in Services : Asking(s) = {}
    BY <2>1 DEF Asking, Past, Using
  <2> QED
    BY <2>2, FS_EmptySet
<1>6. CASE at <= Len(Children)
  <2>1. count' = [count EXCEPT ![Children[at]] = 0] /\ at' = at + 1 /\ main' = "reset"
    BY <1>6, <1>1, DriverAssumption DEF Reset, TypeOK
  <2>2. ASSUME NEW s \in Services, Cleared(s)' PROVE Cleared(s) \/ Children[at] = s
    BY <1>1, <2>1, <2>2, DriverAssumption DEF Cleared, TypeOK
  <2>3. ASSUME NEW s \in Services, NoPanic, Cleared(s)' PROVE count'[s] = 0
    BY <1>5, <2>1, <2>2, <2>3 DEF CountInv, Counted, TypeOK
  <2> QED
    BY <1>1, <1>2, <1>4, <1>5, <2>3 DEF CountInv, Counted
<1>7. CASE ~(at <= Len(Children))
  <2>1. UNCHANGED count
    BY <1>7, DriverAssumption DEF Reset, poolVars, service
  <2>2. \A s \in Services : Cleared(s)
    BY <1>1, <1>7, DriverAssumption DEF Cleared, TypeOK
  <2> QED
    BY <1>1, <1>2, <1>4, <2>1, <2>2 DEF CountInv, Counted
<1> QED
  BY <1>6, <1>7

LEMMA MainCounts ==
  ASSUME TypeOK, DriverInv, CountInv, MainStep
  PROVE  CountInv'
<1>1. ASSUME UNCHANGED <<job, pc, count, natives>>,
             main' \in {"spawn", "await"} => main \in {"spawn", "await"},
             main' = "reset" => at' = 1 /\ \A s \in Services : pc[s] = "done"
      PROVE  CountInv'
  <2>1. /\ (NoPanic' <=> NoPanic) /\ Linked' = Linked
        /\ \A s \in Services : Asking(s)' = Asking(s)
    BY <1>1 DEF NoPanic, Linked, Asking, Engine
  <2>2. Warm'
    BY <1>1 DEF CountInv, Warm, Engine
  <2>3. \A s \in Services : Cleared(s)' => Cleared(s)
    BY <1>1, DriverAssumption DEF Cleared
  <2> QED
    BY <1>1, <2>1, <2>2, <2>3 DEF CountInv, Counted
<1>2. CASE WarmedUp \/ WarmUpPanics \/ Await \/ Report
  BY <1>1, <1>2 DEF WarmedUp, WarmUpPanics, Await, Report, Exit, poolVars, service
<1>3. CASE Reset
  BY <1>3, ResetCounts
<1>4. CASE Spawn
  <2>1. CASE at <= Len(Tests)
    <3>1. /\ pc' = [pc EXCEPT ![Tests[at]] = "ready"]
          /\ main = "spawn" /\ main' = "spawn"
          /\ UNCHANGED <<job, count, natives>>
      BY <1>4, <2>1, DriverAssumption DEF Spawn, TypeOK, service
    <3>2. at \in DOMAIN Tests /\ Tests[at] \in TestSet
      BY <2>1, DriverAssumption DEF TypeOK, TestSet
    <3>3. pc[Tests[at]] = "idle"
      BY <3>1, <3>2 DEF TypeOK, DriverInv, Unspawned
    <3>4. \A d \in Clients : pc'[d] = IF d = Tests[at] THEN "ready" ELSE pc[d]
      BY <3>1 DEF TypeOK
    <3>5. Warm'
      BY <3>1, <3>3, <3>4, ClientSets DEF CountInv, Warm, Engine
    <3>6. NoPanic' => NoPanic
      BY <3>3, <3>4, ClientSets DEF NoPanic
    <3>7. Linked' = Linked /\ \A s \in Services : Asking(s)' = Asking(s)
      BY <3>1, <3>3, <3>4, ClientSets DEF Linked, Asking, Engine, Past, Using
    <3> QED
      BY <3>1, <3>5, <3>6, <3>7 DEF CountInv, Counted, Cleared
  <2>2. CASE ~(at <= Len(Tests))
    BY <1>1, <1>4, <2>2, DriverAssumption DEF Spawn, poolVars, service
  <2> QED
    BY <2>1, <2>2
<1> QED
  BY <1>2, <1>3, <1>4 DEF MainStep

StatisticsInv == TypeOK /\ Routed /\ DriverInv /\ CountInv

LEMMA StatisticsInit == Init => StatisticsInv
<1> SUFFICES ASSUME Init PROVE StatisticsInv
  OBVIOUS
<1>1. DriverInv
  BY DriverAssumption DEF Init, DriverInv, Unspawned, Awaited
<1>2. Warm
  BY DriverAssumption DEF Init, Warm, Engine, WarmUp
<1>3. Linked = {}
  BY DriverAssumption DEF Init, Linked
<1>4. Counted
  BY <1>3, FS_EmptySet DEF Init, PoolInit, Counted, Cleared
<1> QED
  BY <1>1, <1>2, <1>4, InitTypes DEF StatisticsInv, CountInv

LEMMA StatisticsStep == StatisticsInv /\ [Next]_vars => StatisticsInv'
<1> SUFFICES ASSUME StatisticsInv, [Next]_vars PROVE StatisticsInv'
  OBVIOUS
<1> USE DEF StatisticsInv
<1>1. TypeOK' /\ Routed'
  BY TypesStep
<1>2. ASSUME UNCHANGED <<job, pc, count, natives, mainVars>> PROVE CountInv'
  <2>1. /\ (NoPanic' <=> NoPanic) /\ Linked' = Linked
        /\ \A s \in Services : Asking(s)' = Asking(s)
    BY <1>2 DEF NoPanic, Linked, Asking, Engine
  <2>2. Warm' /\ \A s \in Services : Cleared(s)' <=> Cleared(s)
    BY <1>2 DEF CountInv, Warm, Engine, Cleared, mainVars
  <2> QED
    BY <1>2, <2>1, <2>2 DEF CountInv, Counted
<1>3. CASE UNCHANGED vars
  BY <1>1, <1>2, <1>3, DriverStays DEF vars, poolVars, service, mainVars
<1>4. CASE MainStep
  BY <1>1, <1>4, DriverMoves, MainCounts
<1>5. ASSUME NEW c \in Clients, Task(c) PROVE StatisticsInv'
  <2>1. CASE ClientStep(c) /\ UNCHANGED mainVars
    BY <1>1, <2>1, DriverStays, ClientCounts
  <2>2. CASE c \in TestSet /\ Compare(c)
    BY <1>1, <2>2, DriverStays, CompareCounts DEF Compare
  <2> QED
    BY <1>5, <2>1, <2>2 DEF Task
<1>6. ASSUME NEW s \in Services, Child(s) \/ Death(s) PROVE StatisticsInv'
  <2>1. UNCHANGED mainVars /\ UNCHANGED <<job, pc, count, natives>>
    BY <1>6 DEF Child, Death, Answer, Die
  <2> QED
    BY <1>1, <1>2, <2>1, DriverStays
<1> QED
  BY <1>3, <1>4, <1>5, <1>6 DEF Next, Exited

\* When every test has ended, the statistics count each test of an engine once
\* and none of the calls that warm the pool up, whatever the tests ask, in
\* whatever order the tasks run and whichever children die.
THEOREM CountsExactHolds == Spec => []CountsExact
<1>1. Init => StatisticsInv
  BY StatisticsInit
<1>2. StatisticsInv => CountsExact
  <2> SUFFICES ASSUME StatisticsInv, main = "await", \A t \in TestSet : pc[t] = "done"
               PROVE  /\ \A s \in Services :
                           count[s] = Cardinality({t \in TestSet : Engine(t) = s})
                      /\ natives = Cardinality({t \in TestSet : Engine(t) = "native"})
    BY DEF CountsExact
  <2>1. Counted
    BY DEF StatisticsInv, CountInv, NoPanic
  <2>2. \A s \in Services : Asking(s) = {t \in TestSet : Engine(t) = s}
    BY DEF Asking, Past
  <2>3. Linked = {t \in TestSet : Engine(t) = "native"}
    BY DEF Linked
  <2> QED
    BY <2>1, <2>2, <2>3 DEF Counted, Cleared
<1> QED
  BY <1>1, <1>2, StatisticsStep, PTL DEF Spec

-----------------------------------------------------------------------------
(***************************************************************************)
(* The driver with its pool implements the abstract test suite, and its    *)
(* exit status tells the truth.                                            *)
(***************************************************************************)

\* The outcome of a test comes with its end, and only from an engine; the status
\* comes with the end of the program.
Judgements ==
  /\ \A t \in TestSet : pc[t] # "done" => outcome[t] = NoOutcome
  /\ \A t \in TestSet : Engine(t) \in Local => outcome[t] = NoOutcome
  /\ status = Running <=> main # "exited"

SuiteInv == TypeOK /\ Routed /\ DriverInv /\ Judgements /\ StatusTellsTruth

Small == Len(Tests) < StatusModulus
AllPassed == \A t \in TestSet : judged[t] \in {"success", "ignored"}

\* Where a test is, and what it has been told, decide its judgement.
LEMMA SameJudged ==
  ASSUME UNCHANGED job,
         \A t \in TestSet : \/ pc'[t] = pc[t] /\ outcome'[t] = outcome[t]
                            \/ /\ pc[t] \notin Stopped /\ pc'[t] \notin Stopped
                               /\ outcome'[t] = outcome[t]
  PROVE  UNCHANGED judged
  BY DEF judged, Stopped, Engine

LEMMA OneJudged ==
  ASSUME UNCHANGED job, NEW c \in TestSet, NEW judgement,
         \A t \in TestSet \ {c} : pc'[t] = pc[t] /\ outcome'[t] = outcome[t],
         judged'[c] = judgement
  PROVE  judged' = [judged EXCEPT ![c] = judgement]
  BY DEF judged, Engine

\* The tests before `at` are done, and no test has failed if all have passed.
LEMMA NoneFailed ==
  ASSUME TypeOK, Judgements, \A t \in TestSet : pc[t] = "done"
  PROVE  Failed = {} <=> AllPassed
<1>1. Failed = {} <=> \A t \in TestSet : Passed(t)
  BY DEF Failed, TestSet
<1>2. ASSUME NEW t \in TestSet PROVE Passed(t) <=> judged[t] \in {"success", "ignored"}
  <2>1. CASE Engine(t) \in Local
    BY <1>2, <2>1 DEF Judgements, Passed, judged, Local, NoOutcome
  <2>2. CASE Engine(t) \notin Local
    <3>1. Engine(t) # "ignored" /\ judged[t] = outcome[t]
      BY <2>2 DEF judged, Local
    <3>2. outcome[t] # "ignored"
      BY ClientSets DEF TypeOK, Outcomes, NoOutcome
    <3> QED
      BY <3>1, <3>2 DEF Passed
  <2> QED
    BY <2>1, <2>2
<1> QED
  BY <1>1, <1>2 DEF AllPassed

LEMMA FailedCounted ==
  /\ IsFiniteSet(Failed) /\ Cardinality(Failed) \in Nat
  /\ Cardinality(Failed) <= Len(Tests)
  /\ Cardinality(Failed) % StatusModulus \in Nat
<1>1. IsFiniteSet(DOMAIN Tests) /\ Cardinality(DOMAIN Tests) = Len(Tests)
  <2>1. DOMAIN Tests = 1 .. Len(Tests) /\ Len(Tests) \in Nat \ {0}
    BY DriverAssumption
  <2>2. ASSUME NEW n \in Nat \ {0} PROVE IsFiniteSet(1 .. n) /\ Cardinality(1 .. n) = n
    BY FS_Interval
  <2> QED
    BY <2>1, <2>2
<1>2. IsFiniteSet(Failed) /\ Cardinality(Failed) <= Len(Tests)
  BY <1>1, FS_Subset DEF Failed
<1> QED
  BY <1>2, FS_CardinalityType, DriverAssumption

\* The number of failures is small enough not to be cut off.
LEMMA StatusIsCount ==
  ASSUME Small
  PROVE  Cardinality(Failed) % StatusModulus = 0 <=> Failed = {}
<1>1. Cardinality(Failed) < StatusModulus
  BY FailedCounted, DriverAssumption DEF Small
<1>2. Cardinality(Failed) % StatusModulus = Cardinality(Failed)
  <2>1. \A n \in Nat, m \in Nat \ {0} : n < m => n % m = n
    OBVIOUS
  <2> QED
    BY <1>1, <2>1, FailedCounted, DriverAssumption
<1>3. Cardinality(Failed) = 0 <=> Failed = {}
  BY FailedCounted, FS_EmptySet
<1> QED
  BY <1>2, <1>3

\* A program that exits reports truly.
LEMMA ExitTells ==
  ASSUME SuiteInv, Small, MainStep, main' = "exited"
  PROVE  /\ UNCHANGED <<job, pc, outcome, judged>>
         /\ main # "exited"
         /\ status' \in Nat
         /\ status' = 0 <=> AllPassed
<1> USE DEF SuiteInv
<1>1. \/ WarmUpPanics
      \/ Await /\ pc[Tests[at]] = "panicked" /\ Exit(1) /\ at <= Len(Tests)
      \/ Report
  BY DEF MainStep, WarmedUp, Reset, Spawn, Await, Exit
<1>2. UNCHANGED <<job, pc, outcome>> /\ main # "exited"
  BY <1>1 DEF WarmUpPanics, Await, Report, Exit, poolVars
<1>3. UNCHANGED judged
  BY <1>2, SameJudged
<1>4. CASE WarmUpPanics
  <2>1. Tests[1] \in TestSet
    BY DriverAssumption DEF TestSet
  <2>2. pc[Tests[1]] = "idle" /\ judged[Tests[1]] = NoOutcome
    BY <1>4, <2>1 DEF WarmUpPanics, DriverInv, Unspawned, Judgements, judged
  <2>3. ~AllPassed
    BY <2>1, <2>2 DEF AllPassed, NoOutcome
  <2> QED
    BY <1>2, <1>3, <1>4, <2>3 DEF WarmUpPanics, Exit
<1>5. CASE pc[Tests[at]] = "panicked" /\ Exit(1) /\ at <= Len(Tests)
  <2>1. Tests[at] \in TestSet
    BY <1>5, DriverAssumption DEF TypeOK, TestSet
  <2>2. judged[Tests[at]] = "lost"
    BY <1>5, <2>1 DEF judged
  <2>3. ~AllPassed
    BY <2>1, <2>2 DEF AllPassed
  <2> QED
    BY <1>2, <1>3, <1>5, <2>3 DEF Exit
<1>6. CASE Report
  <2>1. \A t \in TestSet : pc[t] = "done"
    <3>1. \A i \in DOMAIN Tests : i < at
      BY <1>6, DriverAssumption DEF Report, TypeOK
    <3> QED
      BY <1>6, <3>1 DEF Report, DriverInv, Awaited, TestSet
  <2>2. status' = Cardinality(Failed) % StatusModulus
    BY <1>6 DEF Report, Exit
  <2> QED
    BY <1>2, <1>3, <2>1, <2>2, NoneFailed, StatusIsCount, FailedCounted
<1> QED
  BY <1>1, <1>4, <1>5, <1>6

-----------------------------------------------------------------------------
(***************************************************************************)
(* The exit status.                                                        *)
(***************************************************************************)

LEMMA SuiteInit == Init => SuiteInv
<1> SUFFICES ASSUME Init PROVE SuiteInv
  OBVIOUS
<1>1. DriverInv
  BY DriverAssumption DEF Init, DriverInv, Unspawned, Awaited
<1>2. Judgements
  BY ClientSets DEF Init, PoolInit, Judgements
<1>3. StatusTellsTruth
  BY DEF Init, StatusTellsTruth
<1> QED
  BY <1>1, <1>2, <1>3, InitTypes DEF SuiteInv

\* No step but the driver's last one changes whether the program has exited.
LEMMA DriverInvStep ==
  ASSUME TypeOK, DriverInv, [Next]_vars
  PROVE  DriverInv'
<1>1. CASE MainStep
  BY <1>1, DriverMoves
<1>2. CASE UNCHANGED vars
  BY <1>2, DriverStays DEF vars, poolVars
<1>3. ASSUME NEW c \in Clients, Task(c) PROVE DriverInv'
  BY <1>3, DriverStays DEF Task, Compare
<1>4. ASSUME NEW s \in Services, Child(s) \/ Death(s) PROVE DriverInv'
  BY <1>4, DriverStays DEF Child, Death, Answer, Die
<1> QED
  BY <1>1, <1>2, <1>3, <1>4 DEF Next, Exited

\* What a step of a task does to its own place and outcome: it goes on, it panics,
\* or it ends with an outcome.
LEMMA ClientMoves ==
  ASSUME TypeOK, Routed, NEW c \in Clients, ClientStep(c)
  PROVE  /\ UNCHANGED job
         /\ pc[c] \in {"ready"} \cup Calling
         /\ \/ \E label \in Calling : pc' = [pc EXCEPT ![c] = label] /\ UNCHANGED outcome
            \/ /\ pc[c] \in Calling /\ pc' = [pc EXCEPT ![c] = "panicked"]
               /\ UNCHANGED outcome
            \/ /\ Engine(c) \notin Local /\ pc' = [pc EXCEPT ![c] = "done"]
               /\ \E told \in Outcomes : outcome' = [outcome EXCEPT ![c] = told]
<1>1. UNCHANGED job /\ pc[c] \in {"ready"} \cup Calling
  BY Moves DEF ClientStep, Native, Call, Start, Acquire, Write, Read, Panic
<1>2. CASE Native(c)
  BY <1>1, <1>2, VerdictTypes DEF Native, Goto, Local
<1>3. CASE Read(c) /\ ~Panic(c)
  <2>1. pc[c] = "read" /\ Engine(c) \in Services /\ Engine(c) \notin Local
    BY <1>3, DriverAssumption DEF Read, Routed, Calling
  <2>2. stdout[Engine(c)] # <<>> /\ pc' = [pc EXCEPT ![c] = "done"]
    BY <1>3 DEF Read, Goto
  <2>3. outcome' = [outcome EXCEPT ![c] = Head(stdout[Engine(c)])]
    BY <1>3 DEF Read
  <2>4. Head(stdout[Engine(c)]) \in Outcomes
    BY <2>1, <2>2, SequenceFacts DEF TypeOK
  <2> QED
    BY <1>1, <2>1, <2>2, <2>3, <2>4
<1>4. CASE (Write(c) \/ Read(c)) /\ Panic(c)
  BY <1>1, <1>4 DEF Write, Read, Panic, Goto, Calling
<1>5. CASE Call(c) \/ Start(c) \/ Acquire(c) \/ (Write(c) /\ ~Panic(c))
  BY <1>1, <1>5 DEF Call, Start, Acquire, Write, Goto, Calling
<1> QED
  BY <1>2, <1>3, <1>4, <1>5 DEF ClientStep

LEMMA JudgementsStep ==
  ASSUME TypeOK, Routed, DriverInv, Judgements, [Next]_vars
  PROVE  Judgements'
<1>1. ASSUME NEW c \in Clients, ClientStep(c), UNCHANGED mainVars PROVE Judgements'
  <2>1. CASE pc' = [pc EXCEPT ![c] = "done"] /\ Engine(c) \notin Local
    BY <1>1, <2>1, ClientMoves, ClientSets DEF TypeOK, Judgements, mainVars, Engine, Calling
  <2>2. CASE UNCHANGED outcome
    BY <1>1, <2>2, ClientMoves, ClientSets DEF TypeOK, Judgements, mainVars, Engine, Calling
  <2> QED
    BY <1>1, <2>1, <2>2, ClientMoves
<1>2. ASSUME NEW t \in TestSet, Compare(t) PROVE Judgements'
  <2>1. PICK label \in Stopped : pc' = [pc EXCEPT ![t] = label]
    BY <1>2 DEF Compare, Goto, Stopped
  <2>2. pc[t] = "ready" /\ UNCHANGED <<job, outcome, main, status>>
    BY <1>2 DEF Compare, mainVars
  <2> QED
    BY <2>1, <2>2, ClientSets DEF TypeOK, Judgements, Engine
<1>3. ASSUME UNCHANGED <<job, pc, outcome, main, status>> PROVE Judgements'
  BY <1>3 DEF Judgements, Engine
<1>4. ASSUME NEW s \in Services, Child(s) \/ Death(s) PROVE Judgements'
  BY <1>3, <1>4 DEF Child, Death, Answer, Die, mainVars
<1>5. CASE Spawn
  <2>1. CASE at <= Len(Tests)
    <3>1. at \in DOMAIN Tests /\ Tests[at] \in TestSet
      BY <2>1, DriverAssumption DEF TypeOK, TestSet
    <3>2. pc[Tests[at]] = "idle"
      BY <1>5, <3>1 DEF Spawn, TypeOK, DriverInv, Unspawned
    <3>3. pc' = [pc EXCEPT ![Tests[at]] = "ready"] /\ UNCHANGED <<job, outcome, main, status>>
      BY <1>5, <2>1, DriverAssumption DEF Spawn, TypeOK
    <3> QED
      BY <3>1, <3>2, <3>3, ClientSets DEF TypeOK, Judgements, Engine
  <2>2. CASE ~(at <= Len(Tests))
    BY <1>5, <2>2 DEF Spawn, poolVars, Judgements, Engine
  <2> QED
    BY <2>1, <2>2
<1>6. CASE WarmedUp \/ Reset \/ (Await /\ main' # "exited")
  <2>1. UNCHANGED <<job, pc, outcome, status>> /\ main # "exited" /\ main' # "exited"
    BY <1>6 DEF WarmedUp, Reset, Await, Exit, poolVars
  <2> QED
    BY <2>1 DEF Judgements, Engine
<1>7. CASE (WarmUpPanics \/ Report \/ Await) /\ main' = "exited"
  <2>1. UNCHANGED <<job, pc, outcome>>
    BY <1>7 DEF WarmUpPanics, Report, Await, Exit, poolVars
  <2>2. status' # Running
    <3>1. CASE Report
      BY <3>1, FailedCounted DEF Report, Exit, Running
    <3>2. CASE WarmUpPanics \/ Await
      BY <1>7, <3>2 DEF WarmUpPanics, Await, Exit, Running
    <3> QED
      BY <1>7, <3>1, <3>2
  <2> QED
    BY <1>7, <2>1, <2>2 DEF Judgements, Engine
<1> QED
  <2>1. CASE MainStep
    BY <1>5, <1>6, <1>7, <2>1 DEF MainStep, WarmUpPanics, Report, Exit
  <2>2. CASE UNCHANGED vars
    BY <1>3, <2>2 DEF vars, poolVars, mainVars
  <2> QED
    BY <1>1, <1>2, <1>4, <2>1, <2>2 DEF Next, Task, Exited

LEMMA SuiteStep == SuiteInv /\ [Next]_vars => SuiteInv'
<1> SUFFICES ASSUME SuiteInv, [Next]_vars PROVE SuiteInv'
  OBVIOUS
<1> USE DEF SuiteInv
<1>1. TypeOK' /\ Routed' /\ DriverInv' /\ Judgements'
  BY TypesStep, DriverInvStep, JudgementsStep
<1>2. CASE MainStep /\ main' = "exited"
  BY <1>1, <1>2, ExitTells DEF StatusTellsTruth, AllPassed, Small
<1>3. CASE main' # "exited"
  BY <1>1, <1>3 DEF StatusTellsTruth
<1>4. CASE ~MainStep /\ main' = "exited"
  <2>1. main = "exited" /\ UNCHANGED vars
    BY <1>4 DEF Next, Task, Compare, Child, Death, Exited, mainVars, vars
  <2> QED
    BY <1>1, <2>1 DEF StatusTellsTruth, judged, Engine, vars, poolVars, mainVars
<1> QED
  BY <1>2, <1>3, <1>4

\* With fewer tests than there are exit statuses, and whatever the regexes are made
\* of, the driver exits with zero if and only if all its tests have passed.
THEOREM StatusTellsTruthHolds == Spec => []StatusTellsTruth
<1>1. SuiteInv => StatusTellsTruth
  BY DEF SuiteInv
<1> QED
  BY <1>1, SuiteInit, SuiteStep, PTL DEF Spec

-----------------------------------------------------------------------------
(***************************************************************************)
(* The refinement.  A test is judged when its task reads the answer, asks  *)
(* a linked engine or needs none; it is lost when its task panics; every   *)
(* other step but the exit is invisible.                                   *)
(***************************************************************************)

RefInv == HarnessInv /\ SuiteInv

\* The judgement that a task passes on is the one its regex deserves.
LEMMA Deserves ==
  ASSUME TypeOK, OneLineJobs, NEW t \in TestSet, Engine(t) \notin Local
  PROVE  Verdict(Line(t)) = Suite!Deserved(t)
<1>1. /\ job[t].regex \in Seq(Lines) /\ Len(job[t].regex) = 1
  BY CallTypes, ClientSets DEF OneLineJobs
<1>2. job[t].regex = <<"invalid">> <=> job[t].regex[1] = "invalid"
  BY <1>1
<1> QED
  BY <1>2 DEF Verdict, Line, Suite!Deserved, Engine

LEMMA ClientSuite ==
  ASSUME RefInv, Told', NEW c \in Clients, ClientStep(c), main # "exited", UNCHANGED mainVars
  PROVE  [Suite!Next]_(Suite!vars)
<1> USE DEF RefInv, SuiteInv
<1>1. UNCHANGED <<job, status>> /\ status = Running
  BY ClientMoves DEF mainVars, Judgements
<1>2. pc[c] \in {"ready"} \cup Calling /\ pc[c] \notin Stopped
  BY ClientMoves DEF Calling, Stopped
<1>3. \A t \in Clients \ {c} : pc'[t] = pc[t]
  BY ClientMoves DEF TypeOK
<1>4. \A t \in Clients \ {c} : outcome'[t] = outcome[t]
  BY ClientMoves DEF TypeOK
<1>5. CASE c \notin TestSet
  <2>1. UNCHANGED judged
    BY <1>1, <1>3, <1>4, <1>5, ClientSets, SameJudged
  <2> QED
    BY <1>1, <2>1 DEF Suite!vars
<1>6. ASSUME c \in TestSet, NEW label \in Calling, pc' = [pc EXCEPT ![c] = label],
             UNCHANGED outcome
      PROVE  [Suite!Next]_(Suite!vars)
  <2>1. pc'[c] \notin Stopped
    BY <1>6 DEF TypeOK, Calling, Stopped
  <2>2. UNCHANGED judged
    BY <1>1, <1>2, <1>3, <1>6, <2>1, ClientSets, SameJudged
  <2> QED
    BY <1>1, <2>2 DEF Suite!vars
<1>7. c \in TestSet => judged[c] = NoOutcome
  BY <1>2 DEF Judgements, judged, Stopped
<1>8. ASSUME c \in TestSet, pc[c] \in Calling, pc' = [pc EXCEPT ![c] = "panicked"],
             UNCHANGED outcome
      PROVE  Suite!Next
  <2>1. judged'[c] = "lost"
    BY <1>8 DEF TypeOK, judged
  <2>2. judged' = [judged EXCEPT ![c] = "lost"]
    BY <1>1, <1>3, <1>4, <1>8, <2>1, ClientSets, OneJudged
  <2>3. Engine(c) \in Services
    BY <1>8 DEF Routed
  <2>4. Suite!Lose(c)
    BY <1>1, <1>7, <1>8, <2>2, <2>3
       DEF Suite!Lose, Suite!Fragile, Suite!Pending, Suite!Lost, Engine, NoOutcome
  <2> QED
    BY <1>8, <2>4 DEF Suite!Next
<1>9. ASSUME c \in TestSet, Engine(c) \notin Local, pc' = [pc EXCEPT ![c] = "done"],
             NEW told \in Outcomes, outcome' = [outcome EXCEPT ![c] = told]
      PROVE  Suite!Next
  <2>1. outcome'[c] = told /\ told # NoOutcome
    BY <1>9 DEF TypeOK, Outcomes, NoOutcome
  <2>2. told = Verdict(Line(c))
    BY <1>1, <2>1 DEF Told, Line
  <2>3. told = Suite!Deserved(c)
    BY <1>9, <2>2, Deserves DEF HarnessInv
  <2>4. judged'[c] = told
    BY <1>1, <1>9, <2>1 DEF TypeOK, judged, Engine
  <2>5. judged' = [judged EXCEPT ![c] = Suite!Deserved(c)]
    BY <1>1, <1>3, <1>4, <1>9, <2>3, <2>4, ClientSets, OneJudged
  <2>6. Suite!Judge(c)
    BY <1>1, <1>7, <1>9, <2>5 DEF Suite!Judge, Suite!Pending, Engine, Local, NoOutcome
  <2> QED
    BY <1>9, <2>6 DEF Suite!Next
<1> QED
  BY <1>5, <1>6, <1>8, <1>9, ClientMoves

LEMMA CompareSuite ==
  ASSUME RefInv, NEW t \in TestSet, Compare(t), main # "exited"
  PROVE  Suite!Next
<1> USE DEF RefInv, SuiteInv
<1>1. /\ UNCHANGED <<job, outcome, status>> /\ status = Running
      /\ pc[t] = "ready" /\ Engine(t) \in Local
  BY DEF Compare, mainVars, Judgements
<1>2. judged[t] = NoOutcome
  BY <1>1 DEF Judgements, judged
<1>3. \A d \in TestSet \ {t} : pc'[d] = pc[d]
  BY ClientSets DEF TypeOK, Compare, Goto
<1>4. CASE Engine(t) = "crash"
  <2>1. judged'[t] = "lost"
    BY <1>4, ClientSets DEF TypeOK, Compare, Goto, judged
  <2>2. judged' = [judged EXCEPT ![t] = "lost"]
    BY <1>1, <1>3, <2>1, OneJudged
  <2>3. Suite!Lose(t)
    BY <1>1, <1>2, <1>4, <2>2
       DEF Suite!Lose, Suite!Fragile, Suite!Pending, Suite!Lost, Engine, NoOutcome
  <2> QED
    BY <2>3 DEF Suite!Next
<1>5. CASE Engine(t) # "crash"
  <2>1. judged'[t] = Engine(t)
    BY <1>1, <1>5, ClientSets DEF TypeOK, Compare, Goto, judged, Engine
  <2>2. Engine(t) = Suite!Deserved(t)
    BY <1>1 DEF Suite!Deserved, Engine
  <2>3. judged' = [judged EXCEPT ![t] = Suite!Deserved(t)]
    BY <1>1, <1>3, <2>1, <2>2, OneJudged
  <2>4. Suite!Judge(t)
    BY <1>1, <1>2, <1>5, <2>3 DEF Suite!Judge, Suite!Pending, Engine, NoOutcome
  <2> QED
    BY <2>4 DEF Suite!Next
<1> QED
  BY <1>4, <1>5

LEMMA MainSuite ==
  ASSUME RefInv, Small, MainStep
  PROVE  [Suite!Next]_(Suite!vars)
<1> USE DEF RefInv, SuiteInv
<1>1. CASE main' = "exited"
  <2>1. Suite!Exit
    BY <1>1, ExitTells DEF Suite!Exit, AllPassed, Judgements
  <2> QED
    BY <2>1 DEF Suite!Next
<1>2. ASSUME UNCHANGED <<job, pc, outcome, status>> PROVE UNCHANGED Suite!vars
  BY <1>2, SameJudged DEF Suite!vars
<1>3. CASE Spawn /\ at <= Len(Tests)
  <2>1. at \in DOMAIN Tests /\ Tests[at] \in TestSet
    BY <1>3, DriverAssumption DEF TypeOK, TestSet
  <2>2. pc[Tests[at]] = "idle"
    BY <1>3, <2>1 DEF Spawn, TypeOK, DriverInv, Unspawned
  <2>3. pc' = [pc EXCEPT ![Tests[at]] = "ready"] /\ UNCHANGED <<job, outcome, status>>
    BY <1>3, DriverAssumption DEF Spawn, TypeOK
  <2>4. \A t \in TestSet : t # Tests[at] => pc'[t] = pc[t]
    BY <2>3, ClientSets DEF TypeOK
  <2>5. pc'[Tests[at]] = "ready"
    BY <2>1, <2>3, ClientSets DEF TypeOK
  <2>6. UNCHANGED judged
    BY <2>2, <2>3, <2>4, <2>5, SameJudged DEF Stopped
  <2> QED
    BY <2>3, <2>6 DEF Suite!vars
<1>4. CASE main' # "exited" /\ ~(Spawn /\ at <= Len(Tests))
  <2>1. UNCHANGED <<job, pc, outcome, status>>
    BY <1>4 DEF MainStep, WarmedUp, WarmUpPanics, Reset, Spawn, Await, Report, Exit, poolVars
  <2> QED
    BY <1>2, <2>1
<1> QED
  BY <1>1, <1>3, <1>4

LEMMA StepSuite ==
  ASSUME RefInv, RefInv', Small, [Next]_vars
  PROVE  [Suite!Next]_(Suite!vars)
<1>1. Told'
  BY DEF RefInv, HarnessInv, PoolInv
<1>2. CASE MainStep
  BY <1>2, MainSuite
<1>3. ASSUME NEW c \in Clients, Task(c) PROVE [Suite!Next]_(Suite!vars)
  BY <1>1, <1>3, ClientSuite, CompareSuite DEF Task
<1>4. ASSUME UNCHANGED <<job, pc, outcome, status>> PROVE UNCHANGED Suite!vars
  BY <1>4, SameJudged DEF Suite!vars
<1>5. ASSUME NEW s \in Services, Child(s) \/ Death(s) PROVE UNCHANGED Suite!vars
  BY <1>4, <1>5 DEF Child, Death, Answer, Die, mainVars
<1>6. CASE UNCHANGED vars
  BY <1>4, <1>6 DEF vars, poolVars, mainVars
<1> QED
  BY <1>2, <1>3, <1>5, <1>6 DEF Next, Exited

LEMMA InitSuite == Init => Suite!Init
<1> SUFFICES ASSUME Init PROVE Suite!Init
  OBVIOUS
<1>1. \A t \in TestSet : pc[t] = "idle" /\ outcome[t] = NoOutcome
  BY DriverAssumption DEF Init, PoolInit
<1>2. judged = [t \in TestSet |-> NoOutcome]
  BY <1>1 DEF judged
<1> QED
  BY <1>2 DEF Init, Suite!Init, Suite!Pending, NoOutcome

\* As long as every regex is one line and there are fewer tests than exit statuses,
\* the driver, its tasks, the mutexes and the children that may die implement the
\* suite in which every test is judged on its own.
THEOREM ImplementsSuiteHolds == Single /\ Small => (Spec => ImplementsSuite)
<1> SUFFICES ASSUME Single, Small PROVE Spec => Suite!Spec
  BY DEF ImplementsSuite
<1>1. Init => RefInv /\ Suite!Init
  BY HarnessInit, SuiteInit, InitSuite DEF RefInv
<1>2. RefInv /\ [Next]_vars => RefInv'
  BY HarnessStep, SuiteStep DEF RefInv
<1>3. RefInv /\ RefInv' /\ [Next]_vars => [Suite!Next]_(Suite!vars)
  BY StepSuite
<1> QED
  BY <1>1, <1>2, <1>3, PTL DEF Spec, Suite!Spec
=============================================================================
