----------------------- MODULE BenchmarkPipelineProofs -----------------------
(***************************************************************************)
(* Proofs about BenchmarkPipeline, for every number of shards, every       *)
(* order of the strategies and any number of invocations, whatever the     *)
(* invocations before the current one left behind.                         *)
(***************************************************************************)
EXTENDS BenchmarkPipeline, SequenceTheorems, TLAPS

-----------------------------------------------------------------------------
(* The inductive invariant. *)

\* The steps at which the API is meant to be connected to the containers.
Measuring == {"start", "await", "validate", "load"}

\* Nobody else holds a port or a name of the current strategy's containers.
Alone == pc \in Measuring => ClashFree(Own(Current)) = Own(Current)

\* The API process, if there is one, was started for the current strategy.
OwnServer ==
    pc \in Measuring \ {"start"} => app.profile \in {Profile(Current), "none"}

\* A script that seeds goes on only with all of the data.
Seeded ==
    script \in Seeding /\ pc \in {"switch", "serve"} \cup Measuring =>
        volume[Current] \in {"whole", "mixed"}

\* A chosen strategy has no containers or is still to be done.
Cleared ==
    pc # "idle" \/ exit = "success" =>
        \A i \in DOMAIN chosen :
            \/ created \cap Own(chosen[i]) = {}
            \/ \E j \in DOMAIN todo : todo[j] = chosen[i]

\* In a script that seeds, a chosen strategy's monitoring is down or the strategy is
\* still to be done; the current one's is down from the end of the seeding on.
Unmonitored ==
    /\ script \in Seeding /\ (pc # "idle" \/ exit = "success") =>
          \A i \in DOMAIN chosen :
              \/ created \cap Monitoring(chosen[i]) = {}
              \/ \E j \in DOMAIN todo : todo[j] = chosen[i]
    /\ script \in Seeding /\ pc \in {"serve", "judge", "stop"} \cup Measuring =>
          created \cap Monitoring(Current) = {}

\* After the last strategy nothing is to be done and no API runs.
AtTheEnd ==
    /\ pc = "clean" /\ todo = << >> => app = NoApp
    /\ pc = "idle" /\ exit = "success" => todo = << >> /\ app = NoApp

IInv ==
    /\ TypeOK
    /\ Alone
    /\ OwnServer
    /\ Seeded
    /\ Cleared
    /\ Unmonitored
    /\ AtTheEnd
    /\ MeasuredIsOwn
    /\ SeededIsWhole
    /\ SuccessTakesItsFilesDown

-----------------------------------------------------------------------------
(* Types. *)

\* The current strategy is one of the scripts' strategies, and so are those that
\* remain after it; whoever is to be done is the current one or remains.
LEMMA CurrentType ==
    ASSUME NEW q \in Seq(Strategies), q # << >>
    PROVE  /\ Head(q) \in Strategies /\ Tail(q) \in Seq(Strategies)
           /\ 1 \in DOMAIN q /\ q[1] = Head(q)
           /\ \A j \in DOMAIN q : q[j] = Head(q) \/ \E k \in DOMAIN Tail(q) : Tail(q)[k] = q[j]
<1>1. /\ Head(q) \in Strategies /\ Tail(q) \in Seq(Strategies)
      /\ Len(Tail(q)) = Len(q) - 1
      /\ \A i \in 1 .. Len(Tail(q)) : Tail(q)[i] = q[i + 1]
  BY HeadTailProperties
<1>2. Len(q) \in Nat \ {0} /\ DOMAIN q = 1 .. Len(q) /\ Head(q) = q[1]
  BY EmptySeq, LenProperties
<1>3. DOMAIN Tail(q) = 1 .. Len(Tail(q))
  BY <1>1, LenProperties
<1>4. ASSUME NEW j \in DOMAIN q, j # 1
      PROVE  \E k \in DOMAIN Tail(q) : Tail(q)[k] = q[j]
  <2>1. j - 1 \in DOMAIN Tail(q) /\ (j - 1) + 1 = j
    BY <1>1, <1>2, <1>3, <1>4
  <2> QED
    BY <1>1, <1>3, <2>1
<1> QED
  BY <1>1, <1>2, <1>4

\* The strategies are those of the scripts, in the order of a full run or alone.
LEMMA StrategiesType ==
    /\ Strategies \subseteq {"single", "sharded", "citus", "lookup"}
    /\ Order \in Seq(Strategies) /\ Order # << >>
    /\ \A st \in Strategies : <<st>> \in Seq(Strategies) /\ <<st>> # << >>
<1>1. Order \in Seq({"single", "sharded", "citus", "lookup"}) /\ Order # << >>
  BY OrderAssumption
<1>2. DOMAIN Order = 1 .. Len(Order) /\ Len(Order) \in Nat
  BY <1>1, LenProperties
<1>3. \A i \in 1 .. Len(Order) : Order[i] \in {"single", "sharded", "citus", "lookup"}
  BY <1>1, ElementOfSeq
<1>4. \A i \in 1 .. Len(Order) : Order[i] \in Strategies
  BY <1>2 DEF Strategies
<1>5. Order \in [1 .. Len(Order) -> Strategies]
  BY <1>1, <1>4, LenProperties
<1>6. Order \in Seq(Strategies)
  BY <1>2, <1>5
<1> QED
  BY <1>1, <1>2, <1>3, <1>6 DEF Strategies

\* A strategy's containers are its own, and nobody else's.
LEMMA OwnType ==
    /\ \A st \in Strategies : Own(st) \subseteq Containers /\ SeedingFile(st) \subseteq Containers
    /\ \A c \in Containers : c[1] \in Strategies /\ c \in SeedingFile(c[1])
    /\ \A st, c : c \in SeedingFile(st) => c[1] = st
    /\ \A st, c : c \in Own(st) => c[1] = st
    /\ \A st : \A c \in Monitoring(st) : c[2] = Monitor
    /\ \A st \in Strategies : \A c \in Own(st) : c[2] # Monitor
<1>1. \A st, c : c \in SeedingFile(st) => c[1] = st
  BY DEF SeedingFile, Own, Monitoring
<1>2. \A st \in Strategies : Own(st) \subseteq Containers /\ SeedingFile(st) \subseteq Containers
  BY DEF Containers, SeedingFile
<1>3. \A c \in Containers : c[1] \in Strategies /\ c \in SeedingFile(c[1])
  BY <1>1 DEF Containers
<1>4. \A st : \A c \in Monitoring(st) : c[2] = Monitor
  BY DEF Monitoring
<1>5. ASSUME NEW st \in Strategies, NEW c \in Own(st) PROVE c[2] # Monitor
  <2>1. c[2] \in {Main} \cup Shards
    BY StrategiesType DEF Own, Databases
  <2> QED
    BY <2>1, ShardsAssumption DEF Main, Monitor
<1> QED
  BY <1>1, <1>2, <1>3, <1>4, <1>5 DEF SeedingFile

\* What "docker compose up" does to the containers, and where it goes.
LEMMA ComposeUpSteps ==
    ASSUME NEW C, NEW then, ComposeUp(C, then)
    PROVE  /\ UNCHANGED <<script, chosen, todo, invocations>>
           /\ \E S \in SUBSET C : \E T \in SUBSET S :
                 created' = created \cup S /\ running' = running \cup T
           /\ \/ /\ pc' = then /\ exit' = exit /\ ClashFree(C) = C
                 /\ created' = created \cup C /\ running' = running \cup C
              \/ pc' = "idle" /\ exit' = "failure"
<1>1. CASE /\ ClashFree(C) = C
           /\ created' = created \cup C
           /\ running' = running \cup C
           /\ GoTo(then)
  BY <1>1 DEF GoTo
<1>2. CASE /\ \E S \in SUBSET {c \in C : c[2] = Main \/ ~ Clashes(c)} :
              \E T \in SUBSET (S \cap ClashFree(C)) :
                 /\ created' = created \cup S
                 /\ running' = running \cup T
           /\ Abort
  BY <1>2 DEF Abort
<1> QED
  BY <1>1, <1>2 DEF ComposeUp

\* What the two steps that bring containers up do, and where they go.
LEMMA UpSteps ==
    ASSUME UpForSeeding \/ UpForServing
    PROVE  /\ UNCHANGED <<script, chosen, todo, invocations>>
           /\ pc \in {"up", "serve"}
           /\ created' \subseteq created \cup SeedingFile(Current)
           /\ UpForServing => created' \subseteq created \cup Own(Current)
           /\ \/ UpForSeeding /\ pc' = "seed" /\ exit' = exit
              \/ UpForServing /\ pc' = "start" /\ exit' = exit
              \/ pc' = "idle" /\ exit' = "failure"
<1>1. CASE UpForSeeding
  <2>1. pc = "up" /\ ComposeUp(SeedingFile(Current), "seed")
    BY <1>1 DEF UpForSeeding
  <2> QED
    BY <1>1, <2>1, ComposeUpSteps DEF UpForServing
<1>2. CASE UpForServing
  <2>1. CASE ComposeUp(Own(Current), "start")
    BY <1>2, <2>1, ComposeUpSteps DEF SeedingFile, UpForServing
  <2>2. CASE Abort /\ UNCHANGED docker
    BY <1>2, <2>2 DEF Abort, docker, UpForServing
  <2> QED
    BY <1>2, <2>1, <2>2 DEF UpForServing
<1> QED
  BY <1>1, <1>2

\* What a step does to the control variables.
LEMMA ControlType ==
    ASSUME TypeOK, [Next]_vars
    PROVE  /\ script' \in Scripts /\ pc' \in Steps
           /\ exit' \in {"none", "success", "failure"}
           /\ chosen' \in Seq(Strategies) /\ todo' \in Seq(Strategies)
           /\ pc' \notin {"idle", "clean"} => todo' # << >>
           /\ invocations' \in 0 .. MaxInvocations
<1> USE DEF Steps
<1>1. ASSUME NEW s \in Scripts, Invoke(s)
      PROVE  /\ script' \in Scripts /\ pc' \in Steps
             /\ exit' \in {"none", "success", "failure"}
             /\ chosen' \in Seq(Strategies) /\ todo' \in Seq(Strategies)
             /\ todo' # << >>
             /\ invocations' \in 0 .. MaxInvocations
  <2>1. chosen' \in Seq(Strategies) /\ chosen' # << >>
    BY <1>1, StrategiesType DEF Invoke
  <2>2. pc' \in {"clean", "up", "serve"}
    BY <1>1 DEF Invoke, FirstStep
  <2>3. invocations' \in 0 .. MaxInvocations
    BY <1>1, InvocationsAssumption DEF Invoke, TypeOK
  <2> QED
    BY <1>1, <2>1, <2>2, <2>3 DEF Invoke
<1>2. CASE Cleanup
  BY <1>2 DEF Cleanup, TypeOK
<1>3. CASE UpForSeeding \/ UpForServing
  <2>1. /\ UNCHANGED <<script, chosen, todo, invocations>>
        /\ pc \in {"up", "serve"} /\ pc' \in {"seed", "start", "idle"}
        /\ exit' \in {exit, "failure"}
    BY <1>3, ComposeUpSteps DEF UpForSeeding, UpForServing, Abort
  <2> QED
    BY <2>1 DEF TypeOK
<1>4. CASE Stop
  <2>1. todo # << >> /\ todo \in Seq(Strategies)
    BY <1>4 DEF Stop, TypeOK
  <2>2. Tail(todo) \in Seq(Strategies)
    BY <2>1, CurrentType
  <2> QED
    BY <1>4, <2>1, <2>2 DEF Stop, NoneLeft, FirstStep, TypeOK
<1>5. CASE \/ Seed \/ SeedFails \/ Switch \/ StartSpring \/ SpringReady \/ SpringTimeout
           \/ Validated \/ Refused \/ RunLocust \/ Accepted
  <2>1. /\ UNCHANGED <<script, chosen, todo, invocations>>
        /\ pc \notin {"idle", "clean"} /\ pc' \in Steps /\ exit' \in {exit, "failure"}
    BY <1>5 DEF Seed, SeedFails, Switch, StartSpring, SpringReady, SpringTimeout, Validated,
                Refused, RunLocust, Accepted, GoTo, Abort
  <2> QED
    BY <2>1 DEF TypeOK
<1>6. CASE Interrupt
  BY <1>6 DEF Interrupt, Abort, TypeOK
<1>7. CASE UNCHANGED control
  BY <1>7 DEF control, TypeOK
<1> QED
  BY <1>1, <1>2, <1>3, <1>4, <1>5, <1>6, <1>7
  DEF Next, ScriptStep, Environment, vars, AppServes, AppDies, Crash

\* What a step does to the containers.
LEMMA DockerType ==
    ASSUME TypeOK, [Next]_vars
    PROVE  created' \subseteq Containers /\ running' \subseteq created'
<1>1. ASSUME NEW C, ComposeDown(C)
      PROVE  created' \subseteq Containers /\ running' \subseteq created'
  BY <1>1 DEF ComposeDown, TypeOK
<1>2. ASSUME NEW C, NEW then, ComposeUp(C, then), C \subseteq Containers
      PROVE  created' \subseteq Containers /\ running' \subseteq created'
  <2>1. PICK S \in SUBSET C : \E T \in SUBSET S :
           created' = created \cup S /\ running' = running \cup T
    BY <1>2, ComposeUpSteps
  <2> QED
    BY <1>2, <2>1 DEF TypeOK
<1>3. CASE UpForSeeding \/ UpForServing
  <2>1. Current \in Strategies
    BY <1>3, CurrentType DEF UpForSeeding, UpForServing, Current, TypeOK
  <2>2. Own(Current) \subseteq Containers /\ SeedingFile(Current) \subseteq Containers
    BY <2>1, OwnType
  <2>3. CASE UNCHANGED docker
    BY <2>3 DEF docker, TypeOK
  <2>4. CASE ComposeUp(SeedingFile(Current), "seed")
    BY <1>2, <2>2, <2>4
  <2>5. CASE ComposeUp(Own(Current), "start")
    BY <1>2, <2>2, <2>5
  <2> QED
    BY <1>3, <2>3, <2>4, <2>5 DEF UpForSeeding, UpForServing
<1>4. CASE Switch \/ Refused \/ Stop
  BY <1>1, <1>4 DEF Switch, Refused, Stop
<1>5. CASE Cleanup
  BY <1>5 DEF Cleanup
<1>6. ASSUME NEW c \in running, Crash(c)
      PROVE  created' \subseteq Containers /\ running' \subseteq created'
  BY <1>6 DEF Crash, TypeOK
<1>7. CASE UNCHANGED docker
  BY <1>7 DEF docker, TypeOK
<1> QED
  BY <1>3, <1>4, <1>5, <1>6, <1>7
  DEF Next, ScriptStep, Environment, vars, Invoke, Seed, SeedFails, StartSpring, SpringReady,
      SpringTimeout, Validated, RunLocust, Accepted, Interrupt, AppServes, AppDies

\* What a step does to the volumes.
LEMMA VolumeType ==
    ASSUME TypeOK, [Next]_vars
    PROVE  volume' \in [Strategies -> Contents]
<1> USE DEF Contents
<1>1. CASE Cleanup
  BY <1>1 DEF Cleanup
<1>2. CASE UpForSeeding
  BY <1>2 DEF UpForSeeding, TypeOK
<1>3. CASE Seed
  <2>1. volume[Current] \in {"empty", "users"} /\ Loaded(volume[Current]) \in Contents
    BY <1>3 DEF Seed, Loaded
  <2> QED
    BY <1>3, <2>1 DEF Seed, TypeOK
<1>4. CASE SeedFails
  <2>1. Current \in Strategies
    BY <1>4, CurrentType DEF SeedFails, Current, TypeOK
  <2>2. volume[Current] \in Contents
    BY <2>1 DEF TypeOK
  <2>3. LeftBehind(script, Current, volume[Current]) \subseteq Contents
    BY <2>2 DEF LeftBehind, Loaded
  <2>4. PICK content \in Contents : volume' = [volume EXCEPT ![Current] = content]
    BY <1>4, <2>3 DEF SeedFails
  <2> QED
    BY <2>4 DEF TypeOK
<1>5. CASE UNCHANGED volume
  BY <1>5 DEF TypeOK
<1> QED
  BY <1>1, <1>2, <1>3, <1>4, <1>5
  DEF Next, ScriptStep, Environment, vars, Invoke, Switch, UpForServing, StartSpring, SpringReady,
      SpringTimeout, Validated, Refused, RunLocust, Accepted, Stop, Interrupt, AppServes, AppDies,
      Crash

\* What a step does to the API.
LEMMA AppType ==
    ASSUME TypeOK, [Next]_vars
    PROVE  app' = NoApp \/ app' \in [profile : {Profile(st) : st \in Strategies},
                                     state : {"starting", "serving"}]
<1>1. CASE StartSpring
  <2>1. Current \in Strategies
    BY <1>1, CurrentType DEF StartSpring, Current, TypeOK
  <2> QED
    BY <1>1, <2>1 DEF StartSpring
<1>2. CASE AppServes
  <2>1. app # NoApp
    BY <1>2 DEF AppServes, NoApp
  <2> QED
    BY <1>2, <2>1 DEF AppServes, TypeOK
<1>3. CASE app' = NoApp
  BY <1>3
<1>4. CASE UNCHANGED app
  BY <1>4 DEF TypeOK
<1> QED
  BY <1>1, <1>2, <1>3, <1>4
  DEF Next, ScriptStep, Environment, vars, Invoke, Cleanup, UpForSeeding, Seed, SeedFails, Switch,
      UpForServing, SpringReady, SpringTimeout, Validated, Refused, RunLocust, Accepted, Stop,
      Interrupt, AppDies, Crash

\* What a step does to the results: only RunLocust adds one.
LEMMA ResultsSteps ==
    ASSUME [Next]_vars
    PROVE  results' = results \/ RunLocust
BY DEF Next, ScriptStep, Environment, vars, Invoke, Cleanup, UpForSeeding, Seed, SeedFails, Switch,
       UpForServing, StartSpring, SpringReady, SpringTimeout, Validated, Refused, Accepted, Stop,
       Interrupt, AppServes, AppDies, Crash

LEMMA TypeStep == TypeOK /\ [Next]_vars => TypeOK'
<1> SUFFICES ASSUME TypeOK, [Next]_vars PROVE TypeOK'
  OBVIOUS
<1>1. ASSUME RunLocust
      PROVE  results' \subseteq
                [script : Scripts, strategy : Strategies, volume : Contents,
                 server : {Profile(st) : st \in Strategies} \cup {"none"},
                 sources : SUBSET Strategies]
  <2>1. Current \in Strategies
    BY <1>1, CurrentType DEF RunLocust, Current, TypeOK
  <2>2. script \in Scripts /\ volume[Current] \in Contents
    BY <2>1 DEF TypeOK
  <2>3. app.profile \in {Profile(st) : st \in Strategies} \cup {"none"}
    BY DEF TypeOK, NoApp
  <2>4. Sources \in SUBSET Strategies
    BY OwnType DEF Sources, Connected, TypeOK
  <2> QED
    BY <1>1, <2>1, <2>2, <2>3, <2>4 DEF RunLocust, TypeOK
<1>2. results' \subseteq
         [script : Scripts, strategy : Strategies, volume : Contents,
          server : {Profile(st) : st \in Strategies} \cup {"none"},
          sources : SUBSET Strategies]
  BY <1>1, ResultsSteps DEF TypeOK
<1> QED
  BY <1>2, ControlType, DockerType, VolumeType, AppType DEF TypeOK

LEMMA InitIInv == Init => IInv
<1> SUFFICES ASSUME Init PROVE IInv
  OBVIOUS
<1>1. << >> \in Seq(Strategies) /\ DOMAIN << >> = {}
  BY EmptySeq
<1>2. TypeOK
  BY <1>1, InvocationsAssumption DEF Init, TypeOK, Scripts, Steps, Contents
<1> QED
  BY <1>1, <1>2 DEF Init, IInv, Alone, OwnServer, Measuring, Seeded, Cleared, AtTheEnd,
                    MeasuredIsOwn, SeededIsWhole, SuccessTakesItsFilesDown, Unmonitored

-----------------------------------------------------------------------------
(* Ports and names. *)

\* A clash stays away while no other strategy's container is added.
LEMMA ClashesShrink ==
    ASSUME NEW st,
           ClashFree(Own(st)) = Own(st),
           \A o \in created' : o \in created \/ o[1] = st,
           \A o \in running' : o \in running \/ o[1] = st
    PROVE  {c \in Own(st) : ~ Clashes(c)'} = Own(st)
<1> SUFFICES ASSUME NEW c \in Own(st), Clashes(c)' PROVE FALSE
  OBVIOUS
<1>1. c[1] = st
  BY OwnType
<1>2. PICK o \in created' :
         /\ o[1] # c[1] /\ o[2] = c[2]
         /\ IF c[2] = Main THEN o \in running'
                           ELSE {o[1], c[1]} = {"sharded", "lookup"}
  BY DEF Clashes
<1>3. o \in created /\ (o \in running' => o \in running)
  BY <1>1, <1>2
<1>4. Clashes(c)
  BY <1>2, <1>3 DEF Clashes
<1>5. c \in ClashFree(Own(st))
  OBVIOUS
<1> QED
  BY <1>4, <1>5 DEF ClashFree

LEMMA AloneStep == IInv /\ [Next]_vars => Alone'
<1> SUFFICES ASSUME IInv, [Next]_vars, pc' \in Measuring
             PROVE  {c \in Own(Current') : ~ Clashes(c)'} = Own(Current')
  BY DEF Alone, ClashFree, Own
<1> USE DEF Measuring
<1>1. CASE UpForServing
  <2>1. ComposeUp(Own(Current), "start") /\ pc' # "idle"
    BY <1>1 DEF UpForServing, Abort
  <2>2. /\ todo' = todo /\ ClashFree(Own(Current)) = Own(Current)
        /\ created' = created \cup Own(Current) /\ running' = running \cup Own(Current)
    BY <2>1, ComposeUpSteps
  <2>3. \A o \in Own(Current) : o[1] = Current
    BY OwnType
  <2>4. /\ \A o \in created' : o \in created \/ o[1] = Current
        /\ \A o \in running' : o \in running \/ o[1] = Current
    BY <2>2, <2>3
  <2>5. {c \in Own(Current) : ~ Clashes(c)'} = Own(Current)
    BY <2>2, <2>4, ClashesShrink
  <2>6. Current' = Current
    BY <2>2 DEF Current
  <2> QED
    BY <2>5, <2>6
<1>2. CASE /\ pc \in Measuring /\ todo' = todo
           /\ created' = created /\ running' \subseteq running
  <2>1. ClashFree(Own(Current)) = Own(Current) /\ Current' = Current
    BY <1>2 DEF IInv, Alone, Current
  <2>2. {c \in Own(Current) : ~ Clashes(c)'} = Own(Current)
    BY <1>2, <2>1, ClashesShrink
  <2> QED
    BY <2>1, <2>2
<1>3. CASE \/ StartSpring \/ SpringReady \/ SpringTimeout \/ Validated \/ RunLocust
           \/ AppServes \/ AppDies
  <2>1. pc \in Measuring /\ todo' = todo /\ created' = created /\ running' = running
    BY <1>3 DEF StartSpring, SpringReady, SpringTimeout, Validated, RunLocust, AppServes, AppDies,
                docker, control, GoTo, Abort
  <2> QED
    BY <1>2, <2>1
<1>4. ASSUME NEW x \in running, Crash(x)
      PROVE  {c \in Own(Current') : ~ Clashes(c)'} = Own(Current')
  <2>1. pc \in Measuring /\ todo' = todo /\ created' = created /\ running' \subseteq running
    BY <1>4 DEF Crash, control
  <2> QED
    BY <1>2, <2>1
<1>5. CASE UNCHANGED vars
  BY <1>2, <1>5 DEF vars, control, docker
<1>6. CASE \/ Cleanup \/ UpForSeeding \/ Seed \/ SeedFails \/ Switch \/ Refused \/ Accepted
           \/ Stop \/ Interrupt \/ \E s \in Scripts : Invoke(s)
  <2>1. pc' \notin Measuring
    BY <1>6, ComposeUpSteps
    DEF Cleanup, UpForSeeding, Seed, SeedFails, Switch, Refused, Accepted, Stop, Interrupt, Invoke,
        GoTo, Abort, FirstStep
  <2> QED
    BY <2>1
<1> QED
  BY <1>1, <1>3, <1>4, <1>5, <1>6 DEF Next, ScriptStep, Environment

\* The data sources of an API that was started for the current strategy lead to
\* containers of that strategy.
LEMMA SourcesAreOwn ==
    ASSUME IInv, pc \in Measuring \ {"start"}
    PROVE  Sources \subseteq {Current}
<1> SUFFICES ASSUME NEW c \in Connected PROVE c[1] = Current
  BY DEF Sources
<1>1. /\ app.profile \in {Profile(Current), "none"}
      /\ ClashFree(Own(Current)) = Own(Current)
  BY DEF IInv, OwnServer, Alone, Measuring
<1>2. Current \in Strategies /\ Strategies \subseteq {"single", "sharded", "citus", "lookup"}
  BY CurrentType, StrategiesType DEF IInv, TypeOK, Measuring, Current
<1>3. c \in running /\ c \in created /\ c[1] \in Strategies
  BY OwnType DEF Connected, IInv, TypeOK
<1>4. \A d \in Databases(Current) : ~ Clashes(<<Current, d>>)
  BY <1>1 DEF ClashFree, Own
<1>5. CASE c[2] = Main
  <2>1. app.profile \in {"single", "lookup"}
    BY <1>5 DEF Connected, UsesMain
  <2>2. Current \in {"single", "citus", "lookup"}
    BY <1>1, <1>2, <2>1 DEF Profile
  <2>3. Main \in Databases(Current)
    BY <2>2 DEF Databases
  <2>4. ~ Clashes(<<Current, Main>>)
    BY <1>4, <2>3
  <2> QED
    BY <1>3, <1>5, <2>4 DEF Clashes
<1>6. CASE c[2] # Main
  <2>1. app.profile \in {"sharded", "lookup"} /\ c[1] # "citus"
    BY <1>6 DEF Connected, UsesShards
  <2>2. Current \in {"sharded", "lookup"}
    BY <1>1, <1>2, <2>1 DEF Profile
  <2>3. c[1] \in {"sharded", "lookup"} /\ c[2] \in Shards
    <3>1. c[2] \in Shards
      BY <1>6 DEF Connected
    <3>2. c \in SeedingFile(c[1])
      BY <1>3, OwnType DEF IInv, TypeOK
    <3>3. c[1] # "single"
      BY <1>6, <3>2 DEF SeedingFile, Own, Databases, Monitoring
    <3> QED
      BY <1>2, <1>3, <2>1, <3>1, <3>3
  <2>4. ~ Clashes(<<Current, c[2]>>)
    BY <1>4, <2>2, <2>3 DEF Databases
  <2>5. c[1] # Current => {c[1], Current} = {"sharded", "lookup"}
    BY <2>2, <2>3
  <2> QED
    BY <1>3, <1>6, <2>4, <2>5 DEF Clashes
<1> QED
  BY <1>5, <1>6

LEMMA OwnServerStep == IInv /\ [Next]_vars => OwnServer'
<1> SUFFICES ASSUME IInv, [Next]_vars, pc' \in {"await", "validate", "load"}
             PROVE  app'.profile \in {Profile(Current)', "none"}
  BY DEF OwnServer, Measuring
<1>1. CASE StartSpring
  BY <1>1 DEF StartSpring, GoTo, Current, Profile
<1>2. CASE /\ pc \in {"await", "validate", "load"} /\ todo' = todo
           /\ app' = app \/ app' = NoApp \/ app' = [app EXCEPT !.state = "serving"]
  <2>1. app.profile \in {Profile(Current), "none"}
    BY <1>2 DEF IInv, OwnServer, Measuring
  <2>2. app'.profile \in {app.profile, "none"}
    <3>1. app = NoApp \/ app \in [profile : {Profile(st) : st \in Strategies},
                                  state : {"starting", "serving"}]
      BY DEF IInv, TypeOK
    <3> QED
      BY <1>2, <3>1 DEF NoApp
  <2>3. Profile(Current)' = Profile(Current)
    BY <1>2 DEF Profile, Current
  <2> QED
    BY <2>1, <2>2, <2>3
<1>3. CASE \/ SpringReady \/ SpringTimeout \/ Validated \/ RunLocust
           \/ AppServes \/ AppDies \/ UNCHANGED vars
  <2>1. pc \in {"await", "validate", "load"} /\ todo' = todo
    BY <1>3 DEF SpringReady, SpringTimeout, Validated, RunLocust, AppServes, AppDies, vars,
                control, GoTo, Abort
  <2>2. app' = app \/ app' = NoApp \/ app' = [app EXCEPT !.state = "serving"]
    BY <1>3 DEF SpringReady, SpringTimeout, Validated, RunLocust, AppServes, AppDies, vars
  <2> QED
    BY <1>2, <2>1, <2>2
<1>4. ASSUME NEW c \in running, Crash(c) PROVE app'.profile \in {Profile(Current)', "none"}
  <2>1. pc \in {"await", "validate", "load"} /\ todo' = todo /\ app' = app
    BY <1>4 DEF Crash, control
  <2> QED
    BY <1>2, <2>1
<1>5. CASE \/ Cleanup \/ UpForSeeding \/ UpForServing \/ Seed \/ SeedFails \/ Switch \/ Refused
           \/ Accepted \/ Stop \/ Interrupt \/ \E s \in Scripts : Invoke(s)
  <2>1. pc' \notin {"await", "validate", "load"}
    BY <1>5, ComposeUpSteps
    DEF Cleanup, UpForSeeding, UpForServing, Seed, SeedFails, Switch, Refused, Accepted, Stop,
        Interrupt, Invoke, GoTo, Abort, FirstStep
  <2> QED
    BY <2>1
<1> QED
  BY <1>1, <1>3, <1>4, <1>5 DEF Next, ScriptStep, Environment

-----------------------------------------------------------------------------
(* The data. *)

LEMMA SeededStep == IInv /\ [Next]_vars => Seeded'
<1> DEFINE Past == {"switch", "serve"} \cup Measuring
<1> SUFFICES ASSUME IInv, [Next]_vars, script' \in Seeding, pc' \in Past
             PROVE  volume'[Current'] \in {"whole", "mixed"}
  BY DEF Seeded
<1> USE DEF Measuring
<1>1. CASE Seed
  <2>1. Current \in Strategies
    BY <1>1, CurrentType DEF Seed, Current, IInv, TypeOK
  <2>2. volume'[Current] = Loaded(volume[Current]) /\ Current' = Current
    BY <1>1, <2>1 DEF Seed, GoTo, Current, IInv, TypeOK
  <2>3. volume[Current] \in {"empty", "users"}
    BY <1>1 DEF Seed
  <2> QED
    BY <2>2, <2>3 DEF Loaded
<1>2. CASE /\ pc \in Past /\ todo' = todo /\ script' = script /\ volume' = volume
  BY <1>2 DEF IInv, Seeded, Current
<1>3. CASE \/ Switch \/ UpForServing \/ StartSpring \/ SpringReady \/ SpringTimeout \/ Validated
           \/ RunLocust \/ AppServes \/ AppDies \/ UNCHANGED vars
  <2>1. todo' = todo /\ script' = script /\ volume' = volume
    BY <1>3, ComposeUpSteps
    DEF Switch, UpForServing, StartSpring, SpringReady, SpringTimeout, Validated, RunLocust,
        AppServes, AppDies, vars, control, GoTo, Abort
  <2>2. pc \in Past
    BY <1>3 DEF Switch, UpForServing, StartSpring, SpringReady, SpringTimeout, Validated, RunLocust,
                AppServes, AppDies, vars, control
  <2> QED
    BY <1>2, <2>1, <2>2
<1>4. ASSUME NEW c \in running, Crash(c) PROVE volume'[Current'] \in {"whole", "mixed"}
  <2>1. pc \in Past /\ todo' = todo /\ script' = script /\ volume' = volume
    BY <1>4 DEF Crash, control
  <2> QED
    BY <1>2, <2>1
<1>5. CASE \/ Cleanup \/ UpForSeeding \/ SeedFails \/ Refused \/ Accepted \/ Stop \/ Interrupt
           \/ \E s \in Scripts : Invoke(s)
  <2>1. pc' \notin Past
    BY <1>5, ComposeUpSteps
    DEF Cleanup, UpForSeeding, SeedFails, Refused, Accepted, Stop, Interrupt, Invoke, GoTo, Abort,
        FirstStep
  <2> QED
    BY <2>1
<1> QED
  BY <1>1, <1>3, <1>4, <1>5 DEF Next, ScriptStep, Environment

\* A result that is added is of the current strategy's server, containers and data.
LEMMA ResultsStep == IInv /\ [Next]_vars => MeasuredIsOwn' /\ SeededIsWhole'
<1> SUFFICES ASSUME IInv, [Next]_vars, NEW r \in results', r \notin results
             PROVE  /\ r.server \in {Profile(r.strategy), "none"}
                    /\ r.sources \subseteq {r.strategy}
                    /\ r.script \in Seeding => r.volume \in {"whole", "mixed"}
  BY DEF IInv, MeasuredIsOwn, SeededIsWhole
<1>1. /\ pc = "load"
      /\ r = [script |-> script, strategy |-> Current, volume |-> volume[Current],
              server |-> app.profile, sources |-> Sources]
  BY ResultsSteps DEF RunLocust
<1>2. app.profile \in {Profile(Current), "none"}
  BY <1>1 DEF IInv, OwnServer, Measuring
<1>3. Sources \subseteq {Current}
  BY <1>1, SourcesAreOwn DEF Measuring
<1>4. script \in Seeding => volume[Current] \in {"whole", "mixed"}
  BY <1>1 DEF IInv, Seeded, Measuring
<1> QED
  BY <1>1, <1>2, <1>3, <1>4

-----------------------------------------------------------------------------
(* What is left behind. *)

LEMMA ClearedStep == IInv /\ [Next]_vars => Cleared'
<1> SUFFICES ASSUME IInv, [Next]_vars, pc' # "idle" \/ exit' = "success",
                    NEW i \in DOMAIN chosen'
             PROVE  \/ created' \cap Own(chosen'[i]) = {}
                    \/ \E j \in DOMAIN todo' : todo'[j] = chosen'[i]
  BY DEF Cleared
<1>1. ASSUME NEW s \in Scripts, Invoke(s)
      PROVE  \E j \in DOMAIN todo' : todo'[j] = chosen'[i]
  BY <1>1 DEF Invoke
<1>2. CASE Cleanup
  BY <1>2 DEF Cleanup
<1>3. CASE UpForSeeding \/ UpForServing
  <2>1. /\ pc # "idle" /\ UNCHANGED <<chosen, todo>>
        /\ created' \subseteq created \cup SeedingFile(Current)
        /\ todo # << >>
    BY <1>3, UpSteps DEF IInv, TypeOK
  <2>2. \/ created \cap Own(chosen[i]) = {}
        \/ \E j \in DOMAIN todo : todo[j] = chosen[i]
    BY <2>1 DEF IInv, Cleared
  <2>3. \E j \in DOMAIN todo : todo[j] = Current
    BY <2>1, CurrentType DEF Current, IInv, TypeOK
  <2>4. chosen[i] # Current => SeedingFile(Current) \cap Own(chosen[i]) = {}
    BY OwnType
  <2> QED
    BY <2>1, <2>2, <2>3, <2>4
<1>4. CASE Stop
  <2>1. /\ pc # "idle" /\ chosen' = chosen /\ todo' = Tail(todo) /\ todo # << >>
        /\ created' = created \ Own(Current)
    BY <1>4 DEF Stop, ComposeDown, IInv, TypeOK
  <2>2. \/ created \cap Own(chosen[i]) = {}
        \/ \E j \in DOMAIN todo : todo[j] = chosen[i]
    BY <2>1 DEF IInv, Cleared
  <2>3. \A j \in DOMAIN todo :
           todo[j] = Current \/ \E k \in DOMAIN Tail(todo) : Tail(todo)[k] = todo[j]
    BY <2>1, CurrentType DEF Current, IInv, TypeOK
  <2>4. CASE chosen[i] = Current
    BY <2>1, <2>4
  <2>5. CASE chosen[i] # Current
    BY <2>1, <2>2, <2>3, <2>5
  <2> QED
    BY <2>4, <2>5
<1>5. CASE /\ UNCHANGED <<chosen, todo>> /\ created' \subseteq created
           /\ pc # "idle" \/ exit = "success"
  <2>1. \/ created \cap Own(chosen[i]) = {}
        \/ \E j \in DOMAIN todo : todo[j] = chosen[i]
    BY <1>5 DEF IInv, Cleared
  <2> QED
    BY <1>5, <2>1
<1>6. CASE \/ Seed \/ SeedFails \/ Switch \/ StartSpring \/ SpringReady \/ SpringTimeout
           \/ Validated \/ Refused \/ RunLocust \/ Accepted \/ Interrupt
  <2>1. /\ UNCHANGED <<chosen, todo>> /\ created' \subseteq created /\ pc # "idle"
    BY <1>6 DEF Seed, SeedFails, Switch, StartSpring, SpringReady, SpringTimeout, Validated,
                Refused, RunLocust, Accepted, Interrupt, ComposeDown, docker, GoTo, Abort
  <2> QED
    BY <1>5, <2>1
<1>7. CASE UNCHANGED <<control, created>>
  BY <1>5, <1>7 DEF control
<1> QED
  BY <1>1, <1>2, <1>3, <1>4, <1>6, <1>7
  DEF Next, ScriptStep, Environment, vars, docker, AppServes, AppDies, Crash

LEMMA UnmonitoredStep == IInv /\ [Next]_vars => Unmonitored'
<1> DEFINE Late == {"serve", "judge", "stop"} \cup Measuring
<1> SUFFICES ASSUME IInv, [Next]_vars, script' \in Seeding
             PROVE  /\ pc' # "idle" \/ exit' = "success" =>
                          \A i \in DOMAIN chosen' :
                              \/ created' \cap Monitoring(chosen'[i]) = {}
                              \/ \E j \in DOMAIN todo' : todo'[j] = chosen'[i]
                    /\ pc' \in Late => created' \cap Monitoring(Current') = {}
  BY DEF Unmonitored
<1> USE DEF Measuring
<1>1. ASSUME NEW s \in Scripts, Invoke(s)
      PROVE  /\ \A i \in DOMAIN chosen' : \E j \in DOMAIN todo' : todo'[j] = chosen'[i]
             /\ pc' \notin Late
  BY <1>1 DEF Invoke, FirstStep
<1>2. CASE Cleanup
  BY <1>2 DEF Cleanup
<1>3. CASE UpForSeeding \/ UpForServing
  <2>1. /\ pc # "idle" /\ UNCHANGED <<script, chosen, todo>>
        /\ created' \subseteq created \cup SeedingFile(Current)
        /\ todo # << >>
        /\ pc' \in Late => UpForServing /\ pc = "serve" /\ created' \subseteq created \cup Own(Current)
    BY <1>3, UpSteps DEF IInv, TypeOK, UpForServing
  <2>2. ASSUME NEW i \in DOMAIN chosen'
        PROVE  \/ created' \cap Monitoring(chosen'[i]) = {}
               \/ \E j \in DOMAIN todo' : todo'[j] = chosen'[i]
    <3>1. \/ created \cap Monitoring(chosen[i]) = {}
          \/ \E j \in DOMAIN todo : todo[j] = chosen[i]
      BY <2>1 DEF IInv, Unmonitored
    <3>2. \E j \in DOMAIN todo : todo[j] = Current
      BY <2>1, CurrentType DEF Current, IInv, TypeOK
    <3>3. chosen[i] # Current => SeedingFile(Current) \cap Monitoring(chosen[i]) = {}
      BY OwnType DEF SeedingFile
    <3> QED
      BY <2>1, <3>1, <3>2, <3>3
  <2>3. ASSUME pc' \in Late PROVE created' \cap Monitoring(Current') = {}
    <3>1. created \cap Monitoring(Current) = {} /\ Current' = Current
      BY <2>1, <2>3 DEF IInv, Unmonitored, Current
    <3>2. Own(Current) \cap Monitoring(Current) = {}
      BY <2>1, CurrentType, OwnType DEF Current, IInv, TypeOK
    <3> QED
      BY <2>1, <2>3, <3>1, <3>2
  <2> QED
    BY <2>2, <2>3
<1>4. CASE Stop
  <2>1. /\ pc = "stop" /\ chosen' = chosen /\ todo' = Tail(todo) /\ todo # << >>
        /\ created' \subseteq created /\ script' = script /\ pc' \notin Late
    BY <1>4 DEF Stop, ComposeDown, FirstStep, IInv, TypeOK
  <2>2. created \cap Monitoring(Current) = {}
    BY <2>1 DEF IInv, Unmonitored
  <2>3. \A j \in DOMAIN todo :
           todo[j] = Current \/ \E k \in DOMAIN Tail(todo) : Tail(todo)[k] = todo[j]
    BY <2>1, CurrentType DEF Current, IInv, TypeOK
  <2>4. ASSUME NEW i \in DOMAIN chosen'
        PROVE  \/ created' \cap Monitoring(chosen'[i]) = {}
               \/ \E j \in DOMAIN todo' : todo'[j] = chosen'[i]
    <3>1. \/ created \cap Monitoring(chosen[i]) = {}
          \/ \E j \in DOMAIN todo : todo[j] = chosen[i]
      BY <2>1 DEF IInv, Unmonitored
    <3>2. CASE chosen[i] = Current
      BY <2>1, <2>2, <3>2
    <3>3. CASE chosen[i] # Current
      BY <2>1, <2>3, <3>1, <3>3
    <3> QED
      BY <3>2, <3>3
  <2> QED
    BY <2>1, <2>4
<1>5. CASE Switch
  <2>1. /\ UNCHANGED <<script, chosen, todo>> /\ pc = "switch"
        /\ created' = created \ SeedingFile(Current)
    BY <1>5 DEF Switch, ComposeDown, GoTo
  <2>2. created' \cap Monitoring(Current') = {}
    BY <2>1 DEF SeedingFile, Current
  <2>3. \A i \in DOMAIN chosen :
           \/ created \cap Monitoring(chosen[i]) = {}
           \/ \E j \in DOMAIN todo : todo[j] = chosen[i]
    BY <2>1 DEF IInv, Unmonitored
  <2> QED
    BY <2>1, <2>2, <2>3
<1>6. CASE /\ UNCHANGED <<script, chosen, todo>> /\ created' \subseteq created
           /\ pc # "idle" \/ exit = "success" \/ (pc' = "idle" /\ exit' # "success")
           /\ pc' \in Late => pc \in Late
  <2>1. pc' \in Late => created \cap Monitoring(Current) = {} /\ Current' = Current
    BY <1>6 DEF IInv, Unmonitored, Current
  <2>2. pc # "idle" \/ exit = "success" =>
           \A i \in DOMAIN chosen :
              \/ created \cap Monitoring(chosen[i]) = {}
              \/ \E j \in DOMAIN todo : todo[j] = chosen[i]
    BY <1>6 DEF IInv, Unmonitored
  <2> QED
    BY <1>6, <2>1, <2>2
<1>7. CASE \/ Seed \/ SeedFails \/ StartSpring \/ SpringReady \/ SpringTimeout
           \/ Validated \/ Refused \/ RunLocust \/ Accepted \/ Interrupt
  <2>1. /\ UNCHANGED <<script, chosen, todo>> /\ created' \subseteq created /\ pc # "idle"
    BY <1>7 DEF Seed, SeedFails, StartSpring, SpringReady, SpringTimeout, Validated,
                Refused, RunLocust, Accepted, Interrupt, ComposeDown, docker, GoTo, Abort
  <2>2. pc' \in Late => pc \in Late
    BY <1>7 DEF Seed, SeedFails, StartSpring, SpringReady, SpringTimeout, Validated,
                Refused, RunLocust, Accepted, Interrupt, GoTo, Abort
  <2> QED
    BY <1>6, <2>1, <2>2
<1>8. CASE UNCHANGED <<control, created>>
  BY <1>6, <1>8 DEF control, IInv, TypeOK
<1> QED
  BY <1>1, <1>2, <1>3, <1>4, <1>5, <1>7, <1>8
  DEF Next, ScriptStep, Environment, vars, docker, AppServes, AppDies, Crash

LEMMA AtTheEndStep == IInv /\ [Next]_vars => AtTheEnd'
<1> SUFFICES ASSUME IInv, [Next]_vars PROVE AtTheEnd'
  OBVIOUS
<1>1. ASSUME NEW s \in Scripts, Invoke(s) PROVE AtTheEnd'
  <2>1. todo' # << >>
    BY <1>1, StrategiesType DEF Invoke
  <2>2. pc' # "idle"
    BY <1>1 DEF Invoke, FirstStep
  <2> QED
    BY <2>1, <2>2 DEF AtTheEnd
<1>2. CASE Cleanup
  <2>1. pc = "clean" /\ pc' \in {"idle", "up"} /\ app' = app /\ todo' = todo
        /\ (pc' = "idle" => todo = << >>)
    BY <1>2 DEF Cleanup
  <2> QED
    BY <2>1 DEF IInv, AtTheEnd
<1>3. CASE Stop
  <2>1. app' = NoApp /\ (pc' = "idle" => todo' = << >>)
    BY <1>3 DEF Stop, NoneLeft, FirstStep
  <2> QED
    BY <2>1 DEF AtTheEnd
<1>4. CASE \/ UpForSeeding \/ UpForServing \/ Seed \/ SeedFails \/ Switch \/ StartSpring
           \/ SpringReady \/ SpringTimeout \/ Validated \/ Refused \/ RunLocust \/ Accepted
           \/ Interrupt
  <2>1. pc' # "clean" /\ (pc' = "idle" => exit' = "failure")
    BY <1>4, ComposeUpSteps
    DEF UpForSeeding, UpForServing, Seed, SeedFails, Switch, StartSpring, SpringReady,
        SpringTimeout, Validated, Refused, RunLocust, Accepted, Interrupt, GoTo, Abort
  <2> QED
    BY <2>1 DEF AtTheEnd
<1>5. CASE UNCHANGED control /\ (app = NoApp => app' = NoApp)
  BY <1>5 DEF control, IInv, AtTheEnd
<1>6. CASE AppServes \/ AppDies
  BY <1>5, <1>6 DEF AppServes, AppDies, NoApp
<1> QED
  BY <1>1, <1>2, <1>3, <1>4, <1>5, <1>6 DEF Next, ScriptStep, Environment, vars, Crash

LEMMA IInvStep == IInv /\ [Next]_vars => IInv'
<1> SUFFICES ASSUME IInv, [Next]_vars PROVE IInv'
  OBVIOUS
<1>1. TypeOK'
  BY TypeStep DEF IInv
<1>2. Cleared' /\ Unmonitored' /\ AtTheEnd'
  BY ClearedStep, UnmonitoredStep, AtTheEndStep
<1>3. SuccessTakesItsFilesDown'
  <2> SUFFICES ASSUME pc' = "idle", exit' = "success"
               PROVE  /\ app' = NoApp
                      /\ \A i \in DOMAIN chosen' :
                            /\ created' \cap Own(chosen'[i]) = {}
                            /\ script' \in Seeding => created' \cap Monitoring(chosen'[i]) = {}
    BY DEF SuccessTakesItsFilesDown
  <2>1. app' = NoApp /\ todo' = << >>
    BY <1>2 DEF AtTheEnd
  <2>2. DOMAIN todo' = {}
    BY <2>1
  <2>3. \A i \in DOMAIN chosen' : created' \cap Own(chosen'[i]) = {}
    BY <1>2, <2>2 DEF Cleared
  <2>4. \A i \in DOMAIN chosen' :
           script' \in Seeding => created' \cap Monitoring(chosen'[i]) = {}
    BY <1>2, <2>2 DEF Unmonitored
  <2> QED
    BY <2>1, <2>3, <2>4
<1> QED
  BY <1>1, <1>2, <1>3, AloneStep, OwnServerStep, SeededStep, ResultsStep DEF IInv

-----------------------------------------------------------------------------
(* The theorems. *)

\* IInv holds in every reachable state.
THEOREM Inductive == Spec => []IInv
BY InitIInv, IInvStep, PTL DEF Spec

\* The variables keep their types.
THEOREM TypeCorrect == Spec => []TypeOK
<1>1. IInv => TypeOK
  BY DEF IInv
<1> QED
  BY <1>1, Inductive, PTL

(***************************************************************************)
(* Every result was measured on the API profile and the containers of the  *)
(* strategy it is reported for, or on nothing: a clash of ports or names   *)
(* makes "docker compose up" fail, and kill_spring frees the API's port.   *)
(***************************************************************************)
THEOREM MeasurementsAreOwn == Spec => []MeasuredIsOwn
<1>1. IInv => MeasuredIsOwn
  BY DEF IInv
<1> QED
  BY <1>1, Inductive, PTL

(***************************************************************************)
(* A script that seeds (set -e) reports no result of a strategy whose data *)
(* is not all there, whatever seedings failed before it.                   *)
(***************************************************************************)
THEOREM SeededDataIsWhole == Spec => []SeededIsWhole
<1>1. IInv => SeededIsWhole
  BY DEF IInv
<1> QED
  BY <1>1, Inductive, PTL

(***************************************************************************)
(* A script that ends in success leaves neither the API nor a container of *)
(* a compose file it used: its strategies' databases are down, and after a *)
(* script that seeds so is the monitoring, whatever an aborted script had  *)
(* left of them before.                                                    *)
(***************************************************************************)
THEOREM SuccessTakesAllDown == Spec => []SuccessTakesItsFilesDown
<1>1. IInv => SuccessTakesItsFilesDown
  BY DEF IInv
<1> QED
  BY <1>1, Inductive, PTL
=============================================================================
