-------------------------- MODULE BenchmarkPipeline --------------------------
(***************************************************************************)
(* The benchmark scripts: seed_and_run.sh with --seed ("seed") and without *)
(* it ("serve"), run_benchmarks_existing_data.sh ("existing") and          *)
(* run_all_benchmarks.sh ("all").  Each walks the strategies and for each  *)
(* brings containers up, seeds their volumes, starts the API, puts load on *)
(* it and takes everything down.  What one invocation leaves behind when   *)
(* it aborts (set -e, no trap) is what the next one starts from.           *)
(*                                                                         *)
(* The strategies share resources: port 5432 is the only database of       *)
(* "single", Citus' coordinator and the routing database of "lookup", the  *)
(* shards of "sharded" and "lookup" have the same container names and      *)
(* ports, and the API is always on port 8080.                              *)
(***************************************************************************)
EXTENDS Naturals, Sequences, FiniteSets

CONSTANTS
    Shards,          \* shards (for Citus: workers) of a strategy
    Order,           \* the strategies of a full run, in the scripts' order
    MaxInvocations   \* bound on the times a script is started

Main == "main"
Monitor == "monitor"

ASSUME ShardsAssumption == IsFiniteSet(Shards) /\ Shards # {} /\ {Main, Monitor} \cap Shards = {}
ASSUME OrderAssumption == Order \in Seq({"single", "sharded", "citus", "lookup"}) \ {<< >>}
ASSUME InvocationsAssumption == MaxInvocations \in Nat

Strategies == {Order[i] : i \in DOMAIN Order}

Scripts == {"seed", "serve", "existing", "all"}
Seeding == {"seed", "all"}       \* these seed before they measure
Judging == {"seed", "serve"}     \* these validate the data and judge the result

\* The database containers of a strategy's compose files.
Databases(st) ==
    CASE st = "single"  -> {Main}
      [] st = "sharded" -> Shards
      [] st = "citus"   -> {Main} \cup Shards
      [] st = "lookup"  -> {Main} \cup Shards

\* The containers of a strategy's benchmark compose file: its databases.
Own(st) == {st} \X Databases(st)

\* Exporters, collector, Prometheus and Grafana, as one: the seeding compose file of
\* "sharded" starts them beside the shards, and no other file names them.
Monitoring(st) == IF st = "sharded" THEN {<<st, Monitor>>} ELSE {}

\* The containers of a strategy's seeding compose file.
SeedingFile(st) == Own(st) \cup Monitoring(st)

Containers == UNION {SeedingFile(st) : st \in Strategies}

\* The Spring profile a strategy is served with; Citus looks like one database.
Profile(st) == IF st = "citus" THEN "single" ELSE st

NoApp == [profile |-> "none", state |-> "none"]

\* A volume's content.  users: users of an interrupted generation, no products;
\* altered: Citus tables distributed, nothing loaded; partial: products, and not
\* the whole load; whole: one load; mixed: one load on top of left-over users.
Contents == {"none", "empty", "users", "altered", "partial", "whole", "mixed"}

VARIABLES
    script,     \* the script that runs, or ran last
    chosen,     \* its strategies
    todo,       \* those not finished; the first is the current one
    pc,         \* the step it is at
    exit,       \* its exit status, "none" while it runs
    created,    \* containers that exist
    running,    \* containers that run
    volume,     \* content of a strategy's volumes
    app,        \* the API process on port 8080
    results,    \* the results the scripts reported
    invocations \* how often a script was started

control == <<script, chosen, todo, pc, exit, invocations>>
docker == <<created, running>>
vars == <<control, docker, volume, app, results>>

Current == Head(todo)

Steps == {"idle", "clean", "up", "seed", "switch", "serve", "start", "await",
          "validate", "load", "judge", "stop"}

TypeOK ==
    /\ script \in Scripts /\ pc \in Steps
    /\ exit \in {"none", "success", "failure"}
    /\ {chosen, todo} \subseteq Seq(Strategies)
    /\ pc \notin {"idle", "clean"} => todo # << >>
    /\ created \subseteq Containers /\ running \subseteq created
    /\ volume \in [Strategies -> Contents]
    /\ app = NoApp \/ app \in [profile : {Profile(st) : st \in Strategies},
                               state : {"starting", "serving"}]
    /\ results \subseteq
          [script : Scripts, strategy : Strategies, volume : Contents,
           server : {Profile(st) : st \in Strategies} \cup {"none"},
           sources : SUBSET Strategies]
    /\ invocations \in 0 .. MaxInvocations

Init ==
    /\ script = "serve" /\ chosen = << >> /\ todo = << >>
    /\ pc = "idle" /\ exit = "success"
    /\ created = {} /\ running = {}
    /\ volume = [st \in Strategies |-> "none"]
    /\ app = NoApp /\ results = {} /\ invocations = 0

-----------------------------------------------------------------------------
(* Control shared by the scripts. *)

\* Where a script begins with a strategy.
FirstStep(s) == IF s \in Seeding THEN "up" ELSE "serve"

GoTo(step) == pc' = step /\ UNCHANGED <<script, chosen, todo, exit, invocations>>

\* set -e: the script ends where it is and leaves everything as it is.
Abort ==
    /\ pc' = "idle" /\ exit' = "failure"
    /\ UNCHANGED <<script, chosen, todo, invocations>>

\* A script is started, for every strategy or (--only) for one.
Invoke(s) ==
    /\ pc = "idle" /\ invocations < MaxInvocations
    /\ script' = s
    /\ chosen' \in {Order} \cup {<<st>> : st \in Strategies}
    /\ todo' = chosen'
    /\ pc' = IF s = "all" THEN "clean" ELSE FirstStep(s)
    /\ exit' = "none" /\ invocations' = invocations + 1
    /\ UNCHANGED <<docker, volume, app, results>>

\* cleanup.sh: every container and every volume, never the API process.
Cleanup ==
    /\ pc = "clean"
    /\ created' = {} /\ running' = {}
    /\ volume' = [st \in Strategies |-> "none"]
    /\ pc' = IF todo = << >> THEN "idle" ELSE "up"
    /\ exit' = IF todo = << >> THEN "success" ELSE exit
    /\ UNCHANGED <<script, chosen, todo, invocations, app, results>>

\* A command fails, or the user interrupts the script.
Interrupt ==
    /\ pc \notin {"idle", "seed"}
    /\ Abort
    /\ UNCHANGED <<docker, volume, app, results>>

-----------------------------------------------------------------------------
(* Containers. *)

\* Another project holds the port or the container name.
Clashes(c) ==
    \E o \in created :
        /\ o[1] # c[1] /\ o[2] = c[2]
        /\ IF c[2] = Main THEN o \in running
                          ELSE {o[1], c[1]} = {"sharded", "lookup"}

ClashFree(C) == {c \in C : ~ Clashes(c)}

\* docker compose up -d with a file that names the containers C.  Whenever it fails,
\* on a clash or for another reason, some containers exist by then, those whose
\* name is free, and some of these have started, those whose port is free too.
\* wait_healthy, which follows, ends in success or in "proceeding anyway", and
\* takes a container that has exited for healthy.
ComposeUp(C, then) ==
    \/ /\ ClashFree(C) = C
       /\ created' = created \cup C
       /\ running' = running \cup C
       /\ GoTo(then)
    \/ /\ \E S \in SUBSET {c \in C : c[2] = Main \/ ~ Clashes(c)} :
          \E T \in SUBSET (S \cap ClashFree(C)) :
             /\ created' = created \cup S
             /\ running' = running \cup T
       /\ Abort

\* docker compose down with a file that names the containers C (and without
\* --remove-orphans): no others, though of the same project, and no volume.
ComposeDown(C) ==
    /\ created' = created \ C
    /\ running' = running \ C

\* The seeding compose file creates the volumes.
UpForSeeding ==
    /\ pc = "up"
    /\ ComposeUp(SeedingFile(Current), "seed")
    /\ volume' = IF volume[Current] = "none"
                 THEN [volume EXCEPT ![Current] = "empty"] ELSE volume
    /\ UNCHANGED <<app, results>>

\* The benchmark compose file names them external: without them it fails.
UpForServing ==
    /\ pc = "serve"
    /\ IF volume[Current] = "none" THEN Abort /\ UNCHANGED docker
                                   ELSE ComposeUp(Own(Current), "start")
    /\ UNCHANGED <<volume, app, results>>

\* A container exits; no compose file restarts it.
Crash(c) ==
    /\ c \in running
    /\ running' = running \ {c}
    /\ UNCHANGED <<control, created, volume, app, results>>

-----------------------------------------------------------------------------
(* Seeding. *)

\* db_setup.py succeeds only where the products are not there yet (their keys are
\* not new) and, for Citus, the tables are not distributed yet.
Loaded(content) ==
    CASE content = "empty" -> "whole"
      [] content = "users" -> "mixed"

Seed ==
    /\ pc = "seed"
    /\ Own(Current) \subseteq running
    /\ volume[Current] \in {"empty", "users"}
    /\ volume' = [volume EXCEPT ![Current] = Loaded(@)]
    /\ GoTo("switch")
    /\ UNCHANGED <<docker, app, results>>

\* What a failed seeding leaves on a volume.  run_all generates users, products
\* and orders chunk by chunk; seed_and_run loads the CSV files with one
\* transaction per database, and distributes Citus' tables before it.  Where the
\* answer to the last commit is lost all of the data is there.
LeftBehind(s, st, content) ==
    IF content \notin {"empty", "users"} THEN {content}
    ELSE {content, Loaded(content)} \cup
         CASE s = "all"     -> {"users", "partial"}
           [] st = "citus"  -> {"altered"}
           [] st = "single" -> {}
           [] OTHER         -> {"partial"}

\* A mutated SeedFails, as if the script had no set -e.
SeedFailsUnnoticed ==
    /\ pc = "seed"
    /\ \E content \in LeftBehind(script, Current, volume[Current]) :
          volume' = [volume EXCEPT ![Current] = content]
    /\ GoTo("switch")
    /\ UNCHANGED <<docker, app, results>>

\* The seeding script fails, and with it the run.
SeedFails ==
    /\ pc = "seed"
    /\ \E content \in LeftBehind(script, Current, volume[Current]) :
          volume' = [volume EXCEPT ![Current] = content]
    /\ Abort
    /\ UNCHANGED <<docker, app, results>>

\* A mutated Switch that calls down with the benchmark compose file already.
SwitchBenchmarkFile ==
    /\ pc = "switch"
    /\ ComposeDown(Own(Current))
    /\ GoTo("serve")
    /\ UNCHANGED <<volume, app, results>>

\* The seeding containers make room for the resource-limited ones: down with the
\* seeding compose file.
Switch ==
    /\ pc = "switch"
    /\ ComposeDown(SeedingFile(Current))
    /\ GoTo("serve")
    /\ UNCHANGED <<volume, app, results>>

-----------------------------------------------------------------------------
(* The API. *)

\* A mutated StartSpring without kill_spring: a process on the port stays and the
\* new one ends.
StartSpringBesides ==
    /\ pc = "start"
    /\ app' = IF app = NoApp THEN [profile |-> Profile(Current), state |-> "starting"]
                             ELSE app
    /\ GoTo("await")
    /\ UNCHANGED <<docker, volume, results>>

\* kill_spring, then start_spring.  Assumed: the old process has given its port up
\* two seconds after SIGTERM (it closes it before it drains requests).  A new one
\* that cannot bind the port is this step and AppDies.
StartSpring ==
    /\ pc = "start"
    /\ app' = [profile |-> Profile(Current), state |-> "starting"]
    /\ GoTo("await")
    /\ UNCHANGED <<docker, volume, results>>

AppServes ==
    /\ app.state = "starting"
    /\ app' = [app EXCEPT !.state = "serving"]
    /\ UNCHANGED <<control, docker, volume, results>>

AppDies ==
    /\ app # NoApp
    /\ app' = NoApp
    /\ UNCHANGED <<control, docker, volume, results>>

\* wait_spring takes any HTTP status for ready, 500 included.
SpringReady ==
    /\ pc = "await" /\ app.state = "serving"
    /\ GoTo(IF script \in Judging THEN "validate" ELSE "load")
    /\ UNCHANGED <<docker, volume, app, results>>

\* The wait times out and the script ends.  Containers stay up and so does the
\* API, but for run_all's kill, which may reach it through its Maven process.
SpringTimeout ==
    /\ pc = "await"
    /\ \/ app' = app
       \/ script = "all" /\ app' = NoApp
    /\ Abort
    /\ UNCHANGED <<docker, volume, results>>

\* The databases the API's data sources connect to: whoever holds their ports.
UsesMain == app.profile \in {"single", "lookup"}
UsesShards == app.profile \in {"sharded", "lookup"}
Connected ==
    {c \in running : IF c[2] = Main THEN UsesMain
                     ELSE UsesShards /\ c[2] \in Shards /\ c[1] # "citus"}

Sources == {c[1] : c \in Connected}

\* /orders/all-page answers with orders.  In lookup mode it asks the shards and
\* never the routing database; Citus needs its workers.
AllPageAnswers(st) ==
    /\ app.state = "serving"
    /\ \A d \in Databases(st) :
          <<st, d>> \in running \/ <<st, d>> = <<"lookup", Main>>
    /\ volume[st] \in {"partial", "whole", "mixed"}

Validated ==
    /\ pc = "validate" /\ AllPageAnswers(Current)
    /\ GoTo("load")
    /\ UNCHANGED <<docker, volume, app, results>>

\* Five attempts failed, or the judge found too many 404s: the handler after ||,
\* which calls down with the benchmark compose file.
Refused ==
    /\ pc \in {"validate", "judge"}
    /\ app' = NoApp
    /\ ComposeDown(Own(Current))
    /\ Abort
    /\ UNCHANGED <<volume, results>>

-----------------------------------------------------------------------------
(* Measuring. *)

\* Locust runs against whatever answers.  Its exit status is lost in the pipe to
\* tee, so that the script goes on in any case.
RunLocust ==
    /\ pc = "load"
    /\ results' = results \cup
          {[script |-> script, strategy |-> Current, volume |-> volume[Current],
            server |-> app.profile, sources |-> Sources]}
    /\ GoTo(IF script \in Judging THEN "judge" ELSE "stop")
    /\ UNCHANGED <<docker, volume, app>>

\* check_locust_results counts 404s only: what a dead database or a dead API
\* causes are other errors.
Accepted ==
    /\ pc = "judge"
    /\ GoTo("stop")
    /\ UNCHANGED <<docker, volume, app, results>>

\* A mutated NoneLeft that counts the current strategy.
NoneLeftLate == todo = << >>

\* The current strategy is the last.
NoneLeft == Tail(todo) = << >>

\* The end of a strategy: the API is killed, the containers of the benchmark compose
\* file go down, and the next strategy follows, in run_all after a cleanup.
Stop ==
    /\ pc = "stop"
    /\ app' = NoApp
    /\ ComposeDown(Own(Current))
    /\ todo' = Tail(todo)
    /\ pc' = IF script = "all" THEN "clean" ELSE IF NoneLeft THEN "idle" ELSE FirstStep(script)
    /\ exit' = IF script # "all" /\ NoneLeft THEN "success" ELSE exit
    /\ UNCHANGED <<script, chosen, invocations, volume, results>>

-----------------------------------------------------------------------------
ScriptStep ==
    \/ Cleanup \/ UpForSeeding \/ Seed \/ SeedFails \/ Switch \/ UpForServing
    \/ StartSpring \/ SpringReady \/ SpringTimeout \/ Validated \/ Refused
    \/ RunLocust \/ Accepted \/ Stop

Environment ==
    \/ \E s \in Scripts : Invoke(s)
    \/ Interrupt \/ AppServes \/ AppDies
    \/ \E c \in running : Crash(c)

Next == ScriptStep \/ Environment

Spec == Init /\ [][Next]_vars

-----------------------------------------------------------------------------
(* Properties. *)

\* A reported result was measured against the strategy it is reported for: on the
\* API of its profile and on its own containers, or on nothing, whatever an
\* earlier invocation left running.
MeasuredIsOwn ==
    \A r \in results :
        /\ r.server \in {Profile(r.strategy), "none"}
        /\ r.sources \subseteq {r.strategy}

\* A script that seeds reports no result of a strategy whose data is not all there.
SeededIsWhole ==
    \A r \in results : r.script \in Seeding => r.volume \in {"whole", "mixed"}

\* When a script ends in success the API is down, and so are the containers of
\* every compose file it used, those an aborted predecessor left among them.  (Only
\* a script that seeds, or cleanup.sh, takes down the monitoring of "sharded".)
SuccessTakesItsFilesDown ==
    pc = "idle" /\ exit = "success" =>
        /\ app = NoApp
        /\ \A i \in DOMAIN chosen :
              /\ created \cap Own(chosen[i]) = {}
              /\ script \in Seeding => created \cap Monitoring(chosen[i]) = {}

=============================================================================
