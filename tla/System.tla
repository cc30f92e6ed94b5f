------------------------------- MODULE System -------------------------------
(***************************************************************************)
(* The pipeline under its supervisor: the steps of Pipeline that start,    *)
(* stop and end a process are taken by the supervisor's commands and its   *)
(* monitor (supervisor.cpp), all others as they are.  What a start, a stop *)
(* or a restart does to the jobs under way is the question here; orphans   *)
(* and crashes of the supervisor are in Supervisor.tla.                    *)
(***************************************************************************)
EXTENDS Pipeline, CommandSteps

CONSTANTS
  Order,        \* the workers, in the order of supervisor.json
  Commands,     \* the commands given after the first start: [type, service]
  MaxCommands,  \* bound on them
  MaxFaults     \* bound on crashes that are not the supervisor's doing

ASSUME SystemAssumption ==
  /\ Order \in Seq(Workers)
  /\ \A w \in Workers : \E i \in DOMAIN Order : Order[i] = w
  /\ \A i, j \in DOMAIN Order : Order[i] = Order[j] => i = j
  /\ Commands \subseteq [type : {"Start", "Stop", "Restart"}, service : Workers \union {""}]
  /\ MaxCommands \in Nat /\ MaxFaults \in Nat
  \* Room for every death there can be, and for every stop job.
  /\ MaxCrashes >= MaxFaults + MaxCommands * Len(Order)
  /\ MaxPills >= MaxCommands * Len(Order)

VARIABLES
  todo,      \* the steps left of what the supervisor is executing
  command,   \* the type of the command it has begun last
  running,   \* the workers whose WorkerState is Running
  booting,   \* the workers with a child that has not taken the pid lock yet
  old,       \* the workers whose serving process is being replaced
  given, faults

control == <<todo, command, running, booting, old, given, faults>>
sysVars == <<vars, control>>

ControlTypeOK ==
  /\ todo \in Seq({"spawn", "started", "revived", "pill", "wait"} \X Workers)
  /\ command \in {"Start", "Stop", "Restart"}
  /\ running \subseteq Workers
  /\ booting \subseteq Workers
  /\ old \subseteq {w \in Workers : phase[w] # "down"}
  /\ given \in Nat /\ faults \in Nat

----------------------------------------------------------------------------
(* The commands *)

StopSteps(service) == Pairs("pill", "wait", Targets(Order, service))

\* start_workers spawns a child whether or not one is running.
StartSteps(service) == Pairs("spawn", "started", Targets(Order, service))

\* Mutant: a restart ends with the stop.
StepsWithoutStart(c) ==
  CASE c.type = "Start" -> StartSteps(c.service) [] OTHER -> StopSteps(c.service)

Steps(c) ==
  CASE c.type = "Start"   -> StartSteps(c.service)
    [] c.type = "Stop"    -> StopSteps(c.service)
    [] c.type = "Restart" -> StopSteps(c.service) \o StartSteps(c.service)

\* The supervisor is executing its first command, a start of all.
SystemInit ==
  /\ Init
  /\ todo = StartSteps("")
  /\ command = "Start"
  /\ running = {} /\ booting = {} /\ old = {}
  /\ given = 0 /\ faults = 0

Command(c) ==
  /\ todo = <<>>
  /\ given < MaxCommands
  /\ given' = given + 1
  /\ command' = c.type
  /\ todo' = Steps(c)
  /\ UNCHANGED <<vars, running, booting, old, faults>>

Dead(w) == phase[w] = "down" /\ w \notin booting

\* Mutant: the monitor looks at the wrong workers.
WatchStopped(w) ==
  /\ todo = <<>>
  /\ Dead(w) /\ w \notin running
  /\ todo' = <<<<"spawn", w>>, <<"revived", w>>>>
  /\ UNCHANGED <<vars, command, running, booting, old, given, faults>>

\* monitor_once finds a worker dead that should run.
Watch(w) ==
  /\ todo = <<>>
  /\ Dead(w) /\ w \in running
  /\ todo' = <<<<"spawn", w>>, <<"revived", w>>>>
  /\ UNCHANGED <<vars, command, running, booting, old, given, faults>>

----------------------------------------------------------------------------
(* The steps of a command *)

Doing(op, w) ==
  /\ todo # <<>> /\ Head(todo) = <<op, w>>
  /\ todo' = Tail(todo)
  /\ UNCHANGED <<command, given, faults>>

\* factory_(): the new child runs beside the one it replaces.
Spawn(w) ==
  /\ Doing("spawn", w)
  /\ booting' = booting \union {w}
  /\ old' = IF phase[w] # "down" THEN old \union {w} ELSE old
  /\ UNCHANGED <<vars, running>>

\* The assignment destroys the old child, which is terminated if it still is
\* there: a death like any other for what it has in memory.
Replace(w) ==
  /\ IF w \in old
     THEN Crash(w)
     ELSE UNCHANGED vars
  /\ old' = old \ {w}
  /\ UNCHANGED booting

Started(w) == Doing("started", w) /\ Replace(w) /\ running' = running \union {w}
Revived(w) == Doing("revived", w) /\ Replace(w) /\ UNCHANGED running

\* No queue leads to ingestd: stop_workers goes on to the next worker.
PassOver(w) ==
  /\ todo # <<>> /\ Head(todo) = <<"pill", w>>
  /\ w \notin Services
  /\ todo' = Tail(Tail(todo))
  /\ UNCHANGED <<vars, command, running, booting, old, given, faults>>

Pill(w) ==
  /\ Doing("pill", w)
  /\ SendStopJob(w)
  /\ UNCHANGED <<running, booting, old>>

\* Mutant: stop_workers does not wait for the worker to leave.
WaitNot(w) ==
  /\ Doing("wait", w)
  /\ running' = running \ {w}
  /\ UNCHANGED <<vars, booting, old>>

Wait(w) ==
  /\ Doing("wait", w)
  /\ Dead(w)
  /\ running' = running \ {w}
  /\ UNCHANGED <<vars, booting, old>>

----------------------------------------------------------------------------
(* The processes *)

\* A child takes the pid lock and opens its queues, or finds the lock held.
Boot(w) ==
  /\ w \in booting
  /\ booting' = booting \ {w}
  /\ IF phase[w] = "down" THEN Start(w) ELSE UNCHANGED vars
  /\ UNCHANGED <<todo, command, running, old, given, faults>>

\* Mutant: a crash of the process that is being replaced goes unnoticed.
FaultUnnoticed(w) ==
  /\ faults < MaxFaults
  /\ faults' = faults + 1
  /\ Crash(w)
  /\ UNCHANGED <<todo, command, running, booting, old, given>>

\* A crash, for whatever reason: a data race (RaceCrash) is one of them.
Fault(w) ==
  /\ faults < MaxFaults
  /\ faults' = faults + 1
  /\ Crash(w)
  /\ old' = old \ {w}
  /\ UNCHANGED <<todo, command, running, booting, given>>

Leave(s) ==
  /\ Exit(s)
  /\ old' = old \ {s}
  /\ UNCHANGED <<todo, command, running, booting, given, faults>>

\* What the processes do on their own, as in Pipeline.
Work ==
  /\ \/ \E j \in Jobs : Upload(j) \/ Submit(j)
     \/ \E s \in Services : Receive(s) \/ ReceivePill(s)
     \/ \E s \in Services, t \in Threads : Begin(s, t) \/ Handle(s, t) \/ Send(s, t)
     \/ Quiescent
  /\ UNCHANGED control

Loop ==
  \/ \E w \in Workers : Spawn(w) \/ Started(w) \/ Revived(w) \/ Watch(w)
                         \/ PassOver(w) \/ Wait(w)
  \/ \E s \in Services : Pill(s)

SystemNext ==
  \/ Work
  \/ \E c \in Commands : Command(c)
  \/ Loop
  \/ \E w \in Workers : Boot(w) \/ Fault(w)
  \/ \E s \in Services : Leave(s)

SystemSpec == SystemInit /\ [][SystemNext]_sysVars

(***************************************************************************)
(* Fairness: the supervisor's loop and booting children keep running, and  *)
(* the processes as in Pipeline.  That a dead worker is started again is   *)
(* no longer assumed.                                                      *)
(***************************************************************************)
FairSystem ==
  /\ SystemSpec
  /\ WF_sysVars(Loop)
  /\ \A w \in Workers : WF_sysVars(Boot(w))
  /\ \A s \in Services : WF_sysVars(Leave(s))
  /\ \A j \in Jobs : WF_sysVars(Submit(j) /\ UNCHANGED control)
  /\ \A s \in Services :
       WF_sysVars((Receive(s) \/ ReceivePill(s)) /\ UNCHANGED control)
  /\ \A s \in Services, t \in Threads :
       WF_sysVars((Begin(s, t) \/ Handle(s, t) \/ Send(s, t)) /\ UNCHANGED control)

----------------------------------------------------------------------------
(* What a command may do to the jobs *)

\* A stop and a restart lose no job that was submitted, whatever the services
\* are doing: the stop job lets them finish (service.cpp:67) and the child is
\* dead before its successor is spawned (supervisor.cpp:113).  They do cut off
\* an upload in ingestd, which is never stopped and terminated by the next
\* start (supervisor.cpp:105); only a start over running services, and a
\* crash, take jobs with them.  command is the last one taken, so what is lost
\* between a start and the next command is put down to the start.
RestartKeepsJobs ==
  [][\A j \in Jobs :
       fate[j] = "accepted" /\ fate'[j] = "lost" =>
         command = "Start" \/ faults' # faults]_sysVars

\* The supervisor is in stop_workers, where it may hang.
InStop == todo # <<>> /\ Head(todo)[1] \in {"pill", "wait"}

\* The fairness Pipeline assumes is kept by the supervisor: as long as the
\* commands are starts and restarts, every worker that is down gets up again,
\* by its command or by the monitor (supervisor.cpp:78), through stale stop
\* jobs and children that lose the race for the lock.  It may only hang in a
\* stop instead.
StartIsFair == (\A w \in Workers : WF_vars(Start(w))) \/ <>[]InStop

\* So an upload that reached "new" gets its outcome under the supervisor too,
\* unless that hangs.
UploadSettles ==
  (\A j \in Jobs : fate[j] = "moved" ~> fate[j] \in Settled) \/ <>[]InStop
=============================================================================
