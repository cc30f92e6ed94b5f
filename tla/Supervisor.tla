----------------------------- MODULE Supervisor -----------------------------
(***************************************************************************)
(* The supervisor and the worker processes it manages: the loop that polls *)
(* for one command, executes it and monitors the workers (supervisor.cpp), *)
(* the child processes behind its handles (worker.cpp), the pid-file lock  *)
(* each of them takes, and the queues that stop jobs share with the jobs.  *)
(*                                                                         *)
(* The services are reduced to what matters to a stop: a job occupies room *)
(* in a queue or a task in a pool, and the task blocks while the queue it  *)
(* sends to is full.  What a Service does with a job is in Pipeline.tla.   *)
(***************************************************************************)
EXTENDS CommandSteps

CONSTANTS
  Order,          \* the workers, in the order of supervisor.json
  Commands,       \* the commands the CLI may send: [type, service] records
  QueueCapacity,  \* max_messages of every service queue (100 in main.cpp)
  MaxCommands,    \* bound on commands sent
  MaxJobs,        \* bound on jobs ingestd submits
  MaxKills,       \* bound on worker crashes
  MaxSupCrashes   \* bound on supervisor crashes

Workers == {Order[i] : i \in DOMAIN Order}
Services == {"qm", "detect", "parse"}
CommandType == {"Start", "Stop", "Restart", "Reload", "Status", "Logs"}

ASSUME SupervisorAssumption ==
  /\ Order \in Seq(Services \union {"ingestd"})
  /\ Order # <<>>
  /\ \A i, j \in DOMAIN Order : Order[i] = Order[j] => i = j
  /\ Commands \subseteq [type : CommandType, service : Workers \union {""}]
  /\ QueueCapacity \in Nat \ {0}
  /\ MaxCommands \in Nat /\ MaxJobs \in Nat /\ MaxKills \in Nat /\ MaxSupCrashes \in Nat

VARIABLES
  sup,        \* "down", or "up" in supervisor::run
  cmds,       \* the queue fika_supervisor_mq
  todo,       \* the steps left of the command and of monitor_once
  state,      \* state[w]: the WorkerState of w's worker_entity
  child,      \* child[w].cur: the process behind w's handle; .old: the one it replaces
  orphan,     \* orphan[w]: a process of w left behind by a dead supervisor
  queue,      \* queue[s]: the queue service s receives from
  pending,    \* pending[s]: per kind of message, the pool tasks of s about to send it
  sent, jobs, kills, supCrashes

vars == <<sup, cmds, todo, state, child, orphan, queue, pending, sent, jobs, kills, supCrashes>>
load == <<queue, pending>>
counters == <<sent, jobs, kills, supCrashes>>

\* A job on its way, by the status it carries (FINAL: DONE or FAILED).
Kind == {"NEW", "DETECTING", "PARSING", "FINAL"}
Message == Kind \union {"pill"}
Role == {"cur", "old"}
ProcessState == {"null", "booting", "up", "draining", "dead"}
Step == {"spawn", "started", "revived", "pill", "wait", "watch"} \X Workers

TypeOK ==
  /\ sup \in {"down", "up"}
  /\ cmds \in Seq(Commands)
  /\ todo \in Seq(Step)
  /\ state \in [Workers -> {"Running", "Stopped"}]
  /\ child \in [Workers -> [Role -> ProcessState]]
  /\ orphan \in [Workers -> {"none", "holding", "leaving"}]
  /\ queue \in [Services -> Seq(Message)]
  /\ pending \in [Services -> [Kind -> Nat]]
  /\ sent \in Nat /\ jobs \in Nat /\ kills \in Nat /\ supCrashes \in Nat

NoChild == [r \in Role |-> "null"]
NoTasks == [k \in Kind |-> 0]

Init ==
  /\ sup = "down"
  /\ cmds = <<>>
  /\ todo = <<>>
  /\ state = [w \in Workers |-> "Stopped"]
  /\ child = [w \in Workers |-> NoChild]
  /\ orphan = [w \in Workers |-> "none"]
  /\ queue = [s \in Services |-> <<>>]
  /\ pending = [s \in Services |-> NoTasks]
  /\ sent = 0 /\ jobs = 0 /\ kills = 0 /\ supCrashes = 0

----------------------------------------------------------------------------
(* The steps of a command *)

\* Mutant: the wait comes before the stop job.
StopWaitsFirst(service) == Pairs("wait", "pill", Targets(Order, service))

StopWorkers(service) == Pairs("pill", "wait", Targets(Order, service))
StartWorkers(service) == Pairs("spawn", "started", Targets(Order, service))

MonitorOnce == [i \in DOMAIN Order |-> <<"watch", Order[i]>>]

\* handle_command: Reload, Status and Logs are not registered.
Execution(c) ==
  CASE c.type = "Start"   -> StartWorkers(c.service)
    [] c.type = "Stop"    -> StopWorkers(c.service)
    [] c.type = "Restart" -> StopWorkers(c.service) \o StartWorkers(c.service)
    [] OTHER              -> <<>>

\* worker::name() reads the process of every worker it is asked of; start
\* asks only when a service is named.
AsksNames(c) == c.type \in {"Stop", "Restart"} \/ (c.type = "Start" /\ c.service # "")

----------------------------------------------------------------------------
(* The supervisor's loop *)

\* try_receive finds nothing: only monitor_once runs.
PollNothing ==
  /\ sup = "up" /\ todo = <<>> /\ cmds = <<>>
  /\ todo' = MonitorOnce
  /\ UNCHANGED <<sup, cmds, state, child, orphan, load, counters>>

\* A command, then monitor_once.
PollCommand ==
  /\ sup = "up" /\ todo = <<>> /\ cmds # <<>>
  /\ AsksNames(Head(cmds)) => \A w \in Workers : child[w].cur # "null"
  /\ cmds' = Tail(cmds)
  /\ todo' = Execution(Head(cmds)) \o MonitorOnce
  /\ UNCHANGED <<sup, state, child, orphan, load, counters>>

\* The first worker has never been started: name() dereferences a null
\* process_ (worker.cpp:46), and the supervisor dies.
PollFault ==
  /\ sup = "up" /\ todo = <<>> /\ cmds # <<>>
  /\ AsksNames(Head(cmds)) /\ child[Order[1]].cur = "null"
  /\ cmds' = Tail(cmds)
  /\ sup' = "down"
  /\ UNCHANGED <<todo, state, child, orphan, load, counters>>

\* The step the supervisor is at.
Doing(op, w) == sup = "up" /\ todo # <<>> /\ Head(todo) = <<op, w>>

Alive(p) == p \in {"booting", "up", "draining"}
Holds(p) == p \in {"up", "draining"}

\* What becomes of w's tasks when process p of w dies.
TasksWithout(w, p) ==
  IF Holds(p) /\ w \in Services THEN [pending EXCEPT ![w] = NoTasks] ELSE pending

\* process_ = factory_(): the new child runs before the old one is destroyed.
Spawn(w) ==
  /\ Doing("spawn", w)
  /\ todo' = Tail(todo)
  /\ child' = [child EXCEPT ![w] =
       [cur |-> "booting", old |-> IF Alive(child[w].cur) THEN child[w].cur ELSE "null"]]
  /\ UNCHANGED <<sup, cmds, state, orphan, load, counters>>

\* The assignment destroys the old child, which terminates it; start_workers
\* then marks the worker running.
Replaced(op, w) ==
  /\ Doing(op, w)
  /\ todo' = Tail(todo)
  /\ child' = [child EXCEPT ![w].old = "null"]
  /\ pending' = TasksWithout(w, child[w].old)
  /\ UNCHANGED <<sup, cmds, orphan, queue, counters>>

Started(w) == Replaced("started", w) /\ state' = [state EXCEPT ![w] = "Running"]
Revived(w) == Replaced("revived", w) /\ UNCHANGED state

\* binary_to_queue has no entry for ingestd: the loop goes on to the next worker.
PassOver(w) ==
  /\ Doing("pill", w)
  /\ w \notin Services
  /\ todo' = Tail(Tail(todo))
  /\ UNCHANGED <<sup, cmds, state, child, orphan, load, counters>>

\* send_stop_job blocks while the queue is full.
SendPill(w) ==
  /\ Doing("pill", w)
  /\ w \in Services
  /\ Len(queue[w]) < QueueCapacity
  /\ todo' = Tail(todo)
  /\ queue' = [queue EXCEPT ![w] = Append(@, "pill")]
  /\ UNCHANGED <<sup, cmds, state, child, orphan, pending, counters>>

\* Mutant: the handle of a worker that has left is given up.
WaitReleases(w) ==
  /\ Doing("wait", w)
  /\ child[w].cur = "dead"
  /\ todo' = Tail(todo)
  /\ state' = [state EXCEPT ![w] = "Stopped"]
  /\ child' = [child EXCEPT ![w].cur = "null"]
  /\ UNCHANGED <<sup, cmds, orphan, load, counters>>

\* wait() returns once the child has left, however long that takes.
Wait(w) ==
  /\ Doing("wait", w)
  /\ child[w].cur = "dead"
  /\ todo' = Tail(todo)
  /\ state' = [state EXCEPT ![w] = "Stopped"]
  /\ UNCHANGED <<sup, cmds, child, orphan, load, counters>>

\* Mutant: monitor_once restarts any dead worker.
WatchAlways(w) ==
  /\ Doing("watch", w)
  /\ todo' = IF child[w].cur = "dead"
             THEN <<<<"spawn", w>>, <<"revived", w>>>> \o Tail(todo)
             ELSE Tail(todo)
  /\ UNCHANGED <<sup, cmds, state, child, orphan, load, counters>>

\* Mutant: monitor_once is given a wrong test and restarts nothing.
WatchNever(w) ==
  /\ Doing("watch", w)
  /\ todo' = Tail(todo)
  /\ UNCHANGED <<sup, cmds, state, child, orphan, load, counters>>

\* monitor_once restarts a worker that should run and does not.
Watch(w) ==
  /\ Doing("watch", w)
  /\ todo' = IF child[w].cur = "dead" /\ state[w] = "Running"
             THEN <<<<"spawn", w>>, <<"revived", w>>>> \o Tail(todo)
             ELSE Tail(todo)
  /\ UNCHANGED <<sup, cmds, state, child, orphan, load, counters>>

----------------------------------------------------------------------------
(* The worker processes *)

LockFree(w) == orphan[w] = "none" /\ \A r \in Role : ~Holds(child[w][r])

\* Mutant: main ignores the answer of create_and_lock.
BootUnlocked(w, r) ==
  /\ child[w][r] = "booting"
  /\ child' = [child EXCEPT ![w][r] = "up"]
  /\ UNCHANGED <<sup, cmds, todo, state, orphan, load, counters>>

\* main takes the pid-file lock and serves, or returns -1.
Boot(w, r) ==
  /\ child[w][r] = "booting"
  /\ child' = [child EXCEPT ![w][r] = IF LockFree(w) THEN "up" ELSE "dead"]
  /\ UNCHANGED <<sup, cmds, todo, state, orphan, load, counters>>

\* What service s may send for a job of kind k, if anything.
Answers(s, k) ==
  CASE s = "qm" /\ k = "NEW"       -> {"DETECTING"}
    [] s = "qm" /\ k = "DETECTING" -> {"PARSING"}
    [] s = "detect"                -> {"DETECTING", "FINAL", "nothing"}
    [] s = "parse"                 -> {"FINAL"}
    [] OTHER                       -> {"nothing"}

\* The receive loop posts a job; its handler settles what it will send.
TakeJob(s, r) ==
  /\ child[s][r] = "up"
  /\ queue[s] # <<>> /\ Head(queue[s]) # "pill"
  /\ queue' = [queue EXCEPT ![s] = Tail(@)]
  /\ \E answer \in Answers(s, Head(queue[s])) :
       pending' = IF answer = "nothing" THEN pending ELSE [pending EXCEPT ![s][answer] = @ + 1]
  /\ UNCHANGED <<sup, cmds, todo, state, child, orphan, counters>>

\* Mutant: a stop job is an "unknown command" like the others.
TakePillIgnored(s, r) ==
  /\ child[s][r] = "up"
  /\ queue[s] # <<>> /\ Head(queue[s]) = "pill"
  /\ queue' = [queue EXCEPT ![s] = Tail(@)]
  /\ UNCHANGED <<sup, cmds, todo, state, child, orphan, pending, counters>>

\* The receive loop ends on a stop job and joins the pool.
TakePill(s, r) ==
  /\ child[s][r] = "up"
  /\ queue[s] # <<>> /\ Head(queue[s]) = "pill"
  /\ queue' = [queue EXCEPT ![s] = Tail(@)]
  /\ child' = [child EXCEPT ![s][r] = "draining"]
  /\ UNCHANGED <<sup, cmds, todo, state, orphan, pending, counters>>

Destination(s, k) ==
  CASE s # "qm"        -> "qm"
    [] k = "DETECTING" -> "detect"
    [] OTHER           -> "parse"

\* Mutant: a message is sent with no task left to send it.
ForwardOffByOne(s, k) ==
  LET to == Destination(s, k)
  IN  /\ \E r \in Role : Holds(child[s][r])
      /\ pending[s][k] >= 0
      /\ Len(queue[to]) < QueueCapacity
      /\ queue' = [queue EXCEPT ![to] = Append(@, k)]
      /\ pending' = [pending EXCEPT ![s][k] = @ - 1]
      /\ UNCHANGED <<sup, cmds, todo, state, child, orphan, counters>>

\* A pool task sends, as soon as the queue has room, and ends.
Forward(s, k) ==
  LET to == Destination(s, k)
  IN  /\ \E r \in Role : Holds(child[s][r])
      /\ pending[s][k] > 0
      /\ Len(queue[to]) < QueueCapacity
      /\ queue' = [queue EXCEPT ![to] = Append(@, k)]
      /\ pending' = [pending EXCEPT ![s][k] = @ - 1]
      /\ UNCHANGED <<sup, cmds, todo, state, child, orphan, counters>>

\* The pool is joined and main returns.
Leave(s, r) ==
  /\ child[s][r] = "draining"
  /\ pending[s] = NoTasks
  /\ child' = [child EXCEPT ![s][r] = "dead"]
  /\ UNCHANGED <<sup, cmds, todo, state, orphan, load, counters>>

\* An upload: ingestd sends a job to qm.
Submit ==
  /\ "ingestd" \in Workers
  /\ \E r \in Role : child["ingestd"][r] = "up"
  /\ jobs < MaxJobs
  /\ Len(queue["qm"]) < QueueCapacity
  /\ queue' = [queue EXCEPT !["qm"] = Append(@, "NEW")]
  /\ jobs' = jobs + 1
  /\ UNCHANGED <<sup, cmds, todo, state, child, orphan, pending, sent, kills, supCrashes>>

\* A worker process crashes.
Kill(w, r) ==
  /\ Alive(child[w][r])
  /\ kills < MaxKills
  /\ kills' = kills + 1
  /\ child' = [child EXCEPT ![w][r] = "dead"]
  /\ pending' = TasksWithout(w, child[w][r])
  /\ UNCHANGED <<sup, cmds, todo, state, orphan, queue, sent, jobs, supCrashes>>

----------------------------------------------------------------------------
(* The environment: the CLI, and supervisors that come and go *)

\* send_command of the CLI; a supervisor has answered its ping.
Post(c) ==
  /\ sup = "up"
  /\ sent < MaxCommands
  /\ sent' = sent + 1
  /\ cmds' = Append(cmds, c)
  /\ UNCHANGED <<sup, todo, state, child, orphan, load, jobs, kills, supCrashes>>

\* The supervisor is killed; its children go on.
SupCrash ==
  /\ sup = "up"
  /\ supCrashes < MaxSupCrashes
  /\ supCrashes' = supCrashes + 1
  /\ sup' = "down"
  /\ UNCHANGED <<cmds, todo, state, child, orphan, load, sent, jobs, kills>>

\* A process of the last supervisor keeps the queues it opened, which
\* reset_queues unlinks: it leaves only if a stop job is already among them.
LeftBehind(w) ==
  LET Some(p) == \E r \in Role : child[w][r] = p
      pilled == w \in Services /\ \E i \in DOMAIN queue[w] : queue[w][i] = "pill"
  IN  CASE Some("draining") \/ (Some("up") /\ pilled) -> "leaving"
        [] Some("up") /\ ~pilled                      -> "holding"
        [] OTHER                                      -> orphan[w]

\* start_supervisor of the CLI removes the command queues and spawns a
\* supervisor, whose main resets and creates the service queues.  Startup of
\* the last supervisor's children is over by then (they take milliseconds).
SupStart ==
  /\ sup = "down"
  /\ \A w \in Workers, r \in Role : child[w][r] # "booting"
  /\ sup' = "up"
  /\ cmds' = <<>>
  /\ todo' = <<>>
  /\ state' = [w \in Workers |-> "Stopped"]
  /\ orphan' = [w \in Workers |-> LeftBehind(w)]
  /\ child' = [w \in Workers |-> NoChild]
  /\ queue' = [s \in Services |-> <<>>]
  /\ pending' = [s \in Services |-> NoTasks]
  /\ UNCHANGED counters

\* An orphan with a stop job in its old queue drains and leaves.
OrphanLeaves(w) ==
  /\ orphan[w] = "leaving"
  /\ orphan' = [orphan EXCEPT ![w] = "none"]
  /\ UNCHANGED <<sup, cmds, todo, state, child, load, counters>>

----------------------------------------------------------------------------

Loop ==
  \/ PollNothing \/ PollCommand \/ PollFault
  \/ \E w \in Workers : Spawn(w) \/ Started(w) \/ Revived(w)
                         \/ PassOver(w) \/ SendPill(w) \/ Wait(w) \/ Watch(w)

Serve(s) ==
  \/ \E r \in Role : TakeJob(s, r) \/ TakePill(s, r) \/ Leave(s, r)

Next ==
  \/ Loop
  \/ \E w \in Workers, r \in Role : Boot(w, r) \/ Kill(w, r)
  \/ \E s \in Services \intersect Workers : Serve(s) \/ \E k \in Kind : Forward(s, k)
  \/ Submit
  \/ \E c \in Commands : Post(c)
  \/ SupCrash \/ SupStart
  \/ \E w \in Workers : OrphanLeaves(w)

Spec == Init /\ [][Next]_vars

(***************************************************************************)
(* Fairness: the supervisor's loop and every worker process are OS threads *)
(* that keep running, and a blocked send or receive resumes when the queue *)
(* has room or a message.  Nothing makes the environment act: no upload,   *)
(* command or crash has to come, and a supervisor need not be restarted    *)
(* once it has died, except for the first one.                             *)
(***************************************************************************)
FairSpec ==
  /\ Spec
  /\ WF_vars(Loop)
  /\ WF_vars(SupStart /\ supCrashes = 0)
  /\ \A w \in Workers, r \in Role : WF_vars(Boot(w, r))
  /\ \A s \in Services \intersect Workers : \A r \in Role :
       WF_vars(TakeJob(s, r)) /\ WF_vars(TakePill(s, r)) /\ WF_vars(Leave(s, r))
  /\ \A s \in Services \intersect Workers : \A k \in Kind : WF_vars(Forward(s, k))

----------------------------------------------------------------------------
(* Safety *)

\* At most one process of a worker serves at a time: the pid-file lock keeps
\* the child that start spawns over a running one (worker.cpp:27), and a new
\* supervisor's child beside an orphan, from receiving the same queue.
OneServer ==
  \A w \in Workers :
    /\ ~(Holds(child[w].cur) /\ Holds(child[w].old))
    /\ orphan[w] # "none" => ~Holds(child[w].cur) /\ ~Holds(child[w].old)

\* A worker the supervisor takes for stopped has no process of its own that
\* lives: the monitor does not bring back what a stop command ended, and Stopped
\* is set only after wait() (supervisor.cpp:113-115); start marks the worker
\* after it spawns.  The supervisor knows nothing of a process that an earlier
\* one left behind, but only one that was killed leaves any: one that died of a
\* command (worker.cpp:46) has none.
StoppedMeansDown ==
  \A w \in Workers :
    sup = "up" /\ state[w] = "Stopped" /\ ~Doing("started", w) =>
      /\ \A r \in Role : ~Alive(child[w][r])
      /\ orphan[w] = "none" \/ supCrashes > 0

\* A supervisor blocked in wait() waits for something: the child has left, is
\* leaving, or will find the stop job in its queue, even if it is still
\* starting or its predecessor crashed with a stop job unread.
StopIsHeard ==
  \A w \in Workers \intersect Services :
    Doing("wait", w) =>
      \/ child[w].cur \in {"draining", "dead"}
      \/ \E i \in DOMAIN queue[w] : queue[w][i] = "pill"

\* No command brings the supervisor down once a start of all has been executed:
\* from then on every worker has a process whose name can be asked, dead or
\* alive, through every stop, restart and crash.  Before it, a stop, a restart
\* or a named start does (worker.cpp:46).
FaultsOnlyBeforeStart ==
  [][sup = "up" /\ sup' = "down" =>
       supCrashes' # supCrashes \/ \A w \in Workers : child[w].cur = "null"]_vars

----------------------------------------------------------------------------
(* Liveness *)

\* The supervisor is in stop_workers, where it may hang: on the full queue of a
\* dead worker, or on a worker whose own send blocks.
InStop == \E w \in Workers : Doing("pill", w) \/ Doing("wait", w)

\* The monitor keeps a worker that should run serving, after every crash, and
\* after a stale stop job ended its successor at once; only a supervisor that
\* hangs in a stop cannot.
RunningServes ==
  \A w \in Workers :
    state[w] = "Running" ~>
      child[w].cur = "up" \/ state[w] = "Stopped" \/ sup = "down" \/ InStop

\* The supervisor has died of a command that came before any start.
Faulted == sup = "down" /\ \A w \in Workers : child[w].cur = "null"

\* As long as no process crashes, every command the supervisor is sent gets
\* executed to its end: its queue has room for the stop job some time, and the
\* worker answers it by leaving (supervisor.cpp:94, 113).  The exception is a
\* supervisor that dies of a command sent before any start (worker.cpp:46): that
\* command is dropped, and the next supervisor wipes those queued behind it.
CommandsComplete ==
  (cmds # <<>> \/ InStop) ~>
    \/ sup = "up" /\ cmds = <<>> /\ todo = <<>>
    \/ Faulted
    \/ kills + supCrashes > 0

=============================================================================
