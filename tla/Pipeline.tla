------------------------------ MODULE Pipeline ------------------------------
(***************************************************************************)
(* The running pipeline: ingestd hands uploads to qm; qm, detect and parse *)
(* are three instances of the Service runtime (service.cpp) around their   *)
(* handlers, joined by bounded boost message queues.                       *)
(*                                                                         *)
(* Each Service has one receive loop, which posts every job to an          *)
(* unbounded thread pool, and Threads pool threads, which run the handler  *)
(* and block in send while the destination queue is full.  The supervisor  *)
(* appears as the environment that starts processes and sends stop jobs    *)
(* (Supervisor.tla models it); processes may crash.  The queues live in    *)
(* shared memory and survive every process.                                *)
(***************************************************************************)
EXTENDS FileJob, Sequences, FiniteSets

CONSTANTS
  Threads,        \* the pool threads of one Service (hardware_concurrency)
  QueueCapacity,  \* max_messages of every queue (100 in supervisor/main.cpp)
  MaxCrashes,     \* bound on injected crashes
  MaxPills        \* bound on stop jobs

ASSUME PipelineAssumption ==
  /\ Threads # {}
  /\ QueueCapacity \in Nat \ {0}
  /\ MaxCrashes \in Nat
  /\ MaxPills \in Nat

Services == {"qm", "detect", "parse"}
Workers == Services \union {"ingestd"}

VARIABLES
  queue,       \* queue[s]: the message queue Service s receives from
  phase,       \* phase[w]: "down", "up" (receive loop, or serving) or "joining"
  pool,        \* pool[s]: tasks posted to s's pool and not yet begun
  thread,      \* thread[s][t]: what pool thread t of s is doing
  registered,  \* the keys of qm's jobs_in_memory
  file,        \* file[j]: the upload's file in the spool directory "new";
               \* "kept" once nobody is left who would remove it
  fate,        \* fate[j]: how far j has come, a history of the log lines
  crashes, pills

vars == <<queue, phase, pool, thread, registered, file, fate, crashes, pills>>

Settled == {"failed", "done", "dropped", "lost"}
Fates == {"absent", "moved", "accepted"} \union Settled
Destinations == Services \union {"", "fail", "null_sender"}

Idle == [at |-> "idle", to |-> "", job |-> DefaultJob]
ThreadState ==
  [at : {"idle", "handling", "sending", "removing"}, to : Destinations, job : FileJobShm]

\* The threads whose job has no outcome yet.
InFlight(th) == th.at \in {"handling", "sending"}

TypeOK ==
  /\ queue \in [Services -> Seq(IpcMessage)]
  /\ phase \in [Workers -> {"down", "up", "joining"}]
  /\ pool \in [Services -> Seq(FileJobShm)]
  /\ thread \in [Services -> [Threads -> ThreadState]]
  /\ registered \subseteq Jobs \union {NoId}
  /\ file \in [Jobs -> {"none", "new", "removed", "kept"}]
  /\ fate \in [Jobs -> Fates]
  /\ crashes \in Nat
  /\ pills \in Nat

Init ==
  /\ queue = [s \in Services |-> <<>>]
  /\ phase = [w \in Workers |-> "down"]
  /\ pool = [s \in Services |-> <<>>]
  /\ thread = [s \in Services |-> [t \in Threads |-> Idle]]
  /\ registered = {}
  /\ file = [j \in Jobs |-> "none"]
  /\ fate = [j \in Jobs |-> "absent"]
  /\ crashes = 0
  /\ pills = 0

----------------------------------------------------------------------------
(* ingestd: an HTTP thread per upload *)

\* The body is written and renamed into "new".
Upload(j) ==
  /\ phase["ingestd"] = "up"
  /\ fate[j] = "absent"
  /\ file' = [file EXCEPT ![j] = "new"]
  /\ fate' = [fate EXCEPT ![j] = "moved"]
  /\ UNCHANGED <<queue, phase, pool, thread, registered, crashes, pills>>

\* A value-initialised job with the upload's id goes to qm's inbox; send
\* blocks while the inbox is full.
Submit(j) ==
  /\ phase["ingestd"] = "up"
  /\ fate[j] = "moved"
  /\ Len(queue["qm"]) < QueueCapacity
  /\ queue' = [queue EXCEPT !["qm"] = Append(@, [DefaultJob EXCEPT !.job_id = j])]
  /\ fate' = [fate EXCEPT ![j] = "accepted"]
  /\ UNCHANGED <<phase, pool, thread, registered, file, crashes, pills>>

----------------------------------------------------------------------------
(* Service: the receive loop *)

\* Mutant: a stop job is posted to the pool like any other message.
ReceivePostsPill(s) ==
  /\ phase[s] = "up"
  /\ queue[s] # <<>>
  /\ queue' = [queue EXCEPT ![s] = Tail(@)]
  /\ pool' = [pool EXCEPT ![s] = Append(@, Head(queue[s]))]
  /\ UNCHANGED <<phase, thread, registered, file, fate, crashes, pills>>

\* Mutant: the loop takes a job only when a pool thread is free to run it.
ReceiveWhenFree(s) ==
  /\ phase[s] = "up"
  /\ queue[s] # <<>>
  /\ Head(queue[s]) # PoisonPill
  /\ pool[s] = <<>>
  /\ \E t \in Threads : thread[s][t] = Idle
  /\ queue' = [queue EXCEPT ![s] = Tail(@)]
  /\ pool' = [pool EXCEPT ![s] = Append(@, Head(queue[s]))]
  /\ UNCHANGED <<phase, thread, registered, file, fate, crashes, pills>>

\* Mutant: the job is read without being taken off the queue.
ReceivePeek(s) ==
  /\ phase[s] = "up"
  /\ queue[s] # <<>>
  /\ Head(queue[s]) # PoisonPill
  /\ Len(pool[s]) < 2
  /\ pool' = [pool EXCEPT ![s] = Append(@, Head(queue[s]))]
  /\ UNCHANGED <<queue, phase, thread, registered, file, fate, crashes, pills>>

\* A job is posted to the pool, which never refuses it.
Receive(s) ==
  /\ phase[s] = "up"
  /\ queue[s] # <<>>
  /\ Head(queue[s]) # PoisonPill
  /\ queue' = [queue EXCEPT ![s] = Tail(@)]
  /\ pool' = [pool EXCEPT ![s] = Append(@, Head(queue[s]))]
  /\ UNCHANGED <<phase, thread, registered, file, fate, crashes, pills>>

\* A poison pill clears running_: the loop ends and pool_.join() begins.
ReceivePill(s) ==
  /\ phase[s] = "up"
  /\ queue[s] # <<>>
  /\ Head(queue[s]) = PoisonPill
  /\ queue' = [queue EXCEPT ![s] = Tail(@)]
  /\ phase' = [phase EXCEPT ![s] = "joining"]
  /\ UNCHANGED <<pool, thread, registered, file, fate, crashes, pills>>

\* Mutant: the process leaves without waiting for its pool.
ExitWithoutJoin(s) ==
  /\ phase[s] = "joining"
  /\ pool' = [pool EXCEPT ![s] = <<>>]
  /\ thread' = [thread EXCEPT ![s] = [t \in Threads |-> Idle]]
  /\ phase' = [phase EXCEPT ![s] = "down"]
  /\ registered' = IF s = "qm" THEN {} ELSE registered
  /\ UNCHANGED <<queue, file, fate, crashes, pills>>

\* join returns once every posted task has finished; main returns.
Exit(s) ==
  /\ phase[s] = "joining"
  /\ pool[s] = <<>>
  /\ thread[s] = [t \in Threads |-> Idle]
  /\ phase' = [phase EXCEPT ![s] = "down"]
  /\ registered' = IF s = "qm" THEN {} ELSE registered
  /\ UNCHANGED <<queue, pool, thread, file, fate, crashes, pills>>

----------------------------------------------------------------------------
(* Service: the pool threads *)

\* Mutant: a pool that is being joined begins no more tasks.
BeginWhileUp(s, t) ==
  /\ phase[s] = "up"
  /\ pool[s] # <<>>
  /\ thread[s][t] = Idle
  /\ thread' = [thread EXCEPT ![s][t] = [at |-> "handling", to |-> "", job |-> Head(pool[s])]]
  /\ pool' = [pool EXCEPT ![s] = Tail(@)]
  /\ UNCHANGED <<queue, phase, registered, file, fate, crashes, pills>>

\* Thread t begins the oldest posted task.
Begin(s, t) ==
  /\ phase[s] # "down"
  /\ pool[s] # <<>>
  /\ thread[s][t] = Idle
  /\ thread' = [thread EXCEPT ![s][t] = [at |-> "handling", to |-> "", job |-> Head(pool[s])]]
  /\ pool' = [pool EXCEPT ![s] = Tail(@)]
  /\ UNCHANGED <<queue, phase, registered, file, fate, crashes, pills>>

Sending(to, job) == [at |-> "sending", to |-> to, job |-> job]

\* A pool thread runs a handler on data that all threads of s share without
\* a lock: qm registering a new job in jobs_in_memory, detect in libmagic.
Touches(s, t) ==
  /\ thread[s][t].at = "handling"
  /\ \/ s = "qm" /\ thread[s][t].job.status = "NEW"
     \/ s = "detect"

\* Two of them at once are a data race.
Races(s, t) == Touches(s, t) /\ \E u \in Threads \ {t} : Touches(s, u)

\* What add_job leaves in jobs_in_memory: a racing insertion may be lost.
Registrations(t) ==
  IF ~Touches("qm", t) THEN {registered}
  ELSE {registered \union {thread["qm"][t].job.job_id}}
         \union (IF Races("qm", t) THEN {registered} ELSE {})

\* How the log lines of process_results settle a job; others leave it open.
Conclusion(job, now) ==
  CASE job.status = "FAILED" -> "failed"
    [] job.status = "DONE"   -> "done"
    [] OTHER                 -> now

\* Mutant: the file is removed as soon as a job has failed, too.
RemovesOnFailure(job) == job.status \in {"DONE", "FAILED"}

\* process_results goes on to remove the file of a job it has logged DONE.
RemovesFile(job) == job.status = "DONE"

Removing(job) == [at |-> "removing", to |-> "", job |-> job]

\* qm_service::handle: process_results, then send unless there is no sender
\* of that name ("fail" has none) or it is the null sender.  The outcome of a
\* DONE job is logged before its file is removed.
HandleQm(t) ==
  LET job == thread["qm"][t].job
      result == ProcessResults(job)
  IN  /\ thread["qm"][t].at = "handling"
      /\ registered' \in Registrations(t)
      /\ fate' = [fate EXCEPT ![job.job_id] = Conclusion(job, @)]
      /\ thread' = [thread EXCEPT !["qm"][t] =
                      IF result.to \in Services THEN Sending(result.to, result.job)
                      ELSE IF RemovesFile(job) THEN Removing(job) ELSE Idle]
      /\ UNCHANGED <<queue, phase, pool, file, crashes, pills>>

\* remove_file: its error, if it fails, is thrown away by process_results.
RemoveFile(t) ==
  LET job == thread["qm"][t].job
  IN  /\ thread["qm"][t].at = "removing"
      /\ \E outcome \in {"removed", "kept"} : file' = [file EXCEPT ![job.job_id] = outcome]
      /\ thread' = [thread EXCEPT !["qm"][t] = Idle]
      /\ UNCHANGED <<queue, phase, pool, registered, fate, crashes, pills>>

\* detect_service::handle: a libmagic failure throws, and the pool task logs
\* it and answers nothing.  The answer is any of MagicResults, so a race on
\* the shared handle that spoils an answer is among the outcomes.
HandleDetect(t) ==
  LET job == thread["detect"][t].job
  IN  /\ thread["detect"][t].at = "handling"
      /\ \E magic \in MagicResults :
           IF magic = MagicNull
           THEN /\ thread' = [thread EXCEPT !["detect"][t] = Idle]
                /\ fate' = [fate EXCEPT ![job.job_id] = "dropped"]
           ELSE /\ thread' = [thread EXCEPT !["detect"][t] = Sending("qm", DetectReply(job, magic))]
                /\ UNCHANGED fate
      /\ UNCHANGED <<queue, phase, pool, registered, file, crashes, pills>>

\* parse_service::handle: the answer says whether a parser was found.
HandleParse(t) ==
  LET job == thread["parse"][t].job
  IN  /\ thread["parse"][t].at = "handling"
      /\ thread' = [thread EXCEPT !["parse"][t] = Sending("qm", ParseReply(job))]
      /\ UNCHANGED <<queue, phase, pool, registered, file, fate, crashes, pills>>

\* A handler's send: it blocks while the queue is full, then the task ends.
Send(s, t) ==
  LET to == thread[s][t].to
  IN  /\ thread[s][t].at = "sending"
      /\ Len(queue[to]) < QueueCapacity
      /\ queue' = [queue EXCEPT ![to] = Append(@, thread[s][t].job)]
      /\ thread' = [thread EXCEPT ![s][t] = Idle]
      /\ UNCHANGED <<phase, pool, registered, file, fate, crashes, pills>>

----------------------------------------------------------------------------
(* Processes: start, stop job, crash *)

\* Thread t of qm has logged j DONE and goes on to remove its file.
Removes(t, j) == thread["qm"][t].at = "removing" /\ thread["qm"][t].job.job_id = j

\* The jobs without an outcome that a process holds in its own memory.
HeldBy(w) ==
  IF w = "ingestd" THEN {j \in Jobs : fate[j] = "moved"}
  ELSE {pool[w][i].job_id : i \in DOMAIN pool[w]}
         \union {thread[w][t].job.job_id : t \in {u \in Threads : InFlight(thread[w][u])}}

\* The jobs a process has concluded and whose files it is about to remove.
RemovedBy(w) == {j \in Jobs : w = "qm" /\ \E t \in Threads : Removes(t, j)}

\* The process dies with everything in its memory; a file it was about to
\* remove stays in "new", for no later process ever looks there.
Die(w) ==
  /\ phase' = [phase EXCEPT ![w] = "down"]
  /\ fate' = [j \in Jobs |-> IF j \in HeldBy(w) THEN "lost" ELSE fate[j]]
  /\ file' = [j \in Jobs |-> IF j \in RemovedBy(w) THEN "kept" ELSE file[j]]
  /\ IF w = "ingestd" THEN UNCHANGED <<pool, thread>>
     ELSE /\ pool' = [pool EXCEPT ![w] = <<>>]
          /\ thread' = [thread EXCEPT ![w] = [t \in Threads |-> Idle]]
  /\ registered' = IF w = "qm" THEN {} ELSE registered
  /\ UNCHANGED <<queue, pills>>

Crash(w) ==
  /\ phase[w] # "down"
  /\ crashes < MaxCrashes
  /\ crashes' = crashes + 1
  /\ Die(w)

\* The other outcome of a data race: the process dies of it.
RaceCrash(s) ==
  /\ \E t \in Threads : Races(s, t)
  /\ UNCHANGED crashes
  /\ Die(s)

\* The supervisor (or its monitor) spawns w, which opens its queues.
Start(w) ==
  /\ phase[w] = "down"
  /\ phase' = [phase EXCEPT ![w] = "up"]
  /\ UNCHANGED <<queue, pool, thread, registered, file, fate, crashes, pills>>

\* The supervisor's send_stop_job; there is no queue towards ingestd.
SendStopJob(s) ==
  /\ pills < MaxPills
  /\ Len(queue[s]) < QueueCapacity
  /\ queue' = [queue EXCEPT ![s] = Append(@, PoisonPill)]
  /\ pills' = pills + 1
  /\ UNCHANGED <<phase, pool, thread, registered, file, fate, crashes>>

\* Nothing left to do: every loop blocks in receive on an empty queue.
Quiescent ==
  /\ \A j \in Jobs : fate[j] \in Settled
  /\ \A s \in Services : queue[s] = <<>> /\ phase[s] = "up"
  /\ UNCHANGED vars

----------------------------------------------------------------------------

Handle(s, t) ==
  \/ s = "qm" /\ (HandleQm(t) \/ RemoveFile(t))
  \/ s = "detect" /\ HandleDetect(t)
  \/ s = "parse" /\ HandleParse(t)

Next ==
  \/ \E j \in Jobs : Upload(j) \/ Submit(j)
  \/ \E s \in Services : Receive(s) \/ ReceivePill(s) \/ Exit(s)
                          \/ SendStopJob(s) \/ RaceCrash(s)
  \/ \E s \in Services, t \in Threads : Begin(s, t) \/ Handle(s, t) \/ Send(s, t)
  \/ \E w \in Workers : Start(w) \/ Crash(w)
  \/ Quiescent

Spec == Init /\ [][Next]_vars

(***************************************************************************)
(* Fairness.  A process that is up keeps taking steps: its receive loop    *)
(* and its pool threads are OS threads, and boost's send and receive wake  *)
(* up when the queue has room or a message.  Start is fair too: the        *)
(* monitor looks for dead workers every 50 ms (supervisor.cpp:78), and a   *)
(* stop job is taken to be that of a restart command, whose start_workers  *)
(* follows.  After a plain stop command nothing need ever run again.       *)
(***************************************************************************)
Progress ==
  /\ \A j \in Jobs : WF_vars(Submit(j))
  /\ \A s \in Services : WF_vars(Receive(s)) /\ WF_vars(ReceivePill(s)) /\ WF_vars(Exit(s))
  /\ \A s \in Services, t \in Threads :
       WF_vars(Begin(s, t)) /\ WF_vars(Handle(s, t)) /\ WF_vars(Send(s, t))

FairSpec == Spec /\ Progress /\ \A w \in Workers : WF_vars(Start(w))

----------------------------------------------------------------------------
(* Where the jobs are: the places of a queue, a pool or a thread *)

Places ==
  (UNION {{"queue"} \X {s} \X DOMAIN queue[s] : s \in Services})
    \union (UNION {{"pool"} \X {s} \X DOMAIN pool[s] : s \in Services})
    \union {p \in {"thread"} \X Services \X Threads : InFlight(thread[p[2]][p[3]])}

At(p) ==
  CASE p[1] = "queue"  -> queue[p[2]][p[3]]
    [] p[1] = "pool"   -> pool[p[2]][p[3]]
    [] p[1] = "thread" -> thread[p[2]][p[3]].job

Copies(j) == {p \in Places : At(p) # PoisonPill /\ At(p).job_id = j}

\* The jobs a Service may be handed: a real job in a status it works on.
Fits(to, job) ==
  /\ job.job_id \in Jobs
  /\ to = "qm" => job.status \in {"NEW", "DETECTING", "DONE", "FAILED"}
  /\ to = "detect" => job.status = "DETECTING" /\ job.type = "DETECTOR"
  /\ to = "parse" => job.status = "PARSING" /\ job.type = "PARSER"

----------------------------------------------------------------------------
(* Safety *)

\* Every job waits for, or is handled by, the service its status and type
\* call for, through crashes, stops and any interleaving of the handlers: qm
\* never sees a PARSING result, and the value-initialised job that a refused
\* event would send (qm.cpp:67) never enters a queue.
WellRouted ==
  \A s \in Services :
    /\ \A i \in DOMAIN queue[s] : queue[s][i] # PoisonPill => Fits(s, queue[s][i])
    /\ \A i \in DOMAIN pool[s] : Fits(s, pool[s][i])
    /\ \A t \in Threads :
         /\ thread[s][t].at = "handling" => Fits(s, thread[s][t].job)
         /\ thread[s][t].at = "sending" =>
              thread[s][t].to \in Services /\ Fits(thread[s][t].to, thread[s][t].job)

\* A job is in one place of the whole system at a time: no step forks it, so
\* no two handlers ever work on the same file (service.cpp:48-68).
SingleCopy == \A j \in Jobs : \A p, q \in Copies(j) : p = q

\* A submitted job is in some queue, pool or thread until an outcome has been
\* logged for it: only a crash loses jobs, a stop job does not, because the
\* receive loop joins its pool before the process leaves (service.cpp:67).
NothingVanishes == \A j \in Jobs : fate[j] = "accepted" <=> Copies(j) # {}

\* The spool agrees with the outcomes: remove_file is only ever called for a
\* job that qm has logged DONE (qm.cpp:54-57), so that every other upload,
\* above all one in flight, has its file in "new"; and a DONE job's file is
\* either gone, or on its way out in a thread of qm, or left over by a removal
\* that failed or that a crash cut off, whose error nobody reads.  A stop job
\* cuts off none: the join waits for the removal, too (service.cpp:67).
SpoolMatchesFate ==
  \A j \in Jobs :
    /\ file[j] = "none" <=> fate[j] = "absent"
    /\ file[j] \in {"removed", "kept"} => fate[j] = "done"
    /\ fate[j] = "done" /\ file[j] = "new" =>
         \E t \in Threads : Removes(t, j)
    /\ \A t \in Threads : Removes(t, j) => fate[j] = "done" /\ file[j] = "new"

----------------------------------------------------------------------------
(* The abstract life of a job *)

StageOf(j) ==
  IF fate[j] = "accepted"
  THEN At(CHOOSE p \in Copies(j) : TRUE).status
  ELSE fate[j]

Lifecycle == INSTANCE JobLifecycle WITH stage <- [j \in Jobs |-> StageOf(j)]

\* The services, whose handlers write the status field themselves, move every
\* job only along the transitions of the state machine (state_machine.cpp:23).
ImplementsLifecycle == Lifecycle!Spec

----------------------------------------------------------------------------
(* Liveness *)

\* Every upload that reached "new" gets an outcome, whatever the order in
\* which full queues block the handlers: the pools take every message, so qm
\* and detect never wait for each other in a circle (service.cpp:56).  To be
\* lost with a process, or dropped by an exception, is an outcome here.
EveryUploadSettles == \A j \in Jobs : fate[j] = "moved" ~> fate[j] \in Settled

----------------------------------------------------------------------------
(* What the repository says and the code does not keep *)

\* A failed detection ends in FAILED (test_state_machine.cpp:58-60): without
\* crashes and stop jobs, qm concludes every job it was handed.  A libmagic
\* failure (service.cpp:59) ends the task, and qm never hears of the job.
EveryJobConcluded == \A j \in Jobs : fate[j] = "accepted" ~> fate[j] \in {"failed", "done"}
=============================================================================
